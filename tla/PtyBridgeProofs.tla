--------------------------- MODULE PtyBridgeProofs ---------------------------
(***************************************************************************)
(* That a finished session leaves nothing behind and that output is        *)
(* complete, for any number of requests, pieces of output and messages.    *)
(*                                                                         *)
(* NothingLeft follows the bridge from place to place (Places).            *)
(* OutputComplete needs to know where every piece is (Pieces): those sent, *)
(* the one in the reader's hands and those in the terminal are the numbers *)
(* up to what was printed, in order; and that "exit" is only reported when *)
(* the shell has exited, so that nothing is printed after it.              *)
(***************************************************************************)
EXTENDS PtyBridge, SequenceTheorems, TLAPS

Early == {"idle", "open", "ack", "new", "start", "tell"}

Exited == {"exited", "reaped"}

\* What is on errCh was reported.
Reported == errCh # <<>> => once

\* What there is at each place of the bridge.
Places ==
  /\ pc \in Early => shell = "none" /\ reader.at = "off" /\ writer = "off" /\ errCh = <<>>
  /\ pc \in Early \ {"start", "tell"} => ptmx = "none"
  /\ pc \in {"reap", "close"} => ptmx = "closed"
  /\ pc = "close" => shell = "reaped"
  /\ NothingLeft

\* The pieces sent come first, in order.
Sent == \A i \in 1 .. Len(up) : up[i] = i

\* What is in the terminal comes after k pieces.
Follows(k) ==
  /\ k + Len(tty.queue) = tty.printed
  /\ \A i \in 1 .. Len(tty.queue) : tty.queue[i] = k + i

\* Where the pieces are.
Pieces ==
  /\ Sent
  /\ reader.at \in {"off", "read"} => Follows(Len(up))
  /\ reader.at = "send" => reader.piece = Len(up) + 1 /\ Follows(Len(up) + 1)
  /\ reader.at = "send" /\ reader.failing => tty.queue = <<>> /\ shell \in Exited
  /\ errCh = <<"exit">> => reader.at = "end" /\ shell \in Exited /\ Len(up) = tty.printed

IInv == TypeOK /\ Reported /\ Places /\ Pieces

USE BoundAssumption

\* At the start nothing is printed and nobody runs.
LEMMA InductiveInit == Init => IInv
<1> SUFFICES ASSUME Init PROVE IInv
  OBVIOUS
<1>1. TypeOK
  <2>1. /\ rpc \in [asked : 0 .. MaxRequests, bound : BOOLEAN,
                     answer : {"none", "error", "bind", "verify", "ready"}]
        /\ reader \in [at : {"off", "read", "send", "end"}, piece : 0 .. MaxPieces, failing : BOOLEAN]
    BY DEF Init
  <2>2. down \in [queue : Seq(Kinds), sent : 0 .. MaxDown]
    BY DEF Init
  <2>3. tty \in [queue : Seq(1 .. MaxPieces), printed : 0 .. MaxPieces]
    BY DEF Init
  <2>4. errCh \in Seq(Causes) /\ Len(errCh) <= 1 /\ up \in Seq(1 .. MaxPieces)
    BY DEF Init
  <2> QED
    BY <2>1, <2>2, <2>3, <2>4 DEF Init, TypeOK
<1>2. Reported /\ Places
  BY DEF Init, Reported, Places, Early, NothingLeft
<1>3. Pieces
  BY DEF Init, Pieces, Sent, Follows
<1> QED
  BY <1>1, <1>2, <1>3 DEF IInv

-----------------------------------------------------------------------------
(* The RPC handler and the bridge.                                         *)

\* Master asks for a shell, binds or verifies.
LEMMA RequestStep == ASSUME IInv, NEW request \in Requests, NEW valid \in BOOLEAN, Request(request, valid) PROVE IInv'
<1>1. TypeOK'
  BY DEF IInv, TypeOK, Request, HandlerFrame, Verdict
<1>2. Reported'
  BY DEF IInv, Reported, Request, HandlerFrame, Verdict
<1>3. Places'
  BY DEF IInv, TypeOK, Places, Early, NothingLeft, Request, HandlerFrame, Verdict
<1>4. Pieces'
  BY DEF IInv, Places, Early, Pieces, Sent, Follows, Exited, Request, HandlerFrame, Verdict
<1> QED
  BY <1>1, <1>2, <1>3, <1>4 DEF IInv

\* The stream is opened.
LEMMA ConnectStep == ASSUME IInv, Connect PROVE IInv'
<1>1. TypeOK'
  BY DEF IInv, TypeOK, Connect, HandlerFrame, Step
<1>2. Reported'
  BY DEF IInv, Reported, Connect, HandlerFrame, Step
<1>3. Places'
  BY DEF IInv, TypeOK, Places, Early, NothingLeft, Connect, HandlerFrame, Step
<1>4. Pieces'
  BY DEF IInv, Places, Early, Pieces, Sent, Follows, Exited, Connect, HandlerFrame, Step
<1> QED
  BY <1>1, <1>2, <1>3, <1>4 DEF IInv

\* There is no session.
LEMMA RefusedStep == ASSUME IInv, Refused PROVE IInv'
<1>1. TypeOK'
  <2>1. rpc' \in [asked : 0 .. MaxRequests, bound : BOOLEAN,
                   answer : {"none", "error", "bind", "verify", "ready"}]
    BY DEF IInv, TypeOK, Refused
  <2> QED
    BY <2>1 DEF IInv, TypeOK, Refused, HandlerFrame, Step
<1>2. Reported'
  BY DEF IInv, Reported, Refused, HandlerFrame, Step
<1>3. Places'
  BY DEF IInv, TypeOK, Places, Early, NothingLeft, Refused, HandlerFrame, Step
<1>4. Pieces'
  BY DEF IInv, Places, Early, Pieces, Sent, Follows, Exited, Refused, HandlerFrame, Step
<1> QED
  BY <1>1, <1>2, <1>3, <1>4 DEF IInv

\* The bridge begins.
LEMMA AckedStep == ASSUME IInv, Acked PROVE IInv'
<1>1. TypeOK'
  <2>1. rpc' \in [asked : 0 .. MaxRequests, bound : BOOLEAN,
                   answer : {"none", "error", "bind", "verify", "ready"}]
    BY DEF IInv, TypeOK, Acked
  <2> QED
    BY <2>1 DEF IInv, TypeOK, Acked, HandlerFrame, Step
<1>2. Reported'
  BY DEF IInv, Reported, Acked, HandlerFrame, Step
<1>3. Places'
  BY DEF IInv, TypeOK, Places, Early, NothingLeft, Acked, HandlerFrame, Step
<1>4. Pieces'
  BY DEF IInv, Places, Early, Pieces, Sent, Follows, Exited, Acked, HandlerFrame, Step
<1> QED
  BY <1>1, <1>2, <1>3, <1>4 DEF IInv

\* A terminal is opened.
LEMMA NewPtyStep == ASSUME IInv, NewPty PROVE IInv'
<1>1. TypeOK'
  BY DEF IInv, TypeOK, NewPty, BridgeFrame, Step
<1>2. Reported'
  BY DEF IInv, Reported, NewPty, BridgeFrame, Step
<1>3. Places'
  BY DEF IInv, TypeOK, Places, Early, NothingLeft, NewPty, BridgeFrame, Step
<1>4. Pieces'
  BY DEF IInv, Places, Early, Pieces, Sent, Follows, Exited, NewPty, BridgeFrame, Step
<1> QED
  BY <1>1, <1>2, <1>3, <1>4 DEF IInv

\* No terminal can be opened.
LEMMA NewPtyFailedStep == ASSUME IInv, NewPtyFailed PROVE IInv'
<1>1. TypeOK'
  BY DEF IInv, TypeOK, NewPtyFailed, BridgeFrame, Step
<1>2. Reported'
  BY DEF IInv, Reported, NewPtyFailed, BridgeFrame, Step
<1>3. Places'
  BY DEF IInv, TypeOK, Places, Early, NothingLeft, NewPtyFailed, BridgeFrame, Step
<1>4. Pieces'
  BY DEF IInv, Places, Early, Pieces, Sent, Follows, Exited, NewPtyFailed, BridgeFrame, Step
<1> QED
  BY <1>1, <1>2, <1>3, <1>4 DEF IInv

\* No shell can be started.
LEMMA StartFailedStep == ASSUME IInv, StartFailed PROVE IInv'
<1>1. TypeOK'
  BY DEF IInv, TypeOK, StartFailed, BridgeFrame, Step
<1>2. Reported'
  BY DEF IInv, Reported, StartFailed, BridgeFrame, Step
<1>3. Places'
  BY DEF IInv, TypeOK, Places, Early, NothingLeft, StartFailed, BridgeFrame, Step
<1>4. Pieces'
  BY DEF IInv, Places, Early, Pieces, Sent, Follows, Exited, StartFailed, BridgeFrame, Step
<1> QED
  BY <1>1, <1>2, <1>3, <1>4 DEF IInv

\* Master has been told that there is no terminal or no shell.
LEMMA ToldStep == ASSUME IInv, Told PROVE IInv'
<1>1. TypeOK'
  BY DEF IInv, TypeOK, Told, BridgeFrame, Step
<1>2. Reported'
  BY DEF IInv, Reported, Told, BridgeFrame, Step
<1>3. Places'
  BY DEF IInv, TypeOK, Places, Early, NothingLeft, Told, BridgeFrame, Step
<1>4. Pieces'
  BY DEF IInv, Places, Early, Pieces, Sent, Follows, Exited, Told, BridgeFrame, Step
<1> QED
  BY <1>1, <1>2, <1>3, <1>4 DEF IInv

\* The shell and both goroutines are started.
LEMMA StartShellStep == ASSUME IInv, StartShell PROVE IInv'
<1>1. TypeOK'
  <2>1. reader' \in [at : {"off", "read", "send", "end"}, piece : 0 .. MaxPieces, failing : BOOLEAN]
    BY DEF IInv, TypeOK, StartShell
  <2> QED
    BY <2>1 DEF IInv, TypeOK, StartShell, BridgeFrame, Step
<1>2. Reported'
  BY DEF IInv, Reported, StartShell, BridgeFrame, Step
<1>3. Places'
  BY DEF IInv, TypeOK, Places, Early, NothingLeft, StartShell, BridgeFrame, Step
<1>4. Pieces'
  BY DEF IInv, Places, Early, Pieces, Sent, Follows, Exited, StartShell, BridgeFrame, Step
<1> QED
  BY <1>1, <1>2, <1>3, <1>4 DEF IInv

\* The bridge receives the report.
LEMMA AwaitStep == ASSUME IInv, Await PROVE IInv'
<1>1. TypeOK'
  BY DEF IInv, TypeOK, Await, BridgeFrame, Step
<1>2. Reported'
  BY DEF IInv, Reported, Await, BridgeFrame, Step
<1>3. Places'
  BY DEF IInv, TypeOK, Places, Early, NothingLeft, Await, BridgeFrame, Step
<1>4. Pieces'
  <2>1. errCh' = <<>>
    BY DEF IInv, TypeOK, Await
  <2>2. <<>> # <<"exit">>
    OBVIOUS
  <2> QED
    BY <2>1, <2>2 DEF IInv, Pieces, Sent, Follows, Await, BridgeFrame
<1> QED
  BY <1>1, <1>2, <1>3, <1>4 DEF IInv

\* The terminal is closed and the shell killed.
LEMMA CleanStep == ASSUME IInv, Clean PROVE IInv'
<1>1. TypeOK'
  BY DEF IInv, TypeOK, Clean, BridgeFrame, Step, KilledShell
<1>2. Reported'
  BY DEF IInv, Reported, Clean, BridgeFrame, Step, KilledShell
<1>3. Places'
  BY DEF IInv, TypeOK, Places, Early, NothingLeft, Clean, BridgeFrame, Step, KilledShell
<1>4. Pieces'
  BY DEF IInv, Places, Early, Pieces, Sent, Follows, Exited, Clean, BridgeFrame, Step, KilledShell
<1> QED
  BY <1>1, <1>2, <1>3, <1>4 DEF IInv

\* The shell is waited for.
LEMMA ReapStep == ASSUME IInv, Reap PROVE IInv'
<1>1. TypeOK'
  BY DEF IInv, TypeOK, Reap, BridgeFrame, Step
<1>2. Reported'
  BY DEF IInv, Reported, Reap, BridgeFrame, Step
<1>3. Places'
  BY DEF IInv, TypeOK, Places, Early, NothingLeft, Reap, BridgeFrame, Step
<1>4. Pieces'
  BY DEF IInv, Places, Early, Pieces, Sent, Follows, Exited, Reap, BridgeFrame, Step
<1> QED
  BY <1>1, <1>2, <1>3, <1>4 DEF IInv

\* The sending side is closed.
LEMMA CloseSendStep == ASSUME IInv, CloseSend PROVE IInv'
<1>1. TypeOK'
  BY DEF IInv, TypeOK, CloseSend, BridgeFrame, Step
<1>2. Reported'
  BY DEF IInv, Reported, CloseSend, BridgeFrame, Step
<1>3. Places'
  BY DEF IInv, TypeOK, Places, Early, NothingLeft, CloseSend, BridgeFrame, Step
<1>4. Pieces'
  BY DEF IInv, Places, Early, Pieces, Sent, Follows, Exited, CloseSend, BridgeFrame, Step
<1> QED
  BY <1>1, <1>2, <1>3, <1>4 DEF IInv

-----------------------------------------------------------------------------
(* The goroutines.                                                         *)

\* The first report is the one on errCh, the others change nothing.
LEMMA ReportStep ==
  ASSUME IInv, NEW cause \in Causes, Report(cause)
  PROVE  /\ once' = TRUE /\ errCh' = IF once THEN errCh ELSE <<cause>>
         /\ errCh' \in Seq(Causes) /\ Len(errCh') <= 1
<1>1. CASE once
  BY <1>1 DEF IInv, TypeOK, Report, Sends
<1>2. CASE ~once
  <2>1. errCh = <<>> /\ once' = TRUE /\ errCh' = Append(errCh, cause)
    BY <1>2 DEF IInv, TypeOK, Reported, Report, Sends
  <2>2. errCh' = <<cause>>
    BY <2>1
  <2> QED
    BY <1>2, <2>1, <2>2
<1> QED
  BY <1>1, <1>2 DEF IInv, TypeOK

\* A goroutine that reports is at work, so the bridge is past its beginning.
LEMMA AtWork ==
  ASSUME IInv, reader.at # "off" \/ writer # "off"
  PROVE  pc \notin Early
  BY DEF IInv, Places

\* Read returns a piece.
LEMMA ReadStep == ASSUME IInv, NEW withError \in BOOLEAN, Read(withError) PROVE IInv'
<1> DEFINE q == tty.queue
           rest == Tail(q)
<1>0. q \in Seq(1 .. MaxPieces) /\ q # <<>> /\ tty.printed \in 0 .. MaxPieces
  BY DEF IInv, TypeOK, Read
<1>1. /\ Head(q) = q[1] /\ Head(q) \in 1 .. MaxPieces
      /\ rest \in Seq(1 .. MaxPieces) /\ Len(rest) = Len(q) - 1 /\ Len(q) \in Nat \ {0}
      /\ \A i \in 1 .. Len(rest) : rest[i] = q[i + 1]
  <2>1. \A S : \A x \in Seq(S) : x # <<>> =>
          /\ Head(x) = x[1] /\ Head(x) \in S
          /\ Tail(x) \in Seq(S) /\ Len(Tail(x)) = Len(x) - 1 /\ Len(x) \in Nat \ {0}
          /\ \A i \in 1 .. Len(Tail(x)) : Tail(x)[i] = x[i + 1]
    BY HeadTailProperties, EmptySeq
  <2> HIDE DEF q
  <2> QED
    BY <1>0, <2>1, Zenon
<1>2. /\ tty'.queue = rest /\ tty'.printed = tty.printed
      /\ tty' \in [queue : Seq(1 .. MaxPieces), printed : 0 .. MaxPieces]
  <2>1. tty' = [tty EXCEPT !.queue = rest]
    BY DEF Read
  <2> HIDE DEF rest
  <2> QED
    BY <1>1, <2>1 DEF IInv, TypeOK
<1>3. /\ reader' = [at |-> "send", piece |-> Head(q), failing |-> withError] /\ reader.at = "read"
      /\ UNCHANGED <<errCh, once, up>> /\ UNCHANGED <<host, pc, rpc, stream, half, down, ptmx, shell, writer>>
  BY DEF Read, SentPiece, ReaderFrame
<1>4. TypeOK'
  <2>1. reader' \in [at : {"off", "read", "send", "end"}, piece : 0 .. MaxPieces, failing : BOOLEAN]
    BY <1>1, <1>3
  <2> HIDE DEF rest
  <2> QED
    BY <1>2, <1>3, <2>1 DEF IInv, TypeOK
<1>5. Reported' /\ Places'
  BY <1>3, AtWork DEF IInv, Reported, Places, NothingLeft
<1>6. Pieces'
  <2>1. /\ Len(up) \in Nat /\ Len(up) + Len(q) = tty.printed
        /\ \A i \in 1 .. Len(q) : q[i] = Len(up) + i
    BY <1>3 DEF IInv, TypeOK, Pieces, Follows
  <2>2. reader'.piece = Len(up) + 1
    <3>1. reader'.piece = Head(q)
      BY <1>3
    <3> HIDE DEF q, rest
    <3>2. 1 \in 1 .. Len(q)
      BY <1>1
    <3>3. q[1] = Len(up) + 1
      BY <2>1, <3>2
    <3> QED
      BY <1>1, <3>1, <3>3
  <2>3. Follows(Len(up) + 1)'
    <3> HIDE DEF q, rest
    <3>1. Len(up) + 1 + Len(rest) = tty.printed
      BY <1>1, <2>1
    <3>2. \A i \in 1 .. Len(rest) : rest[i] = Len(up) + 1 + i
      BY <1>1, <2>1
    <3> QED
      BY <1>2, <1>3, <3>1, <3>2 DEF Follows
  <2>4. withError => tty'.queue = <<>> /\ shell \in Exited
    <3>1. withError => HungUp /\ Len(q) = 1
      BY DEF Read
    <3> HIDE DEF q, rest
    <3>2. Len(q) = 1 => Len(rest) = 0
      BY <1>1, <3>1
    <3>3. Len(q) = 1 => rest = <<>>
      BY <1>1, <3>2, EmptySeq
    <3> QED
      BY <1>2, <3>1, <3>3 DEF HungUp, Exited
  <2>5. errCh # <<"exit">>
    BY <1>3 DEF IInv, Pieces
  <2>6. Sent'
    BY <1>3 DEF IInv, Pieces, Sent
  <2> QED
    BY <1>3, <2>2, <2>3, <2>4, <2>5, <2>6 DEF Pieces, Follows
<1> QED
  BY <1>4, <1>5, <1>6 DEF IInv

\* The reader ends with a report and leaves the pieces where they are.
LEMMA ReaderEndsStep ==
  ASSUME IInv, NEW cause \in Causes, ReaderEnds(cause), ReaderFrame, tty' = tty,
         reader.at \in {"read", "send"},
         up' \in Seq(1 .. MaxPieces), Sent',
         cause = "exit" => shell \in Exited /\ Len(up') = tty.printed
  PROVE  IInv'
<1>1. /\ once' = TRUE /\ errCh' = IF once THEN errCh ELSE <<cause>>
      /\ errCh' \in Seq(Causes) /\ Len(errCh') <= 1
  BY ReportStep DEF ReaderEnds
<1>2. /\ reader' \in [at : {"off", "read", "send", "end"}, piece : 0 .. MaxPieces, failing : BOOLEAN]
      /\ reader'.at = "end"
  BY DEF IInv, TypeOK, ReaderEnds
<1>3. TypeOK'
  BY <1>1, <1>2 DEF IInv, TypeOK, ReaderFrame
<1>4. Reported' /\ Places'
  BY <1>1, <1>2, AtWork DEF IInv, Reported, Places, NothingLeft, ReaderFrame
<1>5. errCh' = <<"exit">> => shell' \in Exited /\ Len(up') = tty'.printed
  <2>1. errCh # <<"exit">>
    BY DEF IInv, Pieces
  <2>2. errCh' = <<"exit">> => cause = "exit"
    BY <1>1, <2>1
  <2> QED
    BY <2>2 DEF ReaderFrame
<1>6. Pieces'
  BY <1>2, <1>5 DEF Pieces
<1> QED
  BY <1>3, <1>4, <1>6 DEF IInv

\* Read returns an error.
LEMMA ReadFailedStep == ASSUME IInv, ReadFailed PROVE IInv'
<1>1. reader.at = "read" /\ up' = up /\ tty' = tty /\ ReaderFrame
  BY DEF ReadFailed
<1>2. up' \in Seq(1 .. MaxPieces) /\ Sent'
  BY <1>1 DEF IInv, TypeOK, Pieces, Sent
<1>3. CASE ReaderEnds("closed")
  BY <1>1, <1>2, <1>3, ReaderEndsStep DEF Causes
<1>4. CASE tty.queue = <<>> /\ HungUp /\ ReaderEnds("exit")
  <2>1. shell \in Exited /\ Len(up') = tty.printed
    BY <1>1, <1>4 DEF IInv, TypeOK, Pieces, Follows, HungUp, Exited
  <2> QED
    BY <1>1, <1>2, <1>4, <2>1, ReaderEndsStep DEF Causes
<1> QED
  BY <1>3, <1>4 DEF ReadFailed

\* A piece has been sent.
LEMMA SendStep == ASSUME IInv, Send PROVE IInv'
<1>1. /\ reader.at = "send" /\ up' = Append(up, reader.piece) /\ tty' = tty /\ ReaderFrame
      /\ up \in Seq(1 .. MaxPieces) /\ reader.piece \in 0 .. MaxPieces
      /\ reader.piece = Len(up) + 1 /\ Follows(Len(up) + 1) /\ Sent
  BY DEF IInv, TypeOK, Pieces, Send
<1>2. up' \in Seq(1 .. MaxPieces) /\ Len(up') = Len(up) + 1
  BY <1>1
<1>3. \A i \in 1 .. Len(up') : up'[i] = i
  BY <1>1, <1>2 DEF Sent
<1>4. CASE reader.failing
  <2>1. shell \in Exited /\ Len(up') = tty.printed
    <3>1. tty.queue = <<>> /\ shell \in Exited
      BY <1>1, <1>4 DEF IInv, Pieces
    <3>2. Len(tty.queue) = 0 /\ Len(up) + 1 + Len(tty.queue) = tty.printed
      BY <1>1, <3>1 DEF Follows
    <3> QED
      BY <1>1, <1>2, <3>1, <3>2
  <2>2. ReaderEnds("exit") /\ Sent'
    BY <1>3, <1>4 DEF Send, Sent
  <2> QED
    BY <1>1, <1>2, <2>1, <2>2, ReaderEndsStep DEF Causes
<1>5. CASE ~reader.failing
  <2>1. /\ reader'.at = "read" /\ UNCHANGED <<errCh, once>>
        /\ reader' \in [at : {"off", "read", "send", "end"}, piece : 0 .. MaxPieces, failing : BOOLEAN]
    BY <1>5 DEF IInv, TypeOK, Send
  <2>2. TypeOK'
    BY <1>1, <1>2, <2>1 DEF IInv, TypeOK, ReaderFrame
  <2>3. Reported' /\ Places'
    BY <1>1, <2>1, AtWork DEF IInv, Reported, Places, NothingLeft, ReaderFrame
  <2>4. Follows(Len(up))' /\ Sent'
    BY <1>1, <1>2, <1>3 DEF Follows, Sent
  <2>5. errCh' # <<"exit">>
    BY <1>1, <2>1 DEF IInv, Pieces
  <2>6. Pieces'
    BY <2>1, <2>4, <2>5 DEF Pieces
  <2> QED
    BY <2>2, <2>3, <2>6 DEF IInv
<1> QED
  BY <1>4, <1>5

\* A piece cannot be sent.
LEMMA SendFailedStep == ASSUME IInv, SendFailed PROVE IInv'
<1>1. reader.at = "send" /\ up' = up /\ tty' = tty /\ ReaderFrame /\ ReaderEnds("send")
  BY DEF SendFailed
<1>2. up' \in Seq(1 .. MaxPieces) /\ Sent'
  BY <1>1 DEF IInv, TypeOK, Pieces, Sent
<1> QED
  BY <1>1, <1>2, ReaderEndsStep DEF Causes

\* The writer ends with a report, which is never "exit".
LEMMA WriterEndsStep ==
  ASSUME IInv, NEW cause \in Causes \ {"exit"}, WriterEnds(cause), WriterFrame,
         writer # "off", down' \in [queue : Seq(Kinds), sent : 0 .. MaxDown]
  PROVE  IInv'
<1>1. /\ once' = TRUE /\ errCh' = IF once THEN errCh ELSE <<cause>>
      /\ errCh' \in Seq(Causes) /\ Len(errCh') <= 1
  BY ReportStep DEF WriterEnds
<1>2. TypeOK'
  BY <1>1 DEF IInv, TypeOK, WriterEnds, WriterFrame
<1>3. Reported' /\ Places'
  BY <1>1, AtWork DEF IInv, Reported, Places, NothingLeft, WriterEnds, WriterFrame
<1>4. errCh' = <<"exit">> => errCh = <<"exit">>
  BY <1>1
<1>5. Pieces'
  BY <1>4 DEF IInv, Pieces, Sent, Follows, WriterFrame
<1> QED
  BY <1>2, <1>3, <1>5 DEF IInv

\* A step of the writer that reports nothing.
LEMMA WriterGoesOn ==
  ASSUME IInv, WriterFrame, UNCHANGED <<errCh, once>>, writer # "off",
         writer' \in {"recv", "write"}, down' \in [queue : Seq(Kinds), sent : 0 .. MaxDown]
  PROVE  IInv'
<1>1. TypeOK'
  BY DEF IInv, TypeOK, WriterFrame
<1>2. Reported' /\ Places'
  BY AtWork DEF IInv, Reported, Places, NothingLeft, WriterFrame
<1>3. Pieces'
  BY DEF IInv, Pieces, Sent, Follows, WriterFrame
<1> QED
  BY <1>1, <1>2, <1>3 DEF IInv

\* A message is received.
LEMMA RecvStep == ASSUME IInv, Recv PROVE IInv'
<1>1. /\ writer = "recv" /\ WriterFrame
      /\ down' \in [queue : Seq(Kinds), sent : 0 .. MaxDown]
  <2>1. down \in [queue : Seq(Kinds), sent : 0 .. MaxDown] /\ down.queue # <<>>
    BY DEF IInv, TypeOK, Recv
  <2>2. Tail(down.queue) \in Seq(Kinds)
    BY <2>1
  <2>3. down' = [down EXCEPT !.queue = Tail(down.queue)] /\ writer = "recv" /\ WriterFrame
    BY DEF Recv
  <2> QED
    BY <2>1, <2>2, <2>3
<1>2. CASE Head(down.queue) = "done"
  BY <1>1, <1>2, WriterEndsStep DEF Recv, Causes
<1>3. CASE Head(down.queue) = "input"
  BY <1>1, <1>3, WriterGoesOn DEF Recv
<1>4. CASE Head(down.queue) \notin {"done", "input"}
  BY <1>1, <1>4, WriterGoesOn DEF Recv
<1> QED
  BY <1>2, <1>3, <1>4

\* The stream is over.
LEMMA RecvFailedStep == ASSUME IInv, RecvFailed PROVE IInv'
  BY WriterEndsStep DEF RecvFailed, Causes, IInv, TypeOK

\* The shell takes its input.
LEMMA WriteStep == ASSUME IInv, Write PROVE IInv'
  BY WriterGoesOn DEF Write, IInv, TypeOK

\* The terminal is closed.
LEMMA WriteFailedStep == ASSUME IInv, WriteFailed PROVE IInv'
  BY WriterEndsStep DEF WriteFailed, Causes, IInv, TypeOK

-----------------------------------------------------------------------------
(* The shell, master and the network.                                      *)

\* The shell prints, which only one that has not exited does.
LEMMA PrintsStep == ASSUME IInv, Prints PROVE IInv'
<1>1. /\ tty' = [printed |-> tty.printed + 1, queue |-> Append(tty.queue, tty.printed + 1)]
      /\ tty.queue \in Seq(1 .. MaxPieces) /\ tty.printed \in Nat /\ tty.printed + 1 \in 1 .. MaxPieces
  BY DEF IInv, TypeOK, Prints
<1>2. /\ tty' \in [queue : Seq(1 .. MaxPieces), printed : 0 .. MaxPieces]
      /\ Len(tty'.queue) = Len(tty.queue) + 1
      /\ \A i \in 1 .. Len(tty.queue) : tty'.queue[i] = tty.queue[i]
      /\ tty'.queue[Len(tty.queue) + 1] = tty.printed + 1
  BY <1>1
<1>3. TypeOK'
  BY <1>2 DEF IInv, TypeOK, Prints, EnvFrame
<1>4. Reported' /\ Places'
  BY DEF IInv, Reported, Places, NothingLeft, Prints, EnvFrame
<1>5. ASSUME NEW k \in Nat, Follows(k) PROVE Follows(k)'
  <2>1. k + Len(tty.queue) = tty.printed /\ \A i \in 1 .. Len(tty.queue) : tty.queue[i] = k + i
    BY <1>5 DEF Follows
  <2>2. k + Len(tty'.queue) = tty'.printed
    BY <1>1, <1>2, <2>1
  <2>3. ASSUME NEW i \in 1 .. Len(tty'.queue) PROVE tty'.queue[i] = k + i
    <3>1. CASE i \in 1 .. Len(tty.queue)
      BY <1>2, <2>1, <3>1
    <3>2. CASE i = Len(tty.queue) + 1
      BY <1>1, <1>2, <2>1, <3>2
    <3> QED
      BY <1>1, <1>2, <2>3, <3>1, <3>2
  <2> QED
    BY <2>2, <2>3 DEF Follows
<1>6. shell \notin Exited /\ Len(up) \in Nat
  BY DEF IInv, TypeOK, Prints, Exited
<1>7. Pieces'
  BY <1>5, <1>6 DEF IInv, Pieces, Sent, Prints, EnvFrame
<1> QED
  BY <1>3, <1>4, <1>7 DEF IInv

\* The shell exits.
LEMMA ExitStep == ASSUME IInv, Exit PROVE IInv'
<1>1. TypeOK'
  BY DEF IInv, TypeOK, Exit, EnvFrame
<1>2. Reported' /\ Places'
  BY DEF IInv, Reported, Places, NothingLeft, Early, Exit, EnvFrame
<1>3. Pieces'
  BY DEF IInv, Pieces, Sent, Follows, Exited, Exit, EnvFrame
<1> QED
  BY <1>1, <1>2, <1>3 DEF IInv

\* Master sends a message.
LEMMA MasterSendsStep == ASSUME IInv, NEW kind \in Kinds, MasterSends(kind) PROVE IInv'
<1>1. down' \in [queue : Seq(Kinds), sent : 0 .. MaxDown]
  BY DEF IInv, TypeOK, MasterSends
<1>2. TypeOK'
  BY <1>1 DEF IInv, TypeOK, MasterSends, EnvFrame
<1>3. Reported' /\ Places' /\ Pieces'
  BY DEF IInv, Reported, Places, NothingLeft, Pieces, Sent, Follows, MasterSends, EnvFrame
<1> QED
  BY <1>2, <1>3 DEF IInv

\* The stream ends.
LEMMA BreakStep == ASSUME IInv, Break PROVE IInv'
<1>1. TypeOK'
  BY DEF IInv, TypeOK, Break, EnvFrame
<1>2. Reported' /\ Places' /\ Pieces'
  BY DEF IInv, Reported, Places, NothingLeft, Pieces, Sent, Follows, Break, EnvFrame
<1> QED
  BY <1>1, <1>2 DEF IInv

-----------------------------------------------------------------------------
\* Every step keeps the strengthening.
LEMMA InductiveStep == IInv /\ [Next]_vars => IInv'
<1> SUFFICES ASSUME IInv, [Next]_vars PROVE IInv'
  OBVIOUS
<1>1. ASSUME NEW request \in Requests, NEW valid \in BOOLEAN, Request(request, valid) PROVE IInv'
  BY <1>1, RequestStep
<1>2. CASE Connect \/ Refused \/ Acked
  BY <1>2, ConnectStep, RefusedStep, AckedStep
<1>3. CASE Bridge \/ Told
  BY <1>3, NewPtyStep, NewPtyFailedStep, StartFailedStep, StartShellStep, AwaitStep, CleanStep,
     ReapStep, CloseSendStep, ToldStep DEF Bridge
<1>4. CASE Reads \/ Send \/ SendFailed
  BY <1>4, ReadStep, ReadFailedStep, SendStep, SendFailedStep DEF Reads
<1>5. CASE Recv \/ RecvFailed \/ Write \/ WriteFailed
  BY <1>5, RecvStep, RecvFailedStep, WriteStep, WriteFailedStep
<1>6. CASE Prints \/ Exit \/ Break
  BY <1>6, PrintsStep, ExitStep, BreakStep
<1>7. ASSUME NEW kind \in Kinds, MasterSends(kind) PROVE IInv'
  BY <1>7, MasterSendsStep
<1>8. CASE UNCHANGED vars
  <2>1. TypeOK'
    BY <1>8 DEF vars, IInv, TypeOK
  <2>2. Reported' /\ Places' /\ Pieces'
    BY <1>8 DEF vars, IInv, Reported, Places, NothingLeft, Pieces, Sent, Follows
  <2> QED
    BY <2>1, <2>2 DEF IInv
<1> QED
  BY <1>1, <1>2, <1>3, <1>4, <1>5, <1>6, <1>7, <1>8 DEF Next

\* The strengthening implies that output is complete.
LEMMA InductiveGoal == IInv => OutputComplete
<1> SUFFICES ASSUME IInv, errCh = <<"exit">> PROVE up = [i \in 1 .. tty.printed |-> i]
  BY DEF OutputComplete
<1>1. up \in Seq(1 .. MaxPieces) /\ Len(up) = tty.printed /\ Sent
  BY DEF IInv, TypeOK, Pieces
<1>2. up = [i \in 1 .. Len(up) |-> up[i]]
  BY <1>1
<1> QED
  BY <1>1, <1>2 DEF Sent

\* Every state has the types of TypeOK: errCh in particular never holds more
\* than one report, so no report ever blocks a goroutine.
THEOREM TypeCorrect == Spec => []TypeOK
<1>1. Init => IInv
  BY InductiveInit
<1>2. IInv /\ [Next]_vars => IInv'
  BY InductiveStep
<1>3. IInv => TypeOK
  BY DEF IInv
<1> QED
  BY <1>1, <1>2, <1>3, PTL DEF Spec

\* A bridge that has returned, on whatever path, has left no terminal open and
\* no process behind.
THEOREM LeavesNothing == Spec => []NothingLeft
<1>1. Init => IInv
  BY InductiveInit
<1>2. IInv /\ [Next]_vars => IInv'
  BY InductiveStep
<1>3. IInv => NothingLeft
  BY DEF IInv, Places
<1> QED
  BY <1>1, <1>2, <1>3, PTL DEF Spec

\* When the bridge ends because the shell has exited, master has been sent all
\* that was printed, in order.
THEOREM OutputIsComplete == Spec => []OutputComplete
<1>1. Init => IInv
  BY InductiveInit
<1>2. IInv /\ [Next]_vars => IInv'
  BY InductiveStep
<1>3. IInv => OutputComplete
  BY InductiveGoal
<1> QED
  BY <1>1, <1>2, <1>3, PTL DEF Spec

=============================================================================
