------------------------------ MODULE PtyBridge ------------------------------
(***************************************************************************)
(* The remote shell of cmd/frppc/frpcclient/rpc_pty_connect.go.  A request *)
(* on the RPC stream, gated by a one-time password where one is set, opens *)
(* a stream of its own to master, waits for the ack and hands it to        *)
(* bridgePTY, which starts a shell on a pseudo-terminal and two goroutines,*)
(* the reader from the terminal to master and the writer back.  Whichever  *)
(* fails first reports on errCh, and the deferred cleanup follows.         *)
(*                                                                         *)
(* One session is modelled: sessions share only the RPC loop, which serves *)
(* one request at a time.  What the shell prints is numbered pieces, each  *)
(* as much as one Read returns.  The pty library is external: host.ends    *)
(* says whether a read of the terminal ends once the shell has exited,     *)
(* which depends on who else holds the terminal open.                      *)
(***************************************************************************)
EXTENDS Naturals, Sequences

CONSTANTS
    MaxRequests,  \* bound on master's requests
    MaxPieces,    \* bound on what the shell prints
    MaxDown       \* bound on what master sends down the stream

ASSUME BoundAssumption == {MaxRequests, MaxPieces, MaxDown} \subseteq Nat

Requests == {"start", "bind", "verify"}
Kinds    == {"input", "resize", "empty", "done"}
Causes   == {"exit", "closed", "send", "recv", "done", "write"}

VARIABLES
    host,    \* allowed: opts.enableRemoteShell, code: opts.totpSecret is set, ends: see above
    pc,      \* the RPC handler, then the bridge it becomes
    rpc,     \* asked: requests so far, bound: totpBound[clientID], answer: the last one
    stream,  \* the stream to master: none, open, over
    half,    \* CloseSend has been called
    down,    \* master's messages, queue: not yet received, sent: how many in all
    up,      \* the pieces sent to master
    ptmx,    \* the terminal: none, open, closed
    shell,   \* its process: none, running, killed (and not dead yet), exited, reaped
    tty,     \* printed: how many pieces in all, queue: those not yet read
    reader,  \* at: off, read, send or end; piece, failing: what Read has returned
    writer,  \* off, recv, write or end
    errCh,   \* the reports on errCh
    once     \* a goroutine has called done

vars == <<host, pc, rpc, stream, half, down, up, ptmx, shell, tty, reader, writer, errCh, once>>

\* Type correctness; errCh never holds more than the one report of the Once.
TypeOK ==
    /\ host \in [allowed : BOOLEAN, code : BOOLEAN, ends : BOOLEAN]
    /\ pc \in {"idle", "open", "ack", "new", "start", "tell", "wait", "clean", "reap", "close",
             "done"}
    /\ rpc \in [asked : 0 .. MaxRequests, bound : BOOLEAN,
                answer : {"none", "error", "bind", "verify", "ready"}]
    /\ stream \in {"none", "open", "over"} /\ half \in BOOLEAN
    /\ down \in [queue : Seq(Kinds), sent : 0 .. MaxDown]
    /\ up \in Seq(1 .. MaxPieces)
    /\ ptmx \in {"none", "open", "closed"}
    /\ shell \in {"none", "running", "killed", "exited", "reaped"}
    /\ tty \in [queue : Seq(1 .. MaxPieces), printed : 0 .. MaxPieces]
    /\ reader \in [at : {"off", "read", "send", "end"}, piece : 0 .. MaxPieces, failing : BOOLEAN]
    /\ writer \in {"off", "recv", "write", "end"}
    /\ errCh \in Seq(Causes) /\ Len(errCh) <= 1 /\ once \in BOOLEAN

Init ==
    /\ host \in [allowed : BOOLEAN, code : BOOLEAN, ends : BOOLEAN]
    /\ pc = "idle" /\ rpc = [asked |-> 0, bound |-> FALSE, answer |-> "none"]
    /\ stream = "none" /\ half = FALSE /\ down = [queue |-> <<>>, sent |-> 0] /\ up = <<>>
    /\ ptmx = "none" /\ shell = "none" /\ tty = [queue |-> <<>>, printed |-> 0]
    /\ reader = [at |-> "off", piece |-> 0, failing |-> FALSE] /\ writer = "off"
    /\ errCh = <<>> /\ once = FALSE

Step(from, to) == pc = from /\ pc' = to

-----------------------------------------------------------------------------
(* The RPC handler.  "open" is the verdict that opens a session. *)

Verdict(request, valid) ==
    CASE request = "start" /\ ~host.allowed         -> "error"
      [] request = "start" /\ host.code             -> IF rpc.bound THEN "verify" ELSE "bind"
      [] request # "start" /\ ~(host.code /\ valid) -> "error"
      [] OTHER                                      -> "open"

HandlerFrame == UNCHANGED <<host, half, down, up, ptmx, shell, tty, reader, writer, errCh, once>>

Request(request, valid) ==
    /\ pc = "idle" /\ stream = "none" /\ rpc.asked < MaxRequests
    /\ LET opens == Verdict(request, valid) = "open" IN
       /\ rpc' = [asked  |-> rpc.asked + 1,
                  bound  |-> rpc.bound \/ (request = "bind" /\ opens),
                  answer |-> IF opens THEN rpc.answer ELSE Verdict(request, valid)]
       /\ pc' = IF opens THEN "open" ELSE "idle"
    /\ UNCHANGED stream /\ HandlerFrame

(* The stream is open and the session's id sent. *)
Connect == Step("open", "ack") /\ stream' = "open" /\ UNCHANGED rpc /\ HandlerFrame

(* No stream, a stream that breaks, or an ack other than "ok": the error   *)
(* is the answer, and the stream is left as it is.                         *)
Refused ==
    /\ pc \in {"open", "ack"} /\ Step(pc, "idle") /\ rpc' = [rpc EXCEPT !.answer = "error"]
    /\ UNCHANGED stream /\ HandlerFrame

(* The bridge begins; master is told that it is ready. *)
Acked ==
    /\ Step("ack", "new") /\ stream = "open" /\ rpc' = [rpc EXCEPT !.answer = "ready"]
    /\ UNCHANGED stream /\ HandlerFrame

-----------------------------------------------------------------------------
(* The bridge. *)

BridgeFrame == UNCHANGED <<host, rpc, stream, down, up, tty, once>>

NewPty ==
    /\ Step("new", "start") /\ ptmx' = "open"
    /\ UNCHANGED <<half, shell, reader, writer, errCh>> /\ BridgeFrame

(* No terminal, or no shell on it: master is about to be told. *)
NewPtyFailed ==
    /\ Step("new", "tell")
    /\ UNCHANGED <<half, ptmx, shell, reader, writer, errCh>> /\ BridgeFrame

StartFailed ==
    /\ Step("start", "tell")
    /\ UNCHANGED <<half, ptmx, shell, reader, writer, errCh>> /\ BridgeFrame

\* Seeded fault: the terminal is left open.
ToldOpen ==
    /\ Step("tell", "done") /\ half' = TRUE
    /\ UNCHANGED <<ptmx, shell, reader, writer, errCh>> /\ BridgeFrame

(* conn.Send has returned, which it need not while master does not read;   *)
(* only then is the terminal closed, if there is one.                      *)
Told ==
    /\ Step("tell", "done") /\ half' = TRUE
    /\ ptmx' = IF ptmx = "open" THEN "closed" ELSE ptmx
    /\ UNCHANGED <<shell, reader, writer, errCh>> /\ BridgeFrame

StartShell ==
    /\ Step("start", "wait") /\ shell' = "running"
    /\ reader' = [reader EXCEPT !.at = "read"] /\ writer' = "recv"
    /\ UNCHANGED <<half, ptmx, errCh>> /\ BridgeFrame

Await ==
    /\ Step("wait", "clean") /\ errCh # <<>> /\ errCh' = Tail(errCh)
    /\ UNCHANGED <<half, ptmx, shell, reader, writer>> /\ BridgeFrame

\* Seeded fault: relies on the hangup that closing the terminal sends.
HungUpShell == shell

KilledShell == IF shell = "running" THEN "killed" ELSE shell

(* ptmx.Close and Process.Kill *)
Clean ==
    /\ Step("clean", "reap") /\ ptmx' = "closed" /\ shell' = KilledShell
    /\ UNCHANGED <<half, reader, writer, errCh>> /\ BridgeFrame

(* cmd.Wait *)
Reap ==
    /\ Step("reap", "close") /\ shell = "exited" /\ shell' = "reaped"
    /\ UNCHANGED <<half, ptmx, reader, writer, errCh>> /\ BridgeFrame

CloseSend ==
    /\ Step("close", "done") /\ half' = TRUE
    /\ UNCHANGED <<ptmx, shell, reader, writer, errCh>> /\ BridgeFrame

-----------------------------------------------------------------------------
(* The goroutines.  Only the first report goes to errCh, which has room    *)
(* for two.                                                                *)

\* Seeded fault: an unbuffered channel and no Once.
CanReportWaiting == pc = "wait" /\ errCh = <<>>

CanReport == once \/ Len(errCh) < 2

\* Seeded fault: every report is sent.
SendsEach(cause) == TRUE

\* Seeded fault: the end of the terminal is taken for no error.
SendsUnlessExit(cause) == ~once /\ cause # "exit"

\* Seeded fault: a broken stream is left to the other goroutine.
SendsUnlessRecv(cause) == ~once /\ cause # "recv"

Sends(cause) == ~once

Report(cause) ==
    /\ CanReport
    /\ once' = (once \/ Sends(cause))
    /\ errCh' = IF Sends(cause) THEN Append(errCh, cause) ELSE errCh

ReaderFrame == UNCHANGED <<host, pc, rpc, stream, half, down, ptmx, shell, writer>>
WriterFrame == UNCHANGED <<host, pc, rpc, stream, half, up, ptmx, shell, tty, reader>>

ReaderEnds(cause) == reader' = [reader EXCEPT !.at = "end"] /\ Report(cause)
WriterEnds(cause) == writer' = "end" /\ Report(cause)

HungUp == host.ends /\ shell \in {"exited", "reaped"}

\* Seeded fault: readErr is looked at before n.
SentPieceFirst(withError) == ~withError

SentPiece(withError) == TRUE

(* ptmx.Read returns a piece, the last one perhaps with the error. *)
Read(withError) ==
    /\ reader.at = "read" /\ ptmx = "open" /\ tty.queue # <<>>
    /\ withError => HungUp /\ Len(tty.queue) = 1
    /\ tty' = [tty EXCEPT !.queue = Tail(@)]
    /\ IF SentPiece(withError)
       THEN /\ reader' = [at |-> "send", piece |-> Head(tty.queue), failing |-> withError]
            /\ UNCHANGED <<errCh, once>>
       ELSE ReaderEnds("exit")
    /\ UNCHANGED up /\ ReaderFrame

(* ptmx.Read returns an error alone. *)
ReadFailed ==
    /\ reader.at = "read"
    /\ \/ ptmx = "closed" /\ ReaderEnds("closed")
       \/ ptmx = "open" /\ tty.queue = <<>> /\ HungUp /\ ReaderEnds("exit")
    /\ UNCHANGED <<up, tty>> /\ ReaderFrame

(* conn.Send has taken the piece, and readErr is looked at. *)
Send ==
    /\ reader.at = "send" /\ stream = "open" /\ up' = Append(up, reader.piece)
    /\ IF reader.failing THEN ReaderEnds("exit")
       ELSE reader' = [reader EXCEPT !.at = "read"] /\ UNCHANGED <<errCh, once>>
    /\ UNCHANGED tty /\ ReaderFrame

SendBroken == stream = "over" \/ half   \* over, or the Send has begun after CloseSend

SendFailed ==
    /\ reader.at = "send" /\ SendBroken /\ ReaderEnds("send")
    /\ UNCHANGED <<up, tty>> /\ ReaderFrame

(* conn.Recv returns a message; resizing and empty ones go no further. *)
Recv ==
    /\ writer = "recv" /\ down.queue # <<>> /\ down' = [down EXCEPT !.queue = Tail(@)]
    /\ CASE Head(down.queue) = "done"  -> WriterEnds("done")
         [] Head(down.queue) = "input" -> writer' = "write" /\ UNCHANGED <<errCh, once>>
         [] OTHER                      -> UNCHANGED <<writer, errCh, once>>
    /\ WriterFrame

RecvFailed ==
    writer = "recv" /\ stream = "over" /\ WriterEnds("recv") /\ UNCHANGED down /\ WriterFrame

Write ==
    /\ writer = "write" /\ ptmx = "open" /\ writer' = "recv"
    /\ UNCHANGED <<down, errCh, once>> /\ WriterFrame

WriteFailed ==
    writer = "write" /\ ptmx = "closed" /\ WriterEnds("write") /\ UNCHANGED down /\ WriterFrame

-----------------------------------------------------------------------------
(* The shell, master and the network. *)

EnvFrame == UNCHANGED <<host, pc, rpc, half, up, ptmx, reader, writer, errCh, once>>

Prints ==
    /\ shell = "running" /\ ptmx = "open" /\ tty.printed < MaxPieces
    /\ tty' = [printed |-> tty.printed + 1, queue |-> Append(tty.queue, tty.printed + 1)]
    /\ UNCHANGED <<stream, down, shell>> /\ EnvFrame

Exit ==
    /\ shell \in {"running", "killed"} /\ shell' = "exited"
    /\ UNCHANGED <<stream, down, tty>> /\ EnvFrame

MasterSends(kind) ==
    /\ stream = "open" /\ rpc.answer = "ready" /\ down.sent < MaxDown
    /\ down' = [queue |-> Append(down.queue, kind), sent |-> down.sent + 1]
    /\ UNCHANGED <<stream, shell, tty>> /\ EnvFrame

(* Master ends the stream, the network does, or Shutdown cancels its context. *)
Break == stream = "open" /\ stream' = "over" /\ UNCHANGED <<down, shell, tty>> /\ EnvFrame

Bridge == \/ NewPty \/ NewPtyFailed \/ StartFailed \/ StartShell \/ Await \/ Clean \/ Reap
          \/ CloseSend
Reads  == (\E withError \in BOOLEAN : Read(withError)) \/ ReadFailed

Next ==
    \/ \E request \in Requests, valid \in BOOLEAN : Request(request, valid)
    \/ Connect \/ Refused \/ Acked \/ Bridge \/ Told
    \/ Reads \/ Send \/ SendFailed \/ Recv \/ RecvFailed \/ Write \/ WriteFailed
    \/ Prints \/ Exit \/ Break \/ \E kind \in Kinds : MasterSends(kind)

Spec == Init /\ [][Next]_vars

(* The goroutines run and a killed shell dies.  Nothing says that master   *)
(* reads (Send, Told) or answers (Acked), or that the shell takes its      *)
(* input (Write).                                                          *)
Fairness ==
    /\ WF_vars(Bridge) /\ WF_vars(stream = "over" /\ Told)
    /\ WF_vars(Reads) /\ WF_vars(stream = "over" /\ SendFailed)
    /\ WF_vars(Recv \/ RecvFailed \/ WriteFailed) /\ WF_vars(shell = "killed" /\ Exit)

FairSpec == Spec /\ Fairness

-----------------------------------------------------------------------------
(* When the bridge has returned, on whatever path, it has left no terminal *)
(* open and no process behind, not even a zombie.                          *)
NothingLeft == pc = "done" => ptmx # "open" /\ shell \in {"none", "reaped"}

(* When the bridge ends because the shell has exited, master has been sent *)
(* all that the shell has printed, in order.                               *)
OutputComplete == errCh = <<"exit">> => up = [i \in 1 .. tty.printed |-> i]

(* Once either goroutine has reported, the cleanup runs to its end, though *)
(* the other one may be blocked and the shell may ignore the hangup; and   *)
(* then neither goroutine outlives the stream.                             *)
CleanupEnds ==
    /\ once ~> pc = "done"
    /\ []<>(pc = "done" /\ stream = "over" =>
              reader.at \in {"off", "end"} /\ writer \in {"off", "end"})

(* A stream that is over ends its session: nothing but a shell that does   *)
(* not take its input can keep it alive.                                   *)
OverIsNoticed == []<>(stream = "over" /\ pc = "wait" => writer = "write")

(* A shell that exits ends its session: nothing but a master that does not *)
(* read can keep it alive, where the shell is the last to hold the         *)
(* terminal; elsewhere the end of the stream is what ends it.              *)
ExitIsNoticed == []<>(shell = "exited" /\ host.ends => reader.at = "send")

(* Either end of a session is noticed by the other. *)
EndIsNoticed == OverIsNoticed /\ ExitIsNoticed
=============================================================================
