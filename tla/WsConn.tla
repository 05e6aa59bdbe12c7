-------------------------------- MODULE WsConn --------------------------------
(***************************************************************************)
(* A websocket used as a net.Conn by gRPC: GorillaConn at the agent's end  *)
(* (wsgrpc/gorilla_conn.go), FiberConn at the gateway's (fiber_conn.go).   *)
(* A Write is one binary message; a Read takes what it can of the message  *)
(* at hand, or waits for the next one.                                     *)
(*                                                                         *)
(* The two types have the same Read and Write and differ in Close.  Reads  *)
(* and Writes hold a mutex of the end they are called at, also while they  *)
(* wait for the network.  The websocket library, the network and gRPC are  *)
(* outside: gRPC reads until a Read fails, writes from several goroutines  *)
(* and closes at any moment.  A byte is the number of its place in the     *)
(* order in which Writes take the mutex.                                   *)
(***************************************************************************)
EXTENDS Naturals, Sequences, SequencesExt

CONSTANTS
  Deadlines,    \* ends at which a deadline may pass: gRPC's server sets one
  Capacity,     \* messages the network holds in each direction
  AgentBytes,   \* bound: bytes written by the agent
  GatewayBytes, \* bound: bytes written by the gateway
  MaxChunk,     \* bound: len(p) of a Read or a Write
  MaxOdd        \* bound: messages without data, empty or not binary

ASSUME CapacityAssumption == Capacity \in Nat \ {0}
ASSUME BoundAssumption ==
  AgentBytes \in Nat /\ GatewayBytes \in Nat /\ MaxChunk \in Nat \ {0} /\ MaxOdd \in Nat

Ends == {"agent", "gateway"}

ASSUME DeadlinesAssumption == Deadlines \subseteq {"agent", "gateway"}

MaxBytes(e) == IF e = "agent" THEN AgentBytes ELSE GatewayBytes

Peer(e) == IF e = "agent" THEN "gateway" ELSE "agent"

VARIABLES
  bytes,      \* bytes taken by the Writes at each end
  flushed,    \* ... of which those the network has got
  writing,    \* messages in WriteMessage: the Write's that holds writeMutex
  wire,       \* messages on their way to each end
  readBuffer, \* what is left of the message being read
  got,        \* bytes that Reads have returned
  told,       \* a Read has failed
  odd,        \* a message without data has been sent to this end
  closing,    \* Close has been called at this end
  closed,     \* this end's websocket is closed
  expired,    \* ends whose deadline has passed
  cut,        \* the network has dropped the connection
  done,       \* FiberConn's done channel is closed
  odds        \* messages without data so far

writeVars == <<bytes, flushed, writing>>
readVars  == <<readBuffer, got, told>>
closeVars == <<closing, closed, expired, cut, done>>
vars == <<writeVars, readVars, closeVars, wire, odd, odds>>

Message == [type : {"binary", "text"}, data : Seq(Nat)]
Binary(data) == [type |-> "binary", data |-> data]
Text == [type |-> "text", data |-> <<0>>]

Least(a, b) == IF a < b THEN a ELSE b

Init ==
  /\ bytes = [e \in Ends |-> 0] /\ flushed = [e \in Ends |-> 0]
  /\ writing = [e \in Ends |-> <<>>]
  /\ wire = [e \in Ends |-> <<>>]
  /\ readBuffer = [e \in Ends |-> <<>>]
  /\ got = [e \in Ends |-> <<>>] /\ told = [e \in Ends |-> FALSE]
  /\ odd = [e \in Ends |-> FALSE]
  /\ closing = [e \in Ends |-> FALSE]
  /\ closed = [e \in Ends |-> FALSE] /\ expired = {} /\ cut = FALSE
  /\ done = FALSE /\ odds = 0

-----------------------------------------------------------------------------
(* Write.                                                                  *)

\* Seeded fault: no writeMutex.
WriteFreeShared(e) == Len(writing[e]) < 2

\* writeMutex can be taken.
WriteFree(e) == writing[e] = <<>>

\* Nothing comes out of e's websocket any more.
Dead(e) == closed[e] \/ cut

Emptiness(size) == IF size = 0 THEN 1 ELSE 0

\* A Write of size bytes takes the mutex.
Write(e, size) ==
  /\ WriteFree(e)
  /\ ~told[e] /\ bytes[e] + size <= MaxBytes(e)
  /\ odds + Emptiness(size) <= MaxOdd /\ odds' = odds + Emptiness(size)
  /\ bytes' = [bytes EXCEPT ![e] = @ + size]
  /\ writing' = [writing EXCEPT ![e] = Append(@, Binary([i \in 1 .. size |-> bytes[e] + i]))]
  /\ UNCHANGED <<flushed, readVars, closeVars, wire, odd>>

\* WriteMessage returns when the network has taken the message.
WriteDone(e, i) ==
  /\ i \in DOMAIN writing[e]
  /\ ~Dead(e) /\ e \notin expired /\ ~closed[Peer(e)]
  /\ Len(wire[Peer(e)]) < Capacity
  /\ LET m == writing[e][i]
     IN  /\ flushed' = [flushed EXCEPT ![e] = @ + Len(m.data)]
         /\ odd' = [odd EXCEPT ![Peer(e)] = @ \/ m.data = <<>>]
         /\ wire' = [wire EXCEPT ![Peer(e)] = Append(@, m)]
  /\ writing' = [writing EXCEPT ![e] = RemoveAt(@, i)]
  /\ UNCHANGED <<bytes, readVars, closeVars, odds>>

WriteFailed(e, i) ==
  /\ i \in DOMAIN writing[e]
  /\ Dead(e) \/ e \in expired \/ closed[Peer(e)]
  /\ writing' = [writing EXCEPT ![e] = RemoveAt(@, i)]
  /\ UNCHANGED <<bytes, flushed, readVars, closeVars, wire, odd, odds>>

-----------------------------------------------------------------------------
(* Read.                                                                   *)

\* gRPC's reader calls Read again as soon as one has returned, so a Read holds
\* readMutex until one has failed.
Reading(e) == ~told[e]

\* Seeded fault: a new buffer for every Read.
LeftFresh(data, size) == <<>>

\* What Read leaves of data in readBuffer.
Left(data, size) == SubSeq(data, size + 1, Len(data))

\* readBuffer.Read(p), with data in the buffer, or io.EOF without.
Returns(e, data) ==
  /\ told' = [told EXCEPT ![e] = data = <<>>]
  /\ \E size \in 1 .. MaxChunk :
       /\ got' = [got EXCEPT ![e] = @ \o SubSeq(data, 1, Least(size, Len(data)))]
       /\ readBuffer' = [readBuffer EXCEPT ![e] = Left(data, size)]

ReadBuffered(e) ==
  /\ Reading(e) /\ readBuffer[e] # <<>>
  /\ Returns(e, readBuffer[e])
  /\ UNCHANGED <<writeVars, closeVars, wire, odd, odds>>

\* Seeded fault: the type of the message is not looked at.
AcceptsAny(m) == m.type \in {"binary", "text"}

Accepts(m) == m.type = "binary"

\* ReadMessage returns a message, which is dropped if it is not binary.
ReadMessage(e) ==
  /\ Reading(e) /\ readBuffer[e] = <<>>
  /\ ~Dead(e) /\ wire[e] # <<>>
  /\ wire' = [wire EXCEPT ![e] = Tail(@)]
  /\ Returns(e, IF Accepts(Head(wire[e])) THEN Head(wire[e]).data ELSE <<>>)
  /\ UNCHANGED <<writeVars, closeVars, odd, odds>>

ReadFailed(e) ==
  /\ Reading(e) /\ readBuffer[e] = <<>>
  /\ Dead(e) \/ e \in expired \/ (closed[Peer(e)] /\ wire[e] = <<>>)
  /\ told' = [told EXCEPT ![e] = TRUE]
  /\ UNCHANGED <<writeVars, readBuffer, got, closeVars, wire, odd, odds>>

-----------------------------------------------------------------------------
(* Close.                                                                  *)

\* Seeded fault: Close waits for the Read that is under way.
MayCloseIdle(e) == ~Reading(e)

\* Close takes neither mutex.
MayClose(e) == TRUE

\* Close is called; a FiberConn closes its websocket once, and for either type
\* another Close changes nothing.
Close(e) ==
  /\ ~closing[e]
  /\ closing' = [closing EXCEPT ![e] = TRUE]
  /\ UNCHANGED <<writeVars, readVars, closed, expired, cut, done, wire, odd, odds>>

\* ws.Close.
CloseSocket(e) ==
  /\ closing[e] /\ ~closed[e] /\ MayClose(e)
  /\ closed' = [closed EXCEPT ![e] = TRUE]
  /\ wire' = [wire EXCEPT ![e] = <<>>]
  /\ UNCHANGED <<writeVars, readVars, closing, expired, cut, done, odd, odds>>

\* The rest of FiberConn's Close: close(done).
CloseDone ==
  /\ closed["gateway"] /\ ~done
  /\ done' = TRUE
  /\ UNCHANGED <<writeVars, readVars, closing, closed, expired, cut, wire, odd, odds>>

-----------------------------------------------------------------------------
(* SetDeadline: a deadline that passes fails what waits for the network    *)
(* and, with this library, everything after it.                            *)
Expire(e) ==
  /\ e \in Deadlines \ expired
  /\ expired' = expired \cup {e}
  /\ UNCHANGED <<writeVars, readVars, closing, closed, cut, done, wire, odd, odds>>

-----------------------------------------------------------------------------
(* The network and other software at the other end.                        *)

Cut ==
  /\ ~cut /\ cut' = TRUE
  /\ wire' = [e \in Ends |-> <<>>]
  /\ UNCHANGED <<writeVars, readVars, closing, closed, expired, done, odd, odds>>

SendText(e) ==
  /\ odds < MaxOdd /\ ~Dead(e) /\ ~closed[Peer(e)] /\ Len(wire[e]) < Capacity
  /\ odds' = odds + 1
  /\ wire' = [wire EXCEPT ![e] = Append(@, Text)]
  /\ odd' = [odd EXCEPT ![e] = TRUE]
  /\ UNCHANGED <<writeVars, readVars, closeVars>>

-----------------------------------------------------------------------------
WriteEnds(e) == \E i \in 1 .. Len(writing[e]) : WriteDone(e, i) \/ WriteFailed(e, i)
ReadEnds(e) == ReadBuffered(e) \/ ReadMessage(e) \/ ReadFailed(e)

Next ==
  \/ \E e \in Ends :
       \/ (\E size \in 0 .. MaxChunk : Write(e, size)) \/ WriteEnds(e)
       \/ ReadEnds(e)
       \/ Close(e) \/ CloseSocket(e) \/ SendText(e) \/ Expire(e)
  \/ CloseDone \/ Cut

\* The calls that can return do; gRPC's reader reads on until a Read fails,
\* whereupon gRPC closes the connection.
Fairness ==
  /\ \A e \in Ends :
       /\ WF_vars(WriteEnds(e))
       /\ WF_vars(ReadEnds(e))
       /\ WF_vars((told[e] /\ Close(e)) \/ CloseSocket(e))
  /\ WF_vars(CloseDone)

Spec == Init /\ [][Next]_vars /\ Fairness

-----------------------------------------------------------------------------
(* Correctness.                                                            *)

\* The variables have their types, and nothing is read that no Write has sent: a
\* message of another type carries the byte 0.
TypeOK ==
  /\ bytes \in [Ends -> Nat] /\ flushed \in [Ends -> Nat]
  /\ writing \in [Ends -> Seq(Message)]
  /\ wire \in [Ends -> Seq(Message)]
  /\ readBuffer \in [Ends -> Seq(Nat \ {0})]
  /\ got \in [Ends -> Seq(Nat \ {0})]
  /\ told \in [Ends -> BOOLEAN] /\ odd \in [Ends -> BOOLEAN]
  /\ closing \in [Ends -> BOOLEAN] /\ closed \in [Ends -> BOOLEAN]
  /\ expired \subseteq Deadlines /\ cut \in BOOLEAN /\ done \in BOOLEAN
  /\ odds \in 0 .. MaxOdd

\* A Close that is called returns, although Read and Write may hold their mutexes
\* waiting for the network, and lets go of both and of whoever waits for done.
CloseReleases ==
  \A e \in Ends :
    closing[e] ~> closed[e] /\ ~Reading(e) /\ WriteFree(e) /\ (e = "gateway" => done)

\* The connection is over, whoever has ended it.
Over == cut \/ expired # {} \/ \E e \in Ends : closed[e]

\* Either direction is a byte stream.
ToAgent == INSTANCE ByteStream WITH
  sent <- flushed["gateway"], got <- got["agent"], over <- Over,
  odd <- odd["agent"], told <- told["agent"]
ToGateway == INSTANCE ByteStream WITH
  sent <- flushed["agent"], got <- got["gateway"], over <- Over,
  odd <- odd["gateway"], told <- told["gateway"]

Implements == ToAgent!Spec /\ ToGateway!Spec

=============================================================================
