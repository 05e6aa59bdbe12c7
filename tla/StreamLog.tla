------------------------------ MODULE StreamLog ------------------------------
(***************************************************************************)
(* The stream log of rpc_stream_log.go and its sink (streamlog/sink.go):   *)
(* master asks the agent to push its log records over a gRPC stream until  *)
(* master asks it to stop.                                                 *)
(*                                                                         *)
(* START and STOP requests are handled one at a time by the goroutine of   *)
(* the RPC stream; Shutdown stops the log from another goroutine at any    *)
(* moment.  Every session has a pump goroutine.  Loggers are the           *)
(* goroutines that log: they read the attached channel under the sink's    *)
(* lock and send to it after releasing the lock.                           *)
(*                                                                         *)
(* A session is named by the order in which its stream was opened, and     *)
(* stands for its cancel function, channel and done channel, which the     *)
(* service stores and clears together.  A channel is the number of records *)
(* in it.                                                                  *)
(***************************************************************************)
EXTENDS Naturals

CONSTANTS
  Capacity,     \* the channel's capacity (256 in the code)
  Loggers,      \* goroutines that log
  MaxRequests,  \* bound: START and STOP requests
  MaxRecords,   \* bound: records logged
  MaxTimeouts   \* bound: stops that give up after three seconds

ASSUME CapacityAssumption == Capacity \in Nat \ {0}
ASSUME BoundAssumption    ==
  MaxRequests \in Nat /\ MaxRecords \in Nat /\ MaxTimeouts \in Nat

None == 0

Sessions == 1..MaxRequests

Stoppers == {"rpc", "shutdown"}

VARIABLES
  cur,        \* the service's session (streamLogCancel, -Ch and -Done)
  sink,       \* the session whose channel is attached to the sink
  opened,     \* sessions opened so far
  cancelled,  \* sessions whose cancel has been called
  broken,     \* sessions whose stream master has ended
  pump,       \* each session's pump goroutine
  queue,      \* records in each session's channel
  op,         \* per goroutine, the request it handles
  holding,    \* per logger, the session whose channel it is about to send to
  down,       \* the service's context is cancelled
  requests, records, timeouts     \* how often each has happened

vars == <<cur, sink, opened, cancelled, broken, pump, queue, op, holding, down,
          requests, records, timeouts>>

sessions == <<opened, cancelled, broken, pump, queue>>

counts == <<requests, records, timeouts>>

Idle == [pc |-> "idle", req |-> "stop", s |-> None]

\* Seeded fault: the session's context does not derive from the service's.
OverIfCancelled(i) == i \in cancelled

\* The context of session i, which derives from the service's, is done.
Over(i) == i \in cancelled \/ down

\* A non-blocking send to session i's channel: dropped when it is full.
Send(i) == queue' = [queue EXCEPT ![i] = IF @ < Capacity THEN @ + 1 ELSE @]

Goto(p, pc) == op' = [op EXCEPT ![p].pc = pc]

Finish(p) ==
  op' = [op EXCEPT ![p] = [Idle EXCEPT !.pc = IF p = "shutdown" THEN "done" ELSE "idle"]]

-----------------------------------------------------------------------------
(* Requests.                                                               *)

\* handleStartStreamLogWrapped and handleStopStreamLogWrapped.
Request(req) ==
  /\ op["rpc"].pc = "idle" /\ ~down
  /\ requests < MaxRequests
  /\ requests' = requests + 1
  /\ op' = [op EXCEPT !["rpc"] = [Idle EXCEPT !.pc = "take", !.req = req]]
  /\ UNCHANGED <<cur, sink, sessions, holding, down, records, timeouts>>

\* Service.Shutdown cancels the service's context and stops the log.
Shutdown ==
  /\ op["shutdown"].pc = "idle"
  /\ down' = TRUE
  /\ Goto("shutdown", "take")
  /\ UNCHANGED <<cur, sink, sessions, holding, counts>>

-----------------------------------------------------------------------------
(* stopStreamLog.                                                          *)

\* Take the session out of the service, under streamLogMu.
Take(p) ==
  /\ op[p].pc = "take"
  /\ cur' = None
  /\ op' = [op EXCEPT ![p].s = cur, ![p].pc = "detach"]
  /\ UNCHANGED <<sink, sessions, holding, down, counts>>

\* What follows stopStreamLog: the rest of startStreamLog, or the reply.
Stopped(p) == IF op[p].req = "start" THEN Goto(p, "open") ELSE Finish(p)

\* Seeded fault: the sink is detached only when there is no session.
DetachedLate(s) == IF s = None THEN None ELSE sink

\* The sink after Detach.
Detached(s) == None

\* Seeded fault: cancel is called without looking whether there is one.
HasSessionAlways(p) == TRUE

\* There was a session to stop.
HasSession(p) == op[p].s # None

Detach(p) ==
  /\ op[p].pc = "detach"
  /\ sink' = Detached(op[p].s)
  /\ IF HasSession(p) THEN Goto(p, "cancel") ELSE Stopped(p)
  /\ UNCHANGED <<cur, sessions, holding, down, counts>>

\* Seeded fault: stopStreamLog forgets to call cancel.
CancelledNot(s) == cancelled

\* The cancelled sessions once session s is.
Cancelled(s) == cancelled \cup {s}

Cancel(p) ==
  /\ op[p].pc = "cancel"
  /\ cancelled' = Cancelled(op[p].s)
  /\ Goto(p, "await")
  /\ UNCHANGED <<cur, sink, opened, broken, pump, queue, holding, down, counts>>

\* done is closed ...
Await(p) ==
  /\ op[p].pc = "await" /\ pump[op[p].s] = "ended"
  /\ Stopped(p)
  /\ UNCHANGED <<cur, sink, sessions, holding, down, counts>>

\* ... or three seconds pass first, and the request fails.
GiveUp(p) ==
  /\ op[p].pc = "await"
  /\ timeouts < MaxTimeouts
  /\ timeouts' = timeouts + 1
  /\ Finish(p)
  /\ UNCHANGED <<cur, sink, sessions, holding, down, requests, records>>

-----------------------------------------------------------------------------
(* The rest of startStreamLog.                                             *)

Open(p) ==
  /\ op[p].pc = "open" /\ ~down
  /\ opened' = opened + 1
  /\ op' = [op EXCEPT ![p].s = opened + 1, ![p].pc = "publish"]
  /\ UNCHANGED <<cur, sink, cancelled, broken, pump, queue, holding, down, counts>>

\* The stream cannot be opened, for one because the context is done.
OpenFailed(p) ==
  /\ op[p].pc = "open"
  /\ Finish(p)
  /\ UNCHANGED <<cur, sink, sessions, holding, down, counts>>

Publish(p) ==
  /\ op[p].pc = "publish"
  /\ cur' = op[p].s
  /\ Goto(p, "attach")
  /\ UNCHANGED <<sink, sessions, holding, down, counts>>

Attach(p) ==
  /\ op[p].pc = "attach"
  /\ sink' = op[p].s
  /\ Goto(p, "spawn")
  /\ UNCHANGED <<cur, sessions, holding, down, counts>>

Spawn(p) ==
  /\ op[p].pc = "spawn"
  /\ pump' = [pump EXCEPT ![op[p].s] = "waiting"]
  /\ Goto(p, "greet")
  /\ UNCHANGED <<cur, sink, opened, cancelled, broken, queue, holding, down, counts>>

\* writeStreamLog looks up the service's channel under streamLogMu ...
Greet(p) ==
  /\ op[p].pc = "greet"
  /\ IF cur = None THEN Finish(p)
     ELSE op' = [op EXCEPT ![p].s = cur, ![p].pc = "greeting"]
  /\ UNCHANGED <<cur, sink, sessions, holding, down, counts>>

\* ... and sends the first message to it.
Greeted(p) ==
  /\ op[p].pc = "greeting"
  /\ Send(op[p].s)
  /\ Finish(p)
  /\ UNCHANGED <<cur, sink, opened, cancelled, broken, pump, holding, down, counts>>

-----------------------------------------------------------------------------
(* Pumps, master and loggers.                                              *)

\* runStreamLogPump takes a record; with the context done, select may do so too.
PumpTakes(i) ==
  /\ pump[i] = "waiting" /\ queue[i] > 0
  /\ queue' = [queue EXCEPT ![i] = @ - 1]
  /\ pump' = [pump EXCEPT ![i] = "sending"]
  /\ UNCHANGED <<cur, sink, opened, cancelled, broken, op, holding, down, counts>>

\* stream.Send succeeds: for as long as master does not read, it blocks.
PumpSent(i) ==
  /\ pump[i] = "sending" /\ i \notin broken
  /\ pump' = [pump EXCEPT ![i] = "waiting"]
  /\ UNCHANGED <<cur, sink, opened, cancelled, broken, queue, op, holding, down, counts>>

\* stream.Send fails.
PumpFailed(i) ==
  /\ pump[i] = "sending" /\ (Over(i) \/ i \in broken)
  /\ pump' = [pump EXCEPT ![i] = "ended"]
  /\ UNCHANGED <<cur, sink, opened, cancelled, broken, queue, op, holding, down, counts>>

\* The pump sees that the context is done.
PumpQuit(i) ==
  /\ pump[i] = "waiting" /\ Over(i)
  /\ pump' = [pump EXCEPT ![i] = "ended"]
  /\ UNCHANGED <<cur, sink, opened, cancelled, broken, queue, op, holding, down, counts>>

\* Master, or the network, ends the stream; only a Send finds out.
Break(i) ==
  /\ i <= opened /\ i \notin broken
  /\ broken' = broken \cup {i}
  /\ UNCHANGED <<cur, sink, opened, cancelled, pump, queue, op, holding, down, counts>>

\* Sink's Handle reads the attached channel ...
Log(g) ==
  /\ holding[g] = None /\ sink # None
  /\ records < MaxRecords
  /\ records' = records + 1
  /\ holding' = [holding EXCEPT ![g] = sink]
  /\ UNCHANGED <<cur, sink, sessions, op, down, requests, timeouts>>

\* ... and sends to it, whatever has happened to the session meanwhile.
Forward(g) ==
  /\ holding[g] # None
  /\ Send(holding[g])
  /\ holding' = [holding EXCEPT ![g] = None]
  /\ UNCHANGED <<cur, sink, opened, cancelled, broken, pump, op, down, counts>>

-----------------------------------------------------------------------------
Init ==
  /\ cur = None /\ sink = None
  /\ opened = 0 /\ cancelled = {} /\ broken = {}
  /\ pump = [i \in Sessions |-> "none"]
  /\ queue = [i \in Sessions |-> 0]
  /\ op = [p \in Stoppers |-> Idle]
  /\ holding = [g \in Loggers |-> None]
  /\ down = FALSE
  /\ requests = 0 /\ records = 0 /\ timeouts = 0

Step(p) ==
  \/ Take(p) \/ Detach(p) \/ Cancel(p) \/ Await(p)
  \/ Open(p) \/ OpenFailed(p) \/ Publish(p) \/ Attach(p) \/ Spawn(p)
  \/ Greet(p) \/ Greeted(p)

PumpStep(i) == PumpTakes(i) \/ PumpFailed(i) \/ PumpQuit(i)

Next ==
  \/ \E req \in {"start", "stop"} : Request(req)
  \/ Shutdown
  \/ \E p \in Stoppers : Step(p) \/ GiveUp(p)
  \/ \E i \in Sessions : PumpStep(i) \/ PumpSent(i) \/ Break(i)
  \/ \E g \in Loggers : Log(g) \/ Forward(g)

\* Goroutines are scheduled.  Master need not read the stream, so a Send may
\* block until its context is done.
Fairness ==
  /\ \A p \in Stoppers : WF_vars(Step(p))
  /\ \A i \in Sessions : WF_vars(PumpStep(i))

Spec == Init /\ [][Next]_vars /\ Fairness

-----------------------------------------------------------------------------
(* Correctness.                                                            *)

Pcs == {"idle", "done", "take", "detach", "cancel", "await", "open", "publish",
        "attach", "spawn", "greet", "greeting"}

Operation == [pc : Pcs, req : {"start", "stop"}, s : Sessions \cup {None}]

\* An operation that uses a session has one: it neither calls a nil cancel nor waits
\* for, attaches or sends to a nil channel.
InHand ==
  \A p \in Stoppers :
    op[p].pc \in {"cancel", "await", "publish", "attach", "spawn", "greeting"} => op[p].s # None

WellTyped ==
  /\ cur \in Sessions \cup {None}
  /\ sink \in Sessions \cup {None}
  /\ opened \in 0..MaxRequests
  /\ cancelled \subseteq Sessions
  /\ broken \subseteq Sessions
  /\ pump \in [Sessions -> {"none", "waiting", "sending", "ended"}]
  /\ queue \in [Sessions -> 0..Capacity]
  /\ op \in [Stoppers -> Operation]
  /\ holding \in [Loggers -> Sessions \cup {None}]
  /\ down \in BOOLEAN
  /\ requests \in 0..MaxRequests
  /\ records \in 0..MaxRecords
  /\ timeouts \in 0..MaxTimeouts

\* Type correctness.
TypeOK == WellTyped /\ InHand

\* Session i has a pump that nobody has told to end.
Live(i) == pump[i] \in {"waiting", "sending"} /\ ~Over(i)

\* At most one session is live, also when a stop gave up waiting for its pump
\* and the next START does not wait for it again.
OneSession == \A i, j \in Sessions : Live(i) /\ Live(j) => i = j

\* Between requests the service and the sink agree: the sink is attached to the
\* session a later stop would end, and that session was not cancelled.  A stop
\* that gives up leaves neither behind.
SinkFollowsService ==
  (op["rpc"].pc = "idle" /\ ~down) =>
    /\ sink = cur
    /\ cur # None => cur \notin cancelled /\ pump[cur] # "none"

\* The service, its sink and the pumps speak of one session.
SessionsAgree == OneSession /\ SinkFollowsService

\* A stop does not have to give up: once it has cancelled the session the pump
\* ends, although master may never read what the pump is sending.
StopsReturn ==
  \A p \in Stoppers : op[p].pc = "await" ~> op[p].pc # "await"

\* No pump outlives the service, not even the one a START running concurrently
\* with Shutdown starts after Shutdown has looked for a session and found none.
PumpsEnd ==
  \A i \in Sessions : (down /\ pump[i] # "none") ~> pump[i] = "ended"

=============================================================================
