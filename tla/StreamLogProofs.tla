-------------------------- MODULE StreamLogProofs --------------------------
(***************************************************************************)
(* That the service, its sink and the pumps speak of one session, for any  *)
(* capacity, loggers and number of requests, records and timeouts.         *)
(*                                                                         *)
(* SessionsAgree speaks of the moments between requests.  The              *)
(* strengthening says what holds at each place of a request: which session *)
(* may be live (Held), what the service and the sink know of it, and that  *)
(* a session about to be published is new.  A stop that gives up is past   *)
(* both the sink and cancel, which is why it does no harm.                 *)
(***************************************************************************)
EXTENDS StreamLog, TLAPS

Rpc == op["rpc"]

(* Only the RPC goroutine opens sessions, and each place that uses a       *)
(* session has one.                                                        *)
Placed ==
  /\ op["shutdown"].req = "stop"
  /\ op["shutdown"].pc \notin {"open", "publish", "attach", "spawn", "greet", "greeting"}
  /\ Rpc.pc # "done" /\ (Rpc.pc = "open" => Rpc.req = "start")
  /\ InHand

\* The request under way may still open a session.
Opens == Rpc.req = "start" /\ Rpc.pc \in {"take", "detach", "cancel", "await", "open"}

\* A request opens one session at most.
Counted == opened <= requests /\ (Opens => opened < requests)

\* What is not opened yet is nowhere.
Fresh ==
  /\ cur <= opened
  /\ \A p \in Stoppers : op[p].s <= opened
  /\ \A i \in Sessions : i > opened => pump[i] = "none" /\ i \notin cancelled

\* The session that may be live.
Held == IF Rpc.pc \in {"detach", "cancel"} THEN Rpc.s ELSE cur

\* What the service and the sink know at each place of a request.
Known ==
  /\ \A i \in Sessions : Live(i) => i = Held
  /\ Rpc.pc \in {"idle", "take", "greet", "greeting"} =>
       sink = cur /\ (cur # None => cur \notin cancelled /\ pump[cur] # "none")
  /\ Rpc.pc = "detach" => cur = None
  /\ Rpc.pc \in {"cancel", "await", "open", "publish"} => cur = None /\ sink = None
  /\ Rpc.pc \in {"publish", "attach", "spawn"} => Rpc.s \notin cancelled /\ pump[Rpc.s] = "none"
  /\ Rpc.pc \in {"attach", "spawn"} => cur = Rpc.s
  /\ Rpc.pc = "spawn" => sink = Rpc.s

\* Until Shutdown begins nobody else touches the session.
Agreed == ~down => op["shutdown"].pc = "idle" /\ Known

IInv == WellTyped /\ Placed /\ Counted /\ Fresh /\ Agreed

-----------------------------------------------------------------------------
(* Steps of an operation.                                                  *)

\* Goto moves one operation and leaves the rest of it alone.
LEMMA GotoStep ==
  ASSUME op \in [Stoppers -> Operation], NEW p \in Stoppers, NEW to \in Pcs, Goto(p, to)
  PROVE  /\ op' \in [Stoppers -> Operation]
         /\ op'[p].pc = to /\ op'[p].req = op[p].req /\ op'[p].s = op[p].s
         /\ \A q \in Stoppers \ {p} : op'[q] = op[q]
<1>1. op[p] \in Operation
  OBVIOUS
<1>2. op'[p] = [op[p] EXCEPT !.pc = to]
  BY DEF Goto
<1>3. op'[p] \in Operation
  BY <1>1, <1>2 DEF Operation
<1>4. op' \in [Stoppers -> Operation]
  BY <1>3 DEF Goto
<1> QED
  BY <1>1, <1>2, <1>4 DEF Goto, Operation

\* Finish ends one operation.
LEMMA FinishStep ==
  ASSUME op \in [Stoppers -> Operation], NEW p \in Stoppers, Finish(p)
  PROVE  /\ op' \in [Stoppers -> Operation]
         /\ op'[p].pc = IF p = "shutdown" THEN "done" ELSE "idle"
         /\ op'[p].req = "stop" /\ op'[p].s = None
         /\ \A q \in Stoppers \ {p} : op'[q] = op[q]
<1>1. op'[p] = [pc |-> IF p = "shutdown" THEN "done" ELSE "idle", req |-> "stop", s |-> None]
  BY DEF Finish, Idle
<1>2. op'[p] \in Operation
  BY <1>1 DEF Operation, Pcs
<1>3. op' \in [Stoppers -> Operation]
  BY <1>2 DEF Finish
<1> QED
  BY <1>1, <1>3 DEF Finish

\* What follows stopStreamLog either goes on to open a session or ends.
LEMMA StoppedStep ==
  ASSUME op \in [Stoppers -> Operation], NEW p \in Stoppers, Stopped(p)
  PROVE  /\ op' \in [Stoppers -> Operation]
         /\ \/ /\ op[p].req = "start" /\ op'[p].pc = "open"
               /\ op'[p].req = op[p].req /\ op'[p].s = op[p].s
            \/ /\ op'[p].pc = IF p = "shutdown" THEN "done" ELSE "idle"
               /\ op'[p].req = "stop" /\ op'[p].s = None
         /\ \A q \in Stoppers \ {p} : op'[q] = op[q]
<1>1. CASE op[p].req = "start"
  BY <1>1, GotoStep DEF Stopped, Pcs
<1>2. CASE op[p].req # "start"
  BY <1>2, FinishStep DEF Stopped
<1> QED
  BY <1>1, <1>2

-----------------------------------------------------------------------------
\* At the start nothing is opened and nobody is at work.
LEMMA InductiveInit == Init => IInv
<1> SUFFICES ASSUME Init PROVE IInv
  OBVIOUS
<1>1. op["rpc"] = Idle /\ op["shutdown"] = Idle
  BY DEF Init, Stoppers
<1>2. op \in [Stoppers -> Operation]
  <2>1. Idle \in Operation
    BY DEF Operation, Idle, Pcs
  <2> QED
    BY <2>1 DEF Init
<1>3. WellTyped
  <2>1. /\ pump \in [Sessions -> {"none", "waiting", "sending", "ended"}]
        /\ queue \in [Sessions -> 0..Capacity]
    BY CapacityAssumption DEF Init
  <2>2. holding \in [Loggers -> Sessions \cup {None}]
    BY DEF Init
  <2>3. cancelled \subseteq Sessions /\ broken \subseteq Sessions /\ down \in BOOLEAN
    BY DEF Init
  <2>4. /\ cur \in Sessions \cup {None} /\ sink \in Sessions \cup {None}
        /\ opened \in 0..MaxRequests
        /\ requests \in 0..MaxRequests /\ records \in 0..MaxRecords /\ timeouts \in 0..MaxTimeouts
    BY BoundAssumption DEF Init
  <2> QED
    BY <1>2, <2>1, <2>2, <2>3, <2>4 DEF WellTyped
<1>4. Placed /\ Counted
  BY <1>1 DEF Init, Placed, InHand, Counted, Opens, Rpc, Idle, Stoppers
<1>5. Fresh
  BY <1>1 DEF Init, Fresh, Idle, Stoppers, None, Sessions
<1>6. Known
  BY <1>1 DEF Init, Known, Rpc, Idle, Live, Held
<1> QED
  BY <1>1, <1>3, <1>4, <1>5, <1>6 DEF IInv, Agreed, Idle

USE CapacityAssumption, BoundAssumption

\* A request is taken up.
LEMMA RequestStep == ASSUME IInv, NEW req \in {"start", "stop"}, Request(req) PROVE IInv'
<1>1. /\ op'["rpc"].pc = "take" /\ op'["rpc"].req = req /\ op'["rpc"].s = None
      /\ op'["shutdown"] = op["shutdown"] /\ op' \in [Stoppers -> Operation]
  <2>1. op'["rpc"] = [Idle EXCEPT !.pc = "take", !.req = req] /\ op'["shutdown"] = op["shutdown"]
    BY DEF IInv, WellTyped, Request, Stoppers
  <2>2. op'["rpc"].pc = "take" /\ op'["rpc"].req = req /\ op'["rpc"].s = None
    BY <2>1 DEF Idle
  <2>3. op'["rpc"] \in Operation
    BY <2>1 DEF Idle, Operation, Pcs
  <2>4. op' \in [Stoppers -> Operation]
    BY <2>1, <2>3 DEF IInv, WellTyped, Request, Stoppers
  <2> QED
    BY <2>1, <2>2, <2>4
<1>2. WellTyped'
  BY <1>1 DEF IInv, WellTyped, Request, sessions
<1>3. Placed'
  BY <1>1 DEF IInv, Placed, InHand, Rpc, Stoppers
<1>6. Fresh'
  BY <1>1 DEF IInv, WellTyped, Fresh, Request, sessions, Stoppers, None
<1>5. Counted'
  BY <1>1 DEF IInv, WellTyped, Counted, Opens, Request, sessions, Rpc
<1>4. Agreed'
  BY <1>1 DEF IInv, Agreed, Known, Live, Over, Held, Request, sessions, Rpc
<1> QED
  BY <1>2, <1>3, <1>4, <1>5, <1>6 DEF IInv

\* Shutdown begins.
LEMMA ShutdownStep == ASSUME IInv, Shutdown PROVE IInv'
<1>0. "shutdown" \in Stoppers /\ "take" \in Pcs /\ op \in [Stoppers -> Operation]
  BY DEF Stoppers, Pcs, IInv, WellTyped
<1>1. /\ op' \in [Stoppers -> Operation] /\ op'["rpc"] = op["rpc"]
      /\ op'["shutdown"].pc = "take" /\ op'["shutdown"].req = op["shutdown"].req
      /\ op'["shutdown"].s = op["shutdown"].s
  BY <1>0, GotoStep DEF Shutdown, Stoppers
<1>2. WellTyped'
  BY <1>1 DEF IInv, WellTyped, Shutdown, sessions, counts
<1>3. Placed' /\ Counted' /\ Fresh'
  BY <1>1 DEF IInv, Placed, InHand, Counted, Opens, Fresh, Shutdown, sessions, counts, Rpc, Stoppers
<1>4. Agreed'
  BY DEF Agreed, Shutdown
<1> QED
  BY <1>2, <1>3, <1>4 DEF IInv

\* The session is taken out of the service.
LEMMA TakeStep == ASSUME IInv, NEW p \in Stoppers, Take(p) PROVE IInv'
<1>0. op[p] \in Operation /\ cur \in Sessions \cup {None}
  BY DEF IInv, WellTyped
<1>1. /\ op' \in [Stoppers -> Operation]
      /\ op'[p].pc = "detach" /\ op'[p].s = cur /\ op'[p].req = op[p].req
      /\ \A q \in Stoppers \ {p} : op'[q] = op[q]
  <2>1. op'[p] = [[op[p] EXCEPT !.s = cur] EXCEPT !.pc = "detach"]
    BY DEF Take, IInv, WellTyped
  <2>2. op'[p] \in Operation
    BY <2>1, <1>0 DEF Operation, Pcs
  <2>3. op' \in [Stoppers -> Operation]
    BY <2>2 DEF Take, IInv, WellTyped
  <2> QED
    BY <1>0, <2>1, <2>3 DEF Take, IInv, WellTyped, Operation
<1>2. WellTyped'
  BY <1>1 DEF IInv, WellTyped, Take, sessions, counts
<1>3. Placed' /\ Counted' /\ Fresh'
  BY <1>1 DEF IInv, WellTyped, Placed, InHand, Counted, Opens, Fresh, Take, sessions, counts, Rpc, Stoppers, None, Sessions
<1>4. Agreed'
  BY <1>1 DEF IInv, Agreed, Known, Live, Over, Held, Take, sessions, Rpc, Stoppers
<1> QED
  BY <1>2, <1>3, <1>4 DEF IInv

\* The sink is detached.
LEMMA DetachStep == ASSUME IInv, NEW p \in Stoppers, Detach(p) PROVE IInv'
<1>0. op \in [Stoppers -> Operation] /\ op[p].pc = "detach"
  BY DEF IInv, WellTyped, Detach
<1>1. CASE op[p].s = None
  <2>1. Stopped(p)
    BY <1>1 DEF Detach, HasSession
  <2>2. WellTyped'
    BY <1>0, <2>1, StoppedStep DEF IInv, WellTyped, Detach, Detached, sessions, counts
  <2>3. Placed' /\ Counted' /\ Fresh'
    BY <1>0, <2>1, StoppedStep
    DEF IInv, WellTyped, Placed, InHand, Counted, Opens, Fresh, Detach, sessions, counts, Rpc, Stoppers, None, Sessions
  <2>4. Agreed'
    BY <1>0, <1>1, <2>1, StoppedStep
    DEF IInv, Agreed, Known, Live, Over, Held, Detach, Detached, sessions, Rpc, Stoppers, Sessions, None
  <2> QED
    BY <2>2, <2>3, <2>4 DEF IInv
<1>2. CASE op[p].s # None
  <2>1. Goto(p, "cancel") /\ "cancel" \in Pcs
    BY <1>2 DEF Detach, HasSession, Pcs
  <2>2. WellTyped'
    BY <1>0, <2>1, GotoStep DEF IInv, WellTyped, Detach, Detached, sessions, counts
  <2>3. Placed' /\ Counted' /\ Fresh'
    BY <1>0, <1>2, <2>1, GotoStep
    DEF IInv, WellTyped, Placed, InHand, Counted, Opens, Fresh, Detach, sessions, counts, Rpc, Stoppers, None, Sessions
  <2>4. Agreed'
    BY <1>0, <2>1, GotoStep
    DEF IInv, Agreed, Known, Live, Over, Held, Detach, Detached, sessions, Rpc, Stoppers
  <2> QED
    BY <2>2, <2>3, <2>4 DEF IInv
<1> QED
  BY <1>1, <1>2

\* The session's cancel is called.
LEMMA CancelStep == ASSUME IInv, NEW p \in Stoppers, Cancel(p) PROVE IInv'
<1>0. op \in [Stoppers -> Operation] /\ op[p] \in Operation
  BY DEF IInv, WellTyped
<1>1. Goto(p, "await") /\ "await" \in Pcs
  BY DEF Cancel, Pcs
<1>7. op[p].s \in Sessions /\ op[p].s <= opened
  BY <1>0 DEF IInv, Placed, InHand, Fresh, Cancel, Operation
<1>2. WellTyped'
  BY <1>0, <1>1, <1>7, GotoStep DEF IInv, WellTyped, Cancel, Cancelled, Operation, sessions, counts
<1>3. Placed'
  BY <1>0, <1>1, <1>7, GotoStep DEF IInv, Placed, InHand, Cancel, Rpc, Stoppers
<1>4. Counted'
  BY <1>0, <1>1, <1>7, GotoStep DEF IInv, WellTyped, Counted, Opens, Placed, InHand, Cancel, sessions, counts, Rpc, Stoppers
<1>5. Fresh'
  <2>1. cur' <= opened' /\ \A q \in Stoppers : op'[q].s <= opened'
    BY <1>0, <1>1, GotoStep DEF IInv, Fresh, Cancel
  <2>2. \A i \in Sessions : i > opened' => pump'[i] = "none" /\ i \notin cancelled'
    BY <1>7 DEF IInv, WellTyped, Fresh, Cancel, Cancelled, Sessions
  <2> QED
    BY <2>1, <2>2 DEF Fresh
<1>6. Agreed'
  BY <1>0, <1>1, <1>7, GotoStep
  DEF IInv, WellTyped, Agreed, Known, Live, Over, Held, Fresh, Placed, InHand, Cancel, Cancelled, Operation, sessions, counts, Rpc, Stoppers, Sessions, None
<1> QED
  BY <1>2, <1>3, <1>4, <1>5, <1>6 DEF IInv

\* The pump has ended.
LEMMA AwaitStep == ASSUME IInv, NEW p \in Stoppers, Await(p) PROVE IInv'
<1>0. op \in [Stoppers -> Operation] /\ op[p] \in Operation
  BY DEF IInv, WellTyped
<1>1. Stopped(p)
  BY DEF Await
<1>2. WellTyped'
  BY <1>0, <1>1, StoppedStep DEF IInv, WellTyped, Await, sessions, counts
<1>3. Placed'
  BY <1>0, <1>1, StoppedStep DEF IInv, Placed, InHand, Await, Rpc, Stoppers
<1>4. Counted'
  BY <1>0, <1>1, StoppedStep DEF IInv, WellTyped, Counted, Opens, Placed, InHand, Await, sessions, counts, Rpc, Stoppers
<1>5. Fresh'
  BY <1>0, <1>1, StoppedStep DEF IInv, WellTyped, Fresh, Placed, InHand, Await, sessions, counts, Stoppers, None
<1>6. Agreed'
  BY <1>0, <1>1, StoppedStep
  DEF IInv, WellTyped, Agreed, Known, Live, Over, Held, Fresh, Placed, InHand, Await, sessions, counts, Rpc, Stoppers, Sessions, None
<1> QED
  BY <1>2, <1>3, <1>4, <1>5, <1>6 DEF IInv

\* The stop gives up.
LEMMA GiveUpStep == ASSUME IInv, NEW p \in Stoppers, GiveUp(p) PROVE IInv'
<1>0. op \in [Stoppers -> Operation] /\ op[p] \in Operation
  BY DEF IInv, WellTyped
<1>1. Finish(p)
  BY DEF GiveUp
<1>2. WellTyped'
  BY <1>0, <1>1, FinishStep DEF IInv, WellTyped, GiveUp, sessions, counts
<1>3. Placed'
  BY <1>0, <1>1, FinishStep DEF IInv, Placed, InHand, GiveUp, Rpc, Stoppers
<1>4. Counted'
  BY <1>0, <1>1, FinishStep DEF IInv, WellTyped, Counted, Opens, Placed, InHand, GiveUp, sessions, counts, Rpc, Stoppers
<1>5. Fresh'
  BY <1>0, <1>1, FinishStep DEF IInv, WellTyped, Fresh, Placed, InHand, GiveUp, sessions, counts, Stoppers, None
<1>6. Agreed'
  BY <1>0, <1>1, FinishStep
  DEF IInv, WellTyped, Agreed, Known, Live, Over, Held, Fresh, Placed, InHand, GiveUp, sessions, counts, Rpc, Stoppers, Sessions, None
<1> QED
  BY <1>2, <1>3, <1>4, <1>5, <1>6 DEF IInv

\* No stream is opened.
LEMMA OpenFailedStep == ASSUME IInv, NEW p \in Stoppers, OpenFailed(p) PROVE IInv'
<1>0. op \in [Stoppers -> Operation] /\ op[p] \in Operation
  BY DEF IInv, WellTyped
<1>1. Finish(p)
  BY DEF OpenFailed
<1>2. WellTyped'
  BY <1>0, <1>1, FinishStep DEF IInv, WellTyped, OpenFailed, sessions, counts
<1>3. Placed'
  BY <1>0, <1>1, FinishStep DEF IInv, Placed, InHand, OpenFailed, Rpc, Stoppers
<1>4. Counted'
  BY <1>0, <1>1, FinishStep DEF IInv, WellTyped, Counted, Opens, Placed, InHand, OpenFailed, sessions, counts, Rpc, Stoppers
<1>5. Fresh'
  BY <1>0, <1>1, FinishStep DEF IInv, WellTyped, Fresh, Placed, InHand, OpenFailed, sessions, counts, Stoppers, None
<1>6. Agreed'
  BY <1>0, <1>1, FinishStep
  DEF IInv, WellTyped, Agreed, Known, Live, Over, Held, Fresh, Placed, InHand, OpenFailed, sessions, counts, Rpc, Stoppers, Sessions, None
<1> QED
  BY <1>2, <1>3, <1>4, <1>5, <1>6 DEF IInv

\* The new session is made known to the service.
LEMMA PublishStep == ASSUME IInv, NEW p \in Stoppers, Publish(p) PROVE IInv'
<1>0. op \in [Stoppers -> Operation] /\ op[p] \in Operation
  BY DEF IInv, WellTyped
<1>1. Goto(p, "attach") /\ "attach" \in Pcs
  BY DEF Publish, Pcs
<1>2. WellTyped'
  BY <1>0, <1>1, GotoStep DEF IInv, WellTyped, Publish, Operation, sessions, counts
<1>3. Placed'
  BY <1>0, <1>1, GotoStep DEF IInv, Placed, InHand, Publish, Rpc, Stoppers
<1>4. Counted'
  BY <1>0, <1>1, GotoStep DEF IInv, WellTyped, Counted, Opens, Placed, InHand, Publish, sessions, counts, Rpc, Stoppers
<1>5. Fresh'
  BY <1>0, <1>1, GotoStep DEF IInv, WellTyped, Fresh, Placed, InHand, Publish, Operation, sessions, counts, Stoppers, None
<1>6. Agreed'
  BY <1>0, <1>1, GotoStep
  DEF IInv, WellTyped, Agreed, Known, Live, Over, Held, Fresh, Placed, InHand, Publish, Operation, sessions, counts, Rpc, Stoppers, Sessions, None
<1> QED
  BY <1>2, <1>3, <1>4, <1>5, <1>6 DEF IInv

\* The new session's channel is attached to the sink.
LEMMA AttachStep == ASSUME IInv, NEW p \in Stoppers, Attach(p) PROVE IInv'
<1>0. op \in [Stoppers -> Operation] /\ op[p] \in Operation
  BY DEF IInv, WellTyped
<1>1. Goto(p, "spawn") /\ "spawn" \in Pcs
  BY DEF Attach, Pcs
<1>2. WellTyped'
  BY <1>0, <1>1, GotoStep DEF IInv, WellTyped, Attach, Operation, sessions, counts
<1>3. Placed'
  BY <1>0, <1>1, GotoStep DEF IInv, Placed, InHand, Attach, Rpc, Stoppers
<1>4. Counted'
  BY <1>0, <1>1, GotoStep DEF IInv, WellTyped, Counted, Opens, Placed, InHand, Attach, sessions, counts, Rpc, Stoppers
<1>5. Fresh'
  BY <1>0, <1>1, GotoStep DEF IInv, WellTyped, Fresh, Placed, InHand, Attach, Operation, sessions, counts, Stoppers, None
<1>6. Agreed'
  BY <1>0, <1>1, GotoStep
  DEF IInv, WellTyped, Agreed, Known, Live, Over, Held, Fresh, Placed, InHand, Attach, Operation, sessions, counts, Rpc, Stoppers, Sessions, None
<1> QED
  BY <1>2, <1>3, <1>4, <1>5, <1>6 DEF IInv

\* The new session's pump is started.
LEMMA SpawnStep == ASSUME IInv, NEW p \in Stoppers, Spawn(p) PROVE IInv'
<1>0. op \in [Stoppers -> Operation] /\ op[p] \in Operation
  BY DEF IInv, WellTyped
<1>1. Goto(p, "greet") /\ "greet" \in Pcs
  BY DEF Spawn, Pcs
<1>7. op[p].s \in Sessions /\ op[p].s <= opened
  BY <1>0 DEF IInv, Placed, InHand, Fresh, Spawn, Operation
<1>2. WellTyped'
  BY <1>0, <1>1, <1>7, GotoStep DEF IInv, WellTyped, Spawn, Operation, sessions, counts
<1>3. Placed'
  BY <1>0, <1>1, <1>7, GotoStep DEF IInv, Placed, InHand, Spawn, Rpc, Stoppers
<1>4. Counted'
  BY <1>0, <1>1, <1>7, GotoStep DEF IInv, WellTyped, Counted, Opens, Placed, InHand, Spawn, sessions, counts, Rpc, Stoppers
<1>5. Fresh'
  <2>1. cur' <= opened' /\ \A q \in Stoppers : op'[q].s <= opened'
    BY <1>0, <1>1, GotoStep DEF IInv, Fresh, Spawn
  <2>2. \A i \in Sessions : i > opened' => pump'[i] = "none" /\ i \notin cancelled'
    BY <1>7 DEF IInv, WellTyped, Fresh, Spawn, Sessions
  <2> QED
    BY <2>1, <2>2 DEF Fresh
<1>6. Agreed'
  BY <1>0, <1>1, <1>7, GotoStep
  DEF IInv, WellTyped, Agreed, Known, Live, Over, Held, Fresh, Placed, InHand, Spawn, Operation, sessions, counts, Rpc, Stoppers, Sessions, None
<1> QED
  BY <1>2, <1>3, <1>4, <1>5, <1>6 DEF IInv

\* The first message has been sent.
LEMMA GreetedStep == ASSUME IInv, NEW p \in Stoppers, Greeted(p) PROVE IInv'
<1>0. op \in [Stoppers -> Operation] /\ op[p] \in Operation
  BY DEF IInv, WellTyped
<1>1. Finish(p)
  BY DEF Greeted
<1>7. op[p].s \in Sessions /\ op[p].s <= opened
  BY <1>0 DEF IInv, Placed, InHand, Fresh, Greeted, Operation
<1>2. WellTyped'
  BY <1>0, <1>1, <1>7, FinishStep DEF IInv, WellTyped, Greeted, Operation, Send, sessions, counts
<1>3. Placed'
  BY <1>0, <1>1, <1>7, FinishStep DEF IInv, Placed, InHand, Greeted, Rpc, Stoppers
<1>4. Counted'
  BY <1>0, <1>1, <1>7, FinishStep DEF IInv, WellTyped, Counted, Opens, Placed, InHand, Greeted, sessions, counts, Rpc, Stoppers
<1>5. Fresh'
  BY <1>0, <1>1, <1>7, FinishStep DEF IInv, WellTyped, Fresh, Placed, InHand, Greeted, Operation, Send, sessions, counts, Stoppers, None
<1>6. Agreed'
  BY <1>0, <1>1, <1>7, FinishStep
  DEF IInv, WellTyped, Agreed, Known, Live, Over, Held, Fresh, Placed, InHand, Greeted, Operation, Send, sessions, counts, Rpc, Stoppers, Sessions, None
<1> QED
  BY <1>2, <1>3, <1>4, <1>5, <1>6 DEF IInv

\* A stream is opened.
LEMMA OpenStep == ASSUME IInv, NEW p \in Stoppers, Open(p) PROVE IInv'
<1>0. /\ op \in [Stoppers -> Operation] /\ op[p] \in Operation
      /\ opened \in 0..MaxRequests /\ requests \in 0..MaxRequests
  BY DEF IInv, WellTyped
<1>1. p = "rpc"
  BY DEF IInv, Placed, InHand, Stoppers, Open
<1>2. /\ op'[p].pc = "publish" /\ op'[p].req = op[p].req /\ op'[p].s = opened + 1
      /\ \A q \in Stoppers \ {p} : op'[q] = op[q]
  BY <1>0 DEF Open, Operation
<1>3. opened + 1 \in Sessions /\ opened' = opened + 1 /\ opened < requests
  BY <1>0, <1>1 DEF IInv, Placed, InHand, Counted, Opens, Open, Rpc, Sessions
<1>4. WellTyped'
  <2>1. op'[p] \in Operation
    BY <1>0, <1>3 DEF Open, Operation, Pcs
  <2>2. op' \in [Stoppers -> Operation]
    BY <1>0, <2>1 DEF Open
  <2> QED
    BY <1>3, <2>2 DEF IInv, WellTyped, Open, counts, Sessions
<1>5. Placed'
  BY <1>0, <1>1, <1>2 DEF IInv, Placed, InHand, Open, Rpc, Stoppers, None
<1>6. Counted'
  BY <1>0, <1>1, <1>2, <1>3 DEF Counted, Opens, Open, counts, Rpc
<1>7. Fresh'
  <2>1. cur' <= opened' /\ \A q \in Stoppers : op'[q].s <= opened'
    <3>1. \A q \in Stoppers : op[q].s \in Nat /\ op[q].s <= opened
      BY <1>0 DEF IInv, Fresh, None, Sessions, Operation
    <3>2. \A q \in Stoppers : op'[q].s <= opened + 1
      BY <1>0, <1>2, <3>1
    <3>3. cur \in Nat /\ cur <= opened /\ cur' = cur
      BY DEF IInv, WellTyped, Fresh, Open, None, Sessions
    <3> QED
      BY <1>0, <1>3, <3>2, <3>3
  <2>2. \A i \in Sessions : i > opened' => pump'[i] = "none" /\ i \notin cancelled'
    BY <1>0, <1>3 DEF IInv, Fresh, Open, Sessions
  <2> QED
    BY <2>1, <2>2 DEF Fresh
<1>8. Agreed'
  <2>1. pump[opened + 1] = "none" /\ opened + 1 \notin cancelled
    BY <1>0, <1>3 DEF IInv, Fresh
  <2>2. op'["rpc"].pc = "publish" /\ op'["rpc"].s = opened + 1 /\ op'["shutdown"] = op["shutdown"]
    BY <1>1, <1>2 DEF Stoppers
  <2>3. op["rpc"].pc = "open"
    BY <1>1 DEF Open
  <2> QED
    <3>1. ~down /\ ~down' /\ UNCHANGED <<cur, sink, cancelled, pump>>
      BY DEF Open
    <3>2. op'["shutdown"].pc = "idle" /\ Known
      BY <2>2, <3>1 DEF IInv, Agreed
    <3>3. cur = None /\ sink = None /\ \A i \in Sessions : ~Live(i)
      BY <2>3, <3>2 DEF Known, Held, Rpc, None, Sessions
    <3>4. \A i \in Sessions : ~Live(i)'
      BY <3>1, <3>3 DEF Live, Over
    <3>5. Known'
      BY <2>1, <2>2, <3>1, <3>3, <3>4 DEF Known, Rpc
    <3> QED
      BY <3>1, <3>2, <3>5 DEF Agreed
<1> QED
  BY <1>4, <1>5, <1>6, <1>7, <1>8 DEF IInv

\* The first message is about to be sent, or there is no session to send it to.
LEMMA GreetStep == ASSUME IInv, NEW p \in Stoppers, Greet(p) PROVE IInv'
<1>0. /\ op \in [Stoppers -> Operation] /\ op[p] \in Operation
      /\ cur \in Sessions \cup {None}
  BY DEF IInv, WellTyped
<1>1. p = "rpc"
  BY DEF IInv, Placed, InHand, Stoppers, Greet
<1>2. CASE cur = None
  <2>1. Finish(p)
    BY <1>2 DEF Greet
  <2>2. WellTyped'
    BY <1>0, <2>1, FinishStep DEF IInv, WellTyped, Greet, sessions, counts
  <2>3. Placed' /\ Counted' /\ Fresh'
    BY <1>0, <1>1, <2>1, FinishStep
    DEF IInv, WellTyped, Placed, InHand, Counted, Opens, Fresh, Greet, sessions, counts, Rpc, Stoppers, None
  <2>4. Agreed'
    BY <1>0, <1>1, <2>1, FinishStep
    DEF IInv, Agreed, Known, Live, Over, Held, Greet, sessions, Rpc, Stoppers
  <2> QED
    BY <2>2, <2>3, <2>4 DEF IInv
<1>3. CASE cur # None
  <2>1. op'[p] = [[op[p] EXCEPT !.s = cur] EXCEPT !.pc = "greeting"]
    BY <1>0, <1>3 DEF Greet
  <2>2. op'[p] \in Operation
    BY <1>0, <2>1 DEF Operation, Pcs
  <2>3. op' \in [Stoppers -> Operation]
    BY <1>0, <1>3, <2>2 DEF Greet
  <2>4. /\ op'[p].pc = "greeting" /\ op'[p].req = op[p].req /\ op'[p].s = cur
        /\ \A q \in Stoppers \ {p} : op'[q] = op[q]
    BY <1>0, <1>3, <2>1 DEF Greet, Operation
  <2>5. WellTyped'
    BY <2>3 DEF IInv, WellTyped, Greet, sessions, counts
  <2>6. Placed' /\ Counted' /\ Fresh'
    BY <1>1, <1>3, <2>4
    DEF IInv, WellTyped, Placed, InHand, Counted, Opens, Fresh, Greet, sessions, counts, Rpc, Stoppers
  <2>7. Agreed'
    BY <1>1, <2>4 DEF IInv, Agreed, Known, Live, Over, Held, Greet, sessions, Rpc, Stoppers
  <2> QED
    BY <2>5, <2>6, <2>7 DEF IInv
<1> QED
  BY <1>2, <1>3

\* A pump takes a record.
LEMMA PumpTakesStep == ASSUME IInv, NEW i \in Sessions, PumpTakes(i) PROVE IInv'
<1>1. WellTyped'
  BY DEF IInv, WellTyped, PumpTakes, counts
<1>2. Placed' /\ Counted'
  BY DEF IInv, Placed, InHand, Counted, Opens, Rpc, PumpTakes, counts
<1>3. Fresh'
  BY DEF IInv, WellTyped, Fresh, PumpTakes
<1>4. Agreed'
  BY DEF IInv, WellTyped, Agreed, Known, Live, Over, Held, Placed, InHand, Stoppers, Rpc, PumpTakes
<1> QED
  BY <1>1, <1>2, <1>3, <1>4 DEF IInv

\* A pump's record is sent.
LEMMA PumpSentStep == ASSUME IInv, NEW i \in Sessions, PumpSent(i) PROVE IInv'
<1>1. WellTyped'
  BY DEF IInv, WellTyped, PumpSent, counts
<1>2. Placed' /\ Counted'
  BY DEF IInv, Placed, InHand, Counted, Opens, Rpc, PumpSent, counts
<1>3. Fresh'
  BY DEF IInv, WellTyped, Fresh, PumpSent
<1>4. Agreed'
  BY DEF IInv, WellTyped, Agreed, Known, Live, Over, Held, Placed, InHand, Stoppers, Rpc, PumpSent
<1> QED
  BY <1>1, <1>2, <1>3, <1>4 DEF IInv

\* A pump's send fails.
LEMMA PumpFailedStep == ASSUME IInv, NEW i \in Sessions, PumpFailed(i) PROVE IInv'
<1>1. WellTyped'
  BY DEF IInv, WellTyped, PumpFailed, counts
<1>2. Placed' /\ Counted'
  BY DEF IInv, Placed, InHand, Counted, Opens, Rpc, PumpFailed, counts
<1>3. Fresh'
  BY DEF IInv, WellTyped, Fresh, PumpFailed
<1>4. Agreed'
  BY DEF IInv, WellTyped, Agreed, Known, Live, Over, Held, Placed, InHand, Stoppers, Rpc, PumpFailed
<1> QED
  BY <1>1, <1>2, <1>3, <1>4 DEF IInv

\* A pump quits.
LEMMA PumpQuitStep == ASSUME IInv, NEW i \in Sessions, PumpQuit(i) PROVE IInv'
<1>1. WellTyped'
  BY DEF IInv, WellTyped, PumpQuit, counts
<1>2. Placed' /\ Counted'
  BY DEF IInv, Placed, InHand, Counted, Opens, Rpc, PumpQuit, counts
<1>3. Fresh'
  BY DEF IInv, WellTyped, Fresh, PumpQuit
<1>4. Agreed'
  BY DEF IInv, WellTyped, Agreed, Known, Live, Over, Held, Placed, InHand, Stoppers, Rpc, PumpQuit
<1> QED
  BY <1>1, <1>2, <1>3, <1>4 DEF IInv

\* Master ends a stream.
LEMMA BreakStep == ASSUME IInv, NEW i \in Sessions, Break(i) PROVE IInv'
<1>1. WellTyped'
  BY DEF IInv, WellTyped, Break, counts
<1>2. Placed' /\ Counted'
  BY DEF IInv, Placed, InHand, Counted, Opens, Rpc, Break, counts
<1>3. Fresh'
  BY DEF IInv, WellTyped, Fresh, Break
<1>4. Agreed'
  BY DEF IInv, WellTyped, Agreed, Known, Live, Over, Held, Placed, InHand, Stoppers, Rpc, Break
<1> QED
  BY <1>1, <1>2, <1>3, <1>4 DEF IInv

\* A logger reads the attached channel.
LEMMA LogStep == ASSUME IInv, NEW g \in Loggers, Log(g) PROVE IInv'
<1>1. WellTyped'
  BY DEF IInv, WellTyped, Log, Send, sessions, counts
<1>2. Placed' /\ Counted' /\ Fresh'
  BY DEF IInv, Placed, InHand, Counted, Opens, Fresh, Rpc, Log, sessions, counts
<1>3. Agreed'
  BY DEF IInv, Agreed, Known, Live, Over, Held, Rpc, Log, sessions
<1> QED
  BY <1>1, <1>2, <1>3 DEF IInv

\* A logger sends to the channel it has read.
LEMMA ForwardStep == ASSUME IInv, NEW g \in Loggers, Forward(g) PROVE IInv'
<1>1. WellTyped'
  BY DEF IInv, WellTyped, Forward, Send, sessions, counts
<1>2. Placed' /\ Counted' /\ Fresh'
  BY DEF IInv, Placed, InHand, Counted, Opens, Fresh, Rpc, Forward, sessions, counts
<1>3. Agreed'
  BY DEF IInv, Agreed, Known, Live, Over, Held, Rpc, Forward, sessions
<1> QED
  BY <1>1, <1>2, <1>3 DEF IInv

-----------------------------------------------------------------------------
\* Every step keeps the strengthening.
LEMMA InductiveStep == IInv /\ [Next]_vars => IInv'
<1> SUFFICES ASSUME IInv, [Next]_vars PROVE IInv'
  OBVIOUS
<1>1. ASSUME NEW req \in {"start", "stop"}, Request(req) PROVE IInv'
  BY <1>1, RequestStep
<1>2. CASE Shutdown
  BY <1>2, ShutdownStep
<1>3. ASSUME NEW p \in Stoppers, Step(p) PROVE IInv'
  BY <1>3, TakeStep, DetachStep, CancelStep, AwaitStep, OpenStep, OpenFailedStep, PublishStep,
     AttachStep, SpawnStep, GreetStep, GreetedStep DEF Step
<1>4. ASSUME NEW p \in Stoppers, GiveUp(p) PROVE IInv'
  BY <1>4, GiveUpStep
<1>5. ASSUME NEW i \in Sessions, PumpStep(i) \/ PumpSent(i) \/ Break(i) PROVE IInv'
  BY <1>5, PumpTakesStep, PumpFailedStep, PumpQuitStep, PumpSentStep, BreakStep DEF PumpStep
<1>6. ASSUME NEW g \in Loggers, Log(g) \/ Forward(g) PROVE IInv'
  BY <1>6, LogStep, ForwardStep
<1>7. CASE UNCHANGED vars
  BY <1>7 DEF vars, sessions, counts, IInv, WellTyped, Placed, InHand, Counted, Opens, Fresh, Agreed, Known,
     Live, Over, Held, Rpc
<1> QED
  BY <1>1, <1>2, <1>3, <1>4, <1>5, <1>6, <1>7 DEF Next

\* The strengthening implies the property: between requests Held is cur.
LEMMA InductiveGoal == IInv => SessionsAgree
<1> SUFFICES ASSUME IInv PROVE SessionsAgree
  OBVIOUS
<1>1. OneSession
  BY DEF IInv, Agreed, Known, OneSession, Live, Over
<1>2. SinkFollowsService
  BY DEF IInv, Agreed, Known, SinkFollowsService, Rpc
<1> QED
  BY <1>1, <1>2 DEF SessionsAgree

\* Every state has the types of TypeOK: no channel of a session ever holds more
\* records than fit, however late a logger sends, and startStreamLog, stopStreamLog
\* and writeStreamLog never use a session they do not have.
THEOREM TypeCorrect == Spec => []TypeOK
<1>1. Init => IInv
  BY InductiveInit
<1>2. IInv /\ [Next]_vars => IInv'
  BY InductiveStep
<1>3. IInv => TypeOK
  BY DEF IInv, Placed, TypeOK
<1> QED
  BY <1>1, <1>2, <1>3, PTL DEF Spec

\* One session is live at most, and between requests the service and the sink
\* hold that one, whatever stops have given up before.
THEOREM AlwaysAgree == Spec => []SessionsAgree
<1>1. Init => IInv
  BY InductiveInit
<1>2. IInv /\ [Next]_vars => IInv'
  BY InductiveStep
<1>3. IInv => SessionsAgree
  BY InductiveGoal
<1> QED
  BY <1>1, <1>2, <1>3, PTL DEF Spec

=============================================================================
