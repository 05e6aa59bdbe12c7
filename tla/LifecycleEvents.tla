--------------------------- MODULE LifecycleEvents ---------------------------
(***************************************************************************)
(* What master learns of the agent's life: RpcSession and Debouncer put    *)
(* together by service.go, rpc_push_event.go and aggregate.go.             *)
(*                                                                         *)
(* A registration submits "started" on the goroutine that serves master's  *)
(* requests, Shutdown submits "stopped" and then stops the debouncer.  The *)
(* debouncer's emit is a call to master, on the connection that Shutdown   *)
(* closes last, with five seconds of its own whatever contexts have been   *)
(* canceled; a Submit that emits does so before it returns.                *)
(***************************************************************************)
EXTENDS RpcSession, FiniteSets

VARIABLES
    n, keyOf, pending, armed, fired, calls, emitted, stopped, stopper,  \* Debouncer's
    told,       \* the pushes that have reached master
    mine        \* the event a runner, or its Shutdown, is submitting, or 0

eventVars == <<n, keyOf, pending, armed, fired, calls, emitted, stopped, stopper>>
allVars   == <<vars, eventVars, told, mine>>

(* Each registration but the first follows a failure.                      *)
D == INSTANCE Debouncer WITH
    Keys <- {"started", "stopped"}, NoKey <- "none", Window <- 1, MaxEvents <- MaxFailures + 2

Submitters == {"runner", "shutdown"}

AllInit == Init /\ D!Init /\ told = {} /\ mine = [s \in Submitters |-> 0]

-----------------------------------------------------------------------------
(* emitLifecycleEvent hands an event to the debouncer ... *)
Emit(s, type) ==
    /\ mine[s] = 0 /\ D!Submit(type)
    /\ mine' = [mine EXCEPT ![s] = n + 1]
    /\ UNCHANGED <<vars, told>>

(* ... and returns when it has been pushed, or buffered. *)
Emitted(s) ==
    /\ mine[s] # 0 /\ \A m \in calls : m.by = "submit" => m.ev # mine[s]
    /\ mine' = [mine EXCEPT ![s] = 0]

EmitStarted == At("rpc", "report") /\ Emit("runner", "started")
StartedEmitted ==
    /\ Emitted("runner") /\ ReportStarted
    /\ UNCHANGED <<eventVars, told>>

EmitStopped == shut["rpc"] = "report" /\ ~stopped /\ Emit("shutdown", "stopped")
(* "stopped" has been pushed, or buffered. *)
StopEvents ==
    /\ shut["rpc"] = "report" /\ Emitted("shutdown") /\ D!Stop
    /\ UNCHANGED <<vars, told>>

\* Seeded fault: Shutdown does not wait for the aggregates.
FlushedAtOnce == stopped

(* events().Stop() has returned. *)
Flushed == stopper = "returned"
EventsStopped == Flushed /\ ReportStopped /\ UNCHANGED <<eventVars, told, mine>>

-----------------------------------------------------------------------------
(* Pushes. *)

NoPayload == [field \in {} |-> 0]

\* Seeded fault: the count is taken for the number of repeats.
MergeAggregateLate(payload, count) ==
    IF count <= 2 THEN payload
    ELSE [field \in DOMAIN payload \cup {"aggregate_count"} |->
            IF field = "aggregate_count" THEN count ELSE payload[field]]

(* A payload that is a JSON object, as its fields; an absent one has none. *)
MergeAggregateCount(payload, count) ==
    IF count <= 1 THEN payload
    ELSE [field \in DOMAIN payload \cup {"aggregate_count"} |->
            IF field = "aggregate_count" THEN count ELSE payload[field]]

(* pushDebouncedEvent: lifecycle events have no payload of their own. *)
Payload(m) == MergeAggregateCount(NoPayload, m.count)

Push(m) ==
    /\ D!EmitDone(m) /\ conn = "open"
    /\ told' = told \cup {[ev |-> m.ev, covers |-> m.covers, payload |-> Payload(m)]}
    /\ UNCHANGED <<vars, mine>>

(* The call fails, times out or finds the connection closed. *)
PushLost(m) ==
    /\ D!EmitDone(m)
    /\ \/ /\ failures < MaxFailures /\ failures' = failures + 1
       \/ /\ conn = "closed" /\ UNCHANGED failures
    /\ UNCHANGED <<runVars, ctxVars, streamVars, requests, shutVars, told, mine>>

-----------------------------------------------------------------------------
PushEnds == \E m \in calls : Push(m) \/ PushLost(m)
EventRun == EmitStarted \/ StartedEmitted \/ EmitStopped \/ StopEvents \/ EventsStopped
Timers   == \E t \in 1 .. n : (D!Fire(t) \/ D!Flush(t)) /\ UNCHANGED <<vars, told, mine>>
StopReturns == D!StopReturn /\ UNCHANGED <<vars, told, mine>>

RunAlone  == RpcRun /\ ~At("rpc", "report")
ShutAlone == (\E r \in Runners : CancelRunner(r)) \/ CancelService \/ CloseConn

Session(A) == A /\ UNCHANGED <<eventVars, told, mine>>

(* The requests and the periodic pulls report nothing, and do not occur.   *)
AllNext ==
    \/ \E r \in Runners : Session(Begin(r)) \/ Session(Derive(r))
    \/ Session(RunAlone) \/ Session(Calls)
    \/ Session(Stop) \/ Session(ShutAlone) \/ Session(Break) \/ Session(BreakLeft)
    \/ EventRun \/ PushEnds \/ Timers \/ StopReturns

AllSpec == AllInit /\ [][AllNext]_allVars

-----------------------------------------------------------------------------
(* How often master counts what a push stands for.                         *)
Occurrences(p) == IF "aggregate_count" \in DOMAIN p.payload THEN p.payload["aggregate_count"] ELSE 1

(* Master counts every registration and the stop once: what a push says is *)
(* what it stands for, and no two stand for the same event.                *)
CountsReachMaster ==
    /\ \A p \in told : Occurrences(p) = Cardinality(p.covers)
    /\ \A p, q \in told : p # q => p.covers \cap q.covers = {}

(* Closing the connection cuts off no push that Shutdown answers for: the  *)
(* stop itself and the aggregates it found.  What may be lost is that of a *)
(* timer that came just before, and a registration that came too late.     *)
ClosingSparesTheStop ==
    conn = "closed" => \A m \in calls : m.by # "stop" /\ keyOf[m.ev] = "started"

=============================================================================
