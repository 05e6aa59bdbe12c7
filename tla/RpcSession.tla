----------------------------- MODULE RpcSession -----------------------------
(***************************************************************************)
(* The two runners of cmd/frppc/runners and the stream of                  *)
(* frpcclient/rpc_handler.go.  Each runner first sees to it that the       *)
(* initial pull has been made, then derives a context of its own from the  *)
(* service's.  The RPC runner opens a stream to master, registers, serves  *)
(* the requests one after the other, and starts again three seconds after  *)
(* the stream was lost; the pull runner pulls at every tick.  The          *)
(* framework's Shutdown cancels the runners' contexts and shuts the        *)
(* service down, at any moment and in any order.                           *)
(*                                                                         *)
(* What a request or a pull does to the tunnels is TunnelSync's, what the  *)
(* reported events become is Debouncer's.                                  *)
(***************************************************************************)
EXTENDS Integers

CONSTANTS
    MaxFailures,   \* bound on refused connections, rejections and broken streams
    MaxRequests    \* bound on master's requests

ASSUME BoundAssumption == MaxFailures \in Nat /\ MaxRequests \in Nat

Runners == {"rpc", "pull"}

VARIABLES
    init,       \* initOnce: "no", the runner that is pulling, or "done"
    pc,         \* where each runner is
    derived,    \* r.cancel is set: the runner has a context
    canceled,   \* ... which r.cancel has canceled
    serviceCtx, \* the service's context: "live" or "canceled"
    conn,       \* the connection to master: "open" or "closed"
    stream,     \* the stream being set up or served: none, open, over
    left,       \* streams whose registration was rejected, still open
    inbox,      \* requests on the stream that are not received
    failures,   \* failures so far
    requests,   \* requests so far
    stopping,   \* the framework is shutting down
    shut        \* where each runner's Shutdown is

runVars    == <<init, pc, derived>>
ctxVars    == <<canceled, serviceCtx, conn>>
streamVars == <<stream, left, inbox>>
countVars  == <<failures, requests>>
shutVars   == <<stopping, shut>>
vars == <<runVars, ctxVars, streamVars, countVars, shutVars>>

RpcPlaces  == {"new", "init", "check", "connect", "register", "registering", "report",
               "serve", "recv", "handle", "reply", "lost", "delay", "returned"}
PullPlaces == {"new", "init", "wait", "pull", "returned"}

(* Type correctness; no runner's cancel is called before it is set.        *)
TypeOK ==
    /\ init \in Runners \cup {"no", "done"}
    /\ pc \in [Runners -> RpcPlaces \cup PullPlaces]
    /\ pc["rpc"] \in RpcPlaces /\ pc["pull"] \in PullPlaces
    /\ derived \in [Runners -> BOOLEAN] /\ canceled \in [Runners -> BOOLEAN]
    /\ \A r \in Runners : canceled[r] => derived[r]
    /\ serviceCtx \in {"live", "canceled"} /\ conn \in {"open", "closed"}
    /\ stream \in {"none", "open", "over"} /\ left \in 0 .. MaxFailures
    /\ inbox \in 0 .. MaxRequests
    /\ failures \in 0 .. MaxFailures /\ requests \in 0 .. MaxRequests
    /\ stopping \in BOOLEAN
    /\ shut \in [Runners -> {"no", "report", "service", "close", "done"}]

Init ==
    /\ init = "no" /\ pc = [r \in Runners |-> "new"]
    /\ derived = [r \in Runners |-> FALSE] /\ canceled = [r \in Runners |-> FALSE]
    /\ serviceCtx = "live" /\ conn = "open"
    /\ stream = "none" /\ left = 0 /\ inbox = 0
    /\ failures = 0 /\ requests = 0
    /\ stopping = FALSE /\ shut = [r \in Runners |-> "no"]

\* Seeded fault: the context does not descend from the service's.
DoneOwn(r) == canceled[r]

(* The runner's ctx.Err() is not nil. *)
Done(r) == canceled[r] \/ serviceCtx = "canceled"

Goto(r, place) == pc' = [pc EXCEPT ![r] = place]
At(r, place)   == pc[r] = place

-----------------------------------------------------------------------------
(* Run begins: EnsureInitialized makes the initial pull, or waits for it. *)
Begin(r) ==
    /\ At(r, "new") /\ Goto(r, "init")
    /\ init' = IF init = "no" THEN r ELSE init
    /\ UNCHANGED <<derived, ctxVars, streamVars, countVars, shutVars>>

(* The initial pull returns, with or without an error. *)
Pulled ==
    /\ init \in Runners /\ init' = "done"
    /\ UNCHANGED <<pc, derived, ctxVars, streamVars, countVars, shutVars>>

\* Seeded fault: a flag in place of the sync.Once.
ReadyBegun == init # "no"

(* initOnce.Do returns. *)
Ready == init = "done"

Derive(r) ==
    /\ At(r, "init") /\ Ready
    /\ Goto(r, IF r = "rpc" THEN "check" ELSE "wait")
    /\ derived' = [derived EXCEPT ![r] = TRUE]
    /\ UNCHANGED <<init, ctxVars, streamVars, countVars, shutVars>>

-----------------------------------------------------------------------------
(* The RPC runner. *)

RpcStep(from, to) ==
    /\ At("rpc", from) /\ Goto("rpc", to)
    /\ UNCHANGED <<init, derived, ctxVars, shutVars>>
RpcLocal == UNCHANGED <<streamVars, countVars>>

(* The select at the head of the loop. *)
Check == RpcStep("check", IF Done("rpc") THEN "returned" ELSE "connect") /\ RpcLocal

Connected ==
    /\ RpcStep("connect", "register") /\ ~Done("rpc") /\ conn = "open"
    /\ stream' = "open" /\ inbox' = 0 /\ UNCHANGED <<left, countVars>>

(* A call fails by itself, which is counted, or because of the context or  *)
(* the closed connection.                                                  *)
Fails ==
    \/ /\ failures < MaxFailures /\ failures' = failures + 1
    \/ /\ Done("rpc") \/ conn = "closed"
       /\ UNCHANGED failures
ConnectFailed == RpcStep("connect", "lost") /\ Fails /\ UNCHANGED <<streamVars, requests>>

Register == RpcStep("register", "registering") /\ stream = "open" /\ RpcLocal

(* Master answers with REGISTER, or with an error or another event; in the *)
(* latter case the stream is left as it is, in the runner's context.       *)
Registered == RpcStep("registering", "report") /\ stream = "open" /\ RpcLocal
Rejected ==
    /\ RpcStep("registering", "lost") /\ stream = "open" /\ failures < MaxFailures
    /\ failures' = failures + 1 /\ UNCHANGED requests
    /\ left' = left + 1 /\ stream' = "over" /\ inbox' = 0

(* emitLifecycleEvent(started) *)
ReportStarted == RpcStep("report", "serve") /\ RpcLocal

(* consumeServerStream *)
Serve == RpcStep("serve", IF Done("rpc") THEN "lost" ELSE "recv") /\ RpcLocal

Recv ==
    /\ RpcStep("recv", "handle") /\ inbox > 0
    /\ inbox' = inbox - 1 /\ UNCHANGED <<stream, left, countVars>>

(* handleServerMessage always has an answer, if need be an error. *)
Handled == RpcStep("handle", "reply") /\ RpcLocal
Reply   == RpcStep("reply", "serve") /\ stream = "open" /\ RpcLocal

(* Send or Recv on a stream that is over. *)
StreamFailed ==
    /\ \E from \in {"register", "registering", "recv", "reply"} : RpcStep(from, "lost")
    /\ stream = "over" /\ RpcLocal

\* Seeded fault: EOF is terminal.
AfterEOF == IF stream = "over" \/ Done("rpc") THEN "returned" ELSE "delay"

(* ConnectAndServeRPC has returned: the runner's own context decides. *)
AfterLoss == IF Done("rpc") THEN "returned" ELSE "delay"
Lost == RpcStep("lost", AfterLoss) /\ RpcLocal

DelayOver     == RpcStep("delay", "check") /\ RpcLocal
DelayCanceled == RpcStep("delay", "returned") /\ Done("rpc") /\ RpcLocal

-----------------------------------------------------------------------------
(* The pull runner. *)

PullStep(from, to) ==
    /\ At("pull", from) /\ Goto("pull", to)
    /\ UNCHANGED <<init, derived, ctxVars, streamVars, countVars, shutVars>>

Tick       == PullStep("wait", "pull")
PullDone   == PullStep("pull", "wait")
PullReturn == PullStep("wait", "returned") /\ Done("pull")

-----------------------------------------------------------------------------
(* Shutdown of the framework, of the runners and of the service. *)

Stop ==
    /\ ~stopping /\ stopping' = TRUE
    /\ UNCHANGED <<runVars, ctxVars, streamVars, countVars, shut>>

\* Seeded fault: r.cancel is not compared with nil.
CallsCancelAlways(r) == TRUE

(* r.cancel is called if it is set. *)
CallsCancel(r) == derived[r]

CancelRunner(r) ==
    /\ stopping /\ shut[r] = "no"
    /\ canceled' = [canceled EXCEPT ![r] = CallsCancel(r)]
    /\ shut' = [shut EXCEPT ![r] = IF r = "rpc" THEN "report" ELSE "done"]
    /\ UNCHANGED <<runVars, serviceCtx, conn, streamVars, countVars, stopping>>

ShutStep(from, to) ==
    /\ shut["rpc"] = from /\ shut' = [shut EXCEPT !["rpc"] = to]
    /\ UNCHANGED <<runVars, canceled, streamVars, countVars, stopping>>

(* emitLifecycleEvent(stopped) and events().Stop() *)
ReportStopped == ShutStep("report", "service") /\ UNCHANGED <<serviceCtx, conn>>

CancelService == ShutStep("service", "close") /\ serviceCtx' = "canceled" /\ UNCHANGED conn

(* stopStreamLog, StopAll, DeleteAll, and conn.Close *)
CloseConn == ShutStep("close", "done") /\ conn' = "closed" /\ UNCHANGED serviceCtx

-----------------------------------------------------------------------------
(* Master and the network. *)

Ask ==
    /\ pc["rpc"] \in {"report", "serve", "recv", "handle", "reply"}
    /\ stream = "open" /\ requests < MaxRequests
    /\ inbox' = inbox + 1 /\ requests' = requests + 1
    /\ UNCHANGED <<runVars, ctxVars, stream, left, failures, shutVars>>

(* What was in flight is lost. *)
Break ==
    /\ stream = "open" /\ Fails
    /\ stream' = "over" /\ inbox' = 0
    /\ UNCHANGED <<runVars, ctxVars, left, requests, shutVars>>

BreakLeft ==
    /\ left > 0 /\ Fails
    /\ left' = left - 1
    /\ UNCHANGED <<runVars, ctxVars, stream, inbox, requests, shutVars>>

RpcRun  == \/ Check \/ ConnectFailed \/ Register \/ ReportStarted \/ Serve \/ Recv \/ Reply
           \/ StreamFailed \/ Lost \/ DelayOver \/ DelayCanceled
Calls   == Pulled \/ Connected \/ Registered \/ Rejected \/ Handled \/ PullDone
ShutRun == (\E r \in Runners : CancelRunner(r)) \/ ReportStopped \/ CancelService \/ CloseConn

Next ==
    \/ \E r \in Runners : Begin(r) \/ Derive(r)
    \/ RpcRun \/ Calls \/ Tick \/ PullReturn \/ Stop \/ ShutRun \/ Ask
    \/ Break \/ BreakLeft

Spec == Init /\ [][Next]_vars

(* The goroutines run; a call whose context is canceled returns, and a     *)
(* stream whose context is canceled is over.  Nothing says that master     *)
(* ever answers a call.  SF for the pull runner's return: the ticks are    *)
(* far apart, so its select finds the canceled context.                    *)
Fairness ==
    /\ \A r \in Runners : WF_vars(Begin(r)) /\ WF_vars(Derive(r)) /\ WF_vars(CancelRunner(r))
    /\ WF_vars(RpcRun) /\ SF_vars(PullReturn) /\ WF_vars(ShutRun)
    /\ WF_vars(serviceCtx = "canceled" /\ (Pulled \/ Handled))
    /\ WF_vars(Done("pull") /\ PullDone)
    /\ WF_vars(Done("rpc") /\ Break) /\ WF_vars(Done("rpc") /\ BreakLeft)

FairSpec == Spec /\ Fairness

-----------------------------------------------------------------------------
(* No stream is opened, and so no request is served, before the initial    *)
(* pull has been made, whichever runner makes it.                          *)
PulledFirst == stream # "none" => init = "done"

(* Shutdown ends both runners wherever it finds them: before they have a   *)
(* context, in a call, serving a request or waiting to reconnect; and with *)
(* them the streams that rejected registrations have left open.            *)
ShutdownEnds == stopping ~> left = 0 /\ \A r \in Runners : pc[r] = "returned"

(* README.md:40 and 90: the stream is reconnected by itself.  When the     *)
(* failures are over and nobody shuts down, the runner ends up serving;    *)
(* nothing but a call that master does not answer can keep it from that.   *)
Serving == pc["rpc"] \in {"report", "serve", "recv", "reply"}
InCall  == pc["rpc"] \in {"init", "connect", "registering", "handle"}
KeepsServing == <>[](stopping \/ InCall \/ (Serving /\ stream = "open"))

=============================================================================
