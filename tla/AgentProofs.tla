----------------------------- MODULE AgentProofs -----------------------------
(***************************************************************************)
(* Safety of the agent's process, for any addresses, intervals, failures   *)
(* and requests: that it starts as it was told to, that its initial pull   *)
(* comes first, and that master is told of its life what is true.          *)
(***************************************************************************)
EXTENDS Agent, TLAPS

-----------------------------------------------------------------------------
(* The start.  Neither of its invariants is inductive: what runs was       *)
(* chosen from the configuration, and that from the environment, so the    *)
(* strengthening says what the environment has of the command line and     *)
(* what the configuration has of the environment.                          *)

Address == [scheme : Schemes, host : Hosts, path : Paths]

(* The command line has been handed over to the environment.               *)
HandedOver ==
    \/ flags = None
    \/ /\ flags \in [id : {"flag"}, secret : {"flag"}, url : {"", "flag"}]
       /\ process.id = "flag" /\ process.secret = "flag"
       /\ flags.url # "" => process.url = "flag"

Configured ==
    stage = "new" =>
        /\ config.id = Env("id") /\ config.secret = Env("secret") /\ config.url = Env("url")
        /\ config.enabled \in BOOLEAN /\ config.interval \in Int

Text  == {"", " ", "flag", "process", "file"}
Texts == [id : Text, secret : Text, url : Text]

StartInv ==
    /\ process \in Texts /\ file \in Texts
    /\ HandedOver /\ Configured /\ RunsAsTold /\ DialsAsAddressed

(* The two functions that normalise an address.                            *)

\* An address keeps its host, and its scheme and path as far as it has them.
LEMMA Normalised ==
  ASSUME NEW a \in Address
  PROVE  LET u == WithScheme(a)
         IN  /\ u \in Address /\ u.scheme # "none" /\ u.host = a.host
             /\ a.scheme # "none" => u = a
             /\ a.scheme = "none" =>
                  /\ u.scheme = IF LooksWebSocket(a) THEN "ws" ELSE "grpc"
                  /\ u.path = IF LooksWebSocket(a) /\ a.path = "" THEN "/grpc-ws" ELSE a.path
<1>1. CASE a.scheme # "none"
  BY <1>1 DEF WithScheme, Address
<1>2. CASE a.scheme = "none" /\ LooksWebSocket(a)
  <2>1. WithScheme(a) = [a EXCEPT !.scheme = "ws", !.path = IF @ = "" THEN "/grpc-ws" ELSE @]
    BY <1>2 DEF WithScheme, Inferred
  <2> QED
    BY <1>2, <2>1 DEF Address, Schemes, Hosts, Paths
<1>3. CASE a.scheme = "none" /\ ~LooksWebSocket(a)
  <2>1. WithScheme(a) = [a EXCEPT !.scheme = "grpc"]
    BY <1>3 DEF WithScheme
  <2> QED
    BY <1>3, <2>1 DEF Address, Schemes, Hosts, Paths
<1> QED
  BY <1>1, <1>2, <1>3

\* It makes no difference that the address of an old variable is normalised by
\* resolveOptionsFromConfig before newMasterClient normalises it.
LEMMA NormalisedOnce ==
  ASSUME NEW a \in Address
  PROVE  WithScheme(LegacyURL(a)) = WithScheme(a)
<1>1. LegacyURL(a) = WithScheme(a)
  BY DEF LegacyURL, WithScheme
<1>2. WithScheme(WithScheme(a)) = WithScheme(a)
  BY Normalised DEF WithScheme
<1> QED
  BY <1>1, <1>2

\* What is dialed for a usable address is what DialsAsAddressed says.
LEMMA Dialed ==
  ASSUME NEW a \in Address, Usable(WithScheme(a))
  PROVE  LET d == Dial(WithScheme(a))
         IN  /\ a.host # "" => d.to = a.host
             /\ a.scheme # "none" => d.by = a.scheme
             /\ a.scheme = "none" =>
                  d.by = IF a.path = "/grpc-ws" \/ a.host = "h:3000" THEN "ws" ELSE "grpc"
             /\ d.by # "grpc" =>
                  /\ d.path \notin {"", "/"}
                  /\ a.path \notin {"", "/"} => d.path = a.path
<1> DEFINE u == WithScheme(a)
<1>1. /\ u \in Address /\ u.scheme # "none" /\ u.host = a.host
      /\ a.scheme # "none" => u = a
      /\ a.scheme = "none" =>
           /\ u.scheme = IF LooksWebSocket(a) THEN "ws" ELSE "grpc"
           /\ u.path = IF LooksWebSocket(a) /\ a.path = "" THEN "/grpc-ws" ELSE a.path
  BY Normalised
<1>2. CASE u.scheme = "grpc"
  <2> DEFINE d == Dial(u)
  <2>1. d.by = "grpc" /\ (u.host # "" => d.to = u.host)
    BY <1>2 DEF Dial
  <2>2. a.scheme # "none" => a.scheme = "grpc"
    BY <1>1, <1>2
  <2>3. a.scheme = "none" => ~(a.path = "/grpc-ws" \/ a.host = "h:3000")
    BY <1>1, <1>2 DEF LooksWebSocket
  <2> HIDE DEF d
  <2>4. /\ a.host # "" => d.to = a.host
        /\ a.scheme # "none" => d.by = a.scheme
        /\ a.scheme = "none" =>
             d.by = IF a.path = "/grpc-ws" \/ a.host = "h:3000" THEN "ws" ELSE "grpc"
    BY <1>1, <2>1, <2>2, <2>3
  <2> QED
    BY <2>1, <2>4 DEF d
<1>3. CASE u.scheme # "grpc"
  <2> DEFINE d == Dial(u)
  <2>1. d.by = u.scheme /\ d.to = u.host
        /\ d.path = IF u.path \in {"", "/"} THEN "/grpc-ws" ELSE u.path
    BY <1>3 DEF Dial
  <2>2. a.scheme = "none" => a.path = "/grpc-ws" \/ a.host = "h:3000"
    BY <1>1, <1>3 DEF LooksWebSocket
  <2>3. a.path \notin {"", "/"} => u.path = a.path
    BY <1>1
  <2>4. a.scheme = "none" => u.scheme = "ws"
    BY <1>1, <1>3
  <2> HIDE DEF d, u
  <2>5. /\ a.host # "" => d.to = a.host
        /\ a.scheme # "none" => d.by = a.scheme
        /\ a.scheme = "none" =>
             d.by = IF a.path = "/grpc-ws" \/ a.host = "h:3000" THEN "ws" ELSE "grpc"
        /\ d.path \notin {"", "/"}
        /\ a.path \notin {"", "/"} => d.path = a.path
    BY <1>1, <2>1, <2>2, <2>3, <2>4
  <2> QED
    BY <2>5 DEF d, u
<1> QED
  BY <1>2, <1>3

\* At the start nothing has been handed over.
LEMMA StartInvInit == StartInit => StartInv
<1> SUFFICES ASSUME StartInit PROVE StartInv
  OBVIOUS
<1>1. process \in Texts
  BY DEF StartInit, Text, Texts
<1>2. file \in Texts
  <2>1. Given("") \in Texts /\ Given("file") \in Texts
    BY DEF Given, Text, Texts
  <2> QED
    BY <2>1 DEF StartInit, Nowhere
<1>3. HandedOver /\ stage = "args"
  BY DEF StartInit, HandedOver
<1> QED
  BY <1>1, <1>2, <1>3
  DEF StartInv, Configured, RunsAsTold, FlagsWin, RunsOnlyWhole, DialsAsAddressed

\* What is chosen when the service is made is what was told, and fit to run.
LEMMA NewServiceStep == StartInv /\ NewService => StartInv'
<1> SUFFICES ASSUME StartInv, NewService PROVE StartInv'
  OBVIOUS
<1>1. /\ stage = "new" /\ stage' # "new" /\ opts' = ResolveOptions
      /\ UNCHANGED <<flags, process, file, config>>
  BY DEF NewService
<1>2. process' \in Texts /\ file' \in Texts /\ HandedOver' /\ Configured'
  BY <1>1 DEF StartInv, HandedOver, Configured
<1>3. /\ opts'.id = Option("id") /\ opts'.secret = Option("secret") /\ opts'.url = AddressFrom
      /\ opts'.enabled = config.enabled
      /\ opts'.interval = IF config.interval <= 0 THEN 30 ELSE config.interval
  BY <1>1 DEF ResolveOptions
<1>4. stage' = "running" => opts'.enabled /\ Valid(opts')
  BY DEF NewService
<1>5. FlagsWin'
  <2>1. CASE flags = None
    BY <1>1, <2>1 DEF FlagsWin
  <2>2. CASE flags # None
    <3>1. process.id = "flag" /\ process.secret = "flag" /\ (flags.url # "" => process.url = "flag")
      BY <2>2 DEF StartInv, HandedOver
    <3>2. config.id = "flag" /\ config.secret = "flag" /\ (flags.url # "" => config.url = "flag")
      BY <1>1, <3>1 DEF StartInv, Configured, Env
    <3>3. opts'.id = "flag" /\ opts'.secret = "flag" /\ (flags.url # "" => opts'.url = "flag")
      BY <1>3, <3>2 DEF Option, Trim, AddressFrom
    <3> QED
      BY <1>1, <3>3 DEF FlagsWin, Fields
  <2> QED
    BY <2>1, <2>2
<1>6. RunsOnlyWhole'
  <2> SUFFICES ASSUME stage' = "running"
               PROVE  /\ config'.enabled /\ opts'.interval > 0
                      /\ \A x \in Fields : opts'[x] \notin {"", " "}
    BY DEF RunsOnlyWhole
  <2>1. config'.enabled
    BY <1>1, <1>3, <1>4
  <2>2. opts'.interval > 0
    BY <1>1, <1>3 DEF StartInv, Configured
  <2>3. opts'.id \notin {"", " "}
    BY <1>3, <1>4 DEF Valid, Option, Trim, FirstNonEmptyEnv
  <2>4. opts'.secret \notin {"", " "}
    BY <1>3, <1>4 DEF Valid, Option, Trim, FirstNonEmptyEnv
  <2> QED
    BY <2>1, <2>2, <2>3, <2>4 DEF Fields
<1>7. DialsAsAddressed'
  <2> SUFFICES ASSUME stage' = "running" PROVE DialsAsAddressed'
    BY DEF DialsAsAddressed
  <2>1. PICK a \in (IF opts'.url = "default" THEN {DefaultURL} ELSE Addresses) :
          LET u == WithScheme(IF opts'.url = "legacy" THEN LegacyURL(a) ELSE a)
          IN  /\ asked' = a
              /\ IF Usable(u) THEN stage' = "running" /\ dial' = Dial(u)
                              ELSE stage' = "fatal" /\ UNCHANGED dial
    BY DEF NewService
  <2>2. a \in Address
    <3>1. DefaultURL \in Address
      BY DEF Address, DefaultURL, Schemes, Hosts, Paths
    <3>2. Addresses \subseteq Address
      BY AddressesAssumption DEF Address
    <3> QED
      BY <3>1, <3>2
  <2>3. WithScheme(IF opts'.url = "legacy" THEN LegacyURL(a) ELSE a) = WithScheme(a)
    BY <2>2, NormalisedOnce
  <2>4. asked' = a /\ Usable(WithScheme(a)) /\ dial' = Dial(WithScheme(a))
    BY <2>1, <2>3
  <2> QED
    BY <2>2, <2>4, Dialed DEF DialsAsAddressed
<1> QED
  BY <1>2, <1>5, <1>6, <1>7 DEF StartInv, RunsAsTold

\* Every step keeps the inductive invariant.
LEMMA StartInvStep == StartInv /\ [Start]_startVars => StartInv'
<1> SUFFICES ASSUME StartInv, [Start]_startVars PROVE StartInv'
  OBVIOUS
<1> USE DEF RunsAsTold, FlagsWin, RunsOnlyWhole, DialsAsAddressed, Configured
<1>1. CASE NoClientArgs \/ WrongArgs
  BY <1>1 DEF NoClientArgs, WrongArgs, StartInv, HandedOver
<1>2. CASE ClientArgs
  <2>1. stage' \in {"usage", "boot"} /\ file' = file
    BY <1>2 DEF ClientArgs
  <2>2. CASE UNCHANGED <<flags, process>>
    BY <2>1, <2>2 DEF StartInv, HandedOver
  <2>3. CASE ~UNCHANGED <<flags, process>>
    <3>1. PICK f \in [id : {"", " ", "flag"}, secret : {"", " ", "flag"}, url : {"", "flag"}] :
            /\ ~(\E x \in Fields : Trim(f[x]) = "")
            /\ flags' = f /\ process' = WithFlags(f)
      BY <1>2, <2>3 DEF ClientArgs
    <3>2. f.id = "flag" /\ f.secret = "flag"
      BY <3>1 DEF Fields, Trim
    <3>3. process' = [f EXCEPT !.url = IF f.url = "" THEN process.url ELSE f.url]
      BY <3>1 DEF WithFlags
    <3>4. process' \in Texts /\ process'.id = "flag" /\ process'.secret = "flag"
          /\ (f.url # "" => process'.url = "flag")
      BY <3>2, <3>3 DEF StartInv, Text, Texts
    <3>5. HandedOver'
      BY <3>1, <3>2, <3>4 DEF HandedOver
    <3> QED
      BY <2>1, <3>4, <3>5 DEF StartInv
  <2> QED
    BY <2>2, <2>3
<1>3. CASE LoadApp
  BY <1>3 DEF LoadApp, StartInv, HandedOver
<1>4. CASE LoadFrppc
  <2>1. /\ stage' = "new" /\ UNCHANGED <<flags, process, file>>
        /\ \E enabled \in BOOLEAN, interval \in Intervals \cup {300} :
             config' = [id |-> Env("id"), secret |-> Env("secret"), url |-> Env("url"),
                        enabled |-> enabled, interval |-> interval]
    BY <1>4 DEF LoadFrppc
  <2>2. config'.id = Env("id") /\ config'.secret = Env("secret") /\ config'.url = Env("url")
        /\ config'.enabled \in BOOLEAN /\ config'.interval \in Int
    BY <2>1, IntervalsAssumption
  <2>3. Env("id")' = Env("id") /\ Env("secret")' = Env("secret") /\ Env("url")' = Env("url")
    BY <2>1 DEF Env
  <2> QED
    BY <2>1, <2>2, <2>3 DEF StartInv, HandedOver
<1>5. CASE NewService
  BY <1>5, NewServiceStep
<1>6. CASE UNCHANGED startVars
  BY <1>6 DEF startVars, StartInv, HandedOver, Env
<1> QED
  BY <1>1, <1>2, <1>3, <1>4, <1>5, <1>6 DEF Start

\* The conjunction is an invariant of the start.
LEMMA StartInvariance == StartSpec => []StartInv
  BY StartInvInit, StartInvStep, PTL DEF StartSpec

\* Whatever the environment and the file contain, what the command line says is
\* what the agent runs with, and it runs only with both credentials.
THEOREM StartsAsTold == StartSpec => []RunsAsTold
<1>1. StartInv => RunsAsTold
  BY DEF StartInv
<1> QED
  BY <1>1, StartInvariance, PTL

\* Every usable address is dialed as it says, whatever source it came from.
THEOREM DialsWhatIsAsked == StartSpec => []DialsAsAddressed
<1>1. StartInv => DialsAsAddressed
  BY DEF StartInv
<1> QED
  BY <1>1, StartInvariance, PTL

-----------------------------------------------------------------------------
(* The initial pull.  PulledFirst is not inductive, because what lets      *)
(* Connected open a stream is where the runner is.  The strengthening is   *)
(* that a runner past its first two places finds the pull made, and it     *)
(* cannot get there but through initOnce.                                  *)

(* The parts of the state that the argument is about have their types.     *)
PullTypes ==
    /\ init \in Runners \cup {"no", "done"}
    /\ pc \in [Runners -> RpcPlaces \cup PullPlaces]

PastPull == \A r \in Runners : pc[r] \notin {"new", "init"} => init = "done"

PullInv == PullTypes /\ PastPull /\ PulledFirst

Places == RpcPlaces \cup PullPlaces

\* A runner that has made the initial pull goes anywhere, the pull stays made.
LEMMA MoveStep ==
  ASSUME PullInv, NEW r \in Runners, NEW from \in Places \ {"new", "init"}, NEW to \in Places,
         At(r, from), Goto(r, to), init' = init
  PROVE  PullTypes' /\ PastPull' /\ PulledFirst'
<1>1. init = "done" /\ init' = "done"
  BY DEF PullInv, PastPull, At
<1>2. pc' \in [Runners -> Places]
  BY DEF PullInv, PullTypes, Goto, Places
<1> QED
  BY <1>1, <1>2 DEF PullTypes, PastPull, PulledFirst, Places

\* Any step of the RPC runner past the initial pull.
LEMMA RpcMove ==
  ASSUME PullInv, NEW from \in Places \ {"new", "init"}, NEW to \in Places, RpcStep(from, to)
  PROVE  PullInv'
  BY MoveStep DEF RpcStep, Runners, PullInv

\* Any step of the pull runner past the initial pull.
LEMMA PullMove ==
  ASSUME PullInv, NEW from \in Places \ {"new", "init"}, NEW to \in Places, PullStep(from, to)
  PROVE  PullInv'
  BY MoveStep DEF PullStep, Runners, PullInv

\* What leaves the runners' places and initOnce alone and opens no stream.
LEMMA ElsewhereStep ==
  ASSUME PullInv, UNCHANGED <<init, pc>>, stream' # "none" => stream # "none"
  PROVE  PullInv'
  BY DEF PullInv, PullTypes, PastPull, PulledFirst

\* At the start neither runner is past the initial pull.
LEMMA PullInvInit == Init => PullInv
  BY DEF Init, PullInv, PullTypes, PastPull, PulledFirst, Runners, RpcPlaces, PullPlaces

\* The steps the RPC runner takes by itself.
LEMMA RpcRunStep == PullInv /\ RpcRun => PullInv'
<1> SUFFICES ASSUME PullInv, RpcRun PROVE PullInv'
  OBVIOUS
<1> USE DEF Places, RpcPlaces, PullPlaces
<1>1. CASE Check
  BY <1>1, RpcMove DEF Check
<1>2. CASE ConnectFailed
  BY <1>2, RpcMove DEF ConnectFailed
<1>3. CASE Register
  BY <1>3, RpcMove DEF Register
<1>4. CASE ReportStarted
  BY <1>4, RpcMove DEF ReportStarted
<1>5. CASE Serve
  BY <1>5, RpcMove DEF Serve
<1>6. CASE Recv
  BY <1>6, RpcMove DEF Recv
<1>7. CASE Reply
  BY <1>7, RpcMove DEF Reply
<1>8. CASE StreamFailed
  BY <1>8, RpcMove DEF StreamFailed
<1>9. CASE Lost
  BY <1>9, RpcMove DEF Lost, AfterLoss
<1>10. CASE DelayOver
  BY <1>10, RpcMove DEF DelayOver
<1>11. CASE DelayCanceled
  BY <1>11, RpcMove DEF DelayCanceled
<1> QED
  BY <1>1, <1>2, <1>3, <1>4, <1>5, <1>6, <1>7, <1>8, <1>9, <1>10, <1>11 DEF RpcRun

\* The returns of calls, the initial pull and the opening of a stream included.
LEMMA CallsStep == PullInv /\ Calls => PullInv'
<1> SUFFICES ASSUME PullInv, Calls PROVE PullInv'
  OBVIOUS
<1> USE DEF Places, RpcPlaces, PullPlaces
<1>1. CASE Pulled
  BY <1>1 DEF Pulled, streamVars, PullInv, PullTypes, PastPull, PulledFirst
<1>2. CASE Connected
  BY <1>2, RpcMove DEF Connected
<1>3. CASE Registered
  BY <1>3, RpcMove DEF Registered
<1>4. CASE Rejected
  BY <1>4, RpcMove DEF Rejected
<1>5. CASE Handled
  BY <1>5, RpcMove DEF Handled
<1>6. CASE PullDone
  BY <1>6, PullMove DEF PullDone
<1> QED
  BY <1>1, <1>2, <1>3, <1>4, <1>5, <1>6 DEF Calls

\* Every step keeps the inductive invariant.
LEMMA PullInvStep == PullInv /\ [Next]_vars => PullInv'
<1> SUFFICES ASSUME PullInv, [Next]_vars PROVE PullInv'
  OBVIOUS
<1>1. ASSUME NEW r \in Runners, Begin(r) PROVE PullInv'
  <2>1. init' \in Runners \cup {"no", "done"} /\ (init = "done" => init' = "done")
    BY <1>1 DEF Begin, PullInv, PullTypes, Runners
  <2>2. pc' = [pc EXCEPT ![r] = "init"] /\ stream' = stream
    BY <1>1 DEF Begin, Goto, streamVars
  <2>3. pc' \in [Runners -> RpcPlaces \cup PullPlaces]
    BY <2>2 DEF PullInv, PullTypes, RpcPlaces
  <2>4. \A s \in Runners : pc'[s] = IF s = r THEN "init" ELSE pc[s]
    BY <2>2 DEF PullInv, PullTypes
  <2> QED
    BY <2>1, <2>2, <2>3, <2>4 DEF PullInv, PullTypes, PastPull, PulledFirst
<1>2. ASSUME NEW r \in Runners, Derive(r) PROVE PullInv'
  <2>1. init = "done" /\ init' = "done" /\ stream' = stream
    BY <1>2 DEF Derive, Ready, streamVars
  <2>2. pc' \in [Runners -> RpcPlaces \cup PullPlaces]
    BY <1>2 DEF Derive, Goto, PullInv, PullTypes, RpcPlaces, PullPlaces
  <2> QED
    BY <2>1, <2>2 DEF PullInv, PullTypes, PastPull, PulledFirst
<1>3. CASE RpcRun
  BY <1>3, RpcRunStep
<1>4. CASE Calls
  BY <1>4, CallsStep
<1>5. CASE Tick \/ PullReturn
  BY <1>5, PullMove DEF Tick, PullReturn, Places, PullPlaces
<1>6. CASE Stop \/ ShutRun \/ Ask
  BY <1>6, ElsewhereStep
  DEF Stop, ShutRun, CancelRunner, ReportStopped, CancelService, CloseConn, ShutStep, Ask,
      runVars, streamVars
<1>7. CASE Break \/ BreakLeft
  BY <1>7, ElsewhereStep DEF Break, BreakLeft, runVars
<1>8. CASE UNCHANGED vars
  BY <1>8, ElsewhereStep DEF vars, runVars, streamVars
<1> QED
  BY <1>1, <1>2, <1>3, <1>4, <1>5, <1>6, <1>7, <1>8 DEF Next

\* In no interleaving of the two runners, a shutdown and master's failures is
\* a stream to master opened before the initial pull has returned.
THEOREM PullsFirst == Spec => []PulledFirst
<1>1. PullInv => PulledFirst
  BY DEF PullInv
<1> QED
  BY <1>1, PullInvInit, PullInvStep, PTL DEF Spec

(* Types, for which what is bounded is counted: a stream that is left was  *)
(* one of the failures, a request in the inbox is one of those sent.        *)

\* Where the runners are has its type.
Placed ==
    /\ init \in Runners \cup {"no", "done"}
    /\ pc \in [Runners -> RpcPlaces \cup PullPlaces]
    /\ pc["rpc"] \in RpcPlaces /\ pc["pull"] \in PullPlaces
    /\ derived \in [Runners -> BOOLEAN]

\* So have the contexts, the connection and Shutdown.
Contexts ==
    /\ canceled \in [Runners -> BOOLEAN]
    /\ \A r \in Runners : canceled[r] => derived[r]
    /\ serviceCtx \in {"live", "canceled"} /\ conn \in {"open", "closed"}
    /\ stopping \in BOOLEAN
    /\ shut \in [Runners -> {"no", "report", "service", "close", "done"}]

\* So have the streams and the counts.
Streams ==
    /\ stream \in {"none", "open", "over"} /\ left \in 0 .. MaxFailures
    /\ inbox \in 0 .. MaxRequests
    /\ failures \in 0 .. MaxFailures /\ requests \in 0 .. MaxRequests
    /\ left <= failures /\ inbox <= requests

TypeInv == Placed /\ Contexts /\ Streams

USE BoundAssumption

\* A step of the RPC runner from one place to another.
LEMMA RpcStepTypes ==
  ASSUME TypeInv, NEW from \in RpcPlaces, NEW to \in RpcPlaces, RpcStep(from, to)
  PROVE  Placed' /\ Contexts'
<1>1. pc' = [pc EXCEPT !["rpc"] = to]
  BY DEF RpcStep, Goto
<1>2. Placed'
  BY <1>1 DEF TypeInv, RpcStep, Placed, Runners
<1> QED
  BY <1>2 DEF TypeInv, RpcStep, Contexts, ctxVars, shutVars

\* A step of the pull runner from one place to another.
LEMMA PullStepTypes ==
  ASSUME TypeInv, NEW from \in PullPlaces, NEW to \in PullPlaces, PullStep(from, to)
  PROVE  TypeInv'
<1>1. pc' = [pc EXCEPT !["pull"] = to]
  BY DEF PullStep, Goto
<1>2. Placed'
  BY <1>1 DEF TypeInv, PullStep, Placed, Runners
<1>3. Contexts' /\ Streams'
  BY DEF TypeInv, PullStep, Contexts, Streams, ctxVars, shutVars, streamVars, countVars
<1> QED
  BY <1>2, <1>3 DEF TypeInv

\* At the start everything has its type.
LEMMA TypeInit == Init => TypeInv
<1> SUFFICES ASSUME Init PROVE TypeInv
  OBVIOUS
<1>1. Placed
  BY DEF Init, Placed, Runners, RpcPlaces, PullPlaces
<1>2. Contexts
  BY DEF Init, Contexts
<1>3. Streams
  BY DEF Init, Streams
<1> QED
  BY <1>1, <1>2, <1>3 DEF TypeInv

\* The steps of the RPC runner that leave the stream and the counts alone.
LEMMA RpcLocalTypes ==
  ASSUME TypeInv, NEW from \in RpcPlaces, NEW to \in RpcPlaces, RpcStep(from, to), RpcLocal
  PROVE  TypeInv'
<1>1. Streams'
  BY DEF TypeInv, RpcLocal, Streams, streamVars, countVars
<1> QED
  BY <1>1, RpcStepTypes DEF TypeInv

\* Every step keeps the types.
LEMMA TypeStep == TypeInv /\ [Next]_vars => TypeInv'
<1> SUFFICES ASSUME TypeInv, [Next]_vars PROVE TypeInv'
  OBVIOUS
<1> USE DEF RpcPlaces, PullPlaces
<1>1. ASSUME NEW r \in Runners, Begin(r) PROVE TypeInv'
  <2>1. pc' = [pc EXCEPT ![r] = "init"]
    BY <1>1 DEF Begin, Goto
  <2>2. Placed'
    BY <1>1, <2>1 DEF TypeInv, Begin, Placed, Runners
  <2>3. Contexts' /\ Streams'
    BY <1>1 DEF TypeInv, Begin, Contexts, Streams, ctxVars, streamVars, countVars, shutVars
  <2> QED
    BY <2>2, <2>3 DEF TypeInv
<1>2. ASSUME NEW r \in Runners, Derive(r) PROVE TypeInv'
  <2>1. /\ pc' = [pc EXCEPT ![r] = IF r = "rpc" THEN "check" ELSE "wait"]
        /\ derived' = [derived EXCEPT ![r] = TRUE] /\ init' = init
    BY <1>2 DEF Derive, Goto
  <2>2. Placed'
    BY <2>1 DEF TypeInv, Placed, Runners
  <2>3. Contexts' /\ Streams'
    BY <1>2, <2>1 DEF TypeInv, Derive, Placed, Contexts, Streams, ctxVars, streamVars, countVars, shutVars
  <2> QED
    BY <2>2, <2>3 DEF TypeInv
<1>3. CASE RpcRun
  <2>1. CASE Check \/ Serve \/ Lost
    BY <2>1, RpcLocalTypes DEF Check, Serve, Lost, AfterLoss
  <2>2. CASE Register \/ ReportStarted \/ Reply \/ DelayOver \/ DelayCanceled
    BY <2>2, RpcLocalTypes DEF Register, ReportStarted, Reply, DelayOver, DelayCanceled
  <2>3. CASE StreamFailed
    BY <2>3, RpcLocalTypes DEF StreamFailed
  <2>4. CASE ConnectFailed
    <3>1. Streams'
      BY <2>4 DEF TypeInv, ConnectFailed, Fails, Streams, streamVars
    <3> QED
      BY <2>4, <3>1, RpcStepTypes DEF TypeInv, ConnectFailed
  <2>5. CASE Recv
    <3>1. Streams'
      BY <2>5 DEF TypeInv, Recv, Streams, countVars
    <3> QED
      BY <2>5, <3>1, RpcStepTypes DEF TypeInv, Recv
  <2> QED
    BY <1>3, <2>1, <2>2, <2>3, <2>4, <2>5 DEF RpcRun
<1>4. CASE Calls
  <2>1. CASE Pulled
    <3>1. Placed'
      BY <2>1 DEF TypeInv, Pulled, Placed
    <3>2. Contexts' /\ Streams'
      BY <2>1 DEF TypeInv, Pulled, Contexts, Streams, ctxVars, streamVars, countVars, shutVars
    <3> QED
      BY <3>1, <3>2 DEF TypeInv
  <2>2. CASE Connected
    <3>1. Streams'
      BY <2>2 DEF TypeInv, Connected, Streams, countVars
    <3> QED
      BY <2>2, <3>1, RpcStepTypes DEF TypeInv, Connected
  <2>3. CASE Registered \/ Handled
    BY <2>3, RpcLocalTypes DEF Registered, Handled
  <2>4. CASE Rejected
    <3>1. Streams'
      BY <2>4 DEF TypeInv, Rejected, Streams
    <3> QED
      BY <2>4, <3>1, RpcStepTypes DEF TypeInv, Rejected
  <2>5. CASE PullDone
    BY <2>5, PullStepTypes DEF PullDone
  <2> QED
    BY <1>4, <2>1, <2>2, <2>3, <2>4, <2>5 DEF Calls
<1>5. CASE Tick \/ PullReturn
  BY <1>5, PullStepTypes DEF Tick, PullReturn
<1>6. CASE Stop \/ ShutRun
  <2>1. Placed' /\ Streams'
    BY <1>6
    DEF TypeInv, Stop, ShutRun, CancelRunner, ReportStopped, CancelService, CloseConn, ShutStep, Placed,
        Streams, runVars, streamVars, countVars
  <2>2. Contexts'
    <3>1. CASE Stop
      BY <3>1 DEF TypeInv, Stop, Contexts, runVars, ctxVars
    <3>2. ASSUME NEW r \in Runners, CancelRunner(r) PROVE Contexts'
      <4>1. derived[r] \in BOOLEAN
        BY DEF TypeInv, Placed
      <4>2. canceled' \in [Runners -> BOOLEAN]
        BY <3>2, <4>1 DEF TypeInv, CancelRunner, CallsCancel, Contexts
      <4>3. \A q \in Runners : canceled'[q] => derived'[q]
        BY <3>2 DEF TypeInv, CancelRunner, CallsCancel, Contexts, runVars
      <4> QED
        BY <3>2, <4>2, <4>3 DEF TypeInv, CancelRunner, Contexts
    <3>3. CASE ReportStopped \/ CancelService \/ CloseConn
      BY <3>3 DEF TypeInv, ReportStopped, CancelService, CloseConn, ShutStep, Contexts, runVars
    <3> QED
      BY <1>6, <3>1, <3>2, <3>3 DEF ShutRun
  <2> QED
    BY <2>1, <2>2 DEF TypeInv
<1>7. CASE Ask \/ Break \/ BreakLeft
  <2>1. Placed' /\ Contexts'
    BY <1>7 DEF TypeInv, Ask, Break, BreakLeft, Placed, Contexts, runVars, ctxVars, shutVars
  <2>2. Streams'
    BY <1>7 DEF TypeInv, Ask, Break, BreakLeft, Fails, Streams
  <2> QED
    BY <2>1, <2>2 DEF TypeInv
<1>8. CASE UNCHANGED vars
  BY <1>8
  DEF TypeInv, vars, Placed, Contexts, Streams, runVars, ctxVars, streamVars, countVars, shutVars
<1> QED
  BY <1>1, <1>2, <1>3, <1>4, <1>5, <1>6, <1>7, <1>8 DEF Next

\* Every state is well typed: each runner is at a place of its own, and Shutdown calls
\* no runner's cancel that Run has not set yet.
THEOREM TypeCorrect == Spec => []TypeOK
<1>1. TypeInv => TypeOK
  BY DEF TypeInv, TypeOK, Placed, Contexts, Streams
<1> QED
  BY <1>1, TypeInit, TypeStep, PTL DEF Spec

-----------------------------------------------------------------------------
(* The events of the agent's life.  What is proved of the debouncer holds  *)
(* of the service's one, whose keys are the two lifecycle events and which *)
(* submits at most one more than it may fail.                              *)

P == INSTANCE DebouncerProofs WITH
    Keys <- {"started", "stopped"}, NoKey <- "none", Window <- 1, MaxEvents <- MaxFailures + 2

\* The service's debouncer is one: the assumptions about its constants hold.
LEMMA IsDebouncer ==
    /\ MaxFailures + 2 \in Nat
    /\ 1 \in Nat /\ "none" \notin {"started", "stopped"}
  BY BoundAssumption

(* What master was told is what a completed call stood for.                *)
ToldTrue ==
    \A p \in told : \E m \in emitted :
        p = [ev |-> m.ev, covers |-> m.covers, payload |-> Payload(m)]

(* The stop is submitted once, by the Shutdown that goes on to stop the    *)
(* debouncer: it opens a window, nothing is added to that, and its call    *)
(* has ended when the debouncer is stopped.                                *)
StopOnce ==
    /\ \A e \in 1 .. n : keyOf[e] \in {"started", "stopped"}
    /\ \A e \in 1 .. n : keyOf[e] = "stopped" => stopped \/ e = mine["shutdown"]
    /\ \A m \in calls : keyOf[m.ev] = "stopped" => ~stopped /\ m.by = "submit"
    /\ "stopped" \in DOMAIN pending => pending["stopped"].count = 0

(* The connection is closed last, and before it the events are stopped.    *)
ShutInOrder ==
    /\ shut \in [Runners -> {"no", "report", "service", "close", "done"}]
    /\ shut["rpc"] \in {"service", "close", "done"} => stopper = "returned"
    /\ conn = "closed" => shut["rpc"] = "done"
    /\ stopper # "none" <=> stopped
    /\ stopper = "returned" => \A m \in calls : m.by # "stop"

EventsInv ==
    /\ P!IInv /\ mine \in [Submitters -> Nat]
    /\ ToldTrue /\ StopOnce /\ ShutInOrder

\* The actions proved about are those that the events are put together from.
LEMMA SameActions ==
    /\ D!Init => P!Init
    /\ \A type \in {"started", "stopped"} : D!Submit(type) => P!Submit(type)
    /\ \A t : (D!Fire(t) => P!Fire(t)) /\ (D!Flush(t) => P!Flush(t))
    /\ D!Stop => P!Stop
    /\ D!StopReturn => P!StopReturn
    /\ \A m \in calls : D!EmitDone(m) => P!EmitDone(m)
<1>1. D!Init => P!Init
  BY DEF D!Init, P!Init, D!New, P!New, D!Events, P!Events
<1>2. \A type \in {"started", "stopped"} : D!Submit(type) => P!Submit(type)
  BY DEF D!Submit, P!Submit, D!SubmitInline, P!SubmitInline, D!SubmitBuffer, P!SubmitBuffer,
         D!SubmitLead, P!SubmitLead, D!Debounced, P!Debounced, D!Arrive, P!Arrive,
         D!Single, P!Single, D!Put, P!Put, D!Extended, P!Extended, D!Opened, P!Opened
<1>3. \A t : (D!Fire(t) => P!Fire(t)) /\ (D!Flush(t) => P!Flush(t))
  BY DEF D!Fire, P!Fire, D!Flush, P!Flush, D!Taken, P!Taken, D!Drop, P!Drop,
         D!Aggregate, P!Aggregate, D!Due, P!Due
<1>4. /\ D!Stop => P!Stop
      /\ D!StopReturn => P!StopReturn
      /\ \A m \in calls : D!EmitDone(m) => P!EmitDone(m)
  BY DEF D!Stop, P!Stop, D!StopReturn, P!StopReturn, D!EmitDone, P!EmitDone,
         D!Aggregate, P!Aggregate, D!Due, P!Due
<1> QED
  BY <1>1, <1>2, <1>3, <1>4

\* A submitter of these events, a timer or Shutdown acts on the debouncer, or
\* nobody does.
LEMMA DebouncerActs ==
  ASSUME EventsInv, [AllNext]_allVars
  PROVE  \/ \E type \in {"started", "stopped"} : P!Submit(type)
         \/ \E t \in P!Events : P!Fire(t) \/ P!Flush(t)
         \/ P!Stop \/ P!StopReturn \/ \E m \in calls : P!EmitDone(m)
         \/ UNCHANGED eventVars
<1>1. \A t \in 1 .. n : t \in P!Events
  <2>1. n \in 0 .. (MaxFailures + 2)
    BY DEF EventsInv, P!IInv, P!TypeOK
  <2> QED
    BY <2>1, IsDebouncer DEF P!Events
<1>2. CASE EventRun
  BY <1>2, SameActions DEF EventRun, EmitStarted, StartedEmitted, EmitStopped, StopEvents,
                       EventsStopped, Emit
<1>3. CASE PushEnds \/ Timers \/ StopReturns
  BY <1>1, <1>3, SameActions DEF PushEnds, Push, PushLost, Timers, StopReturns
<1>4. CASE ~(EventRun \/ PushEnds \/ Timers \/ StopReturns)
  BY <1>4 DEF AllNext, Session, allVars, eventVars
<1> QED
  BY <1>2, <1>3, <1>4

\* So the debouncer's invariant is kept.
LEMMA DebouncerStep ==
  ASSUME EventsInv, [AllNext]_allVars
  PROVE  P!IInv'
<1>1. [P!Next]_(P!vars)
  BY DebouncerActs DEF P!Next, P!vars, eventVars
<1> QED
  BY <1>1, IsDebouncer, P!InductiveStep DEF EventsInv

\* What the debouncer's invariant says of its calls and of its entries.
LEMMA EventFacts ==
  ASSUME P!IInv
  PROVE  /\ n \in Nat /\ 1 .. n \subseteq P!Events /\ pending \in [DOMAIN pending -> P!Entry]
         /\ keyOf \in [P!Events -> {"started", "stopped", "none"}]
         /\ \A m \in calls \cup emitted :
              /\ m.ev \in 1 .. n /\ m.count \in Nat /\ m.count > 0
              /\ m.count = Cardinality(m.covers)
         /\ \A k \in DOMAIN pending :
              /\ k \in {"started", "stopped"} /\ pending[k].count \in Nat
              /\ pending[k].id \in 1 .. n /\ keyOf[pending[k].id] = k
              /\ pending[k].count > 0 => keyOf[pending[k].last] = k
<1>1. /\ P!TypeOK /\ P!NoneForgotten /\ P!CountsExact /\ P!EntriesExact
      /\ n \in Nat /\ 1 .. n \subseteq P!Events
  BY IsDebouncer DEF P!IInv, P!TypeOK, P!Events
<1>2. ASSUME NEW m \in calls \cup emitted
      PROVE  /\ m.ev \in 1 .. n /\ m.count \in Nat /\ m.count > 0
             /\ m.count = Cardinality(m.covers)
  <2>1. m \in P!Call /\ m \in P!AllCalls
    BY <1>1 DEF P!TypeOK, P!AllCalls
  <2>2. m.ev \in m.covers /\ m.ev \in P!Events /\ m.count \in Nat
    BY <1>1, <2>1 DEF P!CountsExact, P!Call
  <2>3. m.ev <= n
    BY <1>1, <2>1, <2>2 DEF P!NoneForgotten, P!Reported
  <2>4. m.count = Cardinality(m.covers) /\ m.count > 0
    BY <1>1, <2>1 DEF P!CountsExact, P!Cardinality, Cardinality
  <2>5. m.ev \in 1 .. n
    BY <1>1, <2>2, <2>3, IsDebouncer DEF P!Events
  <2> QED
    BY <2>2, <2>4, <2>5
<1>3. ASSUME NEW k \in DOMAIN pending
      PROVE  /\ k \in {"started", "stopped"} /\ pending[k].count \in Nat
             /\ pending[k].id \in 1 .. n /\ keyOf[pending[k].id] = k
             /\ pending[k].count > 0 => keyOf[pending[k].last] = k
  <2>1. k \in {"started", "stopped"} /\ pending[k] \in P!Entry
    BY <1>1 DEF P!TypeOK
  <2>2. /\ pending[k].id <= pending[k].last /\ pending[k].last <= n
        /\ keyOf[pending[k].id] = k
        /\ pending[k].count > 0 => keyOf[pending[k].last] = k
    BY <1>1 DEF P!EntriesExact
  <2>3. pending[k].id \in 1 .. n
    BY <1>1, <2>1, <2>2, IsDebouncer DEF P!Entry, P!Events
  <2> QED
    BY <2>1, <2>2, <2>3 DEF P!Entry
<1> QED
  BY <1>1, <1>2, <1>3 DEF P!TypeOK

\* What the events leave alone stays true.
LEMMA EventsAlone ==
  ASSUME EventsInv, UNCHANGED <<eventVars, mine, told, conn, shut>>
  PROVE  ToldTrue' /\ StopOnce' /\ ShutInOrder'
  BY DEF EventsInv, ToldTrue, StopOnce, ShutInOrder, eventVars, Payload

\* Submitting an event numbers it, and holds it back or calls.
LEMMA Submitted ==
  ASSUME P!IInv, NEW type \in {"started", "stopped"}, P!Submit(type)
  PROVE  /\ n' = n + 1 /\ keyOf'[n + 1] = type
         /\ \A e \in 1 .. n : keyOf'[e] = keyOf[e]
         /\ UNCHANGED <<emitted, stopped, stopper>>
         /\ \A m \in calls' \ calls : m.by = "submit" /\ m.ev = n + 1
         /\ \A k \in DOMAIN pending' \ {type} : k \in DOMAIN pending /\ pending'[k] = pending[k]
         /\ ~stopped /\ type \notin DOMAIN pending
              => type \in DOMAIN pending' /\ pending'[type].count = 0
<1>1. n \in Nat /\ n < MaxFailures + 2 /\ n' = n + 1 /\ keyOf' = [keyOf EXCEPT ![n + 1] = type]
  BY EventFacts DEF P!Submit, P!SubmitInline, P!SubmitBuffer, P!SubmitLead, P!Arrive
<1>2. n + 1 \in P!Events
  BY <1>1, IsDebouncer DEF P!Events
<1>3. /\ keyOf'[n + 1] = type
      /\ \A e \in 1 .. n : keyOf'[e] = keyOf[e]
  BY <1>1, <1>2, EventFacts
<1>4. /\ UNCHANGED <<emitted, stopped, stopper>>
      /\ \A m \in calls' \ calls : m.by = "submit" /\ m.ev = n + 1
  BY DEF P!Submit, P!SubmitInline, P!SubmitBuffer, P!SubmitLead, P!Single
<1>5. /\ \A k \in DOMAIN pending' \ {type} : k \in DOMAIN pending /\ pending'[k] = pending[k]
      /\ ~stopped /\ type \notin DOMAIN pending
           => type \in DOMAIN pending' /\ pending'[type].count = 0
  BY DEF P!Submit, P!SubmitInline, P!SubmitBuffer, P!SubmitLead, P!Put, P!Opened, P!Debounced
<1> QED
  BY <1>1, <1>3, <1>4, <1>5

\* A registration leaves what is said of the stop alone.
LEMMA StartedStep ==
  ASSUME EventsInv, EmitStarted
  PROVE  ToldTrue' /\ StopOnce' /\ ShutInOrder'
<1>1. /\ P!Submit("started") /\ mine' = [mine EXCEPT !["runner"] = n + 1]
      /\ UNCHANGED <<told, conn, shut>>
  BY SameActions DEF EmitStarted, Emit, vars, ctxVars, shutVars
<1>2. mine'["shutdown"] = mine["shutdown"]
  BY <1>1 DEF EventsInv, Submitters
<1>3. P!IInv
  BY DEF EventsInv
<1>4. ToldTrue' /\ ShutInOrder'
  BY <1>1, <1>3, Submitted DEF EventsInv, ToldTrue, ShutInOrder, Payload
<1>5. n \in Nat /\ \A m \in calls : m.ev \in 1 .. n
  BY <1>3, EventFacts
<1>6. StopOnce'
  BY <1>1, <1>2, <1>3, <1>5, Submitted DEF EventsInv, StopOnce
<1> QED
  BY <1>4, <1>6

\* Shutdown's event is the first of its key: it opens a window and is called for.
LEMMA StoppedStep ==
  ASSUME EventsInv, EmitStopped
  PROVE  ToldTrue' /\ StopOnce' /\ ShutInOrder'
<1>1. /\ P!Submit("stopped") /\ mine' = [mine EXCEPT !["shutdown"] = n + 1]
      /\ ~stopped /\ mine["shutdown"] = 0 /\ UNCHANGED <<told, conn, shut>>
  BY SameActions DEF EmitStopped, Emit, vars, ctxVars, shutVars
<1>2. mine'["shutdown"] = n + 1
  BY <1>1 DEF EventsInv, Submitters
<1>3. P!IInv
  BY DEF EventsInv
<1>4. n \in Nat /\ \A m \in calls : m.ev \in 1 .. n
  BY <1>3, EventFacts
<1>5. \A e \in 1 .. n : keyOf[e] = "started"
  BY <1>1, <1>4 DEF EventsInv, StopOnce
<1>6. "stopped" \notin DOMAIN pending
  BY <1>3, <1>5, EventFacts
<1>7. ToldTrue' /\ ShutInOrder'
  BY <1>1, <1>3, Submitted DEF EventsInv, ToldTrue, ShutInOrder, Payload
<1>8. StopOnce'
  <2>1. n' = n + 1 /\ keyOf'[n + 1] = "stopped" /\ \A e \in 1 .. n : keyOf'[e] = "started"
    BY <1>1, <1>3, <1>5, Submitted
  <2>2. \A m \in calls' : keyOf'[m.ev] = "stopped" => ~stopped' /\ m.by = "submit"
    BY <1>1, <1>3, <1>4, <2>1, Submitted
  <2>3. pending'["stopped"].count = 0
    BY <1>1, <1>3, <1>6, Submitted
  <2> QED
    BY <1>2, <1>4, <2>1, <2>2, <2>3 DEF StopOnce
<1> QED
  BY <1>7, <1>8

\* The aggregates that a timer or Stop takes are of registrations.
LEMMA TakenStarted ==
  ASSUME P!IInv, StopOnce, NEW who, NEW k \in DOMAIN pending, P!Due(pending[k])
  PROVE  /\ keyOf[P!Aggregate(pending[k], who).ev] = "started"
         /\ P!Aggregate(pending[k], who).by = who
  BY EventFacts DEF StopOnce, P!Due, P!Aggregate

\* When Shutdown's event has been emitted, it stops the debouncer.
LEMMA StopEventsStep ==
  ASSUME EventsInv, StopEvents
  PROVE  ToldTrue' /\ StopOnce' /\ ShutInOrder'
<1>1. /\ P!Stop /\ Emitted("shutdown") /\ mine'["shutdown"] = 0
      /\ UNCHANGED <<told, conn, shut>> /\ shut["rpc"] = "report"
  BY SameActions DEF StopEvents, Emitted, vars, ctxVars, shutVars, EventsInv, Submitters
<1>2. P!IInv
  BY DEF EventsInv
<1>3. /\ UNCHANGED <<n, keyOf, emitted>> /\ ~stopped /\ stopped' = TRUE
      /\ stopper' = "flushing" /\ DOMAIN pending' = {}
      /\ calls' = calls \cup {P!Aggregate(pending[k], "stop") :
                                k \in {y \in DOMAIN pending : P!Due(pending[y])}}
  BY <1>1 DEF P!Stop
<1>4. \A m \in calls : keyOf[m.ev] # "stopped"
  <2> SUFFICES ASSUME NEW m \in calls, keyOf[m.ev] = "stopped" PROVE FALSE
    OBVIOUS
  <2>1. m.by = "submit" /\ m.ev \in 1 .. n
    BY <1>2, EventFacts DEF EventsInv, StopOnce
  <2>2. m.ev = mine["shutdown"]
    BY <1>3, <2>1 DEF EventsInv, StopOnce
  <2> QED
    BY <1>1, <2>1, <2>2 DEF Emitted
<1>5. \A m \in calls' : keyOf[m.ev] # "stopped"
  BY <1>2, <1>3, <1>4, TakenStarted DEF EventsInv
<1>6. ToldTrue' /\ ShutInOrder'
  BY <1>1, <1>3 DEF EventsInv, ToldTrue, ShutInOrder, Payload
<1>7. StopOnce'
  BY <1>3, <1>5 DEF EventsInv, StopOnce
<1> QED
  BY <1>6, <1>7

\* A timer's goroutine is started, or takes an entry.
LEMMA TimerStep ==
  ASSUME EventsInv, Timers
  PROVE  ToldTrue' /\ StopOnce' /\ ShutInOrder'
<1>1. PICK t \in 1 .. n : (P!Fire(t) \/ P!Flush(t)) /\ UNCHANGED <<vars, told, mine>>
  BY SameActions DEF Timers
<1>2. UNCHANGED <<n, keyOf, emitted, stopped, stopper, told, mine, conn, shut>>
  BY <1>1 DEF P!Fire, P!Flush, vars, ctxVars, shutVars
<1>3. P!IInv
  BY DEF EventsInv
<1>4. \A m \in calls' \ calls : keyOf[m.ev] = "started" /\ m.by = "timer"
  BY <1>1, <1>3, TakenStarted DEF P!Fire, P!Flush, EventsInv
<1>5. \A k \in DOMAIN pending' : k \in DOMAIN pending /\ pending'[k] = pending[k]
  BY <1>1 DEF P!Fire, P!Flush, P!Taken, P!Drop
<1>6. ToldTrue' /\ ShutInOrder'
  BY <1>2, <1>4 DEF EventsInv, ToldTrue, ShutInOrder, Payload
<1>7. StopOnce'
  BY <1>2, <1>4, <1>5 DEF EventsInv, StopOnce
<1> QED
  BY <1>6, <1>7

\* A push reaches master or is lost.
LEMMA PushStep ==
  ASSUME EventsInv, NEW m \in calls, Push(m) \/ PushLost(m)
  PROVE  ToldTrue' /\ StopOnce' /\ ShutInOrder'
<1>1. /\ calls' = calls \ {m} /\ emitted' = emitted \cup {m}
      /\ UNCHANGED <<n, keyOf, pending, stopped, stopper, mine, conn, shut>>
      /\ told' \subseteq told \cup {[ev |-> m.ev, covers |-> m.covers, payload |-> Payload(m)]}
  BY DEF Push, PushLost, D!EmitDone, vars, ctxVars, shutVars
<1>2. ToldTrue'
  BY <1>1 DEF EventsInv, ToldTrue, Payload
<1>3. StopOnce' /\ ShutInOrder'
  BY <1>1 DEF EventsInv, StopOnce, ShutInOrder
<1> QED
  BY <1>2, <1>3

\* Shutdown goes on when the debouncer has been stopped.
LEMMA ShutDownStep ==
  ASSUME EventsInv, StopReturns \/ EventsStopped \/ Session(ShutAlone)
  PROVE  ToldTrue' /\ StopOnce' /\ ShutInOrder'
<1>1. CASE StopReturns
  <2>1. /\ UNCHANGED <<n, keyOf, pending, calls, emitted, stopped, told, mine, conn, shut>>
        /\ stopper = "flushing" /\ stopper' = "returned" /\ \A m \in calls : m.by # "stop"
    BY <1>1 DEF StopReturns, D!StopReturn, vars, ctxVars, shutVars
  <2> QED
    BY <2>1 DEF EventsInv, ToldTrue, StopOnce, ShutInOrder, Payload
<1>2. CASE EventsStopped \/ Session(ShutAlone)
  <2>1. UNCHANGED <<eventVars, told, mine>>
    BY <1>2 DEF EventsStopped, Session
  <2>2. ToldTrue' /\ StopOnce'
    BY <2>1 DEF EventsInv, ToldTrue, StopOnce, eventVars, Payload
  <2>3. ShutInOrder'
    <3>1. ASSUME EventsStopped PROVE ShutInOrder'
      BY <2>1, <3>1 DEF EventsInv, ShutInOrder, eventVars, EventsStopped, Flushed, ReportStopped,
                        ShutStep, Runners
    <3>2. ASSUME NEW r \in Runners, CancelRunner(r) PROVE ShutInOrder'
      BY <2>1, <3>2 DEF EventsInv, ShutInOrder, eventVars, CancelRunner, Runners
    <3>3. ASSUME CancelService \/ CloseConn PROVE ShutInOrder'
      BY <2>1, <3>3 DEF EventsInv, ShutInOrder, eventVars, CancelService, CloseConn, ShutStep,
                        Runners
    <3> QED
      BY <1>2, <3>1, <3>2, <3>3 DEF Session, ShutAlone
  <2> QED
    BY <2>2, <2>3
<1> QED
  BY <1>1, <1>2

\* The runners, master and the network do not touch what the events are about.
LEMMA SessionStep ==
  ASSUME EventsInv,
         \/ StartedEmitted
         \/ \E r \in Runners : Session(Begin(r)) \/ Session(Derive(r))
         \/ Session(RunAlone) \/ Session(Calls) \/ Session(Stop)
         \/ Session(Break) \/ Session(BreakLeft) \/ UNCHANGED allVars
  PROVE  ToldTrue' /\ StopOnce' /\ ShutInOrder'
<1>1. CASE StartedEmitted
  <2>1. UNCHANGED <<eventVars, told, conn, shut>> /\ mine' = [mine EXCEPT !["runner"] = 0]
    BY <1>1 DEF StartedEmitted, Emitted, ReportStarted, RpcStep, ctxVars, shutVars
  <2>2. mine'["shutdown"] = mine["shutdown"]
    BY <2>1 DEF EventsInv, Submitters
  <2> QED
    BY <2>1, <2>2 DEF EventsInv, ToldTrue, StopOnce, ShutInOrder, eventVars, Payload
<1>2. CASE ~StartedEmitted
  <2>1. UNCHANGED <<eventVars, mine, told>>
    BY <1>2 DEF Session, allVars
  <2>2. UNCHANGED <<conn, shut>>
    BY <1>2 DEF Session, Begin, Derive, RunAlone, RpcRun, Check, ConnectFailed, Register,
       ReportStarted, Serve, Recv, Reply, StreamFailed, Lost, DelayOver, DelayCanceled, RpcStep,
       Calls, Pulled, Connected, Registered, Rejected, Handled, PullDone, PullStep, Stop, Break,
       BreakLeft, allVars, vars, ctxVars, shutVars
  <2> QED
    BY <2>1, <2>2, EventsAlone
<1> QED
  BY <1>1, <1>2

\* Every step of the session and of its events keeps the invariant.
LEMMA EventsStep == EventsInv /\ [AllNext]_allVars => EventsInv'
<1> SUFFICES ASSUME EventsInv, [AllNext]_allVars PROVE EventsInv'
  OBVIOUS
<1>1. P!IInv'
  BY DebouncerStep
<1>2. mine' \in [Submitters -> Nat]
  <2>1. mine \in [Submitters -> Nat] /\ n + 1 \in Nat
    BY EventFacts DEF EventsInv
  <2>2. \/ mine' = mine
        \/ \E s \in Submitters : mine' = [mine EXCEPT ![s] = n + 1]
        \/ \E s \in Submitters : mine' = [mine EXCEPT ![s] = 0]
    BY DEF AllNext, Session, EventRun, EmitStarted, EmitStopped, Emit, StartedEmitted, StopEvents,
       Emitted, EventsStopped, PushEnds, Push, PushLost, Timers, StopReturns, allVars, Submitters
  <2> QED
    BY <2>1, <2>2
<1>3. ToldTrue' /\ StopOnce' /\ ShutInOrder'
  <2>1. CASE EventRun
    BY <2>1, StartedStep, SessionStep, StoppedStep, StopEventsStep, ShutDownStep DEF EventRun
  <2>2. CASE PushEnds \/ Timers \/ StopReturns \/ Session(ShutAlone)
    BY <2>2, PushStep, TimerStep, ShutDownStep DEF PushEnds
  <2>3. CASE ~(EventRun \/ PushEnds \/ Timers \/ StopReturns \/ Session(ShutAlone))
    BY <2>3, SessionStep DEF AllNext
  <2> QED
    BY <2>1, <2>2, <2>3
<1> QED
  BY <1>1, <1>2, <1>3 DEF EventsInv

\* At the start nothing has been submitted.
LEMMA EventsInit == AllInit => EventsInv
<1> SUFFICES ASSUME AllInit PROVE EventsInv
  OBVIOUS
<1>1. P!IInv
  <2>1. P!Init
    BY SameActions DEF AllInit
  <2> QED
    BY <2>1, IsDebouncer, P!InductiveInit
<1>2. /\ n = 0 /\ calls = {} /\ DOMAIN pending = {} /\ stopped = FALSE /\ stopper = "none"
      /\ told = {} /\ mine = [s \in Submitters |-> 0]
      /\ shut = [r \in Runners |-> "no"] /\ conn = "open"
  BY DEF AllInit, Init, D!Init, D!New
<1>3. ToldTrue /\ ShutInOrder
  BY <1>2 DEF ToldTrue, ShutInOrder, Runners
<1>4. StopOnce
  BY <1>2 DEF StopOnce
<1> QED
  BY <1>1, <1>2, <1>3, <1>4 DEF EventsInv

\* What the invariant says of the two properties.
LEMMA EventsImply == EventsInv => CountsReachMaster /\ ClosingSparesTheStop
<1> SUFFICES ASSUME EventsInv PROVE CountsReachMaster /\ ClosingSparesTheStop
  OBVIOUS
<1>0. P!IInv /\ ToldTrue /\ StopOnce /\ ShutInOrder
  BY DEF EventsInv
<1>1. ASSUME NEW p \in told PROVE Occurrences(p) = Cardinality(p.covers)
  <2>1. PICK m \in emitted : p = [ev |-> m.ev, covers |-> m.covers, payload |-> Payload(m)]
    BY <1>0 DEF ToldTrue
  <2>2. m.count \in Nat /\ m.count > 0 /\ m.count = Cardinality(m.covers)
    BY <1>0, EventFacts
  <2>3. CASE m.count <= 1
    <3>1. DOMAIN p.payload = {}
      BY <2>1, <2>3 DEF Payload, MergeAggregateCount, NoPayload
    <3> QED
      BY <2>1, <2>2, <2>3, <3>1 DEF Occurrences
  <2>4. CASE ~(m.count <= 1)
    <3>1. p.payload = [f \in {"aggregate_count"} |-> m.count]
      BY <2>1, <2>4 DEF Payload, MergeAggregateCount, NoPayload
    <3> QED
      BY <2>1, <2>2, <3>1 DEF Occurrences
  <2> QED
    BY <2>3, <2>4
<1>2. ASSUME NEW p \in told, NEW q \in told, p # q PROVE p.covers \cap q.covers = {}
  <2>1. PICK l \in emitted : p = [ev |-> l.ev, covers |-> l.covers, payload |-> Payload(l)]
    BY <1>0 DEF ToldTrue
  <2>2. PICK m \in emitted : q = [ev |-> m.ev, covers |-> m.covers, payload |-> Payload(m)]
    BY <1>0 DEF ToldTrue
  <2>3. l # m
    BY <1>2, <2>1, <2>2
  <2> QED
    BY <1>0, <2>1, <2>2, <2>3 DEF P!IInv, P!NoneTwice, P!AllCalls
<1>3. ClosingSparesTheStop
  <2> SUFFICES ASSUME conn = "closed", NEW m \in calls PROVE m.by # "stop" /\ keyOf[m.ev] = "started"
    BY DEF ClosingSparesTheStop
  <2>1. stopper = "returned" /\ stopped
    BY <1>0 DEF ShutInOrder
  <2>2. m.ev \in 1 .. n
    BY <1>0, EventFacts
  <2> QED
    BY <1>0, <2>1, <2>2 DEF StopOnce, ShutInOrder
<1> QED
  BY <1>1, <1>2, <1>3 DEF CountsReachMaster

\* The start and the beginning of the runners leave the session and its events alone.
LEMMA AgentEvents == AgentSpec => []EventsInv
<1>1. AgentInit => EventsInv
  BY EventsInit DEF AgentInit
<1>2. EventsInv /\ [AgentNext]_<<allVars, startVars>> => EventsInv'
  BY EventsStep DEF AgentNext, BeginRunners
<1> QED
  BY <1>1, <1>2, PTL DEF AgentSpec

\* However registrations, timers, lost calls and a shutdown interleave, what master
\* is told counts every event that reaches it exactly once.
THEOREM MasterCountsRight == AgentSpec => []CountsReachMaster
  BY AgentEvents, EventsImply, PTL

\* Shutdown closes the connection on no push of its own event, nor on one of the
\* aggregates that stopping the debouncer has found.
THEOREM StopIsSpared == AgentSpec => []ClosingSparesTheStop
  BY AgentEvents, EventsImply, PTL

\* An agent that is running keeps what it was started with: beginning the runners
\* leaves the start behind.
LEMMA AgentStarts == AgentSpec => []StartInv
<1>1. AgentInit => StartInv
  BY StartInvInit DEF AgentInit
<1>2. StartInv /\ [AgentNext]_<<allVars, startVars>> => StartInv'
  <2> SUFFICES ASSUME StartInv, [AgentNext]_<<allVars, startVars>> PROVE StartInv'
    OBVIOUS
  <2>1. CASE [Start]_startVars
    BY <2>1, StartInvStep
  <2>2. CASE BeginRunners
    <3>1. Nowhere \in Texts
      BY DEF Nowhere, Given, Text, Texts
    <3> QED
      BY <2>2, <3>1 DEF BeginRunners, StartInv, HandedOver, Configured, RunsAsTold, FlagsWin,
                        RunsOnlyWhole, DialsAsAddressed
  <2> QED
    BY <2>1, <2>2 DEF AgentNext, startVars
<1> QED
  BY <1>1, <1>2, PTL DEF AgentSpec

\* The same holds of the start as the first part of the process.
THEOREM AgentStartsAsTold == AgentSpec => [](RunsAsTold /\ DialsAsAddressed)
<1>1. StartInv => RunsAsTold /\ DialsAsAddressed
  BY DEF StartInv
<1> QED
  BY <1>1, AgentStarts, PTL

\* What the events add to the session does not open a stream: in the whole process,
\* too, the initial pull comes first.
THEOREM AgentPullsFirst == AgentSpec => []PulledFirst
<1>1. AgentInit => PullInv
  BY PullInvInit DEF AgentInit, AllInit
<1>2. PullInv /\ [AgentNext]_<<allVars, startVars>> => PullInv'
  <2> SUFFICES ASSUME PullInv, [AgentNext]_<<allVars, startVars>> PROVE PullInv'
    OBVIOUS
  <2>1. \/ Next
        \/ UNCHANGED <<init, pc, stream>>
    BY DEF AgentNext, BeginRunners, AllNext, Session, EventRun, EmitStarted, StartedEmitted,
       EmitStopped, StopEvents, EventsStopped, Emit, PushEnds, Push, PushLost, Timers, StopReturns,
       RunAlone, ShutAlone, ShutRun, RpcRun, Next, allVars, vars, runVars, streamVars
  <2> QED
    BY <2>1, PullInvStep, ElsewhereStep
<1>3. PullInv => PulledFirst
  BY DEF PullInv
<1> QED
  BY <1>1, <1>2, <1>3, PTL DEF AgentSpec

-----------------------------------------------------------------------------
(* The components in the process.  Nothing is true of the session or of    *)
(* the debouncer only as long as they are looked at alone.                 *)

\* What happens to the session in the agent is a step of the session, or a push that
\* fails, which is counted with the failures.
LEMMA SessionActs ==
  ASSUME [AgentNext]_<<allVars, startVars>>
  PROVE  \/ [Next]_vars
         \/ /\ failures < MaxFailures /\ failures' = failures + 1
            /\ UNCHANGED <<runVars, ctxVars, streamVars, requests, shutVars>>
<1>1. CASE EventRun \/ Timers \/ StopReturns
  BY <1>1 DEF EventRun, EmitStarted, StartedEmitted, EmitStopped, StopEvents, EventsStopped, Emit,
              Timers, StopReturns, Next, RpcRun, ShutRun
<1>2. CASE PushEnds
  BY <1>2 DEF PushEnds, Push, PushLost, vars, countVars
<1>3. CASE AllNext /\ ~(EventRun \/ Timers \/ StopReturns \/ PushEnds)
  BY <1>3 DEF AllNext, Session, RunAlone, ShutAlone, ShutRun, Next
<1>4. CASE UNCHANGED vars
  BY <1>4
<1> QED
  BY <1>1, <1>2, <1>3, <1>4 DEF AgentNext, BeginRunners, allVars

\* In the whole process, where registrations and shutdowns wait for their events and
\* every lost push is a failure more, the session is RpcSession: nothing but its own
\* steps changes it, failures apart, and it stays well typed.
THEOREM SessionInAgent ==
  AgentSpec => /\ Init /\ [][Next]_<<runVars, ctxVars, streamVars, requests, shutVars>>
               /\ []TypeOK
<1>1. AgentInit => Init /\ TypeInv
  BY TypeInit DEF AgentInit, AllInit
<1>2. TypeInv /\ [AgentNext]_<<allVars, startVars>> => TypeInv'
  <2> SUFFICES ASSUME TypeInv, [AgentNext]_<<allVars, startVars>> PROVE TypeInv'
    OBVIOUS
  <2>1. CASE [Next]_vars
    BY <2>1, TypeStep
  <2>2. CASE /\ failures < MaxFailures /\ failures' = failures + 1
             /\ UNCHANGED <<runVars, ctxVars, streamVars, requests, shutVars>>
    BY <2>2 DEF TypeInv, Placed, Contexts, Streams, runVars, ctxVars, streamVars, shutVars
  <2> QED
    BY <2>1, <2>2, SessionActs
<1>3. [AgentNext]_<<allVars, startVars>>
        => [Next]_<<runVars, ctxVars, streamVars, requests, shutVars>>
  BY SessionActs DEF vars, countVars
<1>4. TypeInv => TypeOK
  BY DEF TypeInv, TypeOK, Placed, Contexts, Streams
<1> QED
  BY <1>1, <1>2, <1>3, <1>4, PTL DEF AgentSpec

\* The service's debouncer is Debouncer, with the two lifecycle events for keys: the
\* agent takes no other step with it, so every event of the agent's life is in one
\* window or one call, counted right, and no window stays open for ever.
THEOREM DebouncerInAgent ==
  AgentSpec => /\ P!Init /\ [][P!Next]_(P!vars)
               /\ [](P!AccountedOnce /\ P!CountsExact /\ P!WindowsSound)
<1>1. AgentInit => P!Init
  BY SameActions DEF AgentInit, AllInit
<1>2. EventsInv /\ [AgentNext]_<<allVars, startVars>> => [P!Next]_(P!vars)
  <2> SUFFICES ASSUME EventsInv, [AgentNext]_<<allVars, startVars>> PROVE [P!Next]_(P!vars)
    OBVIOUS
  <2>1. [AllNext]_allVars
    BY DEF AgentNext, BeginRunners
  <2> QED
    BY <2>1, DebouncerActs DEF P!Next, P!vars, eventVars
<1>3. EventsInv => P!AccountedOnce /\ P!CountsExact /\ P!WindowsSound
  BY DEF EventsInv, P!IInv, P!AccountedOnce, P!WindowsSound
<1> QED
  BY <1>1, <1>2, <1>3, AgentEvents, PTL DEF AgentSpec

=============================================================================
