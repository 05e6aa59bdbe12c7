-------------------------- MODULE TunnelSyncProofs --------------------------
(***************************************************************************)
(* Safety of the tunnel synchronisation, whatever the operations that      *)
(* overlap and whenever the goroutines begin: types, no frp client run     *)
(* twice at a time, and then, from an invariant about who can still reach  *)
(* a handler, that the only tunnels out of reach or alive after a stop are *)
(* those stored behind another operation's back and those frp runs after   *)
(* they were closed.                                                       *)
(***************************************************************************)
EXTENDS TunnelSync, TLAPS

OpTypes == op \in [Procs -> Operation] /\ \A p \in Procs : OpOK(op[p])

HsTypes == hs \in [Handlers -> Handler] /\ SingleRun

MapTypes ==
  /\ outer \in [Clients -> Maps \cup {None}]
  /\ maps \in [Maps -> [Servers -> Handlers \cup {None}]]

EnvTypes ==
  /\ master \in MasterStates
  /\ down \in BOOLEAN
  /\ messages \in 0..MaxMessages
  /\ changes \in 0..MaxChanges
  /\ failures \in 0..MaxFailures

\* The inductive invariant, by the variables its parts are about.
IInv == OpTypes /\ HsTypes /\ MapTypes /\ EnvTypes

\* The constructors of operations.
LEMMA IdleType ==
  /\ Idle \in Operation
  /\ OpOK(Idle)
  /\ \A c \in Clients : \A T \in SUBSET Clients :
       Pulling(c, T) \in Operation /\ OpOK(Pulling(c, T))
<1>1. (CHOOSE s \in Servers : TRUE) \in Servers
  BY ServersAssumption
<1>2. Idle \in Operation
  BY <1>1, RootAssumption DEF Idle, Operation, Pcs
<1>3. OpOK(Idle)
  BY DEF OpOK, Idle, Slotted
<1>4. ASSUME NEW c \in Clients, NEW T \in SUBSET Clients
      PROVE  Pulling(c, T) \in Operation /\ OpOK(Pulling(c, T))
  <2>1. Pulling(c, T) \in Operation
    BY <1>2 DEF Pulling, Operation, Pcs
  <2>2. OpOK(Pulling(c, T))
    BY <1>2 DEF Pulling, Operation, OpOK, Slotted
  <2> QED
    BY <2>1, <2>2
<1> QED
  BY <1>2, <1>3, <1>4

\* Moving on keeps an operation's fields but its place, and drops its inner map.
LEMMA EnterType ==
  ASSUME NEW o \in Operation, NEW pc \in Pcs
  PROVE  /\ Enter(o, pc) \in Operation
         /\ Enter(o, pc).pc = pc
         /\ Enter(o, pc).map = None
         /\ Enter(o, pc).c = o.c /\ Enter(o, pc).s = o.s /\ Enter(o, pc).h = o.h
         /\ Enter(o, pc).cfg = o.cfg /\ Enter(o, pc).visit = o.visit
         /\ Enter(o, pc).left = Servers
BY DEF Enter, Operation

\* An operation that is over, or goes on to the next client of its list, has the
\* fields its place asks for.
LEMMA ReturnedType ==
  ASSUME NEW o \in Operation
  PROVE  Returned(o) \in Operation /\ OpOK(Returned(o))
<1>1. [Idle EXCEPT !.pc = "next", !.todo = o.todo] \in Operation
  BY IdleType DEF Operation, Pcs
<1>2. OpOK([Idle EXCEPT !.pc = "next", !.todo = o.todo])
  BY IdleType DEF Operation, OpOK, Slotted
<1> QED
  BY <1>1, <1>2, IdleType DEF Returned

\* So has one that goes on to remove tunnels,
LEMMA RemovingType ==
  ASSUME NEW o \in Operation, NEW T \in SUBSET Clients
  PROVE  Removing(o, T) \in Operation /\ OpOK(Removing(o, T))
<1> DEFINE e == Enter(o, "expire")
           r == [e EXCEPT !.ids = T]
<1>1. e \in Operation /\ e.pc = "expire"
  BY EnterType DEF Pcs
<1> HIDE DEF e
<1>2. r \in Operation /\ r.pc = "expire"
  BY <1>1 DEF Operation
<1>3. OpOK(r)
  BY <1>2 DEF OpOK, Slotted
<1>4. Removing(o, T) \in {r, Returned(o)}
  BY DEF Removing, e
<1> QED
  BY <1>2, <1>3, <1>4, ReturnedType

\* one that has ranged over an inner map,
LEMMA AfterType ==
  ASSUME NEW o \in Operation, o.pc \in {"halt", "removestop", "stopall"}
  PROVE  After(o) \in Operation /\ OpOK(After(o))
<1>1. CASE o.pc = "halt"
  BY <1>1, ReturnedType DEF After
<1>2. CASE o.pc = "removestop"
  <2>1. After(o) = Enter(o, "remove")
    BY <1>2 DEF After
  <2>2. After(o) \in Operation /\ After(o).pc = "remove"
    BY <2>1, EnterType DEF Pcs
  <2> QED
    BY <2>2 DEF OpOK, Slotted
<1>3. CASE o.pc = "stopall"
  <2> DEFINE d == Enter(o, "deleteall")
             e == [d EXCEPT !.visit = Clients]
  <2>1. d \in Operation /\ d.pc = "deleteall"
    BY EnterType DEF Pcs
  <2> HIDE DEF d
  <2>2. e \in Operation /\ e.pc = "deleteall"
    BY <2>1 DEF Operation
  <2>3. Enter(o, "stopall") \in Operation /\ Enter(o, "stopall").pc = "stopall"
    BY EnterType DEF Pcs
  <2>4. After(o) \in {Enter(o, "stopall"), e}
    BY <1>3 DEF After, d
  <2> HIDE DEF e
  <2> QED
    BY <2>2, <2>3, <2>4 DEF OpOK, Slotted
<1> QED
  BY <1>1, <1>2, <1>3

\* one that has master's answer to a pull,
LEMMA AnsweredType ==
  ASSUME NEW o \in Operation, NEW r, r = NoClient \/ r \in Answer
  PROVE  Answered(o, r) \in Operation /\ OpOK(Answered(o, r))
<1>1. CASE r = NoClient
  BY <1>1, ReturnedType DEF Answered
<1>2. CASE r \in Answer
  <2>0. r # NoClient
    BY <1>2, NoneAssumption
  <2>1. CASE r.stopped
    <3>1. [o EXCEPT !.pc = "halt"] \in Operation
      BY DEF Operation, Pcs
    <3>2. OpOK([o EXCEPT !.pc = "halt"])
      BY DEF Operation, OpOK, Slotted
    <3> QED
      BY <2>0, <2>1, <3>1, <3>2 DEF Answered
  <2>2. CASE ~r.stopped /\ r.ids # {}
    <3> DEFINE all == [o EXCEPT !.todo = @ \cup (r.ids \ {o.c})]
               l == [all EXCEPT !.pc = "list", !.ids = r.ids]
    <3>1. all \in Operation
      BY <1>2 DEF Operation, Answer
    <3> HIDE DEF all
    <3>2. l \in Operation
      BY <1>2, <3>1 DEF Operation, Answer, Pcs
    <3>3. OpOK(l)
      BY <3>1 DEF Operation, OpOK, Slotted
    <3>4. Fanned(o, r) = IF r.origin = NoClient THEN l ELSE Returned(all)
      BY DEF Fanned, all
    <3> HIDE DEF l
    <3> QED
      BY <2>0, <2>2, <3>1, <3>2, <3>3, <3>4, ReturnedType DEF Answered
  <2>3. CASE ~r.stopped /\ r.ids = {}
    <3> DEFINE i == [o EXCEPT !.pc = "inspect", !.s = r.server, !.cfg = r.config]
    <3>1. ASSUME r.config # NoConfig
          PROVE  i \in Operation /\ OpOK(i)
      <4>1. i \in Operation
        BY <1>2 DEF Operation, Answer, Pcs
      <4>2. i.cfg \in Configs /\ i.pc = "inspect"
        BY <1>2, <3>1 DEF Operation, Answer
      <4> QED
        BY <4>1, <4>2 DEF OpOK
    <3>2. Configured(o, r) \in {i, Returned(o)}
          /\ (r.config = NoConfig => Configured(o, r) = Returned(o))
      BY DEF Configured
    <3> HIDE DEF i
    <3> QED
      BY <2>0, <2>3, <3>1, <3>2, ReturnedType DEF Answered
  <2> QED
    BY <1>2, <2>1, <2>2, <2>3 DEF Answer
<1> QED
  BY <1>1, <1>2

\* and one that has received a message.
LEMMA ReceivedType ==
  ASSUME NEW m \in Messages
  PROVE  Received(m) \in Operation /\ OpOK(Received(m))
<1>1. CASE m.event = "update"
  <2> DEFINE u == [Idle EXCEPT !.kind = "update", !.c = m.c, !.s = m.s,
                               !.cfg = m.cfg, !.pc = "inspect"]
  <2>1. u \in Operation /\ u.cfg \in Configs /\ u.pc = "inspect"
    BY <1>1, IdleType, MessageAssumption DEF Operation, Pcs
  <2>2. Received(m) \in {u, Idle}
    BY <1>1 DEF Received
  <2> QED
    BY <2>1, <2>2, IdleType DEF OpOK
<1>2. CASE m.event = "start"
  BY <1>2, IdleType, MessageAssumption DEF Received
<1>3. CASE m.event = "stop"
  <2> DEFINE u == [Idle EXCEPT !.kind = "stop", !.c = m.c,
                               !.visit = Clients, !.pc = "stopall"]
  <2>1. u \in Operation /\ u.pc = "stopall"
    BY <1>3, IdleType, MessageAssumption DEF Operation, Pcs
  <2>2. Received(m) = u
    BY <1>3 DEF Received
  <2> QED
    BY <2>1, <2>2 DEF OpOK, Slotted
<1> QED
  BY <1>1, <1>2, <1>3, MessageAssumption

-----------------------------------------------------------------------------
(* Each kind of change.                                                    *)

\* One driver's operation is replaced.
LEMMA OpSet ==
  ASSUME OpTypes, NEW p \in Procs, NEW o \in Operation, OpOK(o),
         op' = [op EXCEPT ![p] = o]
  PROVE  OpTypes'
BY DEF OpTypes

\* An operation that only moves on keeps its fields.
LEMMA OpGoto ==
  ASSUME OpTypes, NEW p \in Procs, NEW pc \in Pcs, Goto(p, pc),
         OpOK(Enter(op[p], pc))
  PROVE  OpTypes'
<1>1. Enter(op[p], pc) \in Operation
  BY EnterType DEF OpTypes
<1>2. op' = [op EXCEPT ![p] = Enter(op[p], pc)]
  BY DEF Goto, OpTypes
<1> QED
  BY <1>1, <1>2, OpSet

\* An operation that loads an inner map.
LEMMA OpLoad ==
  ASSUME OpTypes, MapTypes, NEW p \in Procs, NEW o \in Operation, NEW c \in Clients,
         OpOK(o), outer[c] # None, op' = [op EXCEPT ![p] = [o EXCEPT !.map = outer[c]]]
  PROVE  OpTypes'
<1> DEFINE n == [o EXCEPT !.map = outer[c]]
<1>1. outer[c] \in Maps
  BY DEF MapTypes
<1>2. n \in Operation /\ n.pc = o.pc /\ n.cfg = o.cfg /\ n.h = o.h /\ n.map \in Maps
  BY <1>1 DEF Operation
<1> HIDE DEF n
<1>3. OpOK(n)
  BY <1>2 DEF OpOK
<1>4. op' = [op EXCEPT ![p] = n]
  BY DEF n
<1> QED
  BY <1>2, <1>3, <1>4, OpSet

\* An operation that returns.
LEMMA OpReturn ==
  ASSUME OpTypes, NEW p \in Procs, Return(p)
  PROVE  OpTypes'
<1>1. op[p] \in Operation
  BY DEF OpTypes
<1> QED
  BY <1>1, ReturnedType, OpSet DEF Return

\* The parts of the invariant only depend on the variables they name.
LEMMA OpSame ==
  ASSUME OpTypes, UNCHANGED op
  PROVE  OpTypes'
BY DEF OpTypes

\* Handlers are closed.
LEMMA HsClosed ==
  ASSUME HsTypes, NEW H, hs' = Closed(H)
  PROVE  HsTypes'
<1>1. \A h \in Handlers :
        /\ [hs[h] EXCEPT !.closed = TRUE, !.late = FALSE] \in Handler
        /\ [hs[h] EXCEPT !.closed = TRUE, !.late = FALSE].running = hs[h].running
        /\ [hs[h] EXCEPT !.closed = TRUE, !.late = FALSE].inside = hs[h].inside
  BY DEF HsTypes, Handler
<1>2. \A h \in Handlers :
        /\ hs'[h] \in Handler
        /\ hs'[h].running = hs[h].running
        /\ hs'[h].inside = hs[h].inside
  BY <1>1 DEF HsTypes, Closed
<1>3. hs' = [h \in Handlers |-> hs'[h]]
  BY DEF Closed
<1>4. SingleRun'
  BY <1>2 DEF HsTypes, SingleRun
<1> QED
  BY <1>2, <1>3, <1>4 DEF HsTypes

\* One handler is changed, to one that is inside Run as often as it says.
LEMMA HsSet ==
  ASSUME HsTypes, NEW h \in Handlers, NEW r \in Handler,
         r.inside = IF r.running THEN 1 ELSE 0, hs' = [hs EXCEPT ![h] = r]
  PROVE  HsTypes'
BY DEF HsTypes, SingleRun

\* The same for the handlers,
LEMMA HsSame ==
  ASSUME HsTypes, UNCHANGED hs
  PROVE  HsTypes'
BY DEF HsTypes, SingleRun

\* for the maps
LEMMA MapSame ==
  ASSUME MapTypes, UNCHANGED <<outer, maps>>
  PROVE  MapTypes'
BY DEF MapTypes

\* and for master and the network.
LEMMA EnvSame ==
  ASSUME EnvTypes, UNCHANGED <<env, down, failures>>
  PROVE  EnvTypes'
BY DEF EnvTypes, env

\* What a lookup returns is a handler, or none.
LEMMA FoundType ==
  ASSUME MapTypes, NEW o \in Operation
  PROVE  Found(o) \in Handlers \cup {None}
BY DEF MapTypes, Found, Operation

\* A new handler is well typed and has never run.
LEMMA NewType ==
  ASSUME NEW c \in Clients, NEW s \in Servers, NEW cfg \in Configs
  PROVE  /\ NewClientHandler(c, s, cfg) \in Handler
         /\ NewClientHandler(c, s, cfg).inside = 0
         /\ NewClientHandler(c, s, cfg).running = FALSE
         /\ Blank \in Handler
<1>1. (CHOOSE x \in Servers : TRUE) \in Servers
  BY ServersAssumption
<1>2. Blank \in Handler /\ Blank.inside = 0 /\ Blank.running = FALSE
  BY <1>1, RootAssumption DEF Blank, Handler
<1>3. Started(cfg) \cap ValidProxies \in SUBSET UNION {x.proxies : x \in Configs}
  BY DEF Started
<1>4. cfg.common \in {x.common : x \in Configs}
  OBVIOUS
<1> QED
  BY <1>2, <1>3, <1>4 DEF NewClientHandler, Handler

-----------------------------------------------------------------------------
(* The steps.                                                              *)

\* A driver begins an operation.
LEMMA BeginStep ==
  ASSUME IInv,
         Tick \/ Initialized \/ Shutdown \/ (\E m \in Messages : Receive(m))
  PROVE  IInv'
<1>0. OpTypes /\ HsTypes /\ MapTypes /\ EnvTypes
  BY DEF IInv
<1>1. CASE Tick
  <2>1. OpTypes'
    BY <1>0, <1>1, IdleType, OpSet, RootAssumption DEF Tick
  <2> QED
    BY <1>0, <1>1, <2>1, HsSame, MapSame, EnvSame DEF Tick, IInv
<1>2. CASE Initialized
  <2>1. OpTypes'
    BY <1>0, <1>2, IdleType, OpSet DEF Initialized
  <2> QED
    BY <1>0, <1>2, <2>1, HsSame, MapSame, EnvSame DEF Initialized, IInv
<1>3. CASE Shutdown
  <2> DEFINE o == [Idle EXCEPT !.visit = Clients, !.pc = "stopall"]
  <2>1. o \in Operation /\ o.pc = "stopall"
    BY IdleType DEF Operation, Pcs
  <2>2. OpOK(o)
    BY <2>1 DEF OpOK, Slotted
  <2>3. "shutdown" \in Procs /\ op' = [op EXCEPT !["shutdown"] = o]
    BY <1>3 DEF Shutdown
  <2> HIDE DEF o
  <2>4. OpTypes'
    BY <1>0, <2>1, <2>2, <2>3, OpSet
  <2>5. EnvTypes'
    BY <1>0, <1>3 DEF EnvTypes, Shutdown, env
  <2> QED
    BY <1>0, <1>3, <2>4, <2>5, HsSame, MapSame DEF Shutdown, IInv
<1>4. ASSUME NEW m \in Messages, Receive(m)
      PROVE  IInv'
  <2>1. OpTypes'
    BY <1>0, <1>4, ReceivedType, OpSet DEF Receive
  <2>2. EnvTypes'
    BY <1>0, <1>4, BoundAssumption DEF EnvTypes, Receive
  <2> QED
    BY <1>0, <1>4, <2>1, <2>2, HsSame, MapSame DEF Receive, IInv
<1> QED
  BY <1>1, <1>2, <1>3, <1>4

\* Steps of pullConfigForID before it turns to a slot.
LEMMA PullStep ==
  ASSUME IInv, NEW p \in Procs,
         \/ PullAnswered(p) \/ PullFailed(p) \/ List(p) \/ Remove(p)
         \/ Halt(p) \/ LookUp(p)
         \/ \E c \in Clients : NextChild(p, c) \/ Expire(p, c)
  PROVE  IInv'
<1>0. OpTypes /\ HsTypes /\ MapTypes /\ EnvTypes
  BY DEF IInv
<1>o. op[p] \in Operation /\ OpOK(op[p]) /\ op[p].c \in Clients
  BY <1>0 DEF OpTypes, Operation
<1>1. CASE PullAnswered(p)
  <2>1. master[op[p].c] = NoClient \/ master[op[p].c] \in Answer
    BY <1>0, <1>o, MasterAssumption DEF EnvTypes
  <2>2. OpTypes'
    BY <1>0, <1>1, <1>o, <2>1, AnsweredType, OpSet DEF PullAnswered
  <2> QED
    BY <1>0, <1>1, <2>2, HsSame, MapSame, EnvSame DEF PullAnswered, IInv
<1>2. CASE PullFailed(p)
  <2>1. OpTypes'
    BY <1>0, <1>2, OpReturn DEF PullFailed
  <2>2. EnvTypes'
    BY <1>0, <1>2, BoundAssumption DEF EnvTypes, PullFailed, MayFail, env
  <2> QED
    BY <1>0, <1>2, <2>1, <2>2, HsSame, MapSame DEF PullFailed, IInv
<1>3. CASE List(p)
  <2>1. Expired(op[p].ids) \in SUBSET Clients
    BY <1>o DEF Expired, Operation
  <2>2. OpTypes'
    BY <1>0, <1>3, <1>o, <2>1, RemovingType, OpSet DEF List
  <2> QED
    BY <1>0, <1>3, <2>2, HsSame, MapSame, EnvSame DEF List, IInv
<1>4. CASE Remove(p)
  <2>1. op[p].ids \ {op[p].c} \in SUBSET Clients
    BY <1>o DEF Operation
  <2>2. OpTypes'
    BY <1>0, <1>4, <1>o, <2>1, RemovingType, OpSet DEF Remove
  <2>3. MapTypes'
    BY <1>0, <1>4 DEF MapTypes, Remove
  <2> QED
    BY <1>0, <1>4, <2>2, <2>3, HsSame, EnvSame DEF Remove, IInv
<1>5. CASE Halt(p)
  <2>1. OpTypes'
    <3>1. CASE outer[op[p].c] = None
      BY <1>0, <1>5, <1>o, <3>1, ReturnedType, OpSet DEF Halt
    <3>2. CASE outer[op[p].c] # None
      BY <1>0, <1>5, <1>o, <3>2, OpLoad DEF Halt
    <3> QED
      BY <3>1, <3>2
  <2> QED
    BY <1>0, <1>5, <2>1, HsSame, MapSame, EnvSame DEF Halt, IInv
<1>6. ASSUME NEW c \in Clients, NextChild(p, c)
      PROVE  IInv'
  <2>1. op[p].todo \ {c} \in SUBSET Clients
    BY <1>o DEF Operation
  <2>2. OpTypes'
    BY <1>0, <1>6, <2>1, IdleType, OpSet DEF NextChild
  <2> QED
    BY <1>0, <1>6, <2>2, HsSame, MapSame, EnvSame DEF NextChild, IInv
<1>7. ASSUME NEW c \in Clients, Expire(p, c)
      PROVE  IInv'
  <2> DEFINE o == [op[p] EXCEPT !.c = c]
  <2>1. o \in Operation
    BY <1>o DEF Operation
  <2>2. op' = [op EXCEPT ![p] = IF outer[c] = None THEN Enter(o, "remove")
                                ELSE [Enter(o, "removestop") EXCEPT !.map = outer[c]]]
    BY <1>7 DEF Expire
  <2> HIDE DEF o
  <2>3. ASSUME NEW pc \in {"remove", "removestop"}
        PROVE  Enter(o, pc) \in Operation /\ OpOK(Enter(o, pc))
    <3>1. Enter(o, pc) \in Operation /\ Enter(o, pc).pc = pc
      BY <2>1, EnterType DEF Pcs
    <3> QED
      BY <3>1 DEF OpOK, Slotted
  <2>4. OpTypes'
    <3>1. CASE outer[c] = None
      BY <1>0, <2>2, <2>3, <3>1, OpSet
    <3>2. CASE outer[c] # None
      BY <1>0, <2>2, <2>3, <3>2, OpLoad
    <3> QED
      BY <3>1, <3>2
  <2> QED
    BY <1>0, <1>7, <2>4, HsSame, MapSame, EnvSame DEF Expire, IInv
<1>8. CASE LookUp(p)
  <2>1. op' = [op EXCEPT ![p] = [op[p] EXCEPT !.map = outer[op[p].c]]]
    BY <1>0, <1>8 DEF LookUp, OpTypes
  <2>2. OpTypes'
    BY <1>0, <1>8, <1>o, <2>1, OpLoad DEF LookUp
  <2> QED
    BY <1>0, <1>8, <2>2, HsSame, MapSame, EnvSame DEF LookUp, IInv
<1> QED
  BY <1>1, <1>2, <1>3, <1>4, <1>5, <1>6, <1>7, <1>8

\* StopByClient, StopAll and DeleteAll.
LEMMA StopStep ==
  ASSUME IInv, NEW p \in Procs,
         \/ \E s \in Servers : RangeStop(p, s)
         \/ \E c \in Clients : StopAll(p, c) \/ DeleteAll(p, c)
         \/ ReplaceAll(p)
  PROVE  IInv'
<1>0. OpTypes /\ HsTypes /\ MapTypes /\ EnvTypes
  BY DEF IInv
<1>o. op[p] \in Operation /\ OpOK(op[p])
  BY <1>0 DEF OpTypes
<1>1. ASSUME NEW c \in Clients, StopAll(p, c)
      PROVE  IInv'
  <2> DEFINE o == [op[p] EXCEPT !.visit = @ \ {c}]
             e == Enter(o, "stopall")
             n == [e EXCEPT !.c = c]
  <2>1. o \in Operation /\ o.pc = "stopall"
    BY <1>o, <1>1 DEF StopAll, Operation
  <2>2. op' = [op EXCEPT ![p] = IF outer[c] = None THEN After(o)
                                ELSE [Enter(o, "stopall") EXCEPT !.c = c, !.map = outer[c]]]
    BY <1>1 DEF StopAll
  <2> HIDE DEF o
  <2>3. e \in Operation /\ e.pc = "stopall"
    BY <2>1, EnterType DEF Pcs
  <2>4. op' = [op EXCEPT ![p] = IF outer[c] = None THEN After(o)
                                ELSE [n EXCEPT !.map = outer[c]]]
    BY <2>2, <2>3 DEF Operation
  <2> HIDE DEF e
  <2>5. n \in Operation /\ n.pc = "stopall"
    BY <2>3 DEF Operation
  <2> HIDE DEF n
  <2>6. OpOK(n)
    BY <2>5 DEF OpOK, Slotted
  <2>7. OpTypes'
    <3>1. CASE outer[c] = None
      BY <1>0, <2>1, <2>4, <3>1, AfterType, OpSet
    <3>2. CASE outer[c] # None
      BY <1>0, <2>4, <2>5, <2>6, <3>2, OpLoad
    <3> QED
      BY <3>1, <3>2
  <2> QED
    BY <1>0, <1>1, <2>7, HsSame, MapSame, EnvSame DEF StopAll, IInv
<1>2. ASSUME NEW c \in Clients, DeleteAll(p, c)
      PROVE  IInv'
  <2> DEFINE pc == IF op[p].visit = {c} THEN "replace" ELSE op[p].pc
             v == [op[p] EXCEPT !.visit = @ \ {c}]
             o == [v EXCEPT !.pc = pc]
  <2>1. pc \in {"deleteall", "replace"}
    BY <1>2 DEF DeleteAll
  <2>2. op' = [op EXCEPT ![p] = o]
    BY <1>0, <1>2 DEF DeleteAll, OpTypes
  <2> HIDE DEF pc
  <2>3. v \in Operation
    BY <1>o DEF Operation
  <2> HIDE DEF v
  <2>4. o \in Operation /\ o.pc = pc
    BY <2>1, <2>3 DEF Operation, Pcs
  <2> HIDE DEF o
  <2>5. OpOK(o)
    BY <2>1, <2>4 DEF OpOK, Slotted
  <2>6. OpTypes'
    BY <1>0, <2>2, <2>4, <2>5, OpSet
  <2>7. MapTypes'
    BY <1>0, <1>2 DEF MapTypes, DeleteAll
  <2> QED
    BY <1>0, <1>2, <2>6, <2>7, HsSame, EnvSame DEF DeleteAll, IInv
<1>4. ASSUME NEW s \in Servers, RangeStop(p, s)
      PROVE  IInv'
  <2> DEFINE n == [op[p] EXCEPT !.left = @ \ {s}]
  <2>1. op[p].pc \in {"halt", "removestop", "stopall"}
    BY <1>4 DEF RangeStop
  <2>2. n \in Operation /\ n.pc = op[p].pc
    BY <1>o DEF Operation
  <2>3. op' = [op EXCEPT ![p] = IF op[p].left = {s} THEN After(op[p]) ELSE n]
    BY <1>4 DEF RangeStop
  <2> HIDE DEF n
  <2>4. OpOK(n)
    BY <2>1, <2>2 DEF OpOK, Slotted
  <2>5. OpTypes'
    <3>1. CASE op[p].left = {s}
      BY <1>0, <1>o, <2>1, <2>3, <3>1, AfterType, OpSet
    <3>2. CASE op[p].left # {s}
      BY <1>0, <2>2, <2>3, <2>4, <3>2, OpSet
    <3> QED
      BY <3>1, <3>2
  <2>6. HsTypes'
    BY <1>0, <1>4, HsClosed DEF RangeStop
  <2> QED
    BY <1>0, <1>4, <2>5, <2>6, MapSame, EnvSame DEF RangeStop, IInv
<1>3. CASE ReplaceAll(p)
  <2>1. [Idle EXCEPT !.pc = "done"] \in Operation
    BY IdleType DEF Operation, Pcs
  <2>2. OpOK([Idle EXCEPT !.pc = "done"])
    BY IdleType DEF Operation, OpOK, Slotted
  <2>3. OpTypes'
    BY <1>0, <1>3, <2>1, <2>2, IdleType, OpSet DEF ReplaceAll
  <2>4. MapTypes'
    BY <1>0, <1>3 DEF MapTypes, ReplaceAll
  <2> QED
    BY <1>0, <1>3, <2>3, <2>4, HsSame, EnvSame DEF ReplaceAll, IInv
<1> QED
  BY <1>1, <1>2, <1>3, <1>4

\* Steps on a slot that change no handler's record but close some.
LEMMA SlotStep ==
  ASSUME IInv, NEW p \in Procs,
         \/ Inspect(p) \/ Close(p) \/ DeleteStop(p) \/ Delete(p)
         \/ CreateFailed(p) \/ Evict(p)
  PROVE  IInv'
<1>0. OpTypes /\ HsTypes /\ MapTypes /\ EnvTypes
  BY DEF IInv
<1>o. /\ op[p] \in Operation /\ OpOK(op[p])
      /\ op[p].c \in Clients /\ op[p].s \in Servers
  BY <1>0 DEF OpTypes, Operation
<1>g. Found(op[p]) \in Handlers \cup {None}
  BY <1>0, <1>o, FoundType
<1>c. ASSUME op[p].pc \in Slotted
      PROVE  op[p].cfg \in Configs
  BY <1>o, <1>c DEF OpOK
<1>d. ASSUME NEW pc \in {"close", "stop", "delete", "create"}, op[p].pc \in Slotted
      PROVE  Enter(op[p], pc) \in Operation /\ OpOK(Enter(op[p], pc))
  <2>1. /\ Enter(op[p], pc) \in Operation
        /\ Enter(op[p], pc).pc = pc /\ Enter(op[p], pc).cfg = op[p].cfg
    BY <1>o, EnterType DEF Pcs
  <2> QED
    BY <1>c, <1>d, <2>1 DEF OpOK
<1>1. CASE Inspect(p)
  <2> DEFINE h == Found(op[p])
             e == Enter(op[p], "apply")
             o2 == [e EXCEPT !.h = h]
  <2>0. op[p].pc = "inspect" /\ op[p].cfg \in Configs
    BY <1>1, <1>c DEF Inspect, Slotted
  <2>1. Enter(op[p], "close") \in Operation /\ OpOK(Enter(op[p], "close"))
    BY <1>d, <2>0 DEF Slotted
  <2>4. op' = [op EXCEPT ![p] = IF Replaces(op[p], h) THEN Enter(op[p], "close") ELSE o2]
    BY <1>1 DEF Inspect
  <2>5. h = None => Replaces(op[p], h)
    BY DEF Replaces
  <2>6. e \in Operation /\ e.pc = "apply" /\ e.cfg = op[p].cfg
    BY <1>o, EnterType DEF Pcs
  <2> HIDE DEF e, h
  <2>7. h \in Handlers \cup {None}
    BY <1>g DEF h
  <2>2. o2 \in Operation /\ o2.pc = "apply" /\ o2.h = h /\ o2.cfg = op[p].cfg
    BY <2>6, <2>7 DEF Operation
  <2>3. h # None => OpOK(o2)
    BY <2>0, <2>2, <2>7 DEF OpOK
  <2> HIDE DEF o2
  <2>8. OpTypes'
    <3>1. CASE Replaces(op[p], h)
      BY <1>0, <2>1, <2>4, <3>1, OpSet
    <3>2. CASE ~Replaces(op[p], h)
      BY <1>0, <2>2, <2>3, <2>4, <2>5, <3>2, OpSet
    <3> QED
      BY <3>1, <3>2
  <2> QED
    BY <1>0, <1>1, <2>8, HsSame, MapSame, EnvSame DEF Inspect, IInv
<1>2. CASE Close(p)
  <2> DEFINE pc == IF Found(op[p]) = None THEN "create" ELSE "stop"
  <2>1. pc \in {"create", "stop"} /\ pc \in Pcs
    BY DEF Pcs
  <2>2. Goto(p, pc) /\ op[p].pc = "close"
    BY <1>2 DEF Close
  <2> HIDE DEF pc
  <2>3. OpTypes'
    BY <1>0, <1>d, <2>1, <2>2, OpGoto DEF Slotted
  <2>4. HsTypes'
    BY <1>0, <1>2, HsClosed DEF Close
  <2> QED
    BY <1>0, <1>2, <2>3, <2>4, MapSame, EnvSame DEF Close, IInv
<1>3. CASE DeleteStop(p)
  <2>1. Goto(p, "delete") /\ op[p].pc = "stop"
    BY <1>3 DEF DeleteStop
  <2>2. OpTypes'
    BY <1>0, <1>d, <2>1, OpGoto DEF Slotted, Pcs
  <2>3. HsTypes'
    BY <1>0, <1>3, HsClosed DEF DeleteStop
  <2> QED
    BY <1>0, <1>3, <2>2, <2>3, MapSame, EnvSame DEF DeleteStop, IInv
<1>4. CASE Delete(p)
  <2>1. Goto(p, "create") /\ op[p].pc = "delete"
    BY <1>4 DEF Delete
  <2>2. OpTypes'
    BY <1>0, <1>d, <2>1, OpGoto DEF Slotted, Pcs
  <2>3. MapTypes'
    BY <1>0, <1>o, <1>4 DEF MapTypes, Delete, Operation
  <2> QED
    BY <1>0, <1>4, <2>2, <2>3, HsSame, EnvSame DEF Delete, IInv
<1>5. CASE CreateFailed(p)
  <2>1. OpTypes'
    BY <1>0, <1>5, OpReturn DEF CreateFailed
  <2> QED
    BY <1>0, <1>5, <2>1, HsSame, MapSame, EnvSame DEF CreateFailed, IInv
<1>6. CASE Evict(p)
  <2>0. /\ op[p].pc = "evict" /\ op[p].cfg \in Configs
        /\ op[p].h \in Handlers /\ op[p].map \in Maps
    BY <1>6, <1>o DEF Evict, OpOK, Slotted
  <2> DEFINE o == [op[p] EXCEPT !.pc = "store"]
  <2>1. o.pc = "store" /\ o.cfg = op[p].cfg /\ o.h = op[p].h /\ o.map = op[p].map
    BY <1>o DEF Operation
  <2>2. OpOK(o)
    BY <2>0, <2>1 DEF OpOK
  <2>6. o \in Operation
    BY <1>o DEF Operation, Pcs
  <2>7. op' = [op EXCEPT ![p] = o]
    BY <1>0, <1>6 DEF Evict, OpTypes
  <2> HIDE DEF o
  <2>3. OpTypes'
    BY <1>0, <1>6, <2>2, <2>6, <2>7, OpSet
  <2>4. HsTypes'
    BY <1>0, <1>6, HsClosed DEF Evict
  <2>5. MapTypes'
    BY <1>0, <1>o, <1>6, <2>0 DEF MapTypes, Evict
  <2> QED
    BY <1>0, <1>6, <2>3, <2>4, <2>5, EnvSame DEF Evict, IInv
<1> QED
  BY <1>1, <1>2, <1>3, <1>4, <1>5, <1>6

\* Steps on a slot that change one handler.
LEMMA HandlerStep ==
  ASSUME IInv, NEW p \in Procs, Apply(p) \/ Create(p) \/ Store(p) \/ Run(p)
  PROVE  IInv'
<1>0. OpTypes /\ HsTypes /\ MapTypes /\ EnvTypes
  BY DEF IInv
<1>o. /\ op[p] \in Operation /\ OpOK(op[p])
      /\ op[p].c \in Clients /\ op[p].s \in Servers
  BY <1>0 DEF OpTypes, Operation
<1>1. CASE Apply(p)
  <2> DEFINE h == op[p].h
             r == [hs[h] EXCEPT !.proxies = Started(op[p].cfg)]
  <2>0. h \in Handlers /\ op[p].cfg \in Configs
    BY <1>1, <1>o DEF Apply, OpOK, Slotted
  <2>1. hs[h] \in Handler /\ hs[h].inside = IF hs[h].running THEN 1 ELSE 0
    BY <1>0, <2>0 DEF HsTypes, SingleRun
  <2>2. r \in Handler /\ r.inside = hs[h].inside /\ r.running = hs[h].running
    <3>1. Started(op[p].cfg) \in SUBSET UNION {cfg.proxies : cfg \in Configs}
      BY <2>0 DEF Started
    <3> QED
      BY <2>1, <3>1 DEF Handler
  <2>3. hs' = [hs EXCEPT ![h] = r]
    BY <1>0, <1>1, <2>0 DEF Apply, HsTypes
  <2> HIDE DEF h, r
  <2>4. HsTypes'
    BY <1>0, <2>0, <2>1, <2>2, <2>3, HsSet
  <2>5. OpTypes'
    BY <1>0, <1>1, OpReturn DEF Apply
  <2> QED
    BY <1>0, <1>1, <2>4, <2>5, MapSame, EnvSame DEF Apply, IInv
<1>2. CASE Create(p)
  <2>0. op[p].pc = "create" /\ op[p].cfg \in Configs
    BY <1>2, <1>o DEF Create, OpOK, Slotted
  <2>1. PICK h \in Handlers :
          /\ hs' = [hs EXCEPT ![h] = NewClientHandler(op[p].c, op[p].s, op[p].cfg)]
          /\ IF outer[op[p].c] # None
             THEN /\ op' = [op EXCEPT ![p].pc = "evict", ![p].h = h,
                                      ![p].map = outer[op[p].c]]
                  /\ UNCHANGED <<outer, maps>>
             ELSE \E m \in Maps :
                    /\ outer' = [outer EXCEPT ![op[p].c] = m]
                    /\ maps' = [maps EXCEPT ![m] = [s \in Servers |-> None]]
                    /\ op' = [op EXCEPT ![p].pc = "evict", ![p].h = h, ![p].map = m]
    BY <1>2 DEF Create
  <2>2. HsTypes'
    <3> DEFINE n == NewClientHandler(op[p].c, op[p].s, op[p].cfg)
    <3>1. n \in Handler /\ n.inside = 0 /\ n.running = FALSE
      BY <1>o, <2>0, NewType
    <3>2. hs' = [hs EXCEPT ![h] = n]
      BY <2>1
    <3> HIDE DEF n
    <3> QED
      BY <1>0, <3>1, <3>2, HsSet
  <2>3. ASSUME NEW m \in Maps,
               op' = [op EXCEPT ![p].pc = "evict", ![p].h = h, ![p].map = m]
        PROVE  OpTypes'
    <3> DEFINE o == [op[p] EXCEPT !.pc = "evict", !.h = h, !.map = m]
    <3>1. o \in Operation /\ o.pc = "evict" /\ o.cfg = op[p].cfg /\ o.h = h /\ o.map = m
      BY <1>o DEF Operation, Pcs
    <3>2. OpOK(o)
      BY <2>0, <3>1 DEF OpOK
    <3>3. op' = [op EXCEPT ![p] = o]
      BY <1>0, <2>3 DEF OpTypes
    <3> HIDE DEF o
    <3> QED
      BY <1>0, <3>1, <3>2, <3>3, OpSet
  <2>4. OpTypes' /\ MapTypes'
    <3>1. CASE outer[op[p].c] # None
      <4>1. outer[op[p].c] \in Maps
        BY <1>0, <1>o, <3>1 DEF MapTypes
      <4> QED
        BY <1>0, <2>1, <2>3, <3>1, <4>1, MapSame
    <3>2. CASE outer[op[p].c] = None
      <4>1. PICK m \in Maps :
              /\ outer' = [outer EXCEPT ![op[p].c] = m]
              /\ maps' = [maps EXCEPT ![m] = [s \in Servers |-> None]]
              /\ op' = [op EXCEPT ![p].pc = "evict", ![p].h = h, ![p].map = m]
        BY <2>1, <3>2
      <4>2. MapTypes'
        BY <1>0, <1>o, <4>1 DEF MapTypes
      <4> QED
        BY <2>3, <4>1, <4>2
    <3> QED
      BY <3>1, <3>2
  <2> QED
    BY <1>0, <1>2, <2>2, <2>4, EnvSame DEF Create, IInv
<1>3. CASE Run(p)
  <2> DEFINE h == Found(op[p])
             r == [hs[h] EXCEPT !.waiting = @ + 1]
  <2>1. h \in Handlers \cup {None}
    BY <1>0, <1>o, FoundType
  <2>2. HsTypes'
    <3>1. CASE h = None
      <4>1. hs' = hs
        BY <1>0, <1>3, <3>1 DEF Run, HsTypes, None, Handlers
      <4> QED
        BY <1>0, <4>1, HsSame
    <3>2. CASE h \in Handlers /\ h # None
      <4>1. hs[h] \in Handler /\ hs[h].inside = IF hs[h].running THEN 1 ELSE 0
        BY <1>0, <3>2 DEF HsTypes, SingleRun
      <4>2. r \in Handler /\ r.inside = hs[h].inside /\ r.running = hs[h].running
        BY <4>1 DEF Handler
      <4>3. hs' = [hs EXCEPT ![h] = r]
        BY <1>0, <1>3, <3>2 DEF Run, HsTypes
      <4> HIDE DEF h, r
      <4> QED
        BY <1>0, <3>2, <4>1, <4>2, <4>3, HsSet
    <3> QED
      BY <2>1, <3>1, <3>2
  <2>3. OpTypes'
    BY <1>0, <1>3, OpReturn DEF Run
  <2> QED
    BY <1>0, <1>3, <2>2, <2>3, MapSame, EnvSame DEF Run, IInv
<1>4. CASE Store(p)
  <2>0. /\ op[p].pc = "store" /\ op[p].cfg \in Configs
        /\ op[p].h \in Handlers /\ op[p].map \in Maps
    BY <1>4, <1>o DEF Store, OpOK, Slotted
  <2> DEFINE e == Enter(op[p], "run")
             o == [e EXCEPT !.h = None]
             h == op[p].h
             r == [hs[h] EXCEPT !.raced = @ \/ Races(p)]
  <2>1. e \in Operation /\ e.pc = "run" /\ e.cfg = op[p].cfg
    BY <1>o, EnterType DEF Pcs
  <2>2. op' = [op EXCEPT ![p] = o]
    BY <1>0, <1>4 DEF Store, OpTypes
  <2> HIDE DEF e
  <2>3. o \in Operation /\ o.pc = "run" /\ o.cfg = op[p].cfg
    BY <2>1 DEF Operation
  <2> HIDE DEF o
  <2>4. OpOK(o)
    BY <2>0, <2>3 DEF OpOK
  <2>5. OpTypes'
    BY <1>0, <2>2, <2>3, <2>4, OpSet
  <2>6. MapTypes'
    BY <1>0, <1>o, <1>4, <2>0 DEF MapTypes, Store
  <2>7. HsTypes'
    <3>1. hs[h] \in Handler /\ hs[h].inside = IF hs[h].running THEN 1 ELSE 0
      BY <1>0, <2>0 DEF HsTypes, SingleRun
    <3>2. (hs[h].raced \/ Races(p)) \in BOOLEAN
      OBVIOUS
    <3>3. r \in Handler /\ r.inside = hs[h].inside /\ r.running = hs[h].running
      BY <3>1, <3>2 DEF Handler
    <3>4. hs' = [hs EXCEPT ![h] = r]
      BY <1>0, <1>4, <2>0 DEF Store, HsTypes
    <3> HIDE DEF r
    <3> QED
      BY <1>0, <2>0, <3>1, <3>3, <3>4, HsSet DEF h
  <2> QED
    BY <1>0, <1>4, <2>5, <2>6, <2>7, EnvSame DEF Store, IInv
<1> QED
  BY <1>1, <1>2, <1>3, <1>4

\* Run's goroutines: the test of `running` on entry is what keeps a handler
\* from running twice.
LEMMA GoroutineStep ==
  ASSUME IInv, NEW h \in Handlers, RunStep(h) \/ RunFailed(h)
  PROVE  IInv'
<1>0. OpTypes /\ HsTypes /\ MapTypes /\ EnvTypes
  BY DEF IInv
<1>r. hs[h] \in Handler /\ hs[h].inside = IF hs[h].running THEN 1 ELSE 0
  BY <1>0 DEF HsTypes, SingleRun
<1>1. CASE RunSkipped(h)
  <2> DEFINE r == [hs[h] EXCEPT !.waiting = @ - 1]
  <2>1. r \in Handler /\ r.inside = hs[h].inside /\ r.running = hs[h].running
    BY <1>1, <1>r DEF RunSkipped, Handler
  <2>2. hs' = [hs EXCEPT ![h] = r]
    BY <1>0, <1>1 DEF RunSkipped, HsTypes
  <2> HIDE DEF r
  <2>3. HsTypes'
    BY <1>0, <1>r, <2>1, <2>2, HsSet
  <2> QED
    BY <1>0, <1>1, <2>3, OpSame, MapSame, EnvSame DEF RunSkipped, IInv
<1>2. CASE RunEntered(h)
  <2>1. PICK outcome :
          hs' = [hs EXCEPT ![h].waiting = @ - 1, ![h].running = TRUE,
                           ![h].inside = @ + 1, ![h].closed = outcome = "returns",
                           ![h].late = @ \/ (hs[h].closed /\ outcome = "runs")]
    BY <1>2 DEF RunEntered
  <2> DEFINE over == outcome = "returns"
             late == hs[h].closed /\ outcome = "runs"
             q == [hs[h] EXCEPT !.waiting = @ - 1]
             w == [q EXCEPT !.running = TRUE]
             v == [w EXCEPT !.inside = @ + 1]
             r == [v EXCEPT !.closed = over, !.late = @ \/ late]
  <2>2. hs[h].waiting > 0 /\ ~hs[h].running
    BY <1>2 DEF RunEntered, Enters
  <2>3. hs[h].inside = 0
    BY <1>r, <2>2
  <2>o. over \in BOOLEAN /\ late \in BOOLEAN
    OBVIOUS
  <2>w. hs[h].waiting \in Nat /\ hs[h].waiting > 0 /\ hs[h].waiting - 1 \in Nat
    BY <1>r, <2>2 DEF Handler
  <2>4. r \in Handler /\ r.inside = 1 /\ r.running = TRUE
    <3> HIDE DEF over, late
    <3>1. q \in Handler /\ q.inside = 0
      BY <1>r, <2>3, <2>w DEF Handler
    <3> HIDE DEF q
    <3>2. w \in Handler /\ w.running = TRUE /\ w.inside = 0
      BY <3>1 DEF Handler
    <3> HIDE DEF w
    <3>3. v \in Handler /\ v.running = TRUE /\ v.inside = 1
      BY <3>2 DEF Handler
    <3> HIDE DEF v
    <3>4. (v.late \/ late) \in BOOLEAN
      OBVIOUS
    <3> QED
      BY <2>o, <3>3, <3>4 DEF Handler
  <2>5. hs' = [hs EXCEPT ![h] = r]
    <3>1. hs' = [hs EXCEPT ![h].waiting = @ - 1, ![h].running = TRUE,
                           ![h].inside = @ + 1, ![h].closed = over,
                           ![h].late = @ \/ late]
      BY <2>1
    <3> HIDE DEF over, late
    <3>2. hs[h].late = v.late
      BY <1>r DEF Handler
    <3> QED
      BY <1>0, <1>r, <3>1, <3>2 DEF HsTypes, Handler
  <2> HIDE DEF r
  <2>6. HsTypes'
    BY <1>0, <2>4, <2>5, HsSet
  <2> QED
    BY <1>0, <1>2, <2>6, OpSame, MapSame, EnvSame DEF RunEntered, IInv
<1>3. CASE RunReturned(h) \/ RunFailed(h)
  <2> DEFINE q == [hs[h] EXCEPT !.running = FALSE]
             r == [q EXCEPT !.inside = @ - 1]
  <2>1. hs[h].inside > 0
    BY <1>3 DEF RunReturned, RunFailed
  <2>2. hs[h].inside = 1
    BY <1>r, <2>1
  <2>3. r \in Handler /\ r.inside = 0 /\ r.running = FALSE
    <3>1. q \in Handler /\ q.running = FALSE /\ q.inside = 1
      BY <1>r, <2>2 DEF Handler
    <3> HIDE DEF q
    <3> QED
      BY <3>1 DEF Handler
  <2>4. hs' = [hs EXCEPT ![h] = r]
    <3>1. hs' = [hs EXCEPT ![h].running = FALSE, ![h].inside = @ - 1]
      BY <1>3 DEF RunReturned, RunFailed
    <3> QED
      BY <1>0, <3>1 DEF HsTypes
  <2> HIDE DEF r
  <2>5. HsTypes'
    BY <1>0, <2>3, <2>4, HsSet
  <2>6. EnvTypes'
    BY <1>0, <1>3, BoundAssumption DEF EnvTypes, RunReturned, RunFailed, env
  <2>7. UNCHANGED <<op, outer, maps>>
    BY <1>3 DEF RunReturned, RunFailed
  <2> QED
    BY <1>0, <2>5, <2>6, <2>7, OpSame, MapSame DEF IInv
<1> QED
  BY <1>1, <1>2, <1>3 DEF RunStep

\* The inductive invariant holds at the start.
LEMMA InitInv == Init => IInv
<1> SUFFICES ASSUME Init PROVE IInv
  OBVIOUS
<1>1. OpTypes
  <2>1. {} \in SUBSET Clients
    OBVIOUS
  <2>2. Pulling(Root, {}) \in Operation /\ OpOK(Pulling(Root, {}))
    BY <2>1, IdleType, RootAssumption
  <2>3. [Idle EXCEPT !.pc = "init"] \in Operation /\ OpOK([Idle EXCEPT !.pc = "init"])
    BY IdleType DEF Operation, Pcs, OpOK, Slotted
  <2>4. \A p \in Procs : op[p] \in Operation /\ OpOK(op[p])
    <3> SUFFICES ASSUME NEW p \in Procs PROVE op[p] \in Operation /\ OpOK(op[p])
      OBVIOUS
    <3>1. op[p] = CASE p = "pull" -> Pulling(Root, {})
                    [] p = "rpc" -> [Idle EXCEPT !.pc = "init"]
                    [] p = "shutdown" -> Idle
      BY DEF Init
    <3>2. CASE p = "pull"
      BY <2>2, <3>1, <3>2
    <3>3. CASE p = "rpc"
      BY <2>3, <3>1, <3>3
    <3>4. CASE p = "shutdown"
      BY IdleType, <3>1, <3>4
    <3> QED
      BY <3>2, <3>3, <3>4, ProcsAssumption
  <2> QED
    BY <2>4 DEF Init, OpTypes
<1>2. HsTypes
  <2>1. (CHOOSE s \in Servers : TRUE) \in Servers
    BY ServersAssumption
  <2>2. Blank \in Handler /\ Blank.inside = 0 /\ Blank.running = FALSE
    BY <2>1, RootAssumption DEF Blank, Handler
  <2> QED
    BY <2>2 DEF Init, HsTypes, SingleRun
<1>3. MapTypes
  BY DEF Init, MapTypes
<1>4. EnvTypes
  <2>1. \A n \in Nat : 0 \in 0..n
    OBVIOUS
  <2>2. messages \in 0..MaxMessages /\ changes \in 0..MaxChanges
    BY <2>1, BoundAssumption DEF Init
  <2>3. failures \in 0..MaxFailures
    BY <2>1, BoundAssumption DEF Init
  <2>4. down \in BOOLEAN /\ master \in MasterStates
    BY DEF Init
  <2> QED
    BY <2>2, <2>3, <2>4 DEF EnvTypes
<1> QED
  BY <1>1, <1>2, <1>3, <1>4 DEF IInv

\* Every step of every operation keeps the inductive invariant.
LEMMA NextInv == IInv /\ [Next]_vars => IInv'
<1> SUFFICES ASSUME IInv, [Next]_vars PROVE IInv'
  OBVIOUS
<1>0. OpTypes /\ HsTypes /\ MapTypes /\ EnvTypes
  BY DEF IInv
<1>1. CASE Tick \/ Initialized \/ Shutdown \/ \E m \in Messages : Receive(m)
  BY <1>1, BeginStep
<1>2. CASE ChangeMaster
  <2>1. EnvTypes'
    BY <1>0, <1>2, BoundAssumption DEF EnvTypes, ChangeMaster
  <2> QED
    BY <1>0, <1>2, <2>1, OpSame, HsSame, MapSame DEF ChangeMaster, IInv
<1>3. ASSUME NEW p \in Procs, Step(p) PROVE IInv'
  BY <1>3, PullStep, SlotStep, HandlerStep, StopStep DEF Step
<1>4. ASSUME NEW h \in Handlers, RunStep(h) \/ RunFailed(h) PROVE IInv'
  BY <1>4, GoroutineStep
<1>5. CASE UNCHANGED vars
  BY <1>0, <1>5, OpSame, HsSame, MapSame, EnvSame DEF vars, env, IInv
<1> QED
  BY <1>1, <1>2, <1>3, <1>4, <1>5 DEF Next

\* The inductive invariant holds throughout, however the drivers overlap.
THEOREM Invariance == Spec => []IInv
<1>1. Init => IInv
  BY InitInv
<1>2. IInv /\ [Next]_vars => IInv'
  BY NextInv
<1> QED
  BY <1>1, <1>2, PTL DEF Spec

\* Every reachable state is well typed: the drivers' operations, the two
\* levels of maps and the handlers.
THEOREM TypeCorrect == Spec => []TypeOK
<1>1. IInv => TypeOK
  BY DEF IInv, OpTypes, HsTypes, MapTypes, EnvTypes, TypeOK
<1> QED
  BY <1>1, Invariance, PTL

\* clientImpl.Run never has cli.Run in progress twice for one handler, for any
\* clients, servers and drivers and also when their operations overlap.
THEOREM RunsOnce == Spec => []SingleRun
<1>1. IInv => SingleRun
  BY DEF IInv, HsTypes
<1> QED
  BY <1>1, Invariance, PTL

-----------------------------------------------------------------------------
(* Live handlers are managed.  The invariant says, of every inner map that  *)
(* somebody holds and of every operation, what its place owes to that.      *)

\* Handler h was stopped, or is one of the exceptions that NoOrphan names.
Excused(h) == hs[h].closed \/ hs[h].raced \/ hs[h].late

\* The same after a step.
ExcusedNext(h) == hs'[h].closed \/ hs'[h].raced \/ hs'[h].late

\* What inner map m has at server s may be dropped from it.
Spared(m, s) == maps[m][s] # None => Excused(maps[m][s])

\* Inner map m is client c's, for the controller or for an operation.
Holds(c, m) ==
  outer[c] = m \/ \E p \in Procs : op[p].map = m /\ op[p].c = c

\* Inner maps are of one client, and their handlers are of that client and of the
\* server they are kept under; so is the handler that Add is about to keep.
Owned ==
  /\ \A m \in Maps : \A c, d \in Clients : Holds(c, m) /\ Holds(d, m) => c = d
  /\ \A m \in Maps : \A c \in Clients : \A s \in Servers :
       Holds(c, m) /\ maps[m][s] # None =>
         hs[maps[m][s]].client = c /\ hs[maps[m][s]].server = s
  /\ \A p \in Procs : op[p].pc \in {"evict", "store"} =>
       hs[op[p].h].client = op[p].c /\ hs[op[p].h].server = op[p].s

\* An operation that goes on to drop handlers has stopped them, or they are
\* exceptions,
DroppedAreSpared ==
  \A p \in Procs : \A c \in Clients : \A s \in Servers :
    outer[c] # None /\ Behind(op[p], c, s, outer[c]) => Spared(outer[c], s)

\* so has Add the one it will store over,
ReplacedAreSpared ==
  \A p \in Procs : op[p].pc = "store" => Spared(op[p].map, op[p].s)

\* and so were those in an inner map that has been detached.
DetachedAreSpared ==
  \A p \in Procs : \A s \in Servers :
    op[p].map # None /\ op[p].map # outer[op[p].c] => Spared(op[p].map, s)

SafeInv ==
  Owned /\ DroppedAreSpared /\ ReplacedAreSpared /\ DetachedAreSpared /\ NoOrphan

\* What a step does to handlers, when it makes none: an exception stays one, and
\* what comes to live is managed or an exception.
HandlersKept ==
  \A h \in Handlers :
    /\ hs'[h].client = hs[h].client /\ hs'[h].server = hs[h].server
    /\ Excused(h) => ExcusedNext(h)
    /\ Live(h)' => Live(h) \/ Managed(h) \/ ExcusedNext(h)

\* And to the maps, when it adds nothing to them: what it drops may be dropped.
MapsKept ==
  /\ \A c \in Clients :
       \/ outer'[c] = outer[c]
       \/ outer'[c] = None /\ \A s \in Servers : Spared(outer[c], s)
  /\ \A m \in Maps : \A s \in Servers :
       \/ maps'[m][s] = maps[m][s]
       \/ maps'[m][s] = None /\ (maps[m][s] # None => ExcusedNext(maps[m][s]))

\* And to driver p's operation, which becomes o: it holds the inner map it has held,
\* or its client's, or none; it adds what it was to add, over an empty slot; and it
\* has stopped what it goes on to drop.
Moves(p, o) ==
  /\ \/ o.map = None
     \/ o.map = op[p].map /\ o.c = op[p].c
     \/ o.map = outer[o.c]
  /\ o.pc \in {"evict", "store"} =>
       /\ op[p].pc \in {"evict", "store"}
       /\ o.c = op[p].c /\ o.s = op[p].s /\ o.h = op[p].h /\ o.map = op[p].map
  /\ o.pc = "store" => op[p].pc = "store" \/ maps'[o.map][o.s] = None
  /\ \A c \in Clients : \A s \in Servers :
       outer[c] # None /\ Behind(o, c, s, outer[c]) =>
         \/ Behind(op[p], c, s, outer[c])
         \/ maps[outer[c]][s] # None => ExcusedNext(maps[outer[c]][s])

\* The types the lemmas below use.
LEMMA Types ==
  ASSUME IInv
  PROVE  /\ \A c \in Clients : outer[c] \in Maps \cup {None}
         /\ \A m \in Maps : \A s \in Servers : maps[m][s] \in Handlers \cup {None}
         /\ \A p \in Procs :
              /\ op[p] \in Operation /\ op[p].c \in Clients /\ op[p].s \in Servers
              /\ op[p].map \in Maps \cup {None} /\ op[p].h \in Handlers \cup {None}
              /\ op[p].pc \in {"evict", "store"} => op[p].map \in Maps /\ op[p].h \in Handlers
         /\ \A h \in Handlers : hs[h] \in Handler
         /\ None \notin Maps /\ None \notin Handlers
<1>1. None \notin Maps /\ None \notin Handlers
  BY DEF None, Maps, Handlers
<1>2. \A p \in Procs : op[p] \in Operation /\ OpOK(op[p])
  BY DEF IInv, OpTypes
<1> QED
  BY <1>1, <1>2 DEF IInv, OpTypes, MapTypes, HsTypes, Operation, OpOK

\* A step that does no more than the three say keeps the invariant.
LEMMA KeptStep ==
  ASSUME IInv, IInv', SafeInv, HandlersKept, MapsKept,
         \A p \in Procs : Moves(p, op'[p])
  PROVE  SafeInv'
<1>t. /\ \A c \in Clients : outer[c] \in Maps \cup {None}
      /\ \A m \in Maps : \A s \in Servers : maps[m][s] \in Handlers \cup {None}
      /\ \A p \in Procs :
           /\ op[p] \in Operation /\ op[p].c \in Clients /\ op[p].s \in Servers
           /\ op[p].map \in Maps \cup {None} /\ op[p].h \in Handlers \cup {None}
           /\ op[p].pc \in {"evict", "store"} => op[p].map \in Maps /\ op[p].h \in Handlers
      /\ \A h \in Handlers : hs[h] \in Handler
      /\ None \notin Maps /\ None \notin Handlers
  BY Types
<1>u. /\ \A p \in Procs :
           /\ op'[p].c \in Clients /\ op'[p].s \in Servers
           /\ op'[p].map \in Maps \cup {None} /\ op'[p].h \in Handlers \cup {None}
           /\ op'[p].pc \in {"evict", "store"} => op'[p].map \in Maps /\ op'[p].h \in Handlers
      /\ \A h \in Handlers : hs'[h] \in Handler
  <2>1. \A p \in Procs : op'[p] \in Operation /\ OpOK(op'[p])
    BY DEF IInv, OpTypes
  <2>2. \A h \in Handlers : hs'[h] \in Handler
    BY DEF IInv, HsTypes
  <2> QED
    BY <2>1, <2>2 DEF Operation, OpOK
<1>i. Owned /\ DroppedAreSpared /\ ReplacedAreSpared /\ DetachedAreSpared /\ NoOrphan
  BY DEF SafeInv
<1>h. ASSUME NEW h \in Handlers
      PROVE  /\ hs'[h].client = hs[h].client /\ hs'[h].server = hs[h].server
             /\ Excused(h) => ExcusedNext(h)
             /\ Live(h)' => Live(h) \/ Managed(h) \/ ExcusedNext(h)
  BY <1>h DEF HandlersKept
<1>s. ASSUME NEW m \in Maps, NEW s \in Servers, Spared(m, s)
      PROVE  Spared(m, s)'
  <2>1. \/ maps'[m][s] = maps[m][s]
        \/ maps'[m][s] = None
    BY DEF MapsKept
  <2> QED
    BY <1>h, <1>s, <1>t, <2>1 DEF Spared, Excused, ExcusedNext
<1>r. ASSUME NEW c \in Clients, NEW m \in Maps, Holds(c, m)'
      PROVE  Holds(c, m)
  <2>1. CASE outer'[c] = m
    BY <1>t, <2>1 DEF MapsKept, Holds
  <2>2. ASSUME NEW p \in Procs, op'[p].map = m, op'[p].c = c
        PROVE  Holds(c, m)
    BY <1>t, <2>2 DEF Moves, Holds
  <2> QED
    BY <1>r, <2>1, <2>2 DEF Holds
<1>1. Owned'
  <2>1. ASSUME NEW m \in Maps, NEW c \in Clients, NEW d \in Clients,
               Holds(c, m)', Holds(d, m)'
        PROVE  c = d
    BY <1>i, <1>r, <2>1 DEF Owned
  <2>2. ASSUME NEW m \in Maps, NEW c \in Clients, NEW s \in Servers,
               Holds(c, m)', maps'[m][s] # None
        PROVE  hs'[maps'[m][s]].client = c /\ hs'[maps'[m][s]].server = s
    <3>1. maps'[m][s] = maps[m][s] /\ maps[m][s] \in Handlers
      BY <1>t, <2>2 DEF MapsKept
    <3>2. Holds(c, m)
      BY <1>r, <2>2
    <3> QED
      BY <1>h, <1>i, <2>2, <3>1, <3>2 DEF Owned
  <2>3. ASSUME NEW p \in Procs, op'[p].pc \in {"evict", "store"}
        PROVE  hs'[op'[p].h].client = op'[p].c /\ hs'[op'[p].h].server = op'[p].s
    <3>1. /\ op[p].pc \in {"evict", "store"} /\ op'[p].c = op[p].c
          /\ op'[p].s = op[p].s /\ op'[p].h = op[p].h
      BY <2>3 DEF Moves
    <3> QED
      BY <1>h, <1>i, <1>t, <3>1 DEF Owned
  <2> QED
    BY <2>1, <2>2, <2>3 DEF Owned
<1>2. DroppedAreSpared'
  <2>1. SUFFICES ASSUME NEW p \in Procs, NEW c \in Clients, NEW s \in Servers,
                        outer'[c] # None, Behind(op[p], c, s, outer[c])'
                 PROVE  Spared(outer[c], s)'
    BY DEF DroppedAreSpared
  <2>2. outer'[c] = outer[c] /\ outer[c] \in Maps
    BY <1>t, <2>1 DEF MapsKept
  <2>3. Behind(op'[p], c, s, outer[c])
    BY <2>1, <2>2 DEF Behind
  <2>4. PICK m \in Maps : m = outer[c]
    BY <2>2
  <2>5. SUFFICES Spared(m, s)'
    BY <2>2, <2>4 DEF Spared
  <2>6. CASE Behind(op[p], c, s, outer[c])
    <3>1. Spared(m, s)
      BY <1>i, <1>t, <2>2, <2>4, <2>6 DEF DroppedAreSpared
    <3> QED
      BY <1>s, <3>1
  <2>7. CASE maps[outer[c]][s] # None => ExcusedNext(maps[outer[c]][s])
    <3>1. maps'[m][s] \in {maps[m][s], None}
      BY DEF MapsKept
    <3> QED
      BY <2>4, <2>7, <3>1 DEF Spared, Excused, ExcusedNext
  <2>8. outer[c] # None
    BY <1>t, <2>2
  <2>9. Moves(p, op'[p])
    OBVIOUS
  <2> QED
    BY <2>3, <2>6, <2>7, <2>8, <2>9 DEF Moves
<1>3. ReplacedAreSpared'
  <2>1. SUFFICES ASSUME NEW p \in Procs, op'[p].pc = "store"
                 PROVE  Spared(op[p].map, op[p].s)'
    BY DEF ReplacedAreSpared
  <2>2. op'[p].map = op[p].map /\ op'[p].s = op[p].s /\ op'[p].map \in Maps
    BY <1>u, <2>1 DEF Moves
  <2>3. PICK m \in Maps : m = op[p].map
    BY <2>2
  <2>4. SUFFICES Spared(m, op[p].s)'
    BY <2>2, <2>3 DEF Spared
  <2>5. CASE op[p].pc = "store"
    <3>1. Spared(m, op[p].s)
      BY <1>i, <2>3, <2>5 DEF ReplacedAreSpared
    <3>2. PICK s \in Servers : s = op[p].s
      BY <1>t
    <3>3. Spared(m, s)'
      BY <1>s, <3>1, <3>2
    <3> QED
      BY <2>2, <3>2, <3>3 DEF Spared
  <2>6. CASE maps'[op'[p].map][op'[p].s] = None
    BY <2>2, <2>3, <2>6 DEF Spared
  <2> QED
    BY <2>1, <2>5, <2>6 DEF Moves
<1>4. DetachedAreSpared'
  <2>1. SUFFICES ASSUME NEW p \in Procs, NEW s \in Servers, op'[p].map # None,
                        op'[p].map # outer'[op'[p].c]
                 PROVE  Spared(op[p].map, s)'
    BY DEF DetachedAreSpared
  <2>2. op'[p].map \in Maps /\ op'[p].c \in Clients
    BY <1>u, <2>1
  <2>3. PICK m \in Maps : m = op'[p].map
    BY <2>2
  <2>4. SUFFICES Spared(m, s)'
    BY <2>3 DEF Spared
  <2>5. CASE op'[p].map = outer[op'[p].c]
    <3>1. Spared(m, s)
      BY <2>1, <2>2, <2>3, <2>5 DEF MapsKept
    <3> QED
      BY <1>s, <3>1
  <2>6. CASE op'[p].map # outer[op'[p].c]
    <3>1. op'[p].map = op[p].map /\ op'[p].c = op[p].c
      BY <2>1, <2>6 DEF Moves
    <3>2. Spared(m, s)
      BY <1>i, <2>1, <2>3, <2>6, <3>1 DEF DetachedAreSpared
    <3> QED
      BY <1>s, <3>2
  <2> QED
    BY <2>5, <2>6
<1>5. NoOrphan'
  <2>1. SUFFICES ASSUME NEW h \in Handlers, Live(h)', ~Managed(h)'
                 PROVE  (hs[h].raced \/ hs[h].late)'
    BY DEF NoOrphan
  <2>2. ~hs'[h].closed
    BY <2>1 DEF Live
  <2>3. SUFFICES ExcusedNext(h)
    BY <2>2 DEF ExcusedNext
  <2> DEFINE c == hs[h].client
             s == hs[h].server
  <2>4. /\ c \in Clients /\ s \in Servers
        /\ hs'[h].client = c /\ hs'[h].server = s
    BY <1>h, <1>t DEF Handler
  <2> HIDE DEF c, s
  <2>5. CASE Managed(h)
    <3>1. outer[c] \in Maps /\ maps[outer[c]][s] = h /\ h # None
      BY <1>t, <2>4, <2>5 DEF Managed, Get, c, s
    <3>2. ~(outer'[c] = outer[c] /\ maps'[outer[c]][s] = maps[outer[c]][s])
      <4>1. ~(outer'[c] # None /\ maps'[outer'[c]][s] = h)
        BY <2>1, <2>4 DEF Managed, Get
      <4> QED
        BY <1>t, <3>1, <4>1
    <3>3. CASE outer'[c] # outer[c]
      <4>1. Spared(outer[c], s)
        BY <2>4, <3>3 DEF MapsKept
      <4> QED
        BY <1>h, <3>1, <4>1 DEF Spared
    <3>4. CASE maps'[outer[c]][s] # maps[outer[c]][s]
      BY <2>4, <3>1, <3>4 DEF MapsKept
    <3> QED
      BY <3>2, <3>3, <3>4
  <2>6. CASE ~Managed(h) /\ Live(h)
    <3>1. Excused(h)
      BY <1>i, <2>6 DEF NoOrphan, Excused
    <3> QED
      BY <1>h, <3>1
  <2> QED
    BY <1>h, <2>1, <2>5, <2>6
<1> QED
  BY <1>1, <1>2, <1>3, <1>4, <1>5 DEF SafeInv

\* A step of one driver that does no more than that.
LEMMA DriverStep ==
  ASSUME IInv, IInv', SafeInv, HandlersKept, MapsKept,
         NEW p \in Procs, NEW o, op' = [op EXCEPT ![p] = o], Moves(p, o)
  PROVE  SafeInv'
<1>1. op \in [Procs -> Operation]
  BY DEF IInv, OpTypes
<1>2. \A q \in Procs : Moves(q, op'[q])
  <2> SUFFICES ASSUME NEW q \in Procs PROVE Moves(q, op'[q])
    OBVIOUS
  <2>1. CASE q = p
    <3>1. op'[q] = o
      BY <1>1, <2>1
    <3> QED
      BY <2>1, <3>1
  <2>2. CASE q # p
    <3>1. op'[q] = op[q]
      BY <1>1, <2>2
    <3>2. Moves(q, op[q])
      BY DEF Moves
    <3> QED
      BY <3>1, <3>2
  <2> QED
    BY <2>1, <2>2
<1> QED
  BY <1>2, KeptStep

\* A step of none.
LEMMA OtherStep ==
  ASSUME IInv, IInv', SafeInv, HandlersKept, MapsKept, UNCHANGED op
  PROVE  SafeInv'
<1>1. ASSUME NEW q \in Procs PROVE Moves(q, op'[q])
  <2>1. Moves(q, op[q])
    BY DEF Moves
  <2> QED
    BY <2>1
<1> QED
  BY <1>1, KeptStep

\* Handlers that are left alone, or closed.
LEMMA HandlersSame ==
  ASSUME UNCHANGED hs
  PROVE  HandlersKept
BY DEF HandlersKept, Excused, ExcusedNext, Live

LEMMA HandlersClosed ==
  ASSUME IInv, NEW H, hs' = Closed(H)
  PROVE  HandlersKept /\ \A h \in Handlers : h \in H => ExcusedNext(h)
<1> SUFFICES ASSUME NEW h \in Handlers
             PROVE  /\ hs'[h].client = hs[h].client /\ hs'[h].server = hs[h].server
                    /\ Excused(h) => ExcusedNext(h)
                    /\ Live(h)' => Live(h)
                    /\ h \in H => ExcusedNext(h)
  BY DEF HandlersKept
<1>1. hs[h] \in Handler
  BY Types
<1>2. CASE h \in H
  <2>1. hs'[h] = [hs[h] EXCEPT !.closed = TRUE, !.late = FALSE]
    BY <1>2 DEF Closed
  <2>2. hs'[h].closed /\ hs'[h].client = hs[h].client /\ hs'[h].server = hs[h].server
    BY <1>1, <2>1 DEF Handler
  <2> QED
    BY <2>2 DEF ExcusedNext, Live
<1>3. CASE h \notin H
  <2>1. hs'[h] = hs[h]
    BY <1>3 DEF Closed
  <2> QED
    BY <1>3, <2>1 DEF Excused, ExcusedNext, Live
<1> QED
  BY <1>2, <1>3

LEMMA MapsSame ==
  ASSUME UNCHANGED <<outer, maps>>
  PROVE  MapsKept
BY DEF MapsKept

\* Where an operation neither adds nor drops anything.
Harmless == {"init", "idle", "call", "next", "list", "expire", "halt",
             "inspect", "apply", "close", "create", "run"}

\* An operation that comes to such a place without another inner map.
LEMMA HarmlessMove ==
  ASSUME NEW p \in Procs, NEW o, o.pc \in Harmless,
         \/ o.map = None
         \/ o.map = op[p].map /\ o.c = op[p].c
         \/ o.map = outer[o.c]
  PROVE  Moves(p, o)
BY DEF Moves, Behind, Harmless

\* Operations as they begin and as they return.
LEMMA FreshOps ==
  /\ Idle.pc = "idle" /\ Idle.map = None
  /\ \A c, T : Pulling(c, T).pc = "call" /\ Pulling(c, T).map = None
  /\ \A o : Returned(o).pc \in Harmless /\ Returned(o).map = None
<1>1. Idle.pc = "idle" /\ Idle.map = None
  BY DEF Idle
<1>2. \A c, T : Pulling(c, T).pc = "call" /\ Pulling(c, T).map = None
  BY DEF Pulling, Idle
<1>3. \A o : Returned(o).pc \in Harmless /\ Returned(o).map = None
  BY DEF Returned, Idle, Harmless
<1> QED
  BY <1>1, <1>2, <1>3

\* An operation that begins at StopAll has stopped nothing yet.
LEMMA StopAllMove ==
  ASSUME NEW p \in Procs, NEW o, o.pc = "stopall", o.map = None, o.visit = Clients
  PROVE  Moves(p, o)
BY DEF Moves, Behind

\* A driver begins an operation.
LEMMA BeginSafe ==
  ASSUME IInv, IInv', SafeInv,
         Tick \/ Initialized \/ Shutdown \/ (\E m \in Messages : Receive(m))
  PROVE  SafeInv'
<1>0. HandlersKept /\ MapsKept
  <2>1. UNCHANGED <<outer, maps, hs>>
    BY DEF Tick, Initialized, Shutdown, Receive
  <2> QED
    BY <2>1, HandlersSame, MapsSame
<1>1. CASE Tick
  <2>1. Moves("pull", Pulling(Root, {}))
    BY <1>1, FreshOps, HarmlessMove DEF Harmless, Tick
  <2> QED
    BY <1>0, <1>1, <2>1, DriverStep DEF Tick
<1>2. CASE Initialized
  <2>1. "rpc" \in Procs /\ Moves("rpc", Idle)
    BY <1>2, FreshOps, HarmlessMove DEF Harmless, Initialized
  <2> QED
    BY <1>0, <1>2, <2>1, DriverStep DEF Initialized
<1>3. CASE Shutdown
  <2> DEFINE o == [Idle EXCEPT !.visit = Clients, !.pc = "stopall"]
  <2>1. o.pc = "stopall" /\ o.map = None /\ o.visit = Clients
    BY DEF Idle
  <2> HIDE DEF o
  <2>2. "shutdown" \in Procs /\ op' = [op EXCEPT !["shutdown"] = o]
    BY <1>3 DEF Shutdown, o
  <2> QED
    BY <1>0, <2>1, <2>2, StopAllMove, DriverStep
<1>4. ASSUME NEW m \in Messages, Receive(m)
      PROVE  SafeInv'
  <2>1. "rpc" \in Procs /\ op' = [op EXCEPT !["rpc"] = Received(m)]
    BY <1>4 DEF Receive
  <2>2. \/ Received(m).pc \in Harmless /\ Received(m).map = None
        \/ /\ Received(m).pc = "stopall" /\ Received(m).map = None
           /\ Received(m).visit = Clients
    <3>1. CASE m.event = "update"
      <4>1. Received(m).pc \in {"idle", "inspect"} /\ Received(m).map = None
        BY <3>1 DEF Received, Idle
      <4> QED
        BY <4>1 DEF Harmless
    <3>2. CASE m.event = "start"
      BY <3>2, FreshOps DEF Received, Harmless
    <3>3. CASE m.event = "stop"
      BY <3>3 DEF Received, Idle
    <3> QED
      BY <3>1, <3>2, <3>3, MessageAssumption
  <2>3. Moves("rpc", Received(m))
    BY <2>1, <2>2, HarmlessMove, StopAllMove
  <2> QED
    BY <1>0, <2>1, <2>3, DriverStep
<1> QED
  BY <1>1, <1>2, <1>3, <1>4

\* Operation o has not gone beyond a harmless place.
Stays(p, o) ==
  /\ o.pc \in Harmless
  /\ o.map = None \/ (o.map = op[p].map /\ o.c = op[p].c)

\* Master's answer to a pull leads to no other.
LEMMA AnsweredStays ==
  ASSUME IInv, NEW p \in Procs, op[p].pc = "call", NEW r
  PROVE  Stays(p, Answered(op[p], r))
<1>o. op[p] \in Operation
  BY Types
<1>r. \A o : Stays(p, Returned(o))
  BY FreshOps DEF Stays
<1>1. CASE r = NoClient
  BY <1>1, <1>r DEF Answered
<1>2. CASE r # NoClient /\ r.stopped
  BY <1>2, <1>o DEF Answered, Stays, Harmless, Operation
<1>3. CASE r # NoClient /\ ~r.stopped /\ r.ids # {}
  <2> DEFINE all == [op[p] EXCEPT !.todo = @ \cup (r.ids \ {op[p].c})]
             l == [all EXCEPT !.pc = "list", !.ids = r.ids]
  <2>1. l.pc = "list" /\ l.map = op[p].map /\ l.c = op[p].c
    BY <1>o DEF Operation
  <2>2. Fanned(op[p], r) = IF r.origin = NoClient THEN l ELSE Returned(all)
    BY DEF Fanned
  <2> HIDE DEF l, all
  <2>3. Answered(op[p], r) = Fanned(op[p], r)
    BY <1>3 DEF Answered
  <2> QED
    BY <1>r, <2>1, <2>2, <2>3 DEF Stays, Harmless
<1>4. CASE r # NoClient /\ ~r.stopped /\ r.ids = {}
  <2> DEFINE i == [op[p] EXCEPT !.pc = "inspect", !.s = r.server, !.cfg = r.config]
  <2>1. i.pc = "inspect" /\ i.map = op[p].map /\ i.c = op[p].c
    BY <1>o DEF Operation
  <2>2. Configured(op[p], r) \in {i, Returned(op[p])}
    BY DEF Configured
  <2> HIDE DEF i
  <2>3. Answered(op[p], r) = Configured(op[p], r)
    BY <1>4 DEF Answered
  <2> QED
    BY <1>r, <2>1, <2>2, <2>3 DEF Stays, Harmless
<1> QED
  BY <1>1, <1>2, <1>3, <1>4

\* Steps of a driver up to the inner map: they look, and move on.
LEMMA LookSafe ==
  ASSUME IInv, IInv', SafeInv, NEW p \in Procs,
         \/ PullAnswered(p) \/ PullFailed(p) \/ List(p) \/ Inspect(p) \/ CreateFailed(p)
         \/ Halt(p) \/ LookUp(p)
         \/ \E c \in Clients : NextChild(p, c) \/ Expire(p, c)
  PROVE  SafeInv'
<1>0. HandlersKept /\ MapsKept
  <2>1. UNCHANGED <<outer, maps, hs>>
    BY DEF PullAnswered, PullFailed, List, Inspect, CreateFailed, Halt, LookUp,
           NextChild, Expire
  <2> QED
    BY <2>1, HandlersSame, MapsSame
<1>o. op[p] \in Operation /\ op \in [Procs -> Operation]
  BY Types DEF IInv, OpTypes
<1>r. \A o : Moves(p, Returned(o))
  BY FreshOps, HarmlessMove
<1>1. CASE PullAnswered(p)
  <2>1. Stays(p, Answered(op[p], master[op[p].c]))
    BY <1>1, AnsweredStays DEF PullAnswered
  <2>2. Moves(p, Answered(op[p], master[op[p].c]))
    BY <2>1, HarmlessMove DEF Stays
  <2> QED
    BY <1>0, <1>1, <2>2, DriverStep DEF PullAnswered
<1>2. CASE PullFailed(p) \/ CreateFailed(p)
  BY <1>0, <1>2, <1>r, DriverStep DEF PullFailed, CreateFailed, Return
<1>3. CASE List(p)
  <2> DEFINE ids == Expired(op[p].ids)
             e == Enter(op[p], "expire")
             n == [e EXCEPT !.ids = ids]
  <2>1. e.pc = "expire" /\ e.map = None /\ e \in Operation
    BY <1>o, EnterType DEF Pcs
  <2>2. Removing(op[p], ids) \in {n, Returned(op[p])}
    BY DEF Removing
  <2> HIDE DEF e, ids
  <2>3. n.pc = "expire" /\ n.map = None
    BY <2>1 DEF Operation
  <2> HIDE DEF n
  <2>4. Moves(p, n)
    BY <2>3, HarmlessMove DEF Harmless
  <2> QED
    BY <1>0, <1>3, <1>r, <2>2, <2>4, DriverStep DEF List, ids
<1>4. CASE Inspect(p)
  <2> DEFINE e == Enter(op[p], "apply")
             n == [e EXCEPT !.h = Found(op[p])]
  <2>1. /\ e.pc = "apply" /\ e.map = None /\ e \in Operation
        /\ Enter(op[p], "close").pc = "close" /\ Enter(op[p], "close").map = None
    BY <1>o, EnterType DEF Pcs
  <2>2. op' = [op EXCEPT ![p] = IF Replaces(op[p], Found(op[p])) THEN Enter(op[p], "close")
                                ELSE n]
    BY <1>4 DEF Inspect
  <2> HIDE DEF e
  <2>3. n.pc = "apply" /\ n.map = None
    BY <2>1 DEF Operation
  <2> HIDE DEF n
  <2>4. Moves(p, n) /\ Moves(p, Enter(op[p], "close"))
    BY <2>1, <2>3, HarmlessMove DEF Harmless
  <2> QED
    BY <1>0, <2>2, <2>4, DriverStep
<1>5. CASE Halt(p)
  <2> DEFINE n == [op[p] EXCEPT !.map = outer[op[p].c]]
  <2>1. n.pc = "halt" /\ n.c = op[p].c /\ n.map = outer[n.c]
    BY <1>5, <1>o DEF Halt, Operation
  <2>2. op' = [op EXCEPT ![p] = IF outer[op[p].c] = None THEN Returned(op[p]) ELSE n]
    BY <1>5 DEF Halt
  <2> HIDE DEF n
  <2>3. Moves(p, n)
    BY <2>1, HarmlessMove DEF Harmless
  <2> QED
    BY <1>0, <1>r, <2>2, <2>3, DriverStep
<1>6. CASE LookUp(p)
  <2> DEFINE n == [op[p] EXCEPT !.map = outer[op[p].c]]
  <2>1. /\ n.pc \in {"inspect", "close", "stop", "delete", "run"} /\ n.pc = op[p].pc
        /\ n.c = op[p].c /\ n.s = op[p].s /\ n.map = outer[n.c]
    BY <1>6, <1>o DEF LookUp, Operation
  <2>2. op' = [op EXCEPT ![p] = n]
    BY <1>6, <1>o DEF LookUp
  <2> HIDE DEF n
  <2>3. Moves(p, n)
    BY <2>1 DEF Moves, Behind
  <2> QED
    BY <1>0, <2>2, <2>3, DriverStep
<1>7. ASSUME NEW c \in Clients, NextChild(p, c)
      PROVE  SafeInv'
  <2>1. Moves(p, Pulling(c, op[p].todo \ {c}))
    BY FreshOps, HarmlessMove DEF Harmless
  <2>2. op' = [op EXCEPT ![p] = Pulling(c, op[p].todo \ {c})]
    BY <1>7, <1>o DEF NextChild
  <2> QED
    BY <1>0, <2>1, <2>2, DriverStep
<1>8. ASSUME NEW c \in Clients, Expire(p, c)
      PROVE  SafeInv'
  <2> DEFINE o == [op[p] EXCEPT !.c = c]
             e == Enter(o, "removestop")
             n == [e EXCEPT !.map = outer[c]]
  <2>1. o \in Operation /\ o.c = c
    BY <1>o DEF Operation
  <2>2. op' = [op EXCEPT ![p] = IF outer[c] = None THEN Enter(o, "remove") ELSE n]
    BY <1>8 DEF Expire
  <2> HIDE DEF o
  <2>3. /\ e \in Operation /\ e.pc = "removestop" /\ e.c = c /\ e.left = Servers
        /\ Enter(o, "remove").pc = "remove" /\ Enter(o, "remove").c = c
        /\ Enter(o, "remove").map = None
    BY <2>1, EnterType DEF Pcs
  <2> HIDE DEF e
  <2>4. n.pc = "removestop" /\ n.c = c /\ n.left = Servers /\ n.map = outer[c]
    BY <2>3 DEF Operation
  <2> HIDE DEF n
  <2>5. Moves(p, n)
    BY <2>4 DEF Moves, Behind
  <2>6. outer[c] = None => Moves(p, Enter(o, "remove"))
    BY <2>3 DEF Moves, Behind
  <2> QED
    BY <1>0, <2>2, <2>5, <2>6, DriverStep
<1> QED
  BY <1>1, <1>2, <1>3, <1>4, <1>5, <1>6, <1>7, <1>8

\* The handler found at an operation's slot: its client's, or, in a detached map, an
\* exception or closed.
LEMMA FoundFact ==
  ASSUME IInv, SafeInv, NEW p \in Procs, LookedUp(op[p]), Found(op[p]) # None
  PROVE  /\ Found(op[p]) \in Handlers
         /\ op[p].map \in Maps /\ Found(op[p]) = maps[op[p].map][op[p].s]
         /\ Managed(Found(op[p])) \/ Excused(Found(op[p]))
<1> DEFINE h == Found(op[p])
           m == op[p].map
           c == op[p].c
           s == op[p].s
<1>1. c \in Clients /\ s \in Servers /\ m \in Maps /\ h = maps[m][s] /\ h \in Handlers
  BY Types DEF Found
<1>2. CASE outer[c] = m
  <2>1. Holds(c, m)
    BY <1>2 DEF Holds
  <2>2. hs[h].client = c /\ hs[h].server = s
    BY <1>1, <2>1 DEF SafeInv, Owned
  <2> QED
    BY <1>1, <1>2, <2>2, Types DEF Managed, Get
<1>3. CASE outer[c] # m
  <2>1. Spared(m, s)
    BY <1>1, <1>3, Types DEF SafeInv, DetachedAreSpared
  <2> QED
    BY <1>1, <2>1, Types DEF Spared
<1> QED
  BY <1>1, <1>2, <1>3

\* recreateHandler up to Add's Store.
LEMMA SlotSafe ==
  ASSUME IInv, IInv', SafeInv, NEW p \in Procs,
         Close(p) \/ DeleteStop(p) \/ Delete(p) \/ Evict(p)
  PROVE  SafeInv'
<1>t. /\ op[p] \in Operation /\ op \in [Procs -> Operation] /\ op[p].c \in Clients
      /\ op[p].s \in Servers /\ op[p].map \in Maps \cup {None}
      /\ None \notin Maps /\ None \notin Handlers
      /\ \A c \in Clients : outer[c] \in Maps \cup {None}
  BY Types DEF IInv, OpTypes
<1>m. maps \in [Maps -> [Servers -> Handlers \cup {None}]]
  BY DEF IInv, MapTypes
<1>1. CASE Close(p)
  <2> DEFINE pc == IF Found(op[p]) = None THEN "create" ELSE "stop"
  <2>1. /\ Enter(op[p], pc).pc \in {"create", "stop"}
        /\ Enter(op[p], pc).map = None
    BY <1>t, EnterType DEF Pcs
  <2>2. Moves(p, Enter(op[p], pc))
    <3> HIDE DEF pc
    <3> QED
      BY <2>1 DEF Moves, Behind
  <2>3. op' = [op EXCEPT ![p] = Enter(op[p], pc)]
    BY <1>1, <1>t DEF Close, Goto
  <2>4. HandlersKept /\ MapsKept
    BY <1>1, HandlersClosed, MapsSame DEF Close
  <2> QED
    BY <2>2, <2>3, <2>4, DriverStep
<1>2. CASE DeleteStop(p)
  <2> DEFINE n == Enter(op[p], "delete")
  <2>1. n.pc = "delete" /\ n.map = None /\ n.c = op[p].c /\ n.s = op[p].s
    BY <1>t, EnterType DEF Pcs
  <2>2. op' = [op EXCEPT ![p] = n]
    BY <1>2, <1>t DEF DeleteStop, Goto
  <2> HIDE DEF n
  <2>3. HandlersKept /\ MapsKept
        /\ \A h \in Handlers : h \in Some(Found(op[p])) => ExcusedNext(h)
    BY <1>2, HandlersClosed, MapsSame DEF DeleteStop
  <2>4. ASSUME NEW c \in Clients, NEW s \in Servers, outer[c] # None,
               Behind(n, c, s, outer[c])
        PROVE  \/ Behind(op[p], c, s, outer[c])
               \/ maps[outer[c]][s] # None => ExcusedNext(maps[outer[c]][s])
    <3>1. c = op[p].c /\ s = op[p].s /\ op[p].pc = "stop" /\ LookedUp(op[p])
      BY <1>2, <2>1, <2>4 DEF Behind, DeleteStop
    <3>2. op[p].map # None
      BY <2>4, <3>1 DEF LookedUp
    <3>3. CASE op[p].map # outer[c]
      BY <3>1, <3>2, <3>3 DEF Behind
    <3>4. CASE op[p].map = outer[c] /\ maps[outer[c]][s] # None
      <4>1. Found(op[p]) = maps[outer[c]][s]
        BY <3>1, <3>2, <3>4 DEF Found
      <4>2. Found(op[p]) \in Handlers
        BY <1>m, <1>t, <3>2, <3>4, <4>1
      <4> QED
        BY <2>3, <3>4, <4>1, <4>2 DEF Some
    <3> QED
      BY <3>3, <3>4
  <2>5. Moves(p, n)
    BY <2>1, <2>4 DEF Moves
  <2> QED
    BY <2>2, <2>3, <2>5, DriverStep
<1>3. CASE Delete(p)
  <2> DEFINE n == Enter(op[p], "create")
  <2>1. n.pc = "create" /\ n.map = None
    BY <1>t, EnterType DEF Pcs
  <2>2. op' = [op EXCEPT ![p] = n]
    BY <1>3, <1>t DEF Delete, Goto
  <2> HIDE DEF n
  <2>3. HandlersKept
    BY <1>3, HandlersSame DEF Delete
  <2>4. MapsKept
    <3>1. CASE op[p].map = None
      BY <1>3, <3>1, MapsSame DEF Delete
    <3>2. CASE op[p].map # None
      <4>1. Spared(op[p].map, op[p].s)
        <5>1. CASE outer[op[p].c] = op[p].map
          <6>1. Behind(op[p], op[p].c, op[p].s, outer[op[p].c])
            BY <1>3 DEF Delete, Behind
          <6> QED
            BY <1>t, <3>2, <5>1, <6>1 DEF SafeInv, DroppedAreSpared
        <5>2. CASE outer[op[p].c] # op[p].map
          BY <1>t, <3>2, <5>2 DEF SafeInv, DetachedAreSpared
        <5> QED
          BY <5>1, <5>2
      <4>2. maps[op[p].map][op[p].s] # None => ExcusedNext(maps[op[p].map][op[p].s])
        BY <1>t, <1>m, <2>3, <3>2, <4>1 DEF Spared, HandlersKept
      <4>3. maps' = [maps EXCEPT ![op[p].map][op[p].s] = None] /\ outer' = outer
        BY <1>3, <3>2 DEF Delete
      <4> QED
        BY <1>m, <1>t, <4>2, <4>3 DEF MapsKept
    <3> QED
      BY <3>1, <3>2
  <2>5. Moves(p, n)
    BY <2>1, HarmlessMove DEF Harmless
  <2> QED
    BY <2>2, <2>3, <2>4, <2>5, DriverStep
<1>4. CASE Evict(p)
  <2> DEFINE n == [op[p] EXCEPT !.pc = "store"]
             h == maps[op[p].map][op[p].s]
  <2>1. /\ n.pc = "store" /\ n.map = op[p].map /\ n.c = op[p].c /\ n.s = op[p].s
        /\ n.h = op[p].h /\ op[p].pc = "evict" /\ op[p].map \in Maps
    BY <1>4, <1>t, Types DEF Evict, Operation
  <2>2. op' = [op EXCEPT ![p] = n]
    BY <1>4, <1>t DEF Evict
  <2> HIDE DEF n
  <2>3. /\ HandlersKept
        /\ h # None => ExcusedNext(h)
    <3>1. HandlersKept /\ \A g \in Handlers : g \in Some(h) => ExcusedNext(g)
      BY <1>4, HandlersClosed DEF Evict, Evicted
    <3>2. h \in Handlers \cup {None}
      BY <1>m, <1>t, <2>1
    <3> QED
      BY <3>1, <3>2 DEF Some
  <2>4. maps' = [maps EXCEPT ![op[p].map][op[p].s] = None] /\ outer' = outer
    BY <1>4 DEF Evict
  <2>5. MapsKept
    BY <1>m, <1>t, <2>1, <2>3, <2>4 DEF MapsKept
  <2>6. maps'[n.map][n.s] = None
    BY <1>m, <1>t, <2>1, <2>4
  <2>7. ASSUME NEW c \in Clients, NEW s \in Servers, outer[c] # None,
               Behind(n, c, s, outer[c])
        PROVE  maps[outer[c]][s] # None => ExcusedNext(maps[outer[c]][s])
    <3>1. outer[c] = op[p].map /\ s = op[p].s
      BY <2>1, <2>7 DEF Behind
    <3> QED
      BY <2>3, <3>1
  <2>8. Moves(p, n)
    BY <2>1, <2>6, <2>7 DEF Moves
  <2> QED
    BY <2>2, <2>3, <2>5, <2>8, DriverStep
<1> QED
  BY <1>1, <1>2, <1>3, <1>4

\* StopByClient and StopAll.
LEMMA RangeSafe ==
  ASSUME IInv, IInv', SafeInv, NEW p \in Procs,
         \/ \E s \in Servers : RangeStop(p, s)
         \/ \E c \in Clients : StopAll(p, c)
  PROVE  SafeInv'
<1>t. /\ op[p] \in Operation /\ op \in [Procs -> Operation] /\ op[p].c \in Clients
      /\ op[p].s \in Servers /\ op[p].map \in Maps \cup {None}
      /\ None \notin Maps /\ None \notin Handlers
      /\ \A c \in Clients : outer[c] \in Maps \cup {None}
      /\ \A m \in Maps : \A s \in Servers : maps[m][s] \in Handlers \cup {None}
  BY Types DEF IInv, OpTypes
\* Where an operation is when it has ranged over an inner map.
<1>a. ASSUME NEW o \in Operation, o.pc \in {"halt", "removestop", "stopall"}
      PROVE  /\ After(o).map = None
             /\ o.pc = "halt" => After(o).pc \in Harmless
             /\ o.pc = "removestop" => After(o).pc = "remove" /\ After(o).c = o.c
             /\ o.pc = "stopall" /\ o.visit # {} =>
                  After(o).pc = "stopall" /\ After(o).visit = o.visit
             /\ o.pc = "stopall" /\ o.visit = {} => After(o).pc = "deleteall"
  <2>1. CASE o.pc = "halt"
    BY <2>1, FreshOps DEF After
  <2>2. CASE o.pc = "removestop"
    BY <2>2, EnterType DEF After, Pcs
  <2>3. CASE o.pc = "stopall" /\ o.visit # {}
    BY <2>3, EnterType DEF After, Pcs
  <2>4. CASE o.pc = "stopall" /\ o.visit = {}
    <3> DEFINE e == Enter(o, "deleteall")
    <3>1. e \in Operation /\ e.pc = "deleteall" /\ e.map = None
      BY EnterType DEF Pcs
    <3>2. After(o) = [e EXCEPT !.visit = Clients]
      BY <2>4 DEF After
    <3> HIDE DEF e
    <3> QED
      BY <2>4, <3>1, <3>2 DEF Operation
  <2> QED
    BY <1>a, <2>1, <2>2, <2>3, <2>4
<1>1. ASSUME NEW s \in Servers, RangeStop(p, s)
      PROVE  SafeInv'
  <2> DEFINE n == [op[p] EXCEPT !.left = @ \ {s}]
             m == op[p].map
  <2>1. /\ op[p].pc \in {"halt", "removestop", "stopall"} /\ m \in Maps
        /\ s \in op[p].left
    BY <1>1, <1>t DEF RangeStop
  <2>2. op' = [op EXCEPT ![p] = IF op[p].left = {s} THEN After(op[p]) ELSE n]
    BY <1>1 DEF RangeStop
  <2>3. /\ HandlersKept /\ MapsKept
        /\ maps[m][s] # None => ExcusedNext(maps[m][s])
    <3>1. /\ HandlersKept /\ MapsKept
          /\ \A g \in Handlers : g \in Some(maps[m][s]) => ExcusedNext(g)
      BY <1>1, HandlersClosed, MapsSame DEF RangeStop
    <3> QED
      BY <1>t, <2>1, <3>1 DEF Some
  <2>4. /\ n.pc = op[p].pc /\ n.map = m /\ n.c = op[p].c /\ n.visit = op[p].visit
        /\ n.left = op[p].left \ {s}
    BY <1>t DEF Operation
  <2> HIDE DEF n
  <2>5. ASSUME NEW c \in Clients, NEW r \in Servers, outer[c] # None,
               Behind(n, c, r, outer[c])
        PROVE  \/ Behind(op[p], c, r, outer[c])
               \/ outer[c] = m /\ r = s
    BY <2>1, <2>4, <2>5 DEF Behind
  <2>6. Moves(p, n)
    BY <2>1, <2>3, <2>4, <2>5 DEF Moves
  <2>7. CASE op[p].left = {s}
    <3>1. ASSUME NEW c \in Clients, NEW r \in Servers, outer[c] # None,
                 Behind(After(op[p]), c, r, outer[c])
          PROVE  \/ Behind(op[p], c, r, outer[c])
                 \/ outer[c] = m /\ r = s
      <4>1. CASE op[p].pc = "halt"
        BY <1>a, <1>t, <3>1, <4>1 DEF Behind, Harmless
      <4>2. CASE op[p].pc = "removestop"
        BY <1>a, <1>t, <2>7, <3>1, <4>2 DEF Behind
      <4>3. CASE op[p].pc = "stopall" /\ op[p].visit # {}
        BY <1>a, <1>t, <2>7, <3>1, <4>3 DEF Behind
      <4>4. CASE op[p].pc = "stopall" /\ op[p].visit = {}
        BY <1>a, <1>t, <2>7, <3>1, <4>4 DEF Behind
      <4> QED
        BY <2>1, <4>1, <4>2, <4>3, <4>4
    <3>2. /\ After(op[p]).map = None
          /\ After(op[p]).pc \notin {"evict", "store"}
      BY <1>a, <1>t, <2>1 DEF Harmless
    <3>3. Moves(p, After(op[p]))
      BY <2>3, <3>1, <3>2 DEF Moves
    <3> QED
      BY <2>2, <2>3, <2>7, <3>3, DriverStep
  <2>8. CASE op[p].left # {s}
    BY <2>2, <2>3, <2>6, <2>8, DriverStep
  <2> QED
    BY <2>7, <2>8
<1>2. ASSUME NEW c \in Clients, StopAll(p, c)
      PROVE  SafeInv'
  <2> DEFINE o == [op[p] EXCEPT !.visit = @ \ {c}]
             e == Enter(o, "stopall")
             n == [e EXCEPT !.c = c, !.map = outer[c]]
  <2>1. /\ op[p].pc = "stopall" /\ op[p].map = None /\ c \in op[p].visit
        /\ HandlersKept /\ MapsKept
    BY <1>2, <1>t, HandlersSame, MapsSame DEF StopAll, Operation
  <2>2. o \in Operation /\ o.pc = "stopall" /\ o.visit = op[p].visit \ {c}
    BY <1>t, <2>1 DEF Operation
  <2>3. op' = [op EXCEPT ![p] = IF outer[c] = None THEN After(o) ELSE n]
    BY <1>2 DEF StopAll
  <2> HIDE DEF o
  <2>4. e \in Operation /\ e.pc = "stopall" /\ e.visit = o.visit /\ e.left = Servers
    BY <2>2, EnterType DEF Pcs
  <2> HIDE DEF e
  <2>5. /\ n.pc = "stopall" /\ n.visit = op[p].visit \ {c} /\ n.left = Servers
        /\ n.c = c /\ n.map = outer[c]
    BY <2>2, <2>4 DEF Operation
  <2> HIDE DEF n
  <2>6. ASSUME NEW d \in Clients, NEW s \in Servers, outer[d] # None,
               d # c, d \notin op[p].visit
        PROVE  Behind(op[p], d, s, outer[d])
    BY <2>1, <2>6 DEF Behind
  <2>7. CASE outer[c] = None
    <3>1. ASSUME NEW d \in Clients, NEW s \in Servers, outer[d] # None,
                 Behind(After(o), d, s, outer[d])
          PROVE  Behind(op[p], d, s, outer[d])
      <4>1. d # c
        BY <2>7, <3>1
      <4>2. d \notin o.visit
        BY <1>a, <2>2, <3>1 DEF Behind
      <4> QED
        BY <2>2, <2>6, <3>1, <4>1, <4>2
    <3>2. After(o).map = None /\ After(o).pc \notin {"evict", "store"}
      BY <1>a, <2>2
    <3>3. Moves(p, After(o))
      BY <3>1, <3>2 DEF Moves
    <3> QED
      BY <2>1, <2>3, <2>7, <3>3, DriverStep
  <2>8. CASE outer[c] # None
    <3>1. ASSUME NEW d \in Clients, NEW s \in Servers, outer[d] # None,
                 Behind(n, d, s, outer[d])
          PROVE  Behind(op[p], d, s, outer[d])
      <4>1. d # c
        BY <2>5, <3>1 DEF Behind
      <4>2. d \notin op[p].visit
        BY <2>5, <3>1, <4>1 DEF Behind
      <4> QED
        BY <2>6, <3>1, <4>1, <4>2
    <3>2. Moves(p, n)
      BY <2>5, <3>1 DEF Moves
    <3> QED
      BY <2>1, <2>3, <2>8, <3>2, DriverStep
  <2> QED
    BY <2>7, <2>8
<1> QED
  BY <1>1, <1>2

\* DeleteByClient, DeleteAll and the new map.
LEMMA DropSafe ==
  ASSUME IInv, IInv', SafeInv, NEW p \in Procs,
         Remove(p) \/ ReplaceAll(p) \/ \E c \in Clients : DeleteAll(p, c)
  PROVE  SafeInv'
<1>t. /\ op[p] \in Operation /\ op \in [Procs -> Operation] /\ op[p].c \in Clients
      /\ outer \in [Clients -> Maps \cup {None}] /\ None \notin Maps
  BY Types DEF IInv, OpTypes, MapTypes
\* What an operation drops has been stopped.
<1>d. ASSUME NEW c \in Clients, \A s \in Servers : Behind(op[p], c, s, outer[c])
      PROVE  outer[c] # None => \A s \in Servers : Spared(outer[c], s)
  BY <1>d DEF SafeInv, DroppedAreSpared
<1>1. CASE Remove(p)
  <2> DEFINE c == op[p].c
             ids == op[p].ids \ {c}
             e == Enter(op[p], "expire")
             n == [e EXCEPT !.ids = ids]
  <2>1. e.pc = "expire" /\ e.map = None /\ e \in Operation
    BY <1>t, EnterType DEF Pcs
  <2>2. Removing(op[p], ids) \in {n, Returned(op[p])}
    BY DEF Removing
  <2>3. op' = [op EXCEPT ![p] = Removing(op[p], ids)]
    BY <1>1 DEF Remove
  <2> HIDE DEF e, ids
  <2>4. n.pc = "expire" /\ n.map = None
    BY <2>1 DEF Operation
  <2> HIDE DEF n
  <2>5. Moves(p, Removing(op[p], ids))
    BY <2>2, <2>4, FreshOps, HarmlessMove DEF Harmless
  <2>6. \A s \in Servers : Behind(op[p], c, s, outer[c])
    BY <1>1 DEF Remove, Behind
  <2>7. outer[c] # None => \A s \in Servers : Spared(outer[c], s)
    BY <1>d, <1>t, <2>6
  <2>8. MapsKept
    BY <1>1, <1>t, <2>7 DEF Remove, MapsKept
  <2>9. HandlersKept
    BY <1>1, HandlersSame DEF Remove
  <2> QED
    BY <2>3, <2>5, <2>8, <2>9, DriverStep
<1>2. ASSUME NEW c \in Clients, DeleteAll(p, c)
      PROVE  SafeInv'
  <2> DEFINE pc == IF op[p].visit = {c} THEN "replace" ELSE op[p].pc
             v == [op[p] EXCEPT !.visit = @ \ {c}]
             o == [v EXCEPT !.pc = pc]
  <2>1. pc \in {"deleteall", "replace"} /\ op[p].pc = "deleteall"
    BY <1>2 DEF DeleteAll
  <2>2. op' = [op EXCEPT ![p] = o]
    BY <1>2, <1>t DEF DeleteAll
  <2> HIDE DEF pc
  <2>3. v \in Operation /\ v.map = op[p].map /\ v.c = op[p].c
    BY <1>t DEF Operation
  <2> HIDE DEF v
  <2>4. o.pc = pc /\ o.map = op[p].map /\ o.c = op[p].c
    BY <2>3 DEF Operation
  <2> HIDE DEF o
  <2>5. \A d \in Clients : \A s \in Servers : Behind(op[p], d, s, outer[d])
    BY <2>1 DEF Behind
  <2>6. Moves(p, o)
    BY <2>1, <2>4, <2>5 DEF Moves
  <2>7. outer[c] # None => \A s \in Servers : Spared(outer[c], s)
    BY <1>d, <2>5
  <2>8. MapsKept
    BY <1>2, <1>t, <2>7 DEF DeleteAll, MapsKept
  <2>9. HandlersKept
    BY <1>2, HandlersSame DEF DeleteAll
  <2> QED
    BY <2>2, <2>6, <2>8, <2>9, DriverStep
<1>3. CASE ReplaceAll(p)
  <2> DEFINE d == [Idle EXCEPT !.pc = "done"]
  <2>1. op[p].pc = "replace"
    BY <1>3 DEF ReplaceAll
  <2>2. op' = [op EXCEPT ![p] = IF p = "shutdown" THEN d ELSE Idle]
    BY <1>3 DEF ReplaceAll
  <2>3. d.pc = "done" /\ d.map = None
    BY DEF Idle
  <2> HIDE DEF d
  <2>4. \A c \in Clients : \A s \in Servers : Behind(op[p], c, s, outer[c])
    BY <2>1 DEF Behind
  <2>5. Moves(p, d)
    BY <2>3, <2>4 DEF Moves
  <2>6. Moves(p, Idle)
    BY FreshOps, HarmlessMove DEF Harmless
  <2>7. \A c \in Clients : outer[c] # None => \A s \in Servers : Spared(outer[c], s)
    BY <1>d, <2>4
  <2>8. MapsKept
    BY <1>3, <1>t, <2>7 DEF ReplaceAll, MapsKept
  <2>9. HandlersKept
    BY <1>3, HandlersSame DEF ReplaceAll
  <2> QED
    BY <2>2, <2>5, <2>6, <2>8, <2>9, DriverStep
<1> QED
  BY <1>1, <1>2, <1>3

\* Steps that change one handler: Update, Run and its goroutine.
LEMMA HandlerSafe ==
  ASSUME IInv, IInv', SafeInv,
         \/ \E p \in Procs : Apply(p) \/ Run(p)
         \/ \E h \in Handlers : RunStep(h) \/ RunFailed(h)
  PROVE  SafeInv'
<1>t. /\ hs \in [Handlers -> Handler] /\ None \notin Handlers
      /\ \A h \in Handlers : hs[h].inside = IF hs[h].running THEN 1 ELSE 0
  BY Types DEF IInv, HsTypes, SingleRun
<1>m. MapsKept
  <2>1. UNCHANGED <<outer, maps>>
    BY DEF Apply, Run, RunStep, RunFailed, RunSkipped, RunEntered, RunReturned
  <2> QED
    BY <2>1, MapsSame
\* It is enough to look at the handler that changes.
<1>h. ASSUME NEW h \in Handlers, \A g \in Handlers : g # h => hs'[g] = hs[g],
             hs'[h].client = hs[h].client, hs'[h].server = hs[h].server,
             Excused(h) => ExcusedNext(h),
             Live(h)' => Live(h) \/ Managed(h) \/ ExcusedNext(h)
      PROVE  HandlersKept
  <2> SUFFICES ASSUME NEW g \in Handlers
               PROVE  /\ hs'[g].client = hs[g].client /\ hs'[g].server = hs[g].server
                      /\ Excused(g) => ExcusedNext(g)
                      /\ Live(g)' => Live(g) \/ Managed(g) \/ ExcusedNext(g)
    BY DEF HandlersKept
  <2>1. CASE g = h
    BY <1>h, <2>1
  <2>2. CASE g # h
    <3>1. hs'[g] = hs[g]
      BY <1>h, <2>2
    <3> QED
      BY <3>1 DEF Excused, ExcusedNext, Live
  <2> QED
    BY <2>1, <2>2
<1>1. ASSUME NEW p \in Procs, Apply(p) \/ Run(p)
      PROVE  SafeInv'
  <2>1. op' = [op EXCEPT ![p] = Returned(op[p])]
    BY <1>1 DEF Apply, Run, Return
  <2>2. Moves(p, Returned(op[p]))
    BY FreshOps, HarmlessMove
  <2>3. HandlersKept
    <3>1. CASE Apply(p)
      <4>1. op[p].h \in Handlers
        BY <3>1 DEF IInv, OpTypes, OpOK, Apply
      <4> DEFINE h == op[p].h
      <4>2. hs' = [hs EXCEPT ![h].proxies = Started(op[p].cfg)]
        BY <3>1 DEF Apply
      <4> HIDE DEF h
      <4>3. /\ hs'[h].client = hs[h].client /\ hs'[h].server = hs[h].server
            /\ hs'[h].closed = hs[h].closed /\ hs'[h].waiting = hs[h].waiting
            /\ hs'[h].inside = hs[h].inside /\ hs'[h].raced = hs[h].raced
            /\ hs'[h].late = hs[h].late
        BY <1>t, <4>1, <4>2 DEF Handler, h
      <4>4. \A g \in Handlers : g # h => hs'[g] = hs[g]
        BY <1>t, <4>2
      <4> QED
        BY <1>h, <4>1, <4>3, <4>4 DEF Excused, ExcusedNext, Live, h
    <3>2. CASE Run(p)
      <4> DEFINE h == Found(op[p])
      <4>1. /\ LookedUp(op[p])
            /\ hs' = [g \in Handlers |-> IF g = h THEN [hs[g] EXCEPT !.waiting = @ + 1]
                                         ELSE hs[g]]
        BY <3>2 DEF Run
      <4>2. CASE h = None
        <5>1. hs' = hs
          BY <1>t, <4>1, <4>2
        <5> QED
          BY <5>1, HandlersSame
      <4>3. CASE h # None
        <5>1. h \in Handlers /\ (Managed(h) \/ Excused(h))
          BY <4>1, <4>3, FoundFact
        <5> HIDE DEF h
        <5>2. hs'[h] = [hs[h] EXCEPT !.waiting = @ + 1]
          BY <4>1, <5>1
        <5>3. /\ hs'[h].client = hs[h].client /\ hs'[h].server = hs[h].server
              /\ hs'[h].closed = hs[h].closed /\ hs'[h].raced = hs[h].raced
              /\ hs'[h].late = hs[h].late
          BY <1>t, <5>1, <5>2 DEF Handler
        <5>4. \A g \in Handlers : g # h => hs'[g] = hs[g]
          BY <4>1
        <5> QED
          BY <1>h, <5>1, <5>3, <5>4 DEF Excused, ExcusedNext
      <4> QED
        BY <4>2, <4>3
    <3> QED
      BY <1>1, <3>1, <3>2
  <2> QED
    BY <1>m, <2>1, <2>2, <2>3, DriverStep
<1>2. ASSUME NEW h \in Handlers, RunStep(h) \/ RunFailed(h)
      PROVE  SafeInv'
  <2>0. UNCHANGED op
    BY <1>2 DEF RunStep, RunFailed, RunSkipped, RunEntered, RunReturned
  <2>t. hs[h] \in Handler /\ hs[h].waiting \in Nat /\ hs[h].inside \in Nat
    BY <1>t DEF Handler
  <2>1. CASE RunSkipped(h)
    <3>1. hs' = [hs EXCEPT ![h].waiting = @ - 1] /\ hs[h].waiting > 0
      BY <2>1 DEF RunSkipped
    <3>2. /\ hs'[h].client = hs[h].client /\ hs'[h].server = hs[h].server
          /\ hs'[h].closed = hs[h].closed /\ hs'[h].waiting = hs[h].waiting - 1
          /\ hs'[h].inside = hs[h].inside /\ hs'[h].raced = hs[h].raced
          /\ hs'[h].late = hs[h].late
          /\ \A g \in Handlers : g # h => hs'[g] = hs[g]
      BY <1>t, <2>t, <3>1 DEF Handler
    <3>3. Live(h)' => Live(h)
      BY <2>t, <3>1, <3>2 DEF Live
    <3>4. Excused(h) => ExcusedNext(h)
      BY <3>2 DEF Excused, ExcusedNext
    <3> QED
      BY <1>h, <1>m, <2>0, <3>2, <3>3, <3>4, OtherStep
  <2>2. CASE RunEntered(h)
    <3>1. PICK outcome \in IF hs[h].closed THEN EarlyClose ELSE {"runs"} :
            hs' = [hs EXCEPT ![h].waiting = @ - 1, ![h].running = TRUE,
                             ![h].inside = @ + 1, ![h].closed = outcome = "returns",
                             ![h].late = @ \/ (hs[h].closed /\ outcome = "runs")]
      BY <2>2 DEF RunEntered
    <3>2. hs[h].waiting > 0 /\ (outcome = "returns" \/ outcome = "runs")
      BY <2>2, ClosedAssumption DEF RunEntered
    <3> DEFINE over == outcome = "returns"
               late == hs[h].closed /\ outcome = "runs"
    <3>3. hs' = [hs EXCEPT ![h].waiting = @ - 1, ![h].running = TRUE,
                           ![h].inside = @ + 1, ![h].closed = over,
                           ![h].late = @ \/ late]
      BY <3>1
    <3> HIDE DEF over, late
    <3>4. /\ hs'[h].client = hs[h].client /\ hs'[h].server = hs[h].server
          /\ hs'[h].closed = over /\ hs'[h].raced = hs[h].raced
          /\ hs'[h].late = (hs[h].late \/ late)
          /\ \A g \in Handlers : g # h => hs'[g] = hs[g]
      BY <1>t, <2>t, <3>3 DEF Handler
    <3>5. Excused(h) => ExcusedNext(h)
      BY <3>2, <3>4 DEF Excused, ExcusedNext, over, late
    <3>6. hs[h].waiting + hs[h].inside > 0
      BY <2>t, <3>2
    <3>7. Live(h)' => Live(h) \/ ExcusedNext(h)
      BY <3>2, <3>4, <3>6 DEF Live, ExcusedNext, over, late
    <3> QED
      BY <1>h, <1>m, <2>0, <3>4, <3>5, <3>7, OtherStep
  <2>3. CASE RunReturned(h) \/ RunFailed(h)
    <3>1. hs' = [hs EXCEPT ![h].running = FALSE, ![h].inside = @ - 1] /\ hs[h].inside > 0
      BY <2>3 DEF RunReturned, RunFailed
    <3>2. /\ hs'[h].client = hs[h].client /\ hs'[h].server = hs[h].server
          /\ hs'[h].closed = hs[h].closed /\ hs'[h].waiting = hs[h].waiting
          /\ hs'[h].inside = hs[h].inside - 1 /\ hs'[h].raced = hs[h].raced
          /\ hs'[h].late = hs[h].late
          /\ \A g \in Handlers : g # h => hs'[g] = hs[g]
      BY <1>t, <2>t, <3>1 DEF Handler
    <3>3. Live(h)' => Live(h)
      BY <2>t, <3>1, <3>2 DEF Live
    <3>4. Excused(h) => ExcusedNext(h)
      BY <3>2 DEF Excused, ExcusedNext
    <3> QED
      BY <1>h, <1>m, <2>0, <3>2, <3>3, <3>4, OtherStep
  <2> QED
    BY <1>2, <2>1, <2>2, <2>3 DEF RunStep
<1> QED
  BY <1>1, <1>2

\* NewClientHandler and Add's LoadOrStore: the handler is one nobody has, and an
\* inner map that is made for it is one nobody has either.
LEMMA CreateSafe ==
  ASSUME IInv, IInv', SafeInv, NEW p \in Procs, Create(p)
  PROVE  SafeInv'
<1> DEFINE c == op[p].c
           s == op[p].s
<1>t. /\ op \in [Procs -> Operation] /\ maps \in [Maps -> [Servers -> Handlers \cup {None}]]
      /\ outer \in [Clients -> Maps \cup {None}] /\ hs \in [Handlers -> Handler]
      /\ c \in Clients /\ s \in Servers /\ None \notin Maps /\ None \notin Handlers
  BY Types DEF IInv, OpTypes, MapTypes, HsTypes
<1>p. \A q \in Procs :
        /\ op[q].c \in Clients /\ op[q].s \in Servers /\ op[q].map \in Maps \cup {None}
        /\ op[q].pc \in {"evict", "store"} => op[q].map \in Maps /\ op[q].h \in Handlers
  BY Types
<1>i. Owned /\ DroppedAreSpared /\ ReplacedAreSpared /\ DetachedAreSpared /\ NoOrphan
  BY DEF SafeInv
<1>1. PICK h \in Handlers \ HandlersInUse, m \in Maps :
        /\ hs' = [hs EXCEPT ![h] = NewClientHandler(c, s, op[p].cfg)]
        /\ op' = [op EXCEPT ![p].pc = "evict", ![p].h = h, ![p].map = m]
        /\ \/ outer[c] = m /\ UNCHANGED <<outer, maps>>
           \/ /\ outer[c] = None /\ m \notin MapsInUse
              /\ outer' = [outer EXCEPT ![c] = m]
              /\ maps' = [maps EXCEPT ![m] = [r \in Servers |-> None]]
  <2>1. PICK h \in Handlers \ HandlersInUse :
          /\ hs' = [hs EXCEPT ![h] = NewClientHandler(op[p].c, op[p].s, op[p].cfg)]
          /\ IF outer[op[p].c] # None
             THEN /\ op' = [op EXCEPT ![p].pc = "evict", ![p].h = h,
                                      ![p].map = outer[op[p].c]]
                  /\ UNCHANGED <<outer, maps>>
             ELSE \E m \in Maps \ MapsInUse :
                    /\ outer' = [outer EXCEPT ![op[p].c] = m]
                    /\ maps' = [maps EXCEPT ![m] = [r \in Servers |-> None]]
                    /\ op' = [op EXCEPT ![p].pc = "evict", ![p].h = h, ![p].map = m]
    BY DEF Create
  <2>2. CASE outer[c] # None
    <3>1. outer[c] \in Maps
      BY <1>t, <2>2
    <3> QED
      BY <2>1, <2>2, <3>1
  <2>3. CASE outer[c] = None
    BY <2>1, <2>3
  <2> QED
    BY <2>2, <2>3
\* Nobody has h, and what is in use stays as it is.
<1>2. /\ \A d \in Clients : outer[d] # None => outer[d] \in MapsInUse
      /\ \A q \in Procs : op[q].map # None => op[q].map \in MapsInUse
  BY <1>t DEF MapsInUse, Range
<1>3. /\ \A n \in Maps : \A r \in Servers : n \in MapsInUse => maps[n][r] # h
      /\ \A q \in Procs : op[q].h # h
      /\ hs[h].waiting <= 0 /\ hs[h].inside <= 0
  <2>1. \A n \in MapsInUse : h \notin Range(maps[n])
    BY DEF HandlersInUse
  <2>2. \A n \in Maps : \A r \in Servers : maps[n][r] \in Range(maps[n])
    BY <1>t DEF Range
  <2>0. /\ h \notin {op[q].h : q \in Procs}
        /\ h \notin {g \in Handlers : hs[g].waiting > 0 \/ hs[g].inside > 0}
    BY DEF HandlersInUse
  <2>3. \A q \in Procs : op[q].h # h
    BY <2>0
  <2>4. ~(hs[h].waiting > 0) /\ ~(hs[h].inside > 0)
    BY <2>0
  <2>5. hs[h].waiting \in Nat /\ hs[h].inside \in Nat
    BY <1>t DEF Handler
  <2> QED
    BY <2>1, <2>2, <2>3, <2>4, <2>5
<1>4. /\ \A g \in Handlers : g # h => hs'[g] = hs[g]
      /\ hs'[h].client = c /\ hs'[h].server = s
      /\ hs'[h].waiting = 0 /\ hs'[h].inside = 0
  <2> DEFINE n == NewClientHandler(c, s, op[p].cfg)
  <2>1. n.client = c /\ n.server = s /\ n.waiting = 0 /\ n.inside = 0
    BY DEF NewClientHandler, Blank
  <2>2. hs'[h] = n
    BY <1>1, <1>t
  <2> HIDE DEF n
  <2> QED
    BY <1>1, <1>t, <2>1, <2>2
<1>5. /\ \A q \in Procs : q # p => op'[q] = op[q]
      /\ op'[p].pc = "evict" /\ op'[p].h = h /\ op'[p].map = m
      /\ op'[p].c = c /\ op'[p].s = s
  BY <1>1, <1>t DEF Operation
<1>6. /\ \A n \in Maps : n # m => maps'[n] = maps[n]
      /\ \A d \in Clients : d # c => outer'[d] = outer[d]
      /\ outer'[c] = m
      /\ \/ m = outer[c] /\ maps'[m] = maps[m]
         \/ m \notin MapsInUse /\ outer[c] = None /\ \A r \in Servers : maps'[m][r] = None
  BY <1>1, <1>t
\* An inner map that is held, other than m, was held and is as it was.
<1>7. ASSUME NEW d \in Clients, NEW n \in Maps, Holds(d, n)'
      PROVE  \/ Holds(d, n) /\ maps'[n] = maps[n] /\ n \in MapsInUse
             \/ n = m /\ d = c /\ \A r \in Servers : maps'[m][r] = None
  <2>1. CASE outer'[d] = n
    BY <1>2, <1>6, <1>t, <2>1 DEF Holds
  <2>2. ASSUME NEW q \in Procs, op'[q].map = n, op'[q].c = d
        PROVE  \/ Holds(d, n) /\ maps'[n] = maps[n] /\ n \in MapsInUse
               \/ n = m /\ d = c /\ \A r \in Servers : maps'[m][r] = None
    <3>1. CASE q = p
      BY <1>2, <1>5, <1>6, <1>t, <2>2, <3>1 DEF Holds
    <3>2. CASE q # p
      BY <1>2, <1>5, <1>6, <1>t, <2>2, <3>2 DEF Holds
    <3> QED
      BY <3>1, <3>2
  <2> QED
    BY <1>7, <2>1, <2>2 DEF Holds
\* What was held is as it was.
<1>8. ASSUME NEW n \in Maps, n \in MapsInUse
      PROVE  /\ maps'[n] = maps[n]
             /\ \A r \in Servers : Spared(n, r) => Spared(n, r)'
  <2>1. maps'[n] = maps[n]
    BY <1>6, <1>8
  <2>2. ASSUME NEW r \in Servers, Spared(n, r) PROVE Spared(n, r)'
    <3>1. maps[n][r] # h /\ maps[n][r] \in Handlers \cup {None}
      BY <1>3, <1>8, <1>t
    <3> QED
      BY <1>4, <2>1, <2>2, <3>1 DEF Spared, Excused
  <2> QED
    BY <2>1, <2>2
<1>9. Owned'
  <2>1. ASSUME NEW n \in Maps, NEW d \in Clients, NEW e \in Clients,
               Holds(d, n)', Holds(e, n)'
        PROVE  d = e
    <3>1. CASE n = m /\ m \notin MapsInUse
      BY <1>7, <2>1, <3>1
    <3>2. CASE ~(n = m /\ m \notin MapsInUse)
      <4>1. Holds(d, n)
        BY <1>6, <1>7, <1>2, <1>t, <2>1, <3>2 DEF Holds
      <4>2. Holds(e, n)
        BY <1>6, <1>7, <1>2, <1>t, <2>1, <3>2 DEF Holds
      <4> QED
        BY <1>i, <4>1, <4>2 DEF Owned
    <3> QED
      BY <3>1, <3>2
  <2>2. ASSUME NEW n \in Maps, NEW d \in Clients, NEW r \in Servers,
               Holds(d, n)', maps'[n][r] # None
        PROVE  hs'[maps'[n][r]].client = d /\ hs'[maps'[n][r]].server = r
    <3>1. Holds(d, n) /\ maps'[n] = maps[n] /\ n \in MapsInUse
      BY <1>7, <2>2
    <3>2. maps[n][r] \in Handlers /\ maps[n][r] # h
      BY <1>3, <1>t, <2>2, <3>1
    <3> QED
      BY <1>4, <1>i, <2>2, <3>1, <3>2 DEF Owned
  <2>3. ASSUME NEW q \in Procs, op'[q].pc \in {"evict", "store"}
        PROVE  hs'[op'[q].h].client = op'[q].c /\ hs'[op'[q].h].server = op'[q].s
    <3>1. CASE q = p
      BY <1>4, <1>5, <3>1
    <3>2. CASE q # p
      <4>1. op'[q] = op[q] /\ op[q].h \in Handlers /\ op[q].h # h
        BY <1>3, <1>5, <1>p, <2>3, <3>2
      <4> QED
        BY <1>4, <1>i, <2>3, <4>1 DEF Owned
    <3> QED
      BY <3>1, <3>2
  <2> QED
    BY <2>1, <2>2, <2>3 DEF Owned
<1>10. DroppedAreSpared'
  <2>1. SUFFICES ASSUME NEW q \in Procs, NEW d \in Clients, NEW r \in Servers,
                        outer'[d] # None, Behind(op[q], d, r, outer[d])'
                 PROVE  Spared(outer[d], r)'
    BY DEF DroppedAreSpared
  <2>2. q # p /\ op'[q] = op[q]
    BY <1>5, <2>1 DEF Behind
  <2>3. CASE outer'[d] = outer[d]
    <3>1. Behind(op[q], d, r, outer[d])
      BY <2>1, <2>2, <2>3 DEF Behind
    <3>2. PICK n \in Maps : n = outer[d]
      BY <1>t, <2>1, <2>3
    <3>3. Spared(n, r) /\ n \in MapsInUse
      BY <1>2, <1>i, <1>t, <3>1, <3>2 DEF DroppedAreSpared
    <3>4. Spared(n, r)'
      BY <1>8, <3>3
    <3> QED
      BY <2>3, <3>2, <3>4 DEF Spared
  <2>4. CASE outer'[d] # outer[d]
    <3>1. outer'[d] = m /\ maps'[m][r] = None
      BY <1>6, <2>4
    <3> QED
      BY <3>1 DEF Spared
  <2> QED
    BY <2>3, <2>4
<1>11. ReplacedAreSpared'
  <2>1. SUFFICES ASSUME NEW q \in Procs, op'[q].pc = "store"
                 PROVE  Spared(op[q].map, op[q].s)'
    BY DEF ReplacedAreSpared
  <2>2. q # p /\ op'[q] = op[q] /\ op[q].map \in Maps /\ op[q].s \in Servers
    BY <1>5, <1>p, <2>1
  <2>3. PICK n \in Maps, r \in Servers : n = op[q].map /\ r = op[q].s
    BY <2>2
  <2>4. Spared(n, r) /\ n \in MapsInUse
    BY <1>2, <1>i, <1>t, <2>1, <2>2, <2>3 DEF ReplacedAreSpared
  <2>5. Spared(n, r)'
    BY <1>8, <2>4
  <2> QED
    BY <2>2, <2>3, <2>5 DEF Spared
<1>12. DetachedAreSpared'
  <2>1. SUFFICES ASSUME NEW q \in Procs, NEW r \in Servers, op'[q].map # None,
                        op'[q].map # outer'[op'[q].c]
                 PROVE  Spared(op[q].map, r)'
    BY DEF DetachedAreSpared
  <2>2. q # p /\ op'[q] = op[q]
    BY <1>5, <1>6, <2>1
  <2>3. PICK n \in Maps : n = op[q].map
    BY <1>p, <2>1, <2>2
  <2>4. n \in MapsInUse /\ n # outer[op[q].c]
    <3>1. n \in MapsInUse
      BY <1>2, <1>t, <2>3
    <3>2. PICK d \in Clients : d = op[q].c
      BY <1>p
    <3>3. n # outer'[d]
      BY <2>1, <2>2, <2>3, <3>2
    <3>4. n # outer[d]
      BY <1>6, <1>t, <3>3
    <3> QED
      BY <3>1, <3>2, <3>4
  <2>5. Spared(n, r)
    BY <1>i, <1>t, <2>3, <2>4 DEF DetachedAreSpared
  <2>6. Spared(n, r)'
    BY <1>8, <2>4, <2>5
  <2> QED
    BY <2>2, <2>3, <2>6 DEF Spared
<1>13. NoOrphan'
  <2>1. SUFFICES ASSUME NEW g \in Handlers, Live(g)', ~Managed(g)'
                 PROVE  hs'[g].raced \/ hs'[g].late
    BY DEF NoOrphan
  <2>2. g # h /\ hs'[g] = hs[g]
    BY <1>4, <2>1 DEF Live
  <2>3. Live(g)
    BY <2>1, <2>2 DEF Live
  <2>4. ~Managed(g)
    <3> SUFFICES ASSUME Managed(g) PROVE FALSE
      OBVIOUS
    <3>1. /\ hs[g].client \in Clients /\ hs[g].server \in Servers
          /\ outer[hs[g].client] \in Maps /\ maps[outer[hs[g].client]][hs[g].server] = g
      BY <1>t DEF Managed, Get, Handler
    <3>2. outer'[hs[g].client] = outer[hs[g].client]
      BY <1>6, <1>t, <3>1
    <3>3. maps'[outer[hs[g].client]] = maps[outer[hs[g].client]]
      BY <1>2, <1>8, <1>t, <3>1
    <3> QED
      BY <1>t, <2>1, <2>2, <3>1, <3>2, <3>3 DEF Managed, Get
  <2> QED
    BY <1>i, <2>2, <2>3, <2>4 DEF NoOrphan
<1> QED
  BY <1>9, <1>10, <1>11, <1>12, <1>13 DEF SafeInv

\* Add's Store: what it stores over has been stopped or is an exception, and what it
\* stores is an exception where somebody else goes on to drop it.
LEMMA StoreSafe ==
  ASSUME IInv, IInv', SafeInv, NEW p \in Procs, Store(p)
  PROVE  SafeInv'
<1>i. Owned /\ DroppedAreSpared /\ ReplacedAreSpared /\ DetachedAreSpared /\ NoOrphan
  BY DEF SafeInv
<1>p. \A q \in Procs :
        /\ op[q] \in Operation
        /\ op[q].c \in Clients /\ op[q].s \in Servers /\ op[q].map \in Maps \cup {None}
        /\ op[q].pc \in {"evict", "store"} => op[q].map \in Maps /\ op[q].h \in Handlers
  BY Types
<1>0. op[p].pc = "store" /\ op[p].map \in Maps /\ op[p].h \in Handlers
  BY <1>p DEF Store
<1>1. PICK m \in Maps, c \in Clients, s \in Servers, h \in Handlers :
        m = op[p].map /\ c = op[p].c /\ s = op[p].s /\ h = op[p].h
  BY <1>0, <1>p
<1>t. /\ op \in [Procs -> Operation] /\ maps \in [Maps -> [Servers -> Handlers \cup {None}]]
      /\ outer \in [Clients -> Maps \cup {None}] /\ hs \in [Handlers -> Handler]
      /\ None \notin Maps /\ None \notin Handlers
  BY Types DEF IInv, OpTypes, MapTypes, HsTypes
<1>2. /\ outer' = outer /\ maps'[m][s] = h
      /\ \A n \in Maps : \A r \in Servers : (n = m /\ r = s) \/ maps'[n][r] = maps[n][r]
  BY <1>1, <1>t DEF Store
<1>3. /\ \A g \in Handlers : g # h => hs'[g] = hs[g]
      /\ hs'[h].client = hs[h].client /\ hs'[h].server = hs[h].server
      /\ hs'[h].closed = hs[h].closed /\ hs'[h].late = hs[h].late
      /\ hs'[h].waiting = hs[h].waiting /\ hs'[h].inside = hs[h].inside
      /\ hs[h].raced => hs'[h].raced
      /\ Races(p) => hs'[h].raced
  <2> DEFINE b == hs[h].raced \/ Races(p)
  <2>1. hs' = [hs EXCEPT ![h].raced = b]
    BY <1>1, <1>t DEF Store
  <2> HIDE DEF b
  <2>2. /\ \A g \in Handlers : g # h => hs'[g] = hs[g]
        /\ hs'[h].client = hs[h].client /\ hs'[h].server = hs[h].server
        /\ hs'[h].closed = hs[h].closed /\ hs'[h].late = hs[h].late
        /\ hs'[h].waiting = hs[h].waiting /\ hs'[h].inside = hs[h].inside
        /\ hs'[h].raced = b
    BY <1>t, <2>1 DEF Handler
  <2> QED
    BY <2>2 DEF b
<1>4. \A g \in Handlers :
        /\ hs'[g].client = hs[g].client /\ hs'[g].server = hs[g].server
        /\ Excused(g) => ExcusedNext(g)
        /\ Live(g)' => Live(g)
        /\ hs'[g].closed = hs[g].closed
  BY <1>3 DEF Excused, ExcusedNext, Live
<1>5. /\ \A q \in Procs : q # p => op'[q] = op[q]
      /\ op'[p].pc = "run" /\ op'[p].map = None
  <2> DEFINE e == Enter(op[p], "run")
             o == [e EXCEPT !.h = None]
  <2>1. e \in Operation /\ e.pc = "run" /\ e.map = None
    BY <1>p, EnterType DEF Pcs
  <2>2. op' = [op EXCEPT ![p] = o]
    BY <1>t DEF Store
  <2> HIDE DEF e
  <2>3. o.pc = "run" /\ o.map = None
    BY <2>1 DEF Operation
  <2> HIDE DEF o
  <2> QED
    BY <1>t, <2>2, <2>3
\* What was spared is, and what is stored, when it races.
<1>6. ASSUME NEW n \in Maps, NEW r \in Servers, Spared(n, r), n = m /\ r = s => Races(p)
      PROVE  Spared(n, r)'
  <2>1. CASE n = m /\ r = s
    BY <1>2, <1>3, <1>6, <2>1 DEF Spared, Excused
  <2>2. CASE ~(n = m /\ r = s)
    <3>1. maps'[n][r] = maps[n][r] /\ maps[n][r] \in Handlers \cup {None}
      BY <1>2, <1>t, <2>2
    <3> QED
      BY <1>4, <1>6, <3>1 DEF Spared, Excused, ExcusedNext
  <2> QED
    BY <2>1, <2>2
<1>7. Holds(c, m)
  BY <1>1 DEF Holds
<1>8. ASSUME NEW d \in Clients, NEW n \in Maps, Holds(d, n)'
      PROVE  Holds(d, n)
  <2>1. CASE outer'[d] = n
    BY <1>2, <2>1 DEF Holds
  <2>2. ASSUME NEW q \in Procs, op'[q].map = n, op'[q].c = d
        PROVE  Holds(d, n)
    BY <1>5, <1>t, <2>2 DEF Holds
  <2> QED
    BY <1>8, <2>1, <2>2 DEF Holds
<1>9. Owned'
  <2>1. ASSUME NEW n \in Maps, NEW d \in Clients, NEW e \in Clients,
               Holds(d, n)', Holds(e, n)'
        PROVE  d = e
    BY <1>8, <1>i, <2>1 DEF Owned
  <2>2. ASSUME NEW n \in Maps, NEW d \in Clients, NEW r \in Servers,
               Holds(d, n)', maps'[n][r] # None
        PROVE  hs'[maps'[n][r]].client = d /\ hs'[maps'[n][r]].server = r
    <3>1. Holds(d, n)
      BY <1>8, <2>2
    <3>2. CASE n = m /\ r = s
      <4>1. d = c
        BY <1>7, <1>i, <3>1, <3>2 DEF Owned
      <4>2. hs[h].client = c /\ hs[h].server = s
        BY <1>0, <1>1, <1>i DEF Owned
      <4> QED
        BY <1>2, <1>4, <3>2, <4>1, <4>2
    <3>3. CASE ~(n = m /\ r = s)
      <4>1. maps'[n][r] = maps[n][r] /\ maps[n][r] \in Handlers
        BY <1>2, <1>t, <2>2, <3>3
      <4> QED
        BY <1>4, <1>i, <2>2, <3>1, <4>1 DEF Owned
    <3> QED
      BY <3>2, <3>3
  <2>3. ASSUME NEW q \in Procs, op'[q].pc \in {"evict", "store"}
        PROVE  hs'[op'[q].h].client = op'[q].c /\ hs'[op'[q].h].server = op'[q].s
    <3>1. q # p /\ op'[q] = op[q] /\ op[q].h \in Handlers
      BY <1>5, <1>p, <2>3
    <3> QED
      BY <1>4, <1>i, <2>3, <3>1 DEF Owned
  <2> QED
    BY <2>1, <2>2, <2>3 DEF Owned
<1>10. DroppedAreSpared'
  <2>1. SUFFICES ASSUME NEW q \in Procs, NEW d \in Clients, NEW r \in Servers,
                        outer'[d] # None, Behind(op[q], d, r, outer[d])'
                 PROVE  Spared(outer[d], r)'
    BY DEF DroppedAreSpared
  <2>2. q # p /\ op'[q] = op[q]
    BY <1>5, <2>1 DEF Behind
  <2>3. Behind(op[q], d, r, outer[d])
    BY <1>2, <2>1, <2>2 DEF Behind
  <2>4. PICK n \in Maps : n = outer[d]
    BY <1>2, <1>t, <2>1
  <2>5. Spared(n, r)
    BY <1>i, <1>t, <2>3, <2>4 DEF DroppedAreSpared
  <2>6. n = m /\ r = s => Races(p)
    <3> SUFFICES ASSUME n = m, r = s PROVE Races(p)
      OBVIOUS
    <3>1. Holds(d, m)
      BY <2>4 DEF Holds
    <3>2. d = c
      BY <1>7, <1>i, <3>1 DEF Owned
    <3> QED
      BY <1>1, <2>2, <2>3, <2>4, <3>2 DEF Races
  <2>7. Spared(n, r)'
    BY <1>6, <2>5, <2>6
  <2> QED
    BY <1>2, <2>4, <2>7 DEF Spared
<1>11. ReplacedAreSpared'
  <2>1. SUFFICES ASSUME NEW q \in Procs, op'[q].pc = "store"
                 PROVE  Spared(op[q].map, op[q].s)'
    BY DEF ReplacedAreSpared
  <2>2. q # p /\ op'[q] = op[q] /\ op[q].map \in Maps /\ op[q].s \in Servers
    BY <1>5, <1>p, <2>1
  <2>3. PICK n \in Maps, r \in Servers : n = op[q].map /\ r = op[q].s
    BY <2>2
  <2>4. Spared(n, r)
    BY <1>i, <2>1, <2>2, <2>3 DEF ReplacedAreSpared
  <2>5. n = m /\ r = s => Races(p)
    BY <1>1, <2>1, <2>2, <2>3 DEF Races, Behind
  <2>6. Spared(n, r)'
    BY <1>6, <2>4, <2>5
  <2> QED
    BY <2>2, <2>3, <2>6 DEF Spared
<1>12. DetachedAreSpared'
  <2>1. SUFFICES ASSUME NEW q \in Procs, NEW r \in Servers, op'[q].map # None,
                        op'[q].map # outer'[op'[q].c]
                 PROVE  Spared(op[q].map, r)'
    BY DEF DetachedAreSpared
  <2>2. q # p /\ op'[q] = op[q]
    BY <1>5, <2>1
  <2>3. PICK n \in Maps, d \in Clients : n = op[q].map /\ d = op[q].c
    BY <1>p, <2>1, <2>2
  <2>4. n # outer[d]
    BY <1>2, <2>1, <2>2, <2>3
  <2>5. Spared(n, r)
    BY <1>i, <1>t, <2>3, <2>4 DEF DetachedAreSpared
  <2>6. n = m /\ r = s => Races(p)
    <3> SUFFICES ASSUME n = m, r = s PROVE Races(p)
      OBVIOUS
    <3>1. Holds(d, m)
      BY <2>3 DEF Holds
    <3>2. d = c
      BY <1>7, <1>i, <3>1 DEF Owned
    <3> QED
      BY <1>1, <2>4, <3>2 DEF Races
  <2>7. Spared(n, r)'
    BY <1>6, <2>5, <2>6
  <2> QED
    BY <2>2, <2>3, <2>7 DEF Spared
<1>13. NoOrphan'
  <2>1. SUFFICES ASSUME NEW g \in Handlers, Live(g)', ~Managed(g)'
                 PROVE  hs'[g].raced \/ hs'[g].late
    BY DEF NoOrphan
  <2>2. Live(g) /\ ~hs'[g].closed
    BY <1>4, <2>1 DEF Live
  <2>3. SUFFICES Excused(g)
    BY <1>4, <2>2 DEF ExcusedNext
  <2>4. PICK d \in Clients, r \in Servers : d = hs[g].client /\ r = hs[g].server
    BY <1>t DEF Handler
  <2>5. CASE Managed(g)
    <3>1. outer[d] \in Maps /\ maps[outer[d]][r] = g
      BY <1>t, <2>4, <2>5 DEF Managed, Get
    <3>2. maps'[outer[d]][r] # g
      BY <1>2, <1>4, <1>t, <2>1, <2>4, <3>1 DEF Managed, Get
    <3>3. outer[d] = m /\ r = s
      BY <1>2, <3>1, <3>2
    <3>4. Spared(m, s)
      BY <1>0, <1>1, <1>i DEF ReplacedAreSpared
    <3> QED
      BY <1>t, <3>1, <3>3, <3>4 DEF Spared
  <2>6. CASE ~Managed(g)
    BY <1>i, <2>2, <2>6 DEF NoOrphan, Excused
  <2> QED
    BY <2>5, <2>6
<1> QED
  BY <1>9, <1>10, <1>11, <1>12, <1>13 DEF SafeInv

\* The invariant holds at the start, when there are no handlers,
LEMMA SafeInit == Init => SafeInv
<1> SUFFICES ASSUME Init PROVE SafeInv
  OBVIOUS
<1>0. /\ \A c \in Clients : outer[c] = None
      /\ \A m \in Maps : \A s \in Servers : maps[m][s] = None
      /\ \A h \in Handlers : hs[h] = Blank
      /\ None \notin Maps
  BY DEF Init, None, Maps
<1>1. \A p \in Procs : op[p].map = None /\ op[p].pc \in {"call", "init", "idle"}
  <2> SUFFICES ASSUME NEW p \in Procs
               PROVE  op[p].map = None /\ op[p].pc \in {"call", "init", "idle"}
    OBVIOUS
  <2>1. op[p] = CASE p = "pull" -> Pulling(Root, {})
                  [] p = "rpc" -> [Idle EXCEPT !.pc = "init"]
                  [] p = "shutdown" -> Idle
    BY DEF Init
  <2>2. CASE p = "pull"
    BY <2>1, <2>2, FreshOps
  <2>3. CASE p = "rpc"
    BY <2>1, <2>3 DEF Idle
  <2>4. CASE p = "shutdown"
    BY <2>1, <2>4, FreshOps
  <2> QED
    BY <2>2, <2>3, <2>4, ProcsAssumption
<1>2. \A m \in Maps : \A c \in Clients : ~Holds(c, m)
  BY <1>0, <1>1 DEF Holds
<1>3. Owned
  BY <1>1, <1>2 DEF Owned
<1>4. NoOrphan
  <2>0. Blank.waiting = 0 /\ Blank.inside = 0
    BY DEF Blank
  <2>1. \A h \in Handlers : hs[h].waiting = 0 /\ hs[h].inside = 0
    BY <1>0, <2>0
  <2> QED
    BY <2>1 DEF NoOrphan, Live
<1> QED
  BY <1>0, <1>1, <1>3, <1>4 DEF SafeInv, DroppedAreSpared, ReplacedAreSpared, DetachedAreSpared

\* and is kept by every step.
LEMMA SafeNext == IInv /\ IInv' /\ SafeInv /\ [Next]_vars => SafeInv'
<1> SUFFICES ASSUME IInv, IInv', SafeInv, [Next]_vars PROVE SafeInv'
  OBVIOUS
<1>1. CASE Tick \/ Initialized \/ Shutdown \/ \E m \in Messages : Receive(m)
  BY <1>1, BeginSafe
<1>2. CASE ChangeMaster \/ UNCHANGED vars
  <2>1. UNCHANGED <<outer, maps, hs, op>>
    BY <1>2 DEF ChangeMaster, vars
  <2> QED
    BY <2>1, HandlersSame, MapsSame, OtherStep
<1>3. ASSUME NEW p \in Procs, Step(p) PROVE SafeInv'
  BY <1>3, LookSafe, SlotSafe, RangeSafe, DropSafe, HandlerSafe, CreateSafe, StoreSafe DEF Step
<1>4. ASSUME NEW h \in Handlers, RunStep(h) \/ RunFailed(h) PROVE SafeInv'
  BY <1>4, HandlerSafe
<1> QED
  BY <1>1, <1>2, <1>3, <1>4 DEF Next

\* The invariant holds throughout, however the drivers overlap.
THEOREM SafeInvariance == Spec => []SafeInv
<1>1. Init => SafeInv
  BY SafeInit
<1>2. IInv /\ IInv' /\ SafeInv /\ [Next]_vars => SafeInv'
  BY SafeNext
<1> QED
  BY <1>1, <1>2, Invariance, PTL DEF Spec

\* The controller finds every live handler under its client and server, for any
\* clients, servers, configs and drivers, with operations that overlap at every map
\* access, goroutines that begin at any later time and a frp that may run a service
\* closed before: the exceptions are a handler that was stored behind the back of an
\* operation that had passed its slot, and one that was run after it was closed.
THEOREM NoOrphans == Spec => []NoOrphan
<1>1. SafeInv => NoOrphan
  BY DEF SafeInv
<1> QED
  BY <1>1, SafeInvariance, PTL

\* When StopAll is through, what is still live are such exceptions and nothing else:
\* the handler that a pull past its call stores during or after Shutdown is one, a
\* handler that Range merely failed to meet is not.
THEOREM StopsCompletely == Spec => []StopIsComplete
<1>1. IInv /\ SafeInv => StopIsComplete
  <2> SUFFICES ASSUME IInv, SafeInv, NEW p \in Procs, NEW h \in Handlers,
                      op[p].pc \in {"deleteall", "replace", "done"}, Live(h)
               PROVE  hs[h].raced \/ hs[h].late
    BY DEF StopIsComplete
  <2>1. CASE ~Managed(h)
    BY <2>1 DEF SafeInv, NoOrphan
  <2>2. CASE Managed(h)
    <3>1. PICK c \in Clients, s \in Servers : c = hs[h].client /\ s = hs[h].server
      BY Types DEF Handler
    <3>2. outer[c] # None /\ maps[outer[c]][s] = h /\ h # None
      BY <2>2, <3>1, Types DEF Managed, Get
    <3>3. Behind(op[p], c, s, outer[c])
      BY DEF Behind
    <3>4. Spared(outer[c], s)
      BY <3>2, <3>3 DEF SafeInv, DroppedAreSpared
    <3> QED
      BY <3>2, <3>4 DEF Spared, Excused, Live
  <2> QED
    BY <2>1, <2>2
<1> QED
  BY <1>1, Invariance, SafeInvariance, PTL


=============================================================================
