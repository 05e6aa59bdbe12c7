----------------------------- MODULE TunnelSync -----------------------------
(***************************************************************************)
(* How frppc keeps its frp clients in line with master: the controller     *)
(* (controller.go) and its handlers (handler.go), driven by the periodic   *)
(* pull, by the UPDATE_FRPC, START_FRPC and STOP_FRPC messages of the RPC  *)
(* stream and by Shutdown.                                                 *)
(*                                                                         *)
(* Each driver is a goroutine that runs one operation at a time; nothing   *)
(* but the SyncMaps' own mutexes separates them.  An action is one access  *)
(* to one of the controller's maps together with the local work around it, *)
(* so operations of different drivers interleave between any two accesses. *)
(* `go h.Run()` is a goroutine of its own, started at some later time.     *)
(*                                                                         *)
(* The two-level map is modelled with the identity of its inner maps: an   *)
(* operation keeps using the inner map it has got, also when               *)
(* DeleteByClient or DeleteAll has detached it meanwhile.                  *)
(***************************************************************************)
EXTENDS Naturals, Functions

CONSTANTS
  Clients, Root,      \* client ids; this agent's own one
  Servers,            \* server ids
  Configs, NoConfig,  \* tunnel configs, see Config; the empty one
  ValidCommons,       \* common parts frp accepts
  ValidProxies,       \* proxies and visitors frp accepts
  NoClient,           \* PullClientConfig's answer without a client
  MasterStates,       \* what master may know of each client
  Messages,           \* what master may send on the RPC stream
  Procs,              \* the drivers: "pull", "rpc" and "shutdown"
  Overlap,            \* whether operations of different drivers may overlap
  Prompt,             \* whether a goroutine started by one operation begins
                      \* before the next operation does
  EarlyClose,         \* what Run may do on a service closed before it ran
  MaxHandlers,        \* bound: handlers in use at one time
  MaxMaps,            \* bound: inner maps in use at one time
  MaxMessages,        \* bound: messages received
  MaxChanges,         \* bound: changes of master's mind
  MaxFailures         \* bound: failed pulls and logins

ASSUME RootAssumption    == Root \in Clients
ASSUME ClosedAssumption  == EarlyClose \subseteq {"returns", "runs"}
\* A config has a common part, of which start is a field (empty, or the names to
\* start), proxies and visitors, and loaders that take it: both, the one that is
\* not strict, or none.
ASSUME ConfigAssumption ==
  /\ \A cfg \in Configs : cfg.load \in {"strict", "lax", "broken"}
  /\ \A cfg, other \in Configs : cfg.common = other.common => cfg.start = other.start
\* What master answers for a client it knows.
Answer == [stopped : BOOLEAN, origin : Clients \cup {NoClient},
           ids : SUBSET Clients, config : Configs \cup {NoConfig},
           server : Servers]

ASSUME ServersAssumption == Servers # {}
ASSUME NoneAssumption    == NoConfig \notin Configs /\ NoClient \notin Answer
ASSUME MasterAssumption  ==
  \A state \in MasterStates :
    /\ state = [c \in Clients |-> state[c]]
    /\ \A c \in Clients : state[c] = NoClient \/ state[c] \in Answer
ASSUME MessageAssumption ==
  \A m \in Messages :
    /\ m.event \in {"update", "start", "stop"} /\ m.c \in Clients
    /\ m.event = "update" => m.s \in Servers /\ m.cfg \in Configs
ASSUME BoundAssumption   ==
  /\ MaxHandlers \in Nat /\ MaxMaps \in Nat
  /\ MaxMessages \in Nat /\ MaxChanges \in Nat /\ MaxFailures \in Nat
ASSUME ProcsAssumption   == Procs \subseteq {"pull", "rpc", "shutdown"}
ASSUME TimingAssumption  == Overlap \in BOOLEAN /\ Prompt \in BOOLEAN

None == 0

Handlers == 1..MaxHandlers

Maps == 1..MaxMaps

VARIABLES
  master,     \* master's state, per client
  outer,      \* c.clients: the inner map of each client, or None
  maps,       \* the inner maps: the handler of each server, or None
  hs,         \* the handlers
  op,         \* per driver, the operation it is in
  down,       \* the service's context is cancelled
  messages, changes, failures     \* how often each has happened

vars == <<master, outer, maps, hs, op, down, messages, changes, failures>>

env == <<master, messages, changes>>

-----------------------------------------------------------------------------
(* Handlers (clientImpl with its frp client.Service).                      *)

\* waiting: `go h.Run()` calls whose goroutine has not started; inside: calls
\* of cli.Run in progress; closed: the service's context is cancelled.  History:
\* raced: the handler was stored behind another driver's back, see Behind; late:
\* it was run after it had been closed.
Blank == [client |-> Root, server |-> CHOOSE s \in Servers : TRUE,
          common |-> NoConfig, proxies |-> {}, running |-> FALSE,
          closed |-> FALSE, waiting |-> 0, inside |-> 0,
          raced |-> FALSE, late |-> FALSE]

\* LoadClientConfig takes the config, and of its proxies those that are to start.
Loads(cfg, strict) == cfg.load = "strict" \/ (cfg.load = "lax" /\ ~strict)

Started(cfg) == IF cfg.start = {} THEN cfg.proxies ELSE cfg.proxies \cap cfg.start

\* What NewClientHandler makes of a config: invalid proxies are dropped.
NewClientHandler(c, s, cfg) ==
  [Blank EXCEPT !.client = c, !.server = s, !.common = cfg.common,
                !.proxies = Started(cfg) \cap ValidProxies]

\* Seeded fault: a handler that does not run yet is not stopped.
ClosedRunning(H) ==
  [h \in Handlers |-> IF h \in H /\ hs[h].running THEN [hs[h] EXCEPT !.closed = TRUE, !.late = FALSE]
                      ELSE hs[h]]

\* Stop every handler of H.
Closed(H) ==
  [h \in Handlers |-> IF h \in H THEN [hs[h] EXCEPT !.closed = TRUE, !.late = FALSE]
                      ELSE hs[h]]

\* controller.Get, when no access comes between its two.
Get(c, s) == IF outer[c] = None THEN None ELSE maps[outer[c]][s]

\* The handler h that a lookup returned, as a set that is empty for None.
Some(h) == {h} \ {None}

-----------------------------------------------------------------------------
(* Operations.                                                             *)

Idle == [pc |-> "idle", kind |-> "pull", c |-> Root,
         s |-> CHOOSE s \in Servers : TRUE, cfg |-> NoConfig, h |-> None,
         map |-> None, left |-> Servers, todo |-> {}, ids |-> {}, visit |-> {}]

\* pullConfigForID(c), with the calls for the children `todo` to follow.
Pulling(c, todo) == [Idle EXCEPT !.pc = "call", !.c = c, !.todo = todo]

\* When pullConfigForID or an update returns: the next child, if any.
Returned(o) ==
  IF o.todo = {} THEN Idle ELSE [Idle EXCEPT !.pc = "next", !.todo = o.todo]

\* Operation o moves on, and is done with the inner map it has looked up.
Enter(o, pc) == [o EXCEPT !.pc = pc, !.map = None, !.left = Servers]

Goto(p, pc) == op' = [op EXCEPT ![p] = Enter(@, pc)]

Return(p) == op' = [op EXCEPT ![p] = Returned(op[p])]

\* The goroutines started by controller.Run have all begun.
Settled == \A h \in Handlers : hs[h].waiting = 0

\* When an operation may start.
Quiet ==
  /\ ~Overlap => \A p \in Procs : op[p].pc \in {"init", "idle", "done"}
  /\ Prompt => Settled

-----------------------------------------------------------------------------
(* Starting an operation.                                                  *)

\* The periodic runner's ticker.
Tick ==
  /\ "pull" \in Procs /\ op["pull"].pc = "idle" /\ ~down /\ Quiet
  /\ op' = [op EXCEPT !["pull"] = Pulling(Root, {})]
  /\ UNCHANGED <<env, outer, maps, hs, down, failures>>

\* The RPC runner waits in initOnce for the initial pull.
Initialized ==
  /\ {"pull", "rpc"} \subseteq Procs
  /\ op["rpc"].pc = "init" /\ op["pull"].pc = "idle"
  /\ op' = [op EXCEPT !["rpc"] = Idle]
  /\ UNCHANGED <<env, outer, maps, hs, down, failures>>

\* The RPC runner receives message m: UPDATE_FRPC, which is refused when its
\* config cannot be loaded, START_FRPC, or STOP_FRPC.
Received(m) ==
  CASE m.event = "update" -> IF Loads(m.cfg, FALSE)
                             THEN [Idle EXCEPT !.kind = "update", !.c = m.c, !.s = m.s,
                                     !.cfg = m.cfg, !.pc = "inspect"]
                             ELSE Idle
    [] m.event = "start"  -> Pulling(m.c, {})
    [] m.event = "stop"   -> [Idle EXCEPT !.kind = "stop", !.c = m.c,
                                !.visit = Clients, !.pc = "stopall"]

Receive(m) ==
  /\ "rpc" \in Procs /\ op["rpc"].pc = "idle" /\ ~down /\ Quiet
  /\ messages < MaxMessages
  /\ messages' = messages + 1
  /\ op' = [op EXCEPT !["rpc"] = Received(m)]
  /\ UNCHANGED <<master, changes, outer, maps, hs, down, failures>>

\* Service.Shutdown cancels the context and goes on to StopAll.
Shutdown ==
  /\ "shutdown" \in Procs /\ op["shutdown"].pc = "idle" /\ Quiet
  /\ down' = TRUE
  /\ op' = [op EXCEPT !["shutdown"] = [Idle EXCEPT !.visit = Clients, !.pc = "stopall"]]
  /\ UNCHANGED <<env, outer, maps, hs, failures>>

-----------------------------------------------------------------------------
(* pullConfigForID.                                                        *)

\* An answer with children: pull each of them but the client itself, after
\* removing the expired ones when the client is not derived from another.
Fanned(o, r) ==
  LET all == [o EXCEPT !.todo = @ \cup (r.ids \ {o.c})]
  IN  IF r.origin = NoClient THEN [all EXCEPT !.pc = "list", !.ids = r.ids]
      ELSE Returned(all)

\* An answer with a config, if it is there and can be loaded strictly.
Configured(o, r) ==
  IF r.config # NoConfig /\ Loads(r.config, TRUE)
  THEN [o EXCEPT !.pc = "inspect", !.s = r.server, !.cfg = r.config]
  ELSE Returned(o)

\* Seeded fault: the answer's stopped flag is not looked at.
AnsweredRunning(o, r) ==
  IF r = NoClient THEN Returned(o)
  ELSE IF r.ids # {} THEN Fanned(o, r) ELSE Configured(o, r)

\* What remains to do of operation o once answer r has come.
Answered(o, r) ==
  CASE r = NoClient -> Returned(o)
    [] r # NoClient -> IF r.stopped THEN [o EXCEPT !.pc = "halt"]
                       ELSE IF r.ids # {} THEN Fanned(o, r)
                       ELSE Configured(o, r)

\* Children are pulled in the order master lists them, which may be any.
NextChild(p, c) ==
  /\ op[p].pc = "next" /\ c \in op[p].todo
  /\ op' = [op EXCEPT ![p] = Pulling(c, @.todo \ {c})]
  /\ UNCHANGED <<env, outer, maps, hs, down, failures>>

PullAnswered(p) ==
  /\ op[p].pc = "call" /\ ~down
  /\ op' = [op EXCEPT ![p] = Answered(op[p], master[op[p].c])]
  /\ UNCHANGED <<env, outer, maps, hs, down, failures>>

\* A call may fail, and does when the context is cancelled.
MayFail == down \/ failures < MaxFailures

PullFailed(p) ==
  /\ op[p].pc = "call" /\ MayFail
  /\ failures' = IF down THEN failures ELSE failures + 1
  /\ Return(p)
  /\ UNCHANGED <<env, outer, maps, hs, down>>

\* The ids to remove: lo.Difference(listed, current) and its first result.
Expired(ids) == {c \in ids : outer[c] = None}

\* Operation o with the clients `ids` still to remove.
Removing(o, ids) ==
  IF ids = {} THEN Returned(o) ELSE [Enter(o, "expire") EXCEPT !.ids = ids]

List(p) ==
  LET o == op[p]
  IN  /\ o.pc = "list"
      /\ op' = [op EXCEPT ![p] = Removing(o, Expired(o.ids))]
      /\ UNCHANGED <<env, outer, maps, hs, down, failures>>

\* StopByClient loads the inner map, to range over it, and DeleteByClient follows.
Expire(p, c) ==
  LET o == [op[p] EXCEPT !.c = c]
  IN  /\ o.pc = "expire" /\ c \in o.ids
      /\ op' = [op EXCEPT ![p] = IF outer[c] = None THEN Enter(o, "remove")
                                 ELSE [Enter(o, "removestop") EXCEPT !.map = outer[c]]]
      /\ UNCHANGED <<env, outer, maps, hs, down, failures>>

Remove(p) ==
  LET o == op[p]
  IN  /\ o.pc = "remove"
      /\ outer' = [outer EXCEPT ![o.c] = None]
      /\ op' = [op EXCEPT ![p] = Removing(o, o.ids \ {o.c})]
      /\ UNCHANGED <<env, maps, hs, down, failures>>

\* The client is stopped by master: StopByClient.
Halt(p) ==
  LET o == op[p]
  IN  /\ o.pc = "halt" /\ o.map = None
      /\ op' = [op EXCEPT ![p] = IF outer[o.c] = None THEN Returned(o)
                                 ELSE [o EXCEPT !.map = outer[o.c]]]
      /\ UNCHANGED <<env, outer, maps, hs, down, failures>>

\* Get, Delete, Stop and Run load the inner map first; without one they are over.
LookUp(p) ==
  LET o == op[p]
  IN  /\ o.pc \in {"inspect", "close", "stop", "delete", "run"}
      /\ o.map = None /\ outer[o.c] # None
      /\ op' = [op EXCEPT ![p].map = outer[o.c]]
      /\ UNCHANGED <<env, outer, maps, hs, down, failures>>

LookedUp(o) == o.map # None \/ outer[o.c] = None

Found(o) == IF o.map = None THEN None ELSE maps[o.map][o.s]

\* Seeded fault: a handler that has ended is not replaced.
ReplacesChanged(o, h) == IF h = None THEN TRUE ELSE hs[h].common # o.cfg.common

\* Seeded fault: a changed common config is taken for a change of proxies.
ReplacesEnded(o, h) ==
  IF h = None THEN TRUE ELSE o.kind = "pull" /\ ~hs[h].running

\* Seeded fault: the case of no handler is forgotten.
ReplacesNil(o, h) ==
  IF h = None THEN FALSE
  ELSE hs[h].common # o.cfg.common \/ (o.kind = "pull" /\ ~hs[h].running)

\* Whether the operation replaces handler h of its slot rather than updating
\* its proxies.  Only a pull looks at Running().
Replaces(o, h) ==
  \/ h = None
  \/ hs[h].common # o.cfg.common
  \/ o.kind = "pull" /\ ~hs[h].running

Inspect(p) ==
  LET o == op[p]
  IN  /\ o.pc = "inspect" /\ LookedUp(o)
      /\ op' = [op EXCEPT ![p] = IF Replaces(o, Found(o)) THEN Enter(o, "close")
                                 ELSE [Enter(o, "apply") EXCEPT !.h = Found(o)]]
      /\ UNCHANGED <<env, outer, maps, hs, down, failures>>

\* clientImpl.Update, on the handler that Get returned.
Apply(p) ==
  /\ op[p].pc = "apply"
  /\ hs' = [hs EXCEPT ![op[p].h].proxies = Started(op[p].cfg)]
  /\ Return(p)
  /\ UNCHANGED <<env, outer, maps, down, failures>>

-----------------------------------------------------------------------------
(* recreateHandler.                                                        *)

\* Get, and existing.Stop().
Close(p) ==
  LET o == op[p]
  IN  /\ o.pc = "close" /\ LookedUp(o)
      /\ hs' = Closed(Some(Found(o)))
      /\ Goto(p, IF Found(o) = None THEN "create" ELSE "stop")
      /\ UNCHANGED <<env, outer, maps, down, failures>>

\* controller.Delete: stop whatever handler the slot has by now ...
DeleteStop(p) ==
  LET o == op[p]
  IN  /\ o.pc = "stop" /\ LookedUp(o)
      /\ hs' = Closed(Some(Found(o)))
      /\ Goto(p, "delete")
      /\ UNCHANGED <<env, outer, maps, down, failures>>

\* ... and delete whatever it has after that.
Delete(p) ==
  LET o == op[p]
  IN  /\ o.pc = "delete" /\ LookedUp(o)
      /\ maps' = IF o.map = None THEN maps ELSE [maps EXCEPT ![o.map][o.s] = None]
      /\ Goto(p, "create")
      /\ UNCHANGED <<env, outer, hs, down, failures>>

\* Inner maps somebody can still reach.
MapsInUse == (Range(outer) \cup {op[p].map : p \in Procs}) \ {None}

\* Handlers somebody can still reach, and handlers that are running.
HandlersInUse ==
  (UNION {Range(maps[m]) : m \in MapsInUse})
    \cup {op[p].h : p \in Procs}
    \cup {h \in Handlers : hs[h].waiting > 0 \/ hs[h].inside > 0}

\* NewClientHandler refuses the common config; the old handler is gone.
CreateFailed(p) ==
  /\ op[p].pc = "create" /\ op[p].cfg.common \notin ValidCommons
  /\ Return(p)
  /\ UNCHANGED <<env, outer, maps, hs, down, failures>>

\* NewClientHandler, and Add's LoadOrStore.
Create(p) ==
  LET o == op[p]
  IN  /\ o.pc = "create" /\ o.cfg.common \in ValidCommons
      /\ \E h \in Handlers \ HandlersInUse :
           /\ \A g \in Handlers \ HandlersInUse : h <= g
           /\ hs' = [hs EXCEPT ![h] = NewClientHandler(o.c, o.s, o.cfg)]
           /\ IF outer[o.c] # None
              THEN /\ op' = [op EXCEPT ![p].pc = "evict", ![p].h = h, ![p].map = outer[o.c]]
                   /\ UNCHANGED <<outer, maps>>
              ELSE \E m \in Maps \ MapsInUse :
                     /\ \A g \in Maps \ MapsInUse : m <= g
                     /\ outer' = [outer EXCEPT ![o.c] = m]
                     /\ maps' = [maps EXCEPT ![m] = [s \in Servers |-> None]]
                     /\ op' = [op EXCEPT ![p].pc = "evict", ![p].h = h, ![p].map = m]
      /\ UNCHANGED <<env, down, failures>>

\* Seeded fault: Add drops the handler without stopping it.
EvictedNone(o) == {}

\* The handler that Add finds in its slot, and stops.
Evicted(o) == Some(maps[o.map][o.s])

\* Add's LoadAndDelete and old.Stop().
Evict(p) ==
  LET o == op[p]
  IN  /\ o.pc = "evict"
      /\ hs' = Closed(Evicted(o))
      /\ maps' = [maps EXCEPT ![o.map][o.s] = None]
      /\ op' = [op EXCEPT ![p].pc = "store"]
      /\ UNCHANGED <<env, outer, down, failures>>

\* Operation o has stopped what it found at server s of client c, whose inner map is
\* m, and goes on to drop what is there by then; or it is a shutdown, after which
\* nobody stops anything.
Behind(o, c, s, m) ==
  \/ o.pc = "stop" /\ o.c = c /\ o.s = s /\ o.map \notin {None, m}
  \/ o.pc = "delete" /\ o.c = c /\ o.s = s
  \/ o.pc = "store" /\ o.map = m /\ o.s = s
  \/ o.pc = "removestop" /\ o.c = c /\ (o.map = m => s \notin o.left)
  \/ o.pc = "remove" /\ o.c = c
  \/ o.pc = "stopall" /\ c \notin o.visit /\ (o.c = c /\ o.map = m => s \notin o.left)
  \/ o.pc \in {"deleteall", "replace", "done"}

\* Whether driver p stores behind another's back, or in a map that has been detached.
Races(p) ==
  LET o == op[p]
  IN  outer[o.c] # o.map \/ \E q \in Procs \ {p} : Behind(op[q], o.c, o.s, o.map)

\* Add's Store.
Store(p) ==
  LET o == op[p]
  IN  /\ o.pc = "store"
      /\ maps' = [maps EXCEPT ![o.map][o.s] = o.h]
      /\ hs' = [hs EXCEPT ![o.h].raced = @ \/ Races(p)]
      /\ op' = [op EXCEPT ![p] = [Enter(@, "run") EXCEPT !.h = None]]
      /\ UNCHANGED <<env, outer, down, failures>>

\* controller.Run looks the handler up again by its ids and starts it.
Run(p) ==
  LET o == op[p]
  IN  /\ o.pc = "run" /\ LookedUp(o)
      /\ hs' = [h \in Handlers |-> IF h = Found(o) THEN [hs[h] EXCEPT !.waiting = @ + 1]
                                   ELSE hs[h]]
      /\ Return(p)
      /\ UNCHANGED <<env, outer, maps, down, failures>>

-----------------------------------------------------------------------------
(* StopByClient, StopAll and DeleteAll.                                    *)

\* Seeded fault: the function given to StopAll's Range returns false.
AfterFirst(o) ==
  CASE o.pc = "halt" -> Returned(o)
    [] o.pc = "removestop" -> Enter(o, "remove")
    [] o.pc = "stopall" -> [Enter(o, "deleteall") EXCEPT !.visit = Clients]

\* What follows when an inner map has been ranged over.
After(o) ==
  CASE o.pc = "halt" -> Returned(o)
    [] o.pc = "removestop" -> Enter(o, "remove")
    [] o.pc = "stopall" -> IF o.visit # {} THEN Enter(o, "stopall")
                           ELSE [Enter(o, "deleteall") EXCEPT !.visit = Clients]

\* Range comes to each server at some moment, in any order; a handler that is
\* added meanwhile is met or missed.
RangeStop(p, s) ==
  LET o == op[p]
  IN  /\ o.pc \in {"halt", "removestop", "stopall"} /\ o.map # None /\ s \in o.left
      /\ hs' = Closed(Some(maps[o.map][s]))
      /\ op' = [op EXCEPT ![p] = IF o.left = {s} THEN After(o)
                                 ELSE [o EXCEPT !.left = @ \ {s}]]
      /\ UNCHANGED <<env, outer, maps, down, failures>>

\* StopAll's own Range comes to each client in the same way.
StopAll(p, c) ==
  LET o == [op[p] EXCEPT !.visit = @ \ {c}]
  IN  /\ o.pc = "stopall" /\ o.map = None /\ c \in op[p].visit
      /\ op' = [op EXCEPT ![p] = IF outer[c] = None THEN After(o)
                                 ELSE [Enter(o, "stopall") EXCEPT !.c = c, !.map = outer[c]]]
      /\ UNCHANGED <<env, outer, maps, hs, down, failures>>

\* DeleteByClient for every client, ...
DeleteAll(p, c) ==
  /\ op[p].pc = "deleteall" /\ c \in op[p].visit
  /\ outer' = [outer EXCEPT ![c] = None]
  /\ op' = [op EXCEPT ![p].visit = @ \ {c},
                      ![p].pc = IF op[p].visit = {c} THEN "replace" ELSE @]
  /\ UNCHANGED <<env, maps, hs, down, failures>>

\* ... and a new map in place of the emptied one.
ReplaceAll(p) ==
  /\ op[p].pc = "replace"
  /\ outer' = [c \in Clients |-> None]
  /\ op' = [op EXCEPT ![p] = IF p = "shutdown" THEN [Idle EXCEPT !.pc = "done"] ELSE Idle]
  /\ UNCHANGED <<env, maps, hs, down, failures>>

-----------------------------------------------------------------------------
(* clientImpl.Run, in its own goroutine.                                   *)

\* Seeded fault: Run does not look at c.running.
EntersAlways(h) == TRUE

\* Run goes on to cli.Run, unless the client is running already.
Enters(h) == ~hs[h].running

RunSkipped(h) ==
  /\ hs[h].waiting > 0 /\ ~Enters(h)
  /\ hs' = [hs EXCEPT ![h].waiting = @ - 1]
  /\ UNCHANGED <<env, outer, maps, op, down, failures>>

\* A service that was closed before it ran ends at once, or runs all the same.
RunEntered(h) ==
  /\ hs[h].waiting > 0 /\ Enters(h)
  /\ \E outcome \in IF hs[h].closed THEN EarlyClose ELSE {"runs"} :
       hs' = [hs EXCEPT ![h].waiting = @ - 1, ![h].running = TRUE,
                        ![h].inside = @ + 1, ![h].closed = outcome = "returns",
                        ![h].late = @ \/ (hs[h].closed /\ outcome = "runs")]
  /\ UNCHANGED <<env, outer, maps, op, down, failures>>

\* cli.Run returns because the service is closed, and Run's defer.
RunReturned(h) ==
  /\ hs[h].inside > 0 /\ hs[h].closed
  /\ hs' = [hs EXCEPT ![h].running = FALSE, ![h].inside = @ - 1]
  /\ UNCHANGED <<env, outer, maps, op, down, failures>>

\* cli.Run returns because the login failed, and Run's defer.
RunFailed(h) ==
  /\ hs[h].inside > 0 /\ failures < MaxFailures
  /\ failures' = failures + 1
  /\ hs' = [hs EXCEPT ![h].running = FALSE, ![h].inside = @ - 1]
  /\ UNCHANGED <<env, outer, maps, op, down>>

ChangeMaster ==
  /\ changes < MaxChanges
  /\ changes' = changes + 1
  /\ master' \in MasterStates \ {master}
  /\ UNCHANGED <<messages, outer, maps, hs, op, down, failures>>

-----------------------------------------------------------------------------
Init ==
  /\ master \in MasterStates
  /\ outer = [c \in Clients |-> None]
  /\ maps = [m \in Maps |-> [s \in Servers |-> None]]
  /\ hs = [h \in Handlers |-> Blank]
  /\ op = [p \in Procs |-> CASE p = "pull" -> Pulling(Root, {})
                             [] p = "rpc" -> [Idle EXCEPT !.pc = "init"]
                             [] p = "shutdown" -> Idle]
  /\ down = FALSE
  /\ messages = 0 /\ changes = 0 /\ failures = 0

Step(p) ==
  \/ PullAnswered(p) \/ PullFailed(p)
  \/ \E c \in Clients : NextChild(p, c) \/ Expire(p, c) \/ StopAll(p, c) \/ DeleteAll(p, c)
  \/ \E s \in Servers : RangeStop(p, s)
  \/ List(p) \/ Remove(p) \/ Halt(p)
  \/ LookUp(p) \/ Inspect(p) \/ Apply(p)
  \/ Close(p) \/ DeleteStop(p) \/ Delete(p)
  \/ CreateFailed(p) \/ Create(p) \/ Evict(p) \/ Store(p) \/ Run(p)
  \/ ReplaceAll(p)

RunStep(h) == RunSkipped(h) \/ RunEntered(h) \/ RunReturned(h)

Next ==
  \/ Tick \/ Initialized \/ Shutdown \/ ChangeMaster
  \/ \E m \in Messages : Receive(m)
  \/ \E p \in Procs : Step(p)
  \/ \E h \in Handlers : RunStep(h) \/ RunFailed(h)

\* Goroutines are scheduled, and the ticker ticks.  Master owes nothing, and
\* neither calls nor logins have to fail.
Fairness ==
  /\ WF_vars(Tick) /\ WF_vars(Initialized)
  /\ \A p \in Procs : WF_vars(Step(p))
  /\ \A h \in Handlers : WF_vars(RunStep(h))

Spec == Init /\ [][Next]_vars /\ Fairness

-----------------------------------------------------------------------------
(* Correctness.                                                            *)

Pcs == {"init", "idle", "done", "call", "next", "list", "expire", "removestop", "remove", "halt",
        "inspect", "apply", "close", "stop", "delete", "create", "evict",
        "store", "run", "stopall", "deleteall", "replace"}

Handler == [client : Clients, server : Servers,
            common : {cfg.common : cfg \in Configs} \cup {NoConfig},
            proxies : SUBSET UNION {cfg.proxies : cfg \in Configs},
            running : BOOLEAN, closed : BOOLEAN, waiting : Nat, inside : Nat,
            raced : BOOLEAN, late : BOOLEAN]

Operation == [pc : Pcs, kind : {"pull", "update", "stop"}, c : Clients,
              s : Servers, cfg : Configs \cup {NoConfig},
              h : Handlers \cup {None}, map : Maps \cup {None}, left : SUBSET Servers,
              todo : SUBSET Clients, ids : SUBSET Clients, visit : SUBSET Clients]

\* An operation holds what its later steps use: a config while it works on a slot,
\* the handler it updates, the handler and the inner map it adds to.
Slotted == {"inspect", "apply", "close", "stop", "delete", "create", "evict", "store", "run"}

OpOK(o) ==
  /\ o.pc \in Slotted => o.cfg \in Configs
  /\ o.pc \in {"apply", "evict", "store"} => o.h \in Handlers
  /\ o.pc \in {"evict", "store"} => o.map \in Maps

TypeOK ==
  /\ master \in MasterStates
  /\ outer \in [Clients -> Maps \cup {None}]
  /\ maps \in [Maps -> [Servers -> Handlers \cup {None}]]
  /\ hs \in [Handlers -> Handler]
  /\ op \in [Procs -> Operation] /\ \A p \in Procs : OpOK(op[p])
  /\ down \in BOOLEAN
  /\ messages \in 0..MaxMessages
  /\ changes \in 0..MaxChanges
  /\ failures \in 0..MaxFailures

\* Handler h runs, or is about to, and nobody has told it to stop.
Live(h) == hs[h].waiting + hs[h].inside > 0 /\ ~hs[h].closed

\* Handler h is the one the controller has for its client and server.
Managed(h) == Get(hs[h].client, hs[h].server) = h

\* A handler never runs twice at a time, however many goroutines were started
\* for it: two operations that add to one slot look it up by its ids and both
\* start the handler that came second.
SingleRun == \A h \in Handlers : hs[h].inside = IF hs[h].running THEN 1 ELSE 0

\* A live handler is the one the controller finds under its client and server, so
\* that a later stop reaches it, with two exceptions, and the code knows no third:
\* it was stored behind the back of another operation on its slot, or in an inner map
\* that had been detached; or frp runs it although it was closed before its goroutine
\* began.
NoOrphan == \A h \in Handlers : Live(h) /\ ~Managed(h) => hs[h].raced \/ hs[h].late

\* When StopAll is over, in STOP_FRPC as in Shutdown, what is still live was stored
\* while it was at it (or, after a shutdown, by an operation that outlived it), was
\* out of reach before, or was run although it was closed.
StopIsComplete ==
  \A p \in Procs : op[p].pc \in {"deleteall", "replace", "done"} =>
    \A h \in Handlers : Live(h) => hs[h].raced \/ hs[h].late

\* The clients a pull from Root reaches.
Reached ==
  IF master[Root] = NoClient \/ master[Root].stopped THEN {Root}
  ELSE {Root} \cup master[Root].ids

\* What the pull wants client c to run.
Wanted(c) ==
  /\ c \in Reached
  /\ master[c] # NoClient
  /\ ~master[c].stopped /\ master[c].ids = {}
  /\ master[c].config # NoConfig
  /\ master[c].config.load = "strict"
  /\ master[c].config.common \in ValidCommons

\* Client c's slot holds a running handler with master's config.
Served(c) ==
  LET h == Get(c, master[c].server)
  IN  /\ h # None
      /\ hs[h].inside = 1 /\ ~hs[h].closed
      /\ hs[h].common = master[c].config.common
      /\ \A name \in ValidProxies :
           name \in hs[h].proxies <=>
             /\ name \in master[c].config.proxies
             /\ master[c].config.start # {} => name \in master[c].config.start

\* Client c is stopped by master.
Halted(c) == c \in Reached /\ master[c] # NoClient /\ master[c].stopped

Silent(c) == \A h \in Handlers : hs[h].client = c => ~Live(h)

\* Unless the agent is shut down, every client comes to run what master wants
\* of it and stays so: a stale answer applied late, a message that changed the
\* tunnels behind master's back, a failed login or a handler torn down for a
\* config that could not be created is repaired by the pulls that follow.
WantedAreServed ==
  \A c \in Clients : <>[]Wanted(c) => <>[](Wanted(c) /\ Served(c)) \/ <>down

\* Likewise a client that master has stopped comes to rest.
HaltedAreSilent ==
  \A c \in Clients : <>[]Halted(c) => <>[]Silent(c)

-----------------------------------------------------------------------------
(* What a comment says, and the code does not keep.                        *)


=============================================================================
