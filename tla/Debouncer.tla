------------------------------ MODULE Debouncer ------------------------------
(***************************************************************************)
(* The sender-side event debouncer of utils/systemevent/debouncer.go.      *)
(*                                                                         *)
(* Submit, flush and Stop each have one critical section under d.mu and    *)
(* call d.emit outside it, so an action is one critical section and every  *)
(* emit call it leads to is a member of `calls` until it completes.  Any   *)
(* number of goroutines may be inside Submit; a timer's goroutine is       *)
(* started by the runtime when the timer expires (Fire) and may wait for   *)
(* d.mu an arbitrary time before it runs flush (Flush).                    *)
(*                                                                         *)
(* Occurrences are numbered by the order in which Submit orders them.  A   *)
(* window (a pendingKey) and its timer are named by the number of the      *)
(* occurrence that opened it.  `covers` is a history field: the            *)
(* occurrences an entry or an emit call stands for.                        *)
(***************************************************************************)
EXTENDS Naturals, FiniteSets

CONSTANTS
  Keys,       \* the dedupe keys
  NoKey,      \* the empty dedupe key
  Window,     \* the silence window; 0 disables debouncing
  MaxEvents   \* bound: how many events are submitted

ASSUME KeysAssumption   == NoKey \notin Keys
ASSUME WindowAssumption == Window \in Nat
ASSUME BoundAssumption  == MaxEvents \in Nat

VARIABLES
  n,          \* number of events submitted so far
  keyOf,      \* the dedupe key of each of them
  pending,    \* d.pending: an entry for every key with an open window
  armed,      \* windows whose timer is running
  fired,      \* per window, flush goroutines started and not yet in flush
  calls,      \* emit calls that have not completed
  emitted,    \* emit calls that have
  stopped,    \* d.stopped
  stopper     \* the Stop call: "none", "flushing" or "returned"

vars == <<n, keyOf, pending, armed, fired, calls, emitted, stopped, stopper>>

Events == 1..MaxEvents

Entry == [id : Events, last : Events, count : Nat, covers : SUBSET Events]

Callers == {"submit", "timer", "stop"}

Call == [ev : Events, count : Nat, covers : SUBSET Events, by : Callers]

Put(f, k, v) == [x \in DOMAIN f \cup {k} |-> IF x = k THEN v ELSE f[x]]

Drop(f, k) == [x \in DOMAIN f \ {k} |-> f[x]]

\* The emit call of an event that is not held back.
Single(e) == [ev |-> e, count |-> 1, covers |-> {e}, by |-> "submit"]

\* The emit call of entry p's aggregate.
Aggregate(p, who) ==
  [ev |-> p.last, count |-> p.count, covers |-> p.covers, by |-> who]

TypeOK ==
  /\ n \in 0..MaxEvents
  /\ keyOf \in [Events -> Keys \cup {NoKey}]
  /\ DOMAIN pending \subseteq Keys
  /\ pending \in [DOMAIN pending -> Entry]
  /\ armed \subseteq Events
  /\ fired \in [Events -> Nat]
  /\ calls \subseteq Call
  /\ emitted \subseteq Call
  /\ stopped \in BOOLEAN
  /\ stopper \in {"none", "flushing", "returned"}

New ==
  /\ n = 0
  /\ keyOf = [e \in Events |-> NoKey]
  /\ pending = [k \in {} |-> NoKey]
  /\ armed = {}
  /\ fired = [e \in Events |-> 0]
  /\ calls = {}
  /\ emitted = {}
  /\ stopped = FALSE
  /\ stopper = "none"

-----------------------------------------------------------------------------
(* Submit, one action per path through it.                                 *)

\* Submit may hold back an event of key k.
Debounced(k) == k # NoKey /\ Window > 0 /\ ~stopped

\* Seeded fault: the new entry has no template event.
OpenedBlank(e) == [id |-> e, last |-> 0, count |-> 0, covers |-> {}]

\* The entry event e opens: nothing buffered yet, e itself is emitted.
Opened(e) == [id |-> e, last |-> e, count |-> 0, covers |-> {}]

\* Seeded fault: the template stays the leading event.
ExtendedKeepingLast(p, e) ==
  [id |-> p.id, last |-> p.last, count |-> p.count + 1,
   covers |-> p.covers \cup {e}]

\* Entry p with event e buffered.
Extended(p, e) ==
  [id |-> p.id, last |-> e, count |-> p.count + 1,
   covers |-> p.covers \cup {e}]

\* The next event arrives with key k.
Arrive(k) ==
  /\ n < MaxEvents
  /\ n' = n + 1
  /\ keyOf' = [keyOf EXCEPT ![n + 1] = k]

\* No key, no window, or already stopped: emit inline.
SubmitInline(k) ==
  /\ ~Debounced(k)
  /\ Arrive(k)
  /\ calls' = calls \cup {Single(n + 1)}
  /\ UNCHANGED <<pending, armed, fired, emitted, stopped, stopper>>

\* An open window: buffer the event and reset the timer, which re-arms it
\* whether or not it has already expired.
SubmitBuffer(k) ==
  /\ Debounced(k)
  /\ k \in DOMAIN pending
  /\ Arrive(k)
  /\ pending' = Put(pending, k, Extended(pending[k], n + 1))
  /\ armed' = armed \cup {pending[k].id}
  /\ UNCHANGED <<fired, calls, emitted, stopped, stopper>>

\* The leading edge: open a window and emit.
SubmitLead(k) ==
  /\ Debounced(k)
  /\ k \notin DOMAIN pending
  /\ Arrive(k)
  /\ pending' = Put(pending, k, Opened(n + 1))
  /\ armed' = armed \cup {n + 1}
  /\ calls' = calls \cup {Single(n + 1)}
  /\ UNCHANGED <<fired, emitted, stopped, stopper>>

Submit(k) == SubmitInline(k) \/ SubmitBuffer(k) \/ SubmitLead(k)

-----------------------------------------------------------------------------
(* The timer, flush and Stop.                                              *)

\* Seeded fault: an aggregate of one event is taken for none.
DueIfSeveral(p) == p.count > 1

\* Entry p has buffered events to report.
Due(p) == p.count > 0

\* Seeded fault: flush returns on an empty window before deleting the entry.
TakenIfDue(k) ==
  IF k \in DOMAIN pending /\ ~Due(pending[k]) THEN pending ELSE Drop(pending, k)

\* Seeded fault: flush does not delete the entry.
TakenNever(k) == pending

\* d.pending after flush(k) has taken k's entry, if there is one.
Taken(k) == Drop(pending, k)

\* The timer of window t expires; the runtime starts a goroutine for flush.
Fire(t) ==
  /\ t \in armed
  /\ armed' = armed \ {t}
  /\ fired' = [fired EXCEPT ![t] = @ + 1]
  /\ UNCHANGED <<n, keyOf, pending, calls, emitted, stopped, stopper>>

\* flush(key) takes whatever entry the key has when it gets the lock.
Flush(t) ==
  LET k == keyOf[t]
  IN  /\ fired[t] > 0
      /\ fired' = [fired EXCEPT ![t] = @ - 1]
      /\ pending' = Taken(k)
      /\ calls' = calls \cup
           {Aggregate(pending[x], "timer") :
              x \in {y \in DOMAIN pending : y = k /\ Due(pending[y])}}
      /\ UNCHANGED <<n, keyOf, armed, emitted, stopped, stopper>>

\* Stop empties the map, stops the timers of the entries it finds there and
\* goes on to emit their aggregates.
Stop ==
  /\ ~stopped
  /\ stopped' = TRUE
  /\ stopper' = "flushing"
  /\ armed' = armed \ {pending[k].id : k \in DOMAIN pending}
  /\ calls' = calls \cup
       {Aggregate(pending[k], "stop") :
          k \in {y \in DOMAIN pending : Due(pending[y])}}
  /\ pending' = [k \in {} |-> NoKey]
  /\ UNCHANGED <<n, keyOf, fired, emitted>>

StopReturn ==
  /\ stopper = "flushing"
  /\ \A m \in calls : m.by # "stop"
  /\ stopper' = "returned"
  /\ UNCHANGED <<n, keyOf, pending, armed, fired, calls, emitted, stopped>>

\* An emit call completes.
EmitDone(m) ==
  /\ m \in calls
  /\ calls' = calls \ {m}
  /\ emitted' = emitted \cup {m}
  /\ UNCHANGED <<n, keyOf, pending, armed, fired, stopped, stopper>>

Init == New

Next ==
  \/ \E k \in Keys \cup {NoKey} : Submit(k)
  \/ \E t \in Events : Fire(t) \/ Flush(t)
  \/ Stop
  \/ StopReturn
  \/ \E m \in calls : EmitDone(m)

\* The runtime fires timers and schedules goroutines, and emit returns (the
\* service bounds it by a timeout).  Nobody has to submit or to stop.
Fairness ==
  /\ \A t \in Events : WF_vars(Fire(t)) /\ WF_vars(Flush(t))
  /\ WF_vars(\E m \in calls : EmitDone(m))
  /\ WF_vars(StopReturn)

Spec == Init /\ [][Next]_vars /\ Fairness

-----------------------------------------------------------------------------
(* Correctness.                                                            *)

AllCalls == calls \cup emitted

Reported(e, S) == \E m \in S : e \in m.covers

Buffered(e) == \E k \in DOMAIN pending : e \in pending[k].covers

\* No event is forgotten: each submitted event is buffered in an open window
\* or is covered by an emit call.
NoneForgotten ==
  \A e \in Events : e <= n <=> Reported(e, AllCalls) \/ Buffered(e)

\* No event is reported twice: two emit calls never cover the same event, and
\* a buffered event is covered by none.
NoneTwice ==
  /\ calls \cap emitted = {}
  /\ \A m1, m2 \in AllCalls : m1 # m2 => m1.covers \cap m2.covers = {}
  /\ \A m \in AllCalls : \A k \in DOMAIN pending :
       m.covers \cap pending[k].covers = {}

\* Every event is accounted for exactly once, in a buffer or in an emit call,
\* however Submit, the flush goroutines of old windows and Stop interleave.
AccountedOnce == NoneForgotten /\ NoneTwice

\* The count an emit call carries is the number of events it stands for, and
\* the event it sends is the newest of them, all with the same key: what
\* pendingKey's comments on last and count say, in every interleaving.
CountsExact ==
  \A m \in AllCalls :
    /\ m.count = Cardinality(m.covers)
    /\ m.count > 0
    /\ m.ev \in m.covers
    /\ \A e \in m.covers : e <= m.ev /\ keyOf[e] = keyOf[m.ev]

\* An open window's entry is what pendingKey's comments say: count and last are
\* the number and the newest of the events buffered since the window was opened,
\* all of them submitted with the window's own key, also when a flush goroutine
\* of an older window has closed that one early and this one was opened since.
EntriesExact ==
  \A k \in DOMAIN pending :
    LET p == pending[k]
    IN  /\ p.id <= p.last /\ p.last <= n
        /\ keyOf[p.id] = k
        /\ p.count = Cardinality(p.covers)
        /\ p.count > 0 => p.last \in p.covers
        /\ \A e \in p.covers : p.id < e /\ e <= p.last /\ keyOf[e] = k

\* An open window never gets stuck: its own timer is running or a flush
\* goroutine started by it is on its way, also after a flush goroutine of an
\* older window has taken this key's entry.
WindowWillClose ==
  \A k \in DOMAIN pending :
    \/ pending[k].id \in armed
    \/ fired[pending[k].id] > 0

\* After Stop nothing is ever buffered again (late events are emitted inline).
StoppedHoldsNothing == stopped => DOMAIN pending = {}

\* Every open window is sound, whatever timers of older windows, resets and Stop
\* have done to d.pending since: its entry is exact, it will be closed, and there
\* is none after Stop.
WindowsSound == EntriesExact /\ WindowWillClose /\ StoppedHoldsNothing

\* What the submitters see of it: the events that no completed call covers, and what
\* those calls have reported.
R == INSTANCE EventReports WITH
  open <- {e \in 1 .. n : ~Reported(e, emitted)},
  reports <- {[ev |-> m.ev, count |-> m.count] : m \in emitted}

\* Every event that is submitted is reported in the end, exactly once and counted
\* exactly, whatever Stop, the timers and other submitters do; one without a key is
\* reported alone.
Implements == R!Spec

=============================================================================
