----------------------------- MODULE EventReports -----------------------------
(***************************************************************************)
(* What a debouncer promises to whoever submits events: each of them is    *)
(* reported, once, by itself or in an aggregate.  An aggregate is of one   *)
(* key; it is reported as the newest of its events with their number.      *)
(***************************************************************************)
EXTENDS Naturals, FiniteSets

CONSTANTS Keys, NoKey, MaxEvents

VARIABLES
  n,        \* number of events submitted so far
  keyOf,    \* the key of each of them
  open,     \* those that have not been reported
  reports   \* the reports: an event and a count each

vars == <<n, keyOf, open, reports>>

Events == 1 .. MaxEvents

Init == n = 0 /\ keyOf = [e \in Events |-> NoKey] /\ open = {} /\ reports = {}

Submit(k) ==
  /\ n < MaxEvents /\ n' = n + 1
  /\ keyOf' = [keyOf EXCEPT ![n + 1] = k]
  /\ open' = open \cup {n + 1}
  /\ UNCHANGED reports

\* The events of S are reported, by the newest of them.
Report(S, newest) ==
  /\ newest \in S /\ \A e \in S : e <= newest /\ keyOf[e] = keyOf[newest]
  /\ keyOf[newest] = NoKey => S = {newest}
  /\ open' = open \ S
  /\ reports' = reports \cup {[ev |-> newest, count |-> Cardinality(S)]}
  /\ UNCHANGED <<n, keyOf>>

Next ==
  \/ \E k \in Keys \cup {NoKey} : Submit(k)
  \/ \E S \in SUBSET open : \E newest \in open : Report(S, newest)

AllReported == \A e \in Events : e <= n ~> e <= n /\ e \notin open

Spec == Init /\ [][Next]_vars /\ AllReported

=============================================================================
