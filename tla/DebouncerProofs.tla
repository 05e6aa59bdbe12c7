--------------------------- MODULE DebouncerProofs ---------------------------
(***************************************************************************)
(* Safety of the event debouncer for every set of keys, every window and   *)
(* every number of events, with any number of concurrent submitters and    *)
(* flush goroutines.                                                       *)
(***************************************************************************)
EXTENDS Debouncer, FiniteSetTheorems, TLAPS

-----------------------------------------------------------------------------
(* Type correctness.                                                       *)

\* Putting and dropping an entry keep d.pending a map from keys to entries.
LEMMA PutType ==
  ASSUME TypeOK, NEW k \in Keys, NEW v \in Entry
  PROVE  /\ DOMAIN Put(pending, k, v) = DOMAIN pending \cup {k}
         /\ DOMAIN Put(pending, k, v) \subseteq Keys
         /\ Put(pending, k, v) \in [DOMAIN Put(pending, k, v) -> Entry]
         /\ Put(pending, k, v)[k] = v
         /\ \A x \in DOMAIN pending \ {k} : Put(pending, k, v)[x] = pending[x]
BY DEF Put, TypeOK

\* Deleting a key from the map keeps the other entries.
LEMMA DropType ==
  ASSUME TypeOK, NEW k
  PROVE  /\ DOMAIN Drop(pending, k) = DOMAIN pending \ {k}
         /\ Drop(pending, k) \in [DOMAIN Drop(pending, k) -> Entry]
         /\ \A x \in DOMAIN pending \ {k} : Drop(pending, k)[x] = pending[x]
BY DEF Drop, TypeOK

\* A new event has a number within the bound and a key.
LEMMA ArriveType ==
  ASSUME TypeOK, NEW k \in Keys \cup {NoKey}, Arrive(k)
  PROVE  /\ n + 1 \in Events
         /\ n' \in 0..MaxEvents
         /\ keyOf' \in [Events -> Keys \cup {NoKey}]
BY BoundAssumption DEF TypeOK, Arrive, Events

\* Every step of the debouncer preserves type correctness.
LEMMA TypeStep ==
  ASSUME TypeOK, [Next]_vars
  PROVE  TypeOK'
<1>1. ASSUME NEW k \in Keys \cup {NoKey}, SubmitInline(k)
      PROVE  TypeOK'
  <2>1. Arrive(k) /\ n + 1 \in Events
    BY <1>1, ArriveType DEF SubmitInline
  <2>2. calls' \subseteq Call
    BY <1>1, <2>1 DEF TypeOK, SubmitInline, Single, Call, Callers
  <2> QED
    BY <1>1, <2>1, <2>2, ArriveType DEF TypeOK, SubmitInline
<1>2. ASSUME NEW k \in Keys \cup {NoKey}, SubmitBuffer(k)
      PROVE  TypeOK'
  <2>1. Arrive(k) /\ n + 1 \in Events /\ k \in Keys
    BY <1>2, ArriveType DEF SubmitBuffer, Debounced
  <2>2. pending[k] \in Entry
    BY <1>2 DEF TypeOK, SubmitBuffer
  <2>3. Extended(pending[k], n + 1) \in Entry
    BY <2>1, <2>2 DEF Extended, Entry
  <2>4. armed' \subseteq Events
    BY <1>2, <2>2 DEF TypeOK, SubmitBuffer, Entry
  <2> QED
    BY <1>2, <2>1, <2>3, <2>4, ArriveType, PutType DEF TypeOK, SubmitBuffer
<1>3. ASSUME NEW k \in Keys \cup {NoKey}, SubmitLead(k)
      PROVE  TypeOK'
  <2>1. Arrive(k) /\ n + 1 \in Events /\ k \in Keys
    BY <1>3, ArriveType DEF SubmitLead, Debounced
  <2>2. Opened(n + 1) \in Entry
    BY <2>1 DEF Opened, Entry
  <2>3. calls' \subseteq Call
    BY <1>3, <2>1 DEF TypeOK, SubmitLead, Single, Call, Callers
  <2> QED
    BY <1>3, <2>1, <2>2, <2>3, ArriveType, PutType DEF TypeOK, SubmitLead
<1>4. ASSUME NEW t \in Events, Fire(t)
      PROVE  TypeOK'
  BY <1>4 DEF TypeOK, Fire
<1>5. ASSUME NEW t \in Events, Flush(t)
      PROVE  TypeOK'
  <2>1. calls' \subseteq Call
    <3>1. \A x \in DOMAIN pending : Aggregate(pending[x], "timer") \in Call
      BY DEF TypeOK, Aggregate, Call, Entry, Callers
    <3> QED
      BY <1>5, <3>1 DEF TypeOK, Flush
  <2>2. fired' \in [Events -> Nat]
    BY <1>5 DEF TypeOK, Flush
  <2> QED
    BY <1>5, <2>1, <2>2, DropType DEF TypeOK, Flush, Taken
<1>6. ASSUME Stop
      PROVE  TypeOK'
  <2>1. calls' \subseteq Call
    <3>1. \A x \in DOMAIN pending : Aggregate(pending[x], "stop") \in Call
      BY DEF TypeOK, Aggregate, Call, Entry, Callers
    <3> QED
      BY <1>6, <3>1 DEF TypeOK, Stop
  <2> QED
    BY <1>6, <2>1 DEF TypeOK, Stop
<1>7. ASSUME StopReturn
      PROVE  TypeOK'
  BY <1>7 DEF TypeOK, StopReturn
<1>8. ASSUME NEW m \in calls, EmitDone(m)
      PROVE  TypeOK'
  BY <1>8 DEF TypeOK, EmitDone
<1>9. ASSUME UNCHANGED vars
      PROVE  TypeOK'
  BY <1>9 DEF TypeOK, vars
<1> QED
  BY <1>1, <1>2, <1>3, <1>4, <1>5, <1>6, <1>7, <1>8, <1>9 DEF Next, Submit

\* A new debouncer is well typed.
LEMMA TypeInit ==
  ASSUME Init
  PROVE  TypeOK
<1>1. DOMAIN pending = {} /\ pending \in [DOMAIN pending -> Entry]
  BY DEF Init, New
<1>2. n \in 0..MaxEvents /\ fired \in [Events -> Nat]
  BY BoundAssumption DEF Init, New
<1> QED
  BY <1>1, <1>2 DEF Init, New, TypeOK

\* The debouncer's state is well typed in every reachable state.
THEOREM TypeCorrect == Spec => []TypeOK
  BY TypeInit, TypeStep, PTL DEF Spec

-----------------------------------------------------------------------------
(* Nothing is forgotten, reported twice or miscounted.  None of these       *)
(* invariants is inductive alone: an aggregate's count and key come from   *)
(* the entry it is made of (EntriesExact), that two aggregates are         *)
(* disjoint follows from their keys, and that an event is new from         *)
(* NoneForgotten.                                                          *)

IInv ==
  /\ TypeOK
  /\ NoneForgotten
  /\ NoneTwice
  /\ CountsExact
  /\ EntriesExact
  /\ WindowWillClose
  /\ StoppedHoldsNothing

\* A set of events is finite.
LEMMA EventSets ==
  ASSUME NEW S \in SUBSET Events
  PROVE  /\ IsFiniteSet(S)
         /\ Cardinality(S) \in Nat
         /\ Cardinality(S) = 0 <=> S = {}
         /\ \A e \in Events \ S : Cardinality(S \cup {e}) = Cardinality(S) + 1
<1>1. IsFiniteSet(Events)
  BY BoundAssumption, FS_Interval DEF Events
<1>2. IsFiniteSet(S)
  BY <1>1, FS_Subset
<1> QED
  BY <1>2, FS_CardinalityType, FS_EmptySet, FS_AddElement

\* The event that arrives is covered by no emit call and by no entry, and the
\* keys of the earlier events stay what they are.
LEMMA Fresh ==
  ASSUME IInv, NEW k \in Keys \cup {NoKey}, Arrive(k)
  PROVE  /\ n + 1 \in Events /\ n' = n + 1 /\ n \in Nat
         /\ keyOf'[n + 1] = k
         /\ \A e \in Events : e <= n => keyOf'[e] = keyOf[e]
         /\ \A m \in AllCalls : /\ n + 1 \notin m.covers
                                 /\ m.ev \in Events /\ m.ev <= n
                                 /\ \A e \in m.covers : e \in Events /\ e <= n
         /\ \A x \in DOMAIN pending :
              /\ n + 1 \notin pending[x].covers
              /\ \A e \in pending[x].covers : e \in Events /\ e <= n
<1>1. n + 1 \in Events /\ n' = n + 1 /\ n \in Nat /\ ~(n + 1 <= n)
  <2>1. TypeOK
    BY DEF IInv
  <2>2. n + 1 \in Events /\ n' = n + 1
    BY <2>1, ArriveType DEF Arrive
  <2>3. n \in Nat
    BY <2>1, BoundAssumption DEF TypeOK
  <2> QED
    BY <2>2, <2>3
<1>2. keyOf'[n + 1] = k /\ \A e \in Events : e <= n => keyOf'[e] = keyOf[e]
  BY <1>1 DEF Arrive, IInv, TypeOK
<1>3. \A m \in AllCalls : m.covers \subseteq Events /\ m.ev \in m.covers
  BY DEF IInv, TypeOK, AllCalls, Call, CountsExact
<1>4. \A m \in AllCalls : \A e \in m.covers : e <= n
  BY <1>3 DEF IInv, NoneForgotten, Reported
<1>5. \A x \in DOMAIN pending : pending[x].covers \subseteq Events
  BY DEF IInv, TypeOK, Entry
<1>6. \A x \in DOMAIN pending : \A e \in pending[x].covers : e <= n
  BY <1>5 DEF IInv, NoneForgotten, Buffered
<1> QED
  BY <1>1, <1>2, <1>3, <1>4, <1>5, <1>6

\* The counts and keys of the calls and entries there are stay right when an
\* event arrives.
LEMMA OldOnes ==
  ASSUME IInv, NEW k \in Keys \cup {NoKey}, Arrive(k)
  PROVE  /\ \A m \in AllCalls :
              /\ m.count = Cardinality(m.covers)
              /\ m.count > 0
              /\ m.ev \in m.covers
              /\ \A e \in m.covers : e <= m.ev /\ keyOf'[e] = keyOf'[m.ev]
         /\ \A x \in DOMAIN pending :
              /\ pending[x].id <= pending[x].last /\ pending[x].last <= n
              /\ keyOf'[pending[x].id] = x
              /\ pending[x].count = Cardinality(pending[x].covers)
              /\ pending[x].count > 0 => pending[x].last \in pending[x].covers
              /\ \A e \in pending[x].covers :
                   pending[x].id < e /\ e <= pending[x].last /\ keyOf'[e] = x
<1>1. \A m \in AllCalls :
        /\ m.count = Cardinality(m.covers)
        /\ m.count > 0
        /\ m.ev \in m.covers
        /\ \A e \in m.covers : e <= m.ev /\ keyOf'[e] = keyOf'[m.ev]
  BY Fresh DEF IInv, CountsExact
<1>2. ASSUME NEW x \in DOMAIN pending
      PROVE  /\ pending[x].id <= pending[x].last /\ pending[x].last <= n
             /\ keyOf'[pending[x].id] = x
             /\ pending[x].count = Cardinality(pending[x].covers)
             /\ pending[x].count > 0 => pending[x].last \in pending[x].covers
             /\ \A e \in pending[x].covers :
                  pending[x].id < e /\ e <= pending[x].last /\ keyOf'[e] = x
  <2>1. /\ pending[x].id <= pending[x].last /\ pending[x].last <= n
        /\ keyOf[pending[x].id] = x
        /\ pending[x].count = Cardinality(pending[x].covers)
        /\ pending[x].count > 0 => pending[x].last \in pending[x].covers
        /\ \A e \in pending[x].covers :
             pending[x].id < e /\ e <= pending[x].last /\ keyOf[e] = x
    BY DEF IInv, EntriesExact
  <2>2. pending[x].id \in Events /\ pending[x].last \in Events /\ n \in Nat
    BY Fresh DEF IInv, TypeOK, Entry
  <2>3. pending[x].id <= n
    BY <2>1, <2>2, BoundAssumption DEF Events
  <2> QED
    BY <2>1, <2>2, <2>3, Fresh
<1> QED
  BY <1>1, <1>2

\* An event emitted inline (no key, no window, or stopped).
LEMMA InlineStep ==
  ASSUME IInv, NEW k \in Keys \cup {NoKey}, SubmitInline(k), TypeOK'
  PROVE  IInv'
<1> DEFINE s == Single(n + 1)
<1>0. Arrive(k) /\ pending' = pending /\ AllCalls' = AllCalls \cup {s}
  BY DEF SubmitInline, AllCalls
<1>1. s.covers = {n + 1} /\ s.ev = n + 1 /\ s.count = 1
  BY DEF Single
<1>2. s \notin AllCalls
  BY <1>0, <1>1, Fresh
<1>3. NoneForgotten'
  <2> SUFFICES ASSUME NEW e \in Events
               PROVE  (e <= n <=> Reported(e, AllCalls) \/ Buffered(e))'
    BY DEF NoneForgotten
  <2>1. e <= n + 1 <=> e <= n \/ e = n + 1
    BY <1>0, Fresh, BoundAssumption DEF Events
  <2>2. Reported(e, AllCalls)' <=> Reported(e, AllCalls) \/ e = n + 1
    BY <1>0, <1>1 DEF Reported
  <2>3. Buffered(e)' <=> Buffered(e)
    BY <1>0 DEF Buffered
  <2>4. n' = n + 1 /\ (e <= n <=> Reported(e, AllCalls) \/ Buffered(e))
    BY <1>0, Fresh DEF IInv, NoneForgotten
  <2> QED
    BY <2>1, <2>2, <2>3, <2>4
<1>4. NoneTwice'
  <2>1. (calls \cap emitted = {})'
    BY <1>2 DEF IInv, NoneTwice, SubmitInline, AllCalls
  <2>2. \A m1, m2 \in AllCalls' : m1 # m2 => m1.covers \cap m2.covers = {}
    BY <1>0, <1>1, Fresh DEF IInv, NoneTwice
  <2>3. \A m \in AllCalls' : \A x \in DOMAIN pending' :
          m.covers \cap pending'[x].covers = {}
    BY <1>0, <1>1, Fresh DEF IInv, NoneTwice
  <2> QED
    BY <2>1, <2>2, <2>3 DEF NoneTwice
<1>5. CountsExact'
  <2>1. s.count = Cardinality(s.covers)
    BY <1>1, FS_Singleton
  <2>2. \A e \in s.covers : e <= s.ev
    BY <1>0, <1>1, Fresh
  <2> QED
    BY <1>0, <1>1, <2>1, <2>2, OldOnes DEF CountsExact
<1>6. EntriesExact'
  <2> SUFFICES ASSUME NEW x \in DOMAIN pending
               PROVE  /\ pending[x].id <= pending[x].last
                      /\ pending[x].last <= n'
                      /\ keyOf'[pending[x].id] = x
                      /\ pending[x].count = Cardinality(pending[x].covers)
                      /\ pending[x].count > 0 =>
                           pending[x].last \in pending[x].covers
                      /\ \A e \in pending[x].covers :
                           /\ pending[x].id < e
                           /\ e <= pending[x].last
                           /\ keyOf'[e] = x
    BY <1>0 DEF EntriesExact
  <2>1. pending[x].last \in Nat
    BY BoundAssumption DEF IInv, TypeOK, Entry, Events
  <2> QED
    BY <1>0, <2>1, Fresh, OldOnes
<1>7. WindowWillClose' /\ StoppedHoldsNothing'
  BY DEF IInv, WindowWillClose, StoppedHoldsNothing, SubmitInline
<1> QED
  BY <1>3, <1>4, <1>5, <1>6, <1>7 DEF IInv

\* An event buffered in an open window; the timer is reset.
LEMMA BufferStep ==
  ASSUME IInv, NEW k \in Keys \cup {NoKey}, SubmitBuffer(k), TypeOK'
  PROVE  IInv'
<1> DEFINE p == pending[k]
           q == Extended(p, n + 1)
<1>0. Arrive(k) /\ AllCalls' = AllCalls /\ k \in DOMAIN pending /\ k \in Keys
  BY DEF SubmitBuffer, AllCalls, Debounced
<1>1. q.id = p.id /\ q.last = n + 1 /\ q.count = p.count + 1
      /\ q.covers = p.covers \cup {n + 1}
  BY DEF Extended
<1>2. /\ DOMAIN pending' = DOMAIN pending
      /\ pending'[k] = q
      /\ \A x \in DOMAIN pending \ {k} : pending'[x] = pending[x]
  BY <1>0 DEF SubmitBuffer, Put
<1>3. NoneForgotten'
  <2> SUFFICES ASSUME NEW e \in Events
               PROVE  (e <= n <=> Reported(e, AllCalls) \/ Buffered(e))'
    BY DEF NoneForgotten
  <2>1. e <= n + 1 <=> e <= n \/ e = n + 1
    BY <1>0, Fresh, BoundAssumption DEF Events
  <2>2. Reported(e, AllCalls)' <=> Reported(e, AllCalls)
    BY <1>0 DEF Reported
  <2>3. Buffered(e)' <=> Buffered(e) \/ e = n + 1
    BY <1>0, <1>1, <1>2 DEF Buffered
  <2>4. n' = n + 1 /\ (e <= n <=> Reported(e, AllCalls) \/ Buffered(e))
    BY <1>0, Fresh DEF IInv, NoneForgotten
  <2> QED
    BY <2>1, <2>2, <2>3, <2>4
<1>4. NoneTwice'
  <2>1. \A m \in AllCalls : \A x \in DOMAIN pending :
          m.covers \cap pending'[x].covers = {}
    BY <1>0, <1>1, <1>2, Fresh DEF IInv, NoneTwice
  <2> QED
    BY <1>0, <1>2, <2>1 DEF IInv, NoneTwice, SubmitBuffer
<1>5. CountsExact'
  BY <1>0, OldOnes DEF CountsExact
<1>6. EntriesExact'
  <2> SUFFICES ASSUME NEW x \in DOMAIN pending
               PROVE  /\ pending'[x].id <= pending'[x].last
                      /\ pending'[x].last <= n'
                      /\ keyOf'[pending'[x].id] = x
                      /\ pending'[x].count = Cardinality(pending'[x].covers)
                      /\ pending'[x].count > 0 =>
                           pending'[x].last \in pending'[x].covers
                      /\ \A e \in pending'[x].covers :
                           /\ pending'[x].id < e
                           /\ e <= pending'[x].last
                           /\ keyOf'[e] = x
    BY <1>2 DEF EntriesExact
  <2>1. /\ pending[x].last \in Nat /\ pending[x].id \in Nat
        /\ pending[x].covers \in SUBSET Events
    BY BoundAssumption DEF IInv, TypeOK, Entry, Events
  <2>2. CASE x # k
    BY <1>0, <1>2, <2>1, <2>2, Fresh, OldOnes
  <2>3. CASE x = k
    <3>1. q.count = Cardinality(q.covers)
      BY <1>0, <1>1, <2>1, <2>3, Fresh, OldOnes, EventSets
    <3>2. q.id < n + 1 /\ q.last <= n' /\ q.last \in q.covers
      BY <1>0, <1>1, <2>1, <2>3, Fresh, OldOnes
    <3>3. \A e \in q.covers : q.id < e /\ e <= q.last /\ keyOf'[e] = k
      <4>1. SUFFICES ASSUME NEW e \in p.covers
                     PROVE  q.id < e /\ e <= q.last /\ keyOf'[e] = k
        BY <1>0, <1>1, <3>2, Fresh
      <4>2. p.id < e /\ keyOf'[e] = k
        BY <1>0, OldOnes
      <4>3. e <= n /\ n \in Nat /\ e \in Nat
        BY <1>0, <2>1, <2>3, Fresh, BoundAssumption DEF Events
      <4> QED
        BY <1>1, <4>2, <4>3
    <3>4. keyOf'[q.id] = k /\ q.id <= q.last
      BY <1>0, <1>1, <2>1, <2>3, <3>2, OldOnes, Fresh
    <3> QED
      BY <1>2, <2>3, <3>1, <3>2, <3>3, <3>4
  <2> QED
    BY <2>2, <2>3
<1>7. WindowWillClose' /\ StoppedHoldsNothing'
  <2>1. WindowWillClose'
    BY <1>1, <1>2 DEF IInv, WindowWillClose, SubmitBuffer
  <2> QED
    BY <1>2, <2>1 DEF IInv, StoppedHoldsNothing, SubmitBuffer
<1> QED
  BY <1>3, <1>4, <1>5, <1>6, <1>7 DEF IInv

\* An event that opens a window and is emitted.
LEMMA LeadStep ==
  ASSUME IInv, NEW k \in Keys \cup {NoKey}, SubmitLead(k), TypeOK'
  PROVE  IInv'
<1> DEFINE s == Single(n + 1)
           q == Opened(n + 1)
<1>0. Arrive(k) /\ AllCalls' = AllCalls \cup {s} /\ k \notin DOMAIN pending
  BY DEF SubmitLead, AllCalls
<1>1. /\ s.covers = {n + 1} /\ s.ev = n + 1 /\ s.count = 1
      /\ q.id = n + 1 /\ q.last = n + 1 /\ q.count = 0 /\ q.covers = {}
  BY DEF Single, Opened
<1>2. /\ DOMAIN pending' = DOMAIN pending \cup {k}
      /\ pending'[k] = q
      /\ \A x \in DOMAIN pending : pending'[x] = pending[x]
  BY <1>0 DEF SubmitLead, Put
<1>3. NoneForgotten'
  <2> SUFFICES ASSUME NEW e \in Events
               PROVE  (e <= n <=> Reported(e, AllCalls) \/ Buffered(e))'
    BY DEF NoneForgotten
  <2>1. e <= n + 1 <=> e <= n \/ e = n + 1
    BY <1>0, Fresh, BoundAssumption DEF Events
  <2>2. Reported(e, AllCalls)' <=> Reported(e, AllCalls) \/ e = n + 1
    BY <1>0, <1>1 DEF Reported
  <2>3. Buffered(e)' <=> Buffered(e)
    BY <1>1, <1>2 DEF Buffered
  <2>4. n' = n + 1 /\ (e <= n <=> Reported(e, AllCalls) \/ Buffered(e))
    BY <1>0, Fresh DEF IInv, NoneForgotten
  <2> QED
    BY <2>1, <2>2, <2>3, <2>4
<1>4. NoneTwice'
  <2>0. s \notin AllCalls
    BY <1>0, <1>1, Fresh
  <2>1. (calls \cap emitted = {})'
    BY <2>0 DEF IInv, NoneTwice, SubmitLead, AllCalls
  <2>2. \A m1, m2 \in AllCalls' : m1 # m2 => m1.covers \cap m2.covers = {}
    BY <1>0, <1>1, Fresh DEF IInv, NoneTwice
  <2>3. \A m \in AllCalls' : \A x \in DOMAIN pending' :
          m.covers \cap pending'[x].covers = {}
    BY <1>0, <1>1, <1>2, Fresh DEF IInv, NoneTwice
  <2> QED
    BY <2>1, <2>2, <2>3 DEF NoneTwice
<1>5. CountsExact'
  <2>1. s.count = Cardinality(s.covers)
    BY <1>1, FS_Singleton
  <2>2. \A e \in s.covers : e <= s.ev
    BY <1>0, <1>1, Fresh
  <2> QED
    BY <1>0, <1>1, <2>1, <2>2, OldOnes DEF CountsExact
<1>6. EntriesExact'
  <2> SUFFICES ASSUME NEW x \in DOMAIN pending \cup {k}
               PROVE  /\ pending'[x].id <= pending'[x].last
                      /\ pending'[x].last <= n'
                      /\ keyOf'[pending'[x].id] = x
                      /\ pending'[x].count = Cardinality(pending'[x].covers)
                      /\ pending'[x].count > 0 =>
                           pending'[x].last \in pending'[x].covers
                      /\ \A e \in pending'[x].covers :
                           /\ pending'[x].id < e
                           /\ e <= pending'[x].last
                           /\ keyOf'[e] = x
    BY <1>2 DEF EntriesExact
  <2>1. CASE x = k
    <3>1. Cardinality(q.covers) = 0
      BY <1>1, FS_EmptySet
    <3>2. n \in Nat /\ n' = n + 1 /\ keyOf'[n + 1] = k
      BY <1>0, Fresh
    <3> QED
      BY <1>1, <1>2, <2>1, <3>1, <3>2
  <2>2. CASE x # k
    <3>1. x \in DOMAIN pending /\ pending[x].last \in Nat
      BY <2>2, BoundAssumption DEF IInv, TypeOK, Entry, Events
    <3> QED
      BY <1>0, <1>2, <3>1, Fresh, OldOnes
  <2> QED
    BY <2>1, <2>2
<1>7. WindowWillClose' /\ StoppedHoldsNothing'
  <2>1. WindowWillClose'
    BY <1>1, <1>2 DEF IInv, WindowWillClose, SubmitLead
  <2> QED
    BY <2>1 DEF IInv, StoppedHoldsNothing, SubmitLead, Debounced
<1> QED
  BY <1>3, <1>4, <1>5, <1>6, <1>7 DEF IInv

\* A timer expires and its goroutine is started.
LEMMA FireStep ==
  ASSUME IInv, NEW t \in Events, Fire(t), TypeOK'
  PROVE  IInv'
<1>1. UNCHANGED <<n, keyOf, pending, calls, emitted, stopped>>
  BY DEF Fire
<1>2. NoneForgotten' /\ NoneTwice' /\ CountsExact'
  BY <1>1 DEF IInv, NoneForgotten, NoneTwice, CountsExact, Reported, Buffered,
              AllCalls
<1>3. EntriesExact' /\ StoppedHoldsNothing'
  BY <1>1 DEF IInv, EntriesExact, StoppedHoldsNothing
<1>4. WindowWillClose'
  <2>1. ASSUME NEW w \in Events
        PROVE  w \in armed' \/ fired'[w] > 0 <=> w \in armed \/ fired[w] > 0
    BY DEF Fire, IInv, TypeOK
  <2>2. \A x \in DOMAIN pending : pending[x].id \in Events
    BY DEF IInv, TypeOK, Entry
  <2> QED
    BY <1>1, <2>1, <2>2 DEF IInv, WindowWillClose
<1> QED
  BY <1>2, <1>3, <1>4 DEF IInv

\* The aggregates of a set of keys' entries, and the map without those keys:
\* what flush (one key) and Stop (all keys) turn d.pending into.
LEMMA TakeStep ==
  ASSUME IInv, TypeOK', NEW who \in Callers, NEW K \in SUBSET DOMAIN pending,
         DOMAIN pending' = DOMAIN pending \ K,
         \A x \in DOMAIN pending' : pending'[x] = pending[x],
         calls' = calls \cup {Aggregate(pending[x], who) :
                                x \in {y \in K : Due(pending[y])}},
         UNCHANGED <<n, keyOf, emitted>>
  PROVE  NoneForgotten' /\ NoneTwice' /\ CountsExact' /\ EntriesExact'
<1> DEFINE D == {y \in K : Due(pending[y])}
           A == {Aggregate(pending[x], who) : x \in D}
<1>0. AllCalls' = AllCalls \cup A
  BY DEF AllCalls
<1>1. ASSUME NEW x \in DOMAIN pending
      PROVE  /\ Aggregate(pending[x], who).covers = pending[x].covers
             /\ Aggregate(pending[x], who).count = pending[x].count
             /\ Aggregate(pending[x], who).ev = pending[x].last
             /\ pending[x].covers \in SUBSET Events
             /\ pending[x].count \in Nat
             /\ Due(pending[x]) <=> pending[x].covers # {}
  <2>1. pending[x].covers \in SUBSET Events /\ pending[x].count \in Nat
    BY DEF IInv, TypeOK, Entry
  <2>2. pending[x].count = Cardinality(pending[x].covers)
    BY DEF IInv, EntriesExact
  <2> QED
    BY <2>1, <2>2, EventSets DEF Aggregate, Due
<1>2. \A x \in DOMAIN pending : \A e \in pending[x].covers : keyOf[e] = x
  BY DEF IInv, EntriesExact
<1>3. NoneForgotten'
  <2> SUFFICES ASSUME NEW e \in Events
               PROVE  Reported(e, AllCalls)' \/ Buffered(e)' <=>
                      Reported(e, AllCalls) \/ Buffered(e)
    BY DEF IInv, NoneForgotten
  <2>1. ASSUME Reported(e, AllCalls)' \/ Buffered(e)'
        PROVE  Reported(e, AllCalls) \/ Buffered(e)
    BY <1>0, <1>1, <2>1 DEF Reported, Buffered
  <2>2. ASSUME Reported(e, AllCalls)
        PROVE  Reported(e, AllCalls)'
    BY <1>0, <2>2 DEF Reported
  <2>3. ASSUME NEW x \in DOMAIN pending, e \in pending[x].covers
        PROVE  Reported(e, AllCalls)' \/ Buffered(e)'
    <3>1. CASE x \in K
      BY <1>0, <1>1, <2>3, <3>1 DEF Reported
    <3>2. CASE x \notin K
      BY <2>3, <3>2 DEF Buffered
    <3> QED
      BY <3>1, <3>2
  <2> QED
    BY <2>1, <2>2, <2>3 DEF Buffered
<1>4. NoneTwice'
  <2>1. \A m \in A : m \notin AllCalls
    <3> SUFFICES ASSUME NEW x \in D, Aggregate(pending[x], who) \in AllCalls
                 PROVE  FALSE
      OBVIOUS
    <3>1. pending[x].covers \cap pending[x].covers = {}
      BY <1>1 DEF IInv, NoneTwice
    <3> QED
      BY <1>1, <3>1
  <2>2. (calls \cap emitted = {})'
    BY <2>1 DEF IInv, NoneTwice, AllCalls
  <2>3. \A m \in AllCalls : \A a \in A : m.covers \cap a.covers = {}
    BY <1>1 DEF IInv, NoneTwice
  <2>4. \A a, b \in A : a # b => a.covers \cap b.covers = {}
    BY <1>1, <1>2
  <2>5. \A m1, m2 \in AllCalls' : m1 # m2 => m1.covers \cap m2.covers = {}
    BY <1>0, <2>3, <2>4 DEF IInv, NoneTwice
  <2>6. \A m \in AllCalls' : \A x \in DOMAIN pending' :
          m.covers \cap pending'[x].covers = {}
    <3>1. \A m \in AllCalls : \A x \in DOMAIN pending' :
            m.covers \cap pending'[x].covers = {}
      BY DEF IInv, NoneTwice
    <3>2. \A a \in A : \A x \in DOMAIN pending' :
            a.covers \cap pending'[x].covers = {}
      BY <1>1, <1>2
    <3> QED
      BY <1>0, <3>1, <3>2
  <2> QED
    BY <2>2, <2>5, <2>6 DEF NoneTwice
<1>5. CountsExact'
  <2>1. ASSUME NEW x \in D
        PROVE  LET a == Aggregate(pending[x], who)
               IN  /\ a.count = Cardinality(a.covers)
                   /\ a.count > 0
                   /\ a.ev \in a.covers
                   /\ \A e \in a.covers : e <= a.ev /\ keyOf[e] = keyOf[a.ev]
    BY <1>1, <1>2 DEF IInv, EntriesExact, Due
  <2> QED
    BY <1>0, <2>1 DEF IInv, CountsExact
<1>6. EntriesExact'
  BY DEF IInv, EntriesExact
<1> QED
  BY <1>3, <1>4, <1>5, <1>6

\* flush takes at most the one entry its key has by now.
LEMMA FlushStep ==
  ASSUME IInv, NEW t \in Events, Flush(t), TypeOK'
  PROVE  IInv'
<1> DEFINE k == keyOf[t]
           K == {y \in DOMAIN pending : y = k}
<1>1. /\ DOMAIN pending' = DOMAIN pending \ K
      /\ \A x \in DOMAIN pending' : pending'[x] = pending[x]
      /\ \A x \in DOMAIN pending' : x \in DOMAIN pending /\ x # k
  BY DEF Flush, Taken, Drop
<1>2. calls' = calls \cup {Aggregate(pending[x], "timer") :
                             x \in {y \in K : Due(pending[y])}}
  <2>1. {y \in DOMAIN pending : y = k /\ Due(pending[y])}
          = {y \in K : Due(pending[y])}
    OBVIOUS
  <2> QED
    BY <2>1 DEF Flush
<1>3. NoneForgotten' /\ NoneTwice' /\ CountsExact' /\ EntriesExact'
  <2>1. UNCHANGED <<n, keyOf, emitted>> /\ "timer" \in Callers
    BY DEF Flush, Callers
  <2>2. K \in SUBSET DOMAIN pending
    OBVIOUS
  <2> HIDE DEF K
  <2> QED
    BY <1>1, <1>2, <2>1, <2>2, TakeStep
<1>4. WindowWillClose'
  <2> SUFFICES ASSUME NEW x \in DOMAIN pending'
               PROVE  pending[x].id \in armed \/ fired'[pending[x].id] > 0
    BY <1>1 DEF WindowWillClose, Flush
  <2>1. x \in DOMAIN pending /\ x # k /\ keyOf[pending[x].id] = x
    BY <1>1 DEF IInv, EntriesExact
  <2>2. pending[x].id # t /\ pending[x].id \in Events
    BY <2>1 DEF IInv, TypeOK, Entry
  <2>3. fired'[pending[x].id] = fired[pending[x].id]
    BY <2>2 DEF Flush, IInv, TypeOK
  <2> QED
    BY <2>1, <2>3 DEF IInv, WindowWillClose
<1>5. StoppedHoldsNothing'
  BY <1>1 DEF IInv, StoppedHoldsNothing, Flush
<1> QED
  BY <1>3, <1>4, <1>5 DEF IInv

\* Stop takes all entries.
LEMMA StopStep ==
  ASSUME IInv, Stop, TypeOK'
  PROVE  IInv'
<1> DEFINE K == DOMAIN pending
<1>1. DOMAIN pending' = {} /\ DOMAIN pending' = DOMAIN pending \ K
  BY DEF Stop
<1>2. NoneForgotten' /\ NoneTwice' /\ CountsExact' /\ EntriesExact'
  <2>1. UNCHANGED <<n, keyOf, emitted>> /\ "stop" \in Callers
    BY DEF Stop, Callers
  <2>2. calls' = calls \cup {Aggregate(pending[x], "stop") :
                               x \in {y \in K : Due(pending[y])}}
    BY DEF Stop
  <2>3. K \in SUBSET DOMAIN pending
    OBVIOUS
  <2> HIDE DEF K
  <2> QED
    BY <1>1, <2>1, <2>2, <2>3, TakeStep
<1>3. WindowWillClose' /\ StoppedHoldsNothing'
  BY <1>1 DEF WindowWillClose, StoppedHoldsNothing
<1> QED
  BY <1>2, <1>3 DEF IInv

\* Steps that leave the events, the entries and the union of the two sets of
\* emit calls alone.
LEMMA QuietStep ==
  ASSUME IInv, TypeOK', UNCHANGED <<n, keyOf, pending, armed, fired, stopped>>,
         AllCalls' = AllCalls, calls' \cap emitted' = {}
  PROVE  IInv'
<1>1. NoneForgotten' /\ NoneTwice' /\ CountsExact'
  BY DEF IInv, NoneForgotten, NoneTwice, CountsExact, Reported, Buffered
<1>2. EntriesExact' /\ WindowWillClose' /\ StoppedHoldsNothing'
  BY DEF IInv, EntriesExact, WindowWillClose, StoppedHoldsNothing
<1> QED
  BY <1>1, <1>2 DEF IInv

\* Every step of the debouncer preserves the invariant.
LEMMA InductiveStep ==
  ASSUME IInv, [Next]_vars
  PROVE  IInv'
<1>0. TypeOK'
  BY TypeStep DEF IInv
<1>1. ASSUME NEW k \in Keys \cup {NoKey}, Submit(k)
      PROVE  IInv'
  BY <1>0, <1>1, InlineStep, BufferStep, LeadStep DEF Submit
<1>2. ASSUME NEW t \in Events, Fire(t) \/ Flush(t)
      PROVE  IInv'
  BY <1>0, <1>2, FireStep, FlushStep
<1>3. ASSUME Stop
      PROVE  IInv'
  BY <1>0, <1>3, StopStep
<1>4. ASSUME StopReturn
      PROVE  IInv'
  BY <1>0, <1>4, QuietStep DEF StopReturn, AllCalls, IInv, NoneTwice
<1>5. ASSUME NEW m \in calls, EmitDone(m)
      PROVE  IInv'
  <2>1. AllCalls' = AllCalls /\ calls' \cap emitted' = {}
    BY <1>5 DEF EmitDone, AllCalls, IInv, NoneTwice
  <2> QED
    BY <1>0, <1>5, <2>1, QuietStep DEF EmitDone
<1>6. ASSUME UNCHANGED vars
      PROVE  IInv'
  BY <1>0, <1>6, QuietStep DEF vars, AllCalls, IInv, NoneTwice
<1> QED
  BY <1>1, <1>2, <1>3, <1>4, <1>5, <1>6 DEF Next

\* A new debouncer satisfies the inductive invariant.
LEMMA InductiveInit ==
  ASSUME Init
  PROVE  IInv
<1>1. TypeOK
  BY TypeInit
<1>2. DOMAIN pending = {} /\ AllCalls = {} /\ n = 0
  BY DEF Init, New, AllCalls
<1>3. NoneForgotten
  <2>1. \A e \in Events : ~(e <= 0)
    BY BoundAssumption DEF Events
  <2> QED
    BY <1>2, <2>1 DEF NoneForgotten, Reported, Buffered
<1>4. NoneTwice /\ CountsExact
  BY <1>2 DEF NoneTwice, CountsExact, AllCalls
<1>5. EntriesExact /\ WindowWillClose /\ StoppedHoldsNothing
  BY <1>2 DEF EntriesExact, WindowWillClose, StoppedHoldsNothing
<1> QED
  BY <1>1, <1>3, <1>4, <1>5 DEF IInv

\* The conjunction is an invariant of the debouncer.
THEOREM Invariance == Spec => []IInv
  BY InductiveInit, InductiveStep, PTL DEF Spec

\* Submit, flush and Stop neither forget an event nor report one twice: each is
\* buffered or covered by one emit call.
THEOREM AccountsOnce == Spec => []AccountedOnce
<1>1. IInv => AccountedOnce
  BY DEF IInv, AccountedOnce
<1> QED
  BY <1>1, Invariance, PTL

\* Every emit call carries the exact count and the newest of the events it
\* stands for, all of one key.
THEOREM CountsAreExact == Spec => []CountsExact
<1>1. IInv => CountsExact
  BY DEF IInv
<1> QED
  BY <1>1, Invariance, PTL

\* Every open window has an exact entry and a timer running or a flush on its
\* way, and none is open after Stop.
THEOREM WindowsAreSound == Spec => []WindowsSound
<1>1. IInv => WindowsSound
  BY DEF IInv, WindowsSound
<1> QED
  BY <1>1, Invariance, PTL

-----------------------------------------------------------------------------
(* The debouncer keeps the promise of EventReports.                        *)

\* A call for an event without a key is for that event alone.
KeylessAlone == \A m \in AllCalls : keyOf[m.ev] = NoKey => m.covers = {m.ev}

LEMMA KeylessStep ==
  ASSUME IInv, KeylessAlone, [Next]_vars
  PROVE  KeylessAlone'
<1>1. ASSUME NEW k \in Keys \cup {NoKey}, Submit(k)
      PROVE  KeylessAlone'
  <2>1. Arrive(k) /\ AllCalls' \subseteq AllCalls \cup {Single(n + 1)}
    BY <1>1 DEF Submit, SubmitInline, SubmitBuffer, SubmitLead, AllCalls
  <2>2. \A m \in AllCalls : m.ev \in Events /\ keyOf'[m.ev] = keyOf[m.ev]
    BY <2>1, Fresh
  <2>3. Single(n + 1).covers = {Single(n + 1).ev}
    BY DEF Single
  <2> QED
    BY <2>1, <2>2, <2>3 DEF KeylessAlone
<1>2. ASSUME NEW x \in DOMAIN pending, Due(pending[x])
      PROVE  keyOf[pending[x].last] # NoKey
  BY <1>2, KeysAssumption DEF IInv, EntriesExact, TypeOK, Due
<1>3. ASSUME keyOf' = keyOf,
             \A m \in AllCalls' \ AllCalls : \E x \in DOMAIN pending :
                Due(pending[x]) /\ m.ev = pending[x].last
      PROVE  KeylessAlone'
  BY <1>2, <1>3 DEF KeylessAlone
<1>4. CASE \E t \in Events : Fire(t) \/ Flush(t)
  BY <1>3, <1>4 DEF Fire, Flush, AllCalls, Aggregate
<1>5. CASE Stop \/ StopReturn
  BY <1>3, <1>5 DEF Stop, StopReturn, AllCalls, Aggregate
<1>6. CASE (\E m \in calls : EmitDone(m)) \/ UNCHANGED vars
  BY <1>3, <1>6 DEF EmitDone, AllCalls, vars
<1> QED
  BY <1>1, <1>4, <1>5, <1>6 DEF Next

\* A Submit adds its event to the open ones, an emit call that completes reports the
\* events it covers, and nothing else can be seen by who submits.
LEMMA StepsReport ==
  ASSUME IInv, KeylessAlone, [Next]_vars
  PROVE  [R!Next]_(R!vars)
<1> DEFINE open == {e \in 1 .. n : ~Reported(e, emitted)}
           reports == {[ev |-> m.ev, count |-> m.count] : m \in emitted}
<1>1. ASSUME NEW k \in Keys \cup {NoKey}, Submit(k)
      PROVE  R!Submit(k)
  <2>1. Arrive(k) /\ emitted' = emitted
    BY <1>1 DEF Submit, SubmitInline, SubmitBuffer, SubmitLead
  <2>2. n \in Nat /\ n' = n + 1 /\ ~Reported(n + 1, emitted)
    BY <2>1, Fresh DEF Reported, AllCalls
  <2>3. open' = open \cup {n + 1}
    <3>1. 1 .. (n + 1) = (1 .. n) \cup {n + 1}
      BY <2>2
    <3>2. open' = {e \in 1 .. (n + 1) : ~Reported(e, emitted)}
      BY <2>1, <2>2 DEF Reported
    <3> QED
      BY <2>2, <3>1, <3>2
  <2>4. reports' = reports
    BY <2>1
  <2> QED
    BY <2>1, <2>3, <2>4 DEF R!Submit, Arrive
<1>2. ASSUME NEW m \in calls, EmitDone(m)
      PROVE  R!Next
  <2>1. emitted' = emitted \cup {m} /\ UNCHANGED <<n, keyOf>> /\ m \in AllCalls
    BY <1>2 DEF EmitDone, AllCalls
  <2>2. /\ m.count = Cardinality(m.covers) /\ m.ev \in m.covers
        /\ \A e \in m.covers : e <= m.ev /\ keyOf[e] = keyOf[m.ev]
        /\ keyOf[m.ev] = NoKey => m.covers = {m.ev}
    BY <2>1 DEF IInv, CountsExact, KeylessAlone
  <2>3. m.covers \subseteq open
    <3>1. m.covers \subseteq Events /\ \A e \in m.covers : e <= n
      BY <2>1 DEF IInv, TypeOK, Call, AllCalls, NoneForgotten, Reported
    <3>2. m.covers \subseteq 1 .. n
      BY <3>1, BoundAssumption DEF Events, IInv, TypeOK
    <3>3. \A l \in emitted : l.covers \cap m.covers = {}
      BY <2>1 DEF IInv, NoneTwice, AllCalls
    <3> QED
      BY <3>2, <3>3 DEF Reported
  <2>4. open' = open \ m.covers
    BY <2>1 DEF Reported
  <2>5. reports' = reports \cup {[ev |-> m.ev, count |-> Cardinality(m.covers)]}
    BY <2>1, <2>2
  <2>6. R!Report(m.covers, m.ev)
    BY <2>1, <2>2, <2>4, <2>5 DEF R!Report, R!Cardinality, Cardinality
  <2>7. m.covers \in SUBSET open /\ m.ev \in open
    BY <2>2, <2>3
  <2> HIDE DEF open
  <2> QED
    BY <2>6, <2>7 DEF R!Next, open
<1>3. ASSUME UNCHANGED <<n, keyOf, emitted>>
      PROVE  UNCHANGED R!vars
  BY <1>3 DEF R!vars, Reported
<1>4. CASE \E t \in Events : Fire(t) \/ Flush(t)
  BY <1>3, <1>4 DEF Fire, Flush
<1>5. CASE Stop \/ StopReturn \/ UNCHANGED vars
  BY <1>3, <1>5 DEF Stop, StopReturn, vars
<1> QED
  BY <1>1, <1>2, <1>4, <1>5 DEF Next, R!Next

\* For all keys, windows and numbers of events, and however Submit, Stop and the timers
\* interleave: the debouncer reports every event at most once, alone or counted in an
\* aggregate of its key, and reports nothing else.
THEOREM ReportsEachOnce == Spec => R!Init /\ [][R!Next]_(R!vars)
<1>1. Init => R!Init /\ KeylessAlone
  <2> SUFFICES ASSUME Init PROVE R!Init /\ KeylessAlone
    OBVIOUS
  <2>1. n = 0 /\ emitted = {} /\ calls = {} /\ keyOf = [e \in Events |-> NoKey]
    BY DEF Init, New
  <2>2. 1 .. n = {}
    BY <2>1
  <2> QED
    BY <2>1, <2>2 DEF R!Init, R!Events, Events, KeylessAlone, AllCalls
<1>2. IInv /\ KeylessAlone /\ [Next]_vars => IInv' /\ KeylessAlone'
  BY InductiveStep, KeylessStep
<1>3. IInv /\ KeylessAlone /\ [Next]_vars => [R!Next]_(R!vars)
  BY StepsReport
<1> QED
  BY <1>1, <1>2, <1>3, InductiveInit, PTL DEF Spec

=============================================================================
