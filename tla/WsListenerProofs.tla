--------------------------- MODULE WsListenerProofs ---------------------------
(***************************************************************************)
(* That the listener never sends on its closed channel and keeps the       *)
(* safety part of Handoff, for any connections, acceptors and buffer.      *)
(* Both rest on the order in which Close does things (InOrder) and on the  *)
(* channel holding exactly the connections that wait (WaitingIsQueued).    *)
(***************************************************************************)
EXTENDS WsListener, SequenceTheorems, TLAPS

(* How far Close is, and what it has done by then.                         *)
InOrder ==
  /\ closed <=> closer # "none"
  /\ done <=> closer \in {"draining", "returned"}
  /\ sealed <=> closer = "returned"
  /\ sealed => connCh = <<>>

(* A connection waits exactly as long as it is in the channel, where it is *)
(* once: none is dropped and none is handed out twice.                     *)
WaitingIsQueued ==
  /\ \A c \in Conns :
       fate[c] = "waiting" <=> \E i \in 1..Len(connCh) : connCh[i] = c
  /\ \A i, j \in 1..Len(connCh) : connCh[i] = connCh[j] => i = j

IInv == TypeOK /\ InOrder /\ WaitingIsQueued

\* Taking the head off the channel and giving it another fate keeps the channel
\* and the fates in step.
LEMMA Dequeue ==
  ASSUME IInv, connCh # <<>>, NEW f \in {"accepted", "closed"},
         connCh' = Tail(connCh), Becomes(Head(connCh), f)
  PROVE  /\ Head(connCh) \in Conns /\ fate[Head(connCh)] = "waiting"
         /\ connCh' \in Seq(Conns) /\ Len(connCh') <= BufferSize
         /\ fate' \in [Conns -> {"outside", "waiting", "accepted", "closed", "refused"}]
         /\ WaitingIsQueued'
<1>1. connCh \in Seq(Conns) /\ Len(connCh) \in Nat /\ Len(connCh) <= BufferSize
      /\ fate \in [Conns -> {"outside", "waiting", "accepted", "closed", "refused"}]
  BY DEF IInv, TypeOK
<1>2. Len(connCh) > 0 /\ 1 \in 1 .. Len(connCh) /\ Head(connCh) = connCh[1]
  BY <1>1
<1>3. Head(connCh) \in Conns
  BY <1>1, <1>2
<1>4. fate[Head(connCh)] = "waiting"
  BY <1>2, <1>3 DEF IInv, WaitingIsQueued
<1>5. /\ connCh' \in Seq(Conns) /\ Len(connCh') = Len(connCh) - 1
      /\ \A i \in 1 .. Len(connCh') : connCh'[i] = connCh[i + 1]
  BY <1>1
<1>6. Len(connCh') <= BufferSize
  BY <1>1, <1>5, BufferAssumption
<1>7. fate' = [fate EXCEPT ![Head(connCh)] = f]
  BY DEF Becomes
<1>8. fate' \in [Conns -> {"outside", "waiting", "accepted", "closed", "refused"}]
  BY <1>1, <1>7
<1>9. \A i, j \in 1 .. Len(connCh') : connCh'[i] = connCh'[j] => i = j
  <2> SUFFICES ASSUME NEW i \in 1 .. Len(connCh'), NEW j \in 1 .. Len(connCh'),
                      connCh'[i] = connCh'[j]
               PROVE  i = j
    OBVIOUS
  <2>1. i + 1 \in 1 .. Len(connCh) /\ j + 1 \in 1 .. Len(connCh)
    BY <1>1, <1>5
  <2>2. connCh[i + 1] = connCh[j + 1]
    BY <1>5
  <2>3. i + 1 = j + 1
    BY <2>1, <2>2 DEF IInv, WaitingIsQueued
  <2> QED
    BY <2>3
<1>10. ASSUME NEW c \in Conns
       PROVE  fate'[c] = "waiting" <=> \E i \in 1 .. Len(connCh') : connCh'[i] = c
  <2>1. CASE c = Head(connCh)
    <3>1. fate'[c] # "waiting"
      BY <1>1, <1>7, <2>1
    <3>2. \A i \in 1 .. Len(connCh') : connCh'[i] # c
      <4> SUFFICES ASSUME NEW i \in 1 .. Len(connCh'), connCh'[i] = c PROVE FALSE
        OBVIOUS
      <4>1. i + 1 \in 1 .. Len(connCh) /\ connCh[i + 1] = connCh[1]
        BY <1>1, <1>2, <1>5, <2>1
      <4>2. i + 1 = 1
        BY <1>2, <4>1 DEF IInv, WaitingIsQueued
      <4> QED
        BY <4>2
    <3> QED
      BY <3>1, <3>2
  <2>2. CASE c # Head(connCh)
    <3>1. fate'[c] = fate[c]
      BY <1>1, <1>7, <2>2
    <3>2. fate[c] = "waiting" <=> \E i \in 1 .. Len(connCh) : connCh[i] = c
      BY DEF IInv, WaitingIsQueued
    <3>3. ASSUME NEW i \in 1 .. Len(connCh), connCh[i] = c
          PROVE  \E j \in 1 .. Len(connCh') : connCh'[j] = c
      <4>1. i # 1
        BY <1>2, <2>2, <3>3
      <4>2. i - 1 \in 1 .. Len(connCh') /\ (i - 1) + 1 = i
        BY <1>1, <1>5, <4>1
      <4> QED
        BY <1>5, <3>3, <4>2
    <3>4. ASSUME NEW j \in 1 .. Len(connCh'), connCh'[j] = c
          PROVE  \E i \in 1 .. Len(connCh) : connCh[i] = c
      <4>1. j + 1 \in 1 .. Len(connCh) /\ connCh[j + 1] = c
        BY <1>1, <1>5, <3>4
      <4> QED
        BY <4>1
    <3> QED
      BY <3>1, <3>2, <3>3, <3>4
  <2> QED
    BY <2>1, <2>2
<1> QED
  BY <1>3, <1>4, <1>5, <1>6, <1>8, <1>9, <1>10 DEF WaitingIsQueued

\* Putting a connection from outside into the channel keeps them in step too.
LEMMA EnqueueStep ==
  ASSUME IInv, NEW c \in Conns, EnqueueSent(c)
  PROVE  IInv' /\ ~closed /\ Becomes(c, "waiting")
<1>1. ~closed /\ ~sealed /\ fate[c] = "outside"
  BY DEF EnqueueSent, Open, IInv, InOrder
<1>2. connCh' = Append(connCh, c) /\ fate' = [fate EXCEPT ![c] = "waiting"]
      /\ UNCHANGED <<sealed, done, closed, closer, acceptor>>
  BY <1>1 DEF EnqueueSent, Becomes
<1>3. connCh \in Seq(Conns) /\ Len(connCh) < BufferSize
      /\ fate \in [Conns -> {"outside", "waiting", "accepted", "closed", "refused"}]
  BY DEF EnqueueSent, IInv, TypeOK
<1>4. /\ connCh' \in Seq(Conns) /\ Len(connCh') = Len(connCh) + 1
      /\ \A i \in 1 .. Len(connCh) : connCh'[i] = connCh[i]
      /\ connCh'[Len(connCh) + 1] = c
  BY <1>2, <1>3
<1>5. TypeOK'
  BY <1>2, <1>3, <1>4, BufferAssumption DEF IInv, TypeOK
<1>6. \A i \in 1 .. Len(connCh) : connCh[i] # c
  BY <1>1 DEF IInv, WaitingIsQueued
<1>7. \A i, j \in 1 .. Len(connCh') : connCh'[i] = connCh'[j] => i = j
  <2> SUFFICES ASSUME NEW i \in 1 .. Len(connCh'), NEW j \in 1 .. Len(connCh'),
                      connCh'[i] = connCh'[j]
               PROVE  i = j
    OBVIOUS
  <2>1. i \in 1 .. Len(connCh) \/ i = Len(connCh) + 1
    BY <1>3, <1>4
  <2>2. j \in 1 .. Len(connCh) \/ j = Len(connCh) + 1
    BY <1>3, <1>4
  <2> QED
    BY <2>1, <2>2, <1>4, <1>6 DEF IInv, WaitingIsQueued
<1>8. ASSUME NEW d \in Conns
      PROVE  fate'[d] = "waiting" <=> \E i \in 1 .. Len(connCh') : connCh'[i] = d
  <2>1. Len(connCh) + 1 \in 1 .. Len(connCh')
    BY <1>3, <1>4
  <2>2. \A i \in 1 .. Len(connCh) : i \in 1 .. Len(connCh')
    BY <1>3, <1>4
  <2>3. \A i \in 1 .. Len(connCh') : i \in 1 .. Len(connCh) \/ i = Len(connCh) + 1
    BY <1>3, <1>4
  <2>4. CASE d = c
    BY <1>2, <1>3, <1>4, <2>1, <2>4
  <2>5. CASE d # c
    <3>1. fate'[d] = fate[d]
      BY <1>2, <1>3, <2>5
    <3>2. fate[d] = "waiting" <=> \E i \in 1 .. Len(connCh) : connCh[i] = d
      BY DEF IInv, WaitingIsQueued
    <3> QED
      BY <3>1, <3>2, <1>4, <2>2, <2>3, <2>5
  <2> QED
    BY <2>4, <2>5
<1>9. InOrder'
  BY <1>1, <1>2 DEF IInv, InOrder
<1> QED
  BY <1>1, <1>2, <1>5, <1>7, <1>8, <1>9 DEF IInv, WaitingIsQueued, Becomes

\* At the start the channel is empty and nobody waits.
LEMMA InductiveInit == Init => IInv
<1> SUFFICES ASSUME Init PROVE IInv
  OBVIOUS
<1>1. connCh = <<>> /\ connCh \in Seq(Conns) /\ Len(connCh) = 0
  BY DEF Init
<1>2. /\ sealed = FALSE /\ done = FALSE /\ closed = FALSE /\ closer = "none"
      /\ acceptor \in [Acceptors -> {"accepting", "stopped"}]
      /\ fate \in [Conns -> {"outside", "waiting", "accepted", "closed", "refused"}]
      /\ \A c \in Conns : fate[c] # "waiting"
  BY DEF Init
<1>3. TypeOK
  <2>1. Len(connCh) <= BufferSize
    BY <1>1, BufferAssumption
  <2>2. sealed \in BOOLEAN /\ done \in BOOLEAN /\ closed \in BOOLEAN
    BY <1>2
  <2>3. closer \in {"none", "marked", "draining", "returned"}
    BY <1>2
  <2> QED
    BY <1>1, <1>2, <2>1, <2>2, <2>3, Zenon DEF TypeOK
<1>4. InOrder
  BY <1>1, <1>2 DEF InOrder
<1>5. 1 .. Len(connCh) = {}
  BY <1>1
<1>6. WaitingIsQueued
  BY <1>2, <1>5 DEF WaitingIsQueued
<1> QED
  BY <1>3, <1>4, <1>6 DEF IInv

\* Every step keeps the inductive invariant, and is a step of Handoff or none.
LEMMA InductiveStep == IInv /\ [Next]_vars => IInv' /\ [H!Next]_(H!vars)
<1> SUFFICES ASSUME IInv, [Next]_vars PROVE IInv' /\ [H!Next]_(H!vars)
  OBVIOUS
<1> USE DEF H!Next, H!vars
<1>1. ASSUME NEW c \in Conns, EnqueueSent(c) PROVE IInv' /\ H!Take(c)
  <2>1. fate[c] = "outside" /\ closed' = closed
    BY <1>1 DEF EnqueueSent
  <2>2. IInv' /\ ~closed /\ Becomes(c, "waiting")
    BY <1>1, EnqueueStep
  <2> QED
    BY <2>1, <2>2 DEF H!Take, H!Becomes, Becomes
<1>2. ASSUME NEW c \in Conns, EnqueueRefused(c) PROVE IInv' /\ H!Refuse(c)
  <2>1. /\ fate[c] = "outside" /\ fate' = [fate EXCEPT ![c] = "refused"]
        /\ UNCHANGED <<connCh, sealed, done, closed, closer, acceptor>>
    BY <1>2 DEF EnqueueRefused, Becomes
  <2>2. TypeOK'
    BY <2>1 DEF IInv, TypeOK
  <2>3. \A d \in Conns : fate'[d] = "waiting" <=> fate[d] = "waiting"
    BY <2>1 DEF IInv, TypeOK
  <2>4. WaitingIsQueued'
    BY <2>1, <2>3 DEF IInv, WaitingIsQueued
  <2>5. InOrder'
    BY <2>1 DEF IInv, InOrder
  <2> QED
    BY <2>1, <2>2, <2>4, <2>5 DEF IInv, H!Refuse, H!Becomes
<1>3. ASSUME NEW a \in Acceptors, AcceptConn(a)
      PROVE  IInv' /\ H!Accept(Head(connCh)) /\ Head(connCh) \in Conns
  <2>1. /\ connCh # <<>> /\ connCh' = Tail(connCh) /\ Becomes(Head(connCh), "accepted")
        /\ UNCHANGED <<sealed, done, closed, closer, acceptor>>
    BY <1>3 DEF AcceptConn
  <2>2. /\ Head(connCh) \in Conns /\ fate[Head(connCh)] = "waiting"
        /\ connCh' \in Seq(Conns) /\ Len(connCh') <= BufferSize
        /\ fate' \in [Conns -> {"outside", "waiting", "accepted", "closed", "refused"}]
        /\ WaitingIsQueued'
    BY <2>1, Dequeue
  <2>3. TypeOK' /\ InOrder'
    BY <2>1, <2>2 DEF IInv, TypeOK, InOrder
  <2> QED
    BY <2>1, <2>2, <2>3 DEF IInv, H!Accept, H!Becomes, Becomes
<1>4. ASSUME NEW a \in Acceptors, AcceptFailed(a) PROVE IInv' /\ UNCHANGED H!vars
  <2>1. acceptor' = [acceptor EXCEPT ![a] = "stopped"]
        /\ UNCHANGED <<connCh, sealed, done, closed, closer, fate>>
    BY <1>4 DEF AcceptFailed
  <2>2. TypeOK'
    BY <2>1 DEF IInv, TypeOK
  <2> QED
    BY <2>1, <2>2 DEF IInv, InOrder, WaitingIsQueued
<1>5. CASE Close
  BY <1>5 DEF Close, IInv, TypeOK, InOrder, WaitingIsQueued, H!Shut
<1>6. CASE CloseDone
  BY <1>6 DEF CloseDone, IInv, TypeOK, InOrder, WaitingIsQueued
<1>7. CASE Drain
  <2>1. /\ connCh # <<>> /\ connCh' = Tail(connCh) /\ Becomes(Head(connCh), "closed")
        /\ closer = "draining" /\ UNCHANGED <<sealed, done, closed, closer, acceptor>>
    BY <1>7 DEF Drain, Dropped
  <2>2. /\ Head(connCh) \in Conns /\ fate[Head(connCh)] = "waiting"
        /\ connCh' \in Seq(Conns) /\ Len(connCh') <= BufferSize
        /\ fate' \in [Conns -> {"outside", "waiting", "accepted", "closed", "refused"}]
        /\ WaitingIsQueued'
    BY <2>1, Dequeue
  <2>3. TypeOK' /\ InOrder'
    BY <2>1, <2>2 DEF IInv, TypeOK, InOrder
  <2>4. H!Drop(Head(connCh))
    BY <2>1, <2>2 DEF IInv, InOrder, H!Drop, H!Becomes, Becomes
  <2> QED
    BY <2>2, <2>3, <2>4 DEF IInv
<1>8. CASE Seal
  BY <1>8 DEF Seal, Drained, IInv, TypeOK, InOrder, WaitingIsQueued
<1>9. CASE UNCHANGED vars
  BY <1>9 DEF vars, IInv, TypeOK, InOrder, WaitingIsQueued
<1> QED
  BY <1>1, <1>2, <1>3, <1>4, <1>5, <1>6, <1>7, <1>8, <1>9 DEF Next, Closing

\* Enqueue never sends on the channel that Close has closed, in no interleaving
\* with Accept and Close.
THEOREM NeverPanics == Spec => []TypeOK
<1>1. IInv => TypeOK
  BY DEF IInv
<1>2. IInv /\ [Next]_vars => IInv'
  BY InductiveStep
<1> QED
  BY <1>1, <1>2, InductiveInit, PTL DEF Spec

\* The listener's steps are Handoff's: a connection is refused at once or comes
\* to one end, and is closed only when the listener is.
THEOREM HandsOff == Spec => H!Init /\ [][H!Next]_(H!vars)
<1>1. Init => H!Init
  BY DEF Init, H!Init
<1>2. IInv /\ [Next]_vars => IInv'
  BY InductiveStep
<1>3. IInv /\ [Next]_vars => [H!Next]_(H!vars)
  BY InductiveStep
<1> QED
  BY <1>1, <1>2, <1>3, InductiveInit, PTL DEF Spec

=============================================================================
