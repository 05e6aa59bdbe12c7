---------------------------- MODULE WsConnProofs ----------------------------
(***************************************************************************)
(* That a websocket is a byte stream each way, for any number of bytes,    *)
(* any sizes of reads and writes and any capacity of the network: what is  *)
(* read is what was written, in order, none twice and none left out, and   *)
(* a Read fails only when the connection is over or what came has no byte. *)
(***************************************************************************)
EXTENDS WsConn, SequenceTheorems, TLAPS

Byte == Nat \ {0}

Written == [type : {"binary"}, data : Seq(Byte)]

TypeInv ==
  /\ bytes \in [Ends -> Nat] /\ flushed \in [Ends -> Nat]
  /\ writing \in [Ends -> Seq(Written)]
  /\ wire \in [Ends -> Seq(Written \cup {Text})]
  /\ readBuffer \in [Ends -> Seq(Byte)]
  /\ got \in [Ends -> Seq(Byte)]
  /\ told \in [Ends -> BOOLEAN] /\ odd \in [Ends -> BOOLEAN]
  /\ closing \in [Ends -> BOOLEAN] /\ closed \in [Ends -> BOOLEAN]
  /\ expired \subseteq Deadlines /\ cut \in BOOLEAN /\ done \in BOOLEAN
  /\ odds \in 0 .. MaxOdd

\* The bytes that follow the first `from`.
Continues(data, from) == \A j \in 1 .. Len(data) : data[j] = from + j

\* A Write at e can still succeed.
CanWrite(e) == ~Dead(e) /\ e \notin expired /\ ~closed[Peer(e)]

\* One Write at a time holds writeMutex, and as long as one can succeed none of the
\* earlier ones has failed: its message has the bytes that the network has not got.
Outgoing(e) ==
  /\ Len(writing[e]) <= 1
  /\ CanWrite(e) =>
       /\ writing[e] = <<>> => bytes[e] = flushed[e]
       /\ writing[e] # <<>> =>
            /\ bytes[e] = flushed[e] + Len(writing[e][1].data)
            /\ Continues(writing[e][1].data, flushed[e])

\* What Reads have returned, and what is left of the message at hand.
Arrived(e) ==
  /\ Continues(got[e], 0)
  /\ Continues(readBuffer[e], Len(got[e]))

Size(m) == IF Accepts(m) THEN Len(m.data) ELSE 0

\* The messages on their way continue what has arrived: pos[i] bytes come before the
\* i-th.  They go up to what the network has got, unless they were dropped.
OnTheWay(e) ==
  \E pos \in [1 .. Len(wire[e]) + 1 -> 0 .. flushed[Peer(e)]] :
    /\ pos[1] = Len(got[e]) + Len(readBuffer[e])
    /\ \A i \in 1 .. Len(wire[e]) :
         /\ pos[i + 1] = pos[i] + Size(wire[e][i])
         /\ Accepts(wire[e][i]) => Continues(wire[e][i].data, pos[i])
    /\ ~Dead(e) => pos[Len(wire[e]) + 1] = flushed[Peer(e)]

\* A message without a byte for the reader was noted as odd.
OddNoted(e) ==
  \A i \in 1 .. Len(wire[e]) : Size(wire[e][i]) = 0 => odd[e]

StreamInv ==
  \A e \in Ends : Outgoing(e) /\ Arrived(e) /\ OnTheWay(e) /\ OddNoted(e)

IInv == TypeInv /\ StreamInv

\* The byte stream to e.
Stream(e) == INSTANCE ByteStream WITH
  sent <- flushed[Peer(e)], got <- got[e], over <- Over, odd <- odd[e], told <- told[e]

-----------------------------------------------------------------------------
(* Types.                                                                  *)

\* At the start nothing has been written.
LEMMA TypeInit == Init => TypeInv
<1> SUFFICES ASSUME Init PROVE TypeInv
  OBVIOUS
<1>1. <<>> \in Seq(Byte) /\ <<>> \in Seq(Written) /\ <<>> \in Seq(Written \cup {Text})
  OBVIOUS
<1>2. /\ bytes \in [Ends -> Nat] /\ flushed \in [Ends -> Nat]
      /\ expired \subseteq Deadlines /\ odds \in 0 .. MaxOdd
  BY BoundAssumption DEF Init
<1>3. /\ told \in [Ends -> BOOLEAN] /\ odd \in [Ends -> BOOLEAN]
      /\ closing \in [Ends -> BOOLEAN] /\ closed \in [Ends -> BOOLEAN]
      /\ cut \in BOOLEAN /\ done \in BOOLEAN
  BY DEF Init
<1> QED
  BY <1>1, <1>2, <1>3 DEF Init, TypeInv

\* The message of a Write.
LEMMA WrittenType ==
  ASSUME NEW from \in Nat, NEW size \in Nat
  PROVE  LET m == Binary([i \in 1 .. size |-> from + i])
         IN  /\ m \in Written /\ m.type = "binary" /\ Len(m.data) = size
             /\ Continues(m.data, from)
<1>1. [i \in 1 .. size |-> from + i] \in Seq(Byte)
  BY DEF Byte
<1> QED
  BY <1>1 DEF Binary, Written, Continues

\* Taking the only message out of a list.
LEMMA RemoveOnly ==
  ASSUME NEW S, NEW s \in Seq(S), NEW i \in 1 .. Len(s)
  PROVE  /\ RemoveAt(s, i) \in Seq(S)
         /\ Len(s) <= 1 => RemoveAt(s, i) = <<>>
<1>1. SubSeq(s, 1, i - 1) \in Seq(S) /\ SubSeq(s, i + 1, Len(s)) \in Seq(S)
  BY SubSeqProperties
<1>2. ASSUME Len(s) <= 1 PROVE RemoveAt(s, i) = <<>>
  <2>1. i = 1 /\ Len(s) = 1
    <3>1. Len(s) \in Nat
      OBVIOUS
    <3> QED
      BY <1>2, <3>1
  <2>2. SubSeq(s, 1, i - 1) = <<>> /\ SubSeq(s, i + 1, Len(s)) = <<>>
    BY <2>1, SubSeqEmpty
  <2> QED
    BY <2>2 DEF RemoveAt
<1> QED
  BY <1>1, <1>2 DEF RemoveAt

\* What a Read returns of data, and what it leaves.
LEMMA ReadParts ==
  ASSUME NEW data \in Seq(Byte), NEW size \in 1 .. MaxChunk
  PROVE  LET k == Least(size, Len(data))
             returned == SubSeq(data, 1, k)
         IN  /\ k \in 0 .. Len(data) /\ (data # <<>> => k > 0)
             /\ returned \in Seq(Byte) /\ Len(returned) = k
             /\ \A j \in 1 .. k : returned[j] = data[j]
             /\ Left(data, size) \in Seq(Byte) /\ Len(Left(data, size)) = Len(data) - k
             /\ \A j \in 1 .. Len(data) - k : Left(data, size)[j] = data[k + j]
<1> DEFINE k == Least(size, Len(data))
<1>1. k \in 0 .. Len(data) /\ (data # <<>> => k > 0) /\ size \in Nat
      /\ (size <= Len(data) => k = size) /\ (size > Len(data) => k = Len(data))
  BY BoundAssumption DEF Least
<1>2. /\ SubSeq(data, 1, k) \in Seq(Byte) /\ Len(SubSeq(data, 1, k)) = k
      /\ \A j \in 1 .. k : SubSeq(data, 1, k)[j] = data[j]
  BY <1>1, SubSeqProperties
<1>3. /\ Left(data, size) \in Seq(Byte)
      /\ Len(Left(data, size)) = Len(data) - k
      /\ \A j \in 1 .. Len(data) - k : Left(data, size)[j] = data[k + j]
  <2>1. /\ Left(data, size) \in Seq(Byte)
        /\ Len(Left(data, size)) = IF size + 1 <= Len(data) THEN Len(data) - (size + 1) + 1 ELSE 0
        /\ \A j \in 1 .. Len(data) - (size + 1) + 1 : Left(data, size)[j] = data[size + 1 + j - 1]
    BY <1>1, SubSeqProperties DEF Left
  <2>2. CASE size <= Len(data)
    BY <1>1, <2>1, <2>2
  <2>3. CASE size > Len(data)
    BY <1>1, <2>1, <2>3
  <2> QED
    BY <1>1, <2>2, <2>3
<1> QED
  BY <1>1, <1>2, <1>3

\* Every step keeps the types.
LEMMA TypeStep == TypeInv /\ [Next]_vars => TypeInv'
<1> SUFFICES ASSUME TypeInv, [Next]_vars PROVE TypeInv'
  OBVIOUS
<1> USE DEF TypeInv
<1>1. ASSUME NEW e \in Ends, NEW size \in 0 .. MaxChunk, Write(e, size) PROVE TypeInv'
  <2> DEFINE m == Binary([i \in 1 .. size |-> bytes[e] + i])
  <2>1. size \in Nat /\ bytes[e] \in Nat
    BY BoundAssumption
  <2>2. m \in Written
    BY <2>1, WrittenType
  <2>3. writing' = [writing EXCEPT ![e] = Append(@, m)] /\ bytes' = [bytes EXCEPT ![e] = @ + size]
        /\ UNCHANGED <<flushed, readVars, closeVars, wire, odd>>
    BY <1>1 DEF Write
  <2>4. odds' \in 0 .. MaxOdd
    BY <1>1, BoundAssumption DEF Write, Emptiness
  <2> HIDE DEF m
  <2>5. writing' \in [Ends -> Seq(Written)]
    <3>1. Append(writing[e], m) \in Seq(Written)
      BY <2>2, AppendProperties
    <3> QED
      BY <2>3, <3>1
  <2>6. bytes' \in [Ends -> Nat]
    BY <2>1, <2>3
  <2> QED
    BY <2>3, <2>4, <2>5, <2>6 DEF readVars, closeVars
<1>2. ASSUME NEW e \in Ends, NEW i \in 1 .. Len(writing[e]), WriteDone(e, i) PROVE TypeInv'
  <2>0. Peer(e) \in Ends
    BY DEF Peer, Ends
  <2>1. writing[e][i] \in Written /\ Len(writing[e][i].data) \in Nat
    <3>1. writing[e][i] \in Written
      BY ElementOfSeq
    <3> QED
      BY <3>1 DEF Written
  <2>2. RemoveAt(writing[e], i) \in Seq(Written)
    BY RemoveOnly
  <2>3. Append(wire[Peer(e)], writing[e][i]) \in Seq(Written \cup {Text})
    BY <2>0, <2>1, AppendProperties
  <2>4. writing' \in [Ends -> Seq(Written)]
    BY <1>2, <2>2 DEF WriteDone
  <2>5. wire' \in [Ends -> Seq(Written \cup {Text})]
    BY <1>2, <2>3 DEF WriteDone
  <2>6. flushed' \in [Ends -> Nat]
    BY <1>2, <2>1 DEF WriteDone
  <2>7. odd' \in [Ends -> BOOLEAN]
    BY <1>2 DEF WriteDone
  <2> QED
    BY <1>2, <2>4, <2>5, <2>6, <2>7 DEF WriteDone, readVars, closeVars
<1>3. ASSUME NEW e \in Ends, NEW i \in 1 .. Len(writing[e]), WriteFailed(e, i) PROVE TypeInv'
  <2>1. RemoveAt(writing[e], i) \in Seq(Written)
    BY RemoveOnly
  <2> QED
    BY <1>3, <2>1 DEF WriteFailed, readVars, closeVars
<1>4. ASSUME NEW e \in Ends, NEW data \in Seq(Byte), Returns(e, data),
             UNCHANGED <<writeVars, closeVars, odd, odds>>, wire' \in [Ends -> Seq(Written \cup {Text})]
      PROVE  TypeInv'
  <2>1. PICK size \in 1 .. MaxChunk :
          /\ got' = [got EXCEPT ![e] = @ \o SubSeq(data, 1, Least(size, Len(data)))]
          /\ readBuffer' = [readBuffer EXCEPT ![e] = Left(data, size)]
    BY <1>4 DEF Returns
  <2>2. SubSeq(data, 1, Least(size, Len(data))) \in Seq(Byte) /\ Left(data, size) \in Seq(Byte)
    BY ReadParts
  <2>3. got[e] \o SubSeq(data, 1, Least(size, Len(data))) \in Seq(Byte)
    BY <2>2, ConcatProperties
  <2>4. got' \in [Ends -> Seq(Byte)] /\ readBuffer' \in [Ends -> Seq(Byte)]
    BY <2>1, <2>2, <2>3
  <2>5. told' \in [Ends -> BOOLEAN]
    BY <1>4 DEF Returns
  <2> QED
    BY <1>4, <2>4, <2>5 DEF writeVars, closeVars
<1>5. ASSUME NEW e \in Ends, ReadBuffered(e) PROVE TypeInv'
  BY <1>4, <1>5 DEF ReadBuffered
<1>6. ASSUME NEW e \in Ends, ReadMessage(e) PROVE TypeInv'
  <2>1. wire[e] \in Seq(Written \cup {Text}) /\ wire[e] # <<>>
    BY <1>6 DEF ReadMessage
  <2>2. Head(wire[e]) \in Written \cup {Text} /\ Tail(wire[e]) \in Seq(Written \cup {Text})
    BY <2>1, HeadTailProperties
  <2>3. (IF Accepts(Head(wire[e])) THEN Head(wire[e]).data ELSE <<>>) \in Seq(Byte)
    BY <2>2 DEF Accepts, Written, Text
  <2>4. wire' \in [Ends -> Seq(Written \cup {Text})]
    BY <1>6, <2>2 DEF ReadMessage
  <2> QED
    BY <1>4, <1>6, <2>3, <2>4 DEF ReadMessage
<1>7. ASSUME NEW e \in Ends, ReadFailed(e) PROVE TypeInv'
  BY <1>7 DEF ReadFailed, writeVars, closeVars
<1>8. ASSUME NEW e \in Ends, Close(e) \/ CloseSocket(e) PROVE TypeInv'
  <2>1. <<>> \in Seq(Written \cup {Text})
    OBVIOUS
  <2> QED
    BY <1>8, <2>1 DEF Close, CloseSocket, writeVars, readVars
<1>9. ASSUME NEW e \in Ends, SendText(e) PROVE TypeInv'
  <2>1. Append(wire[e], Text) \in Seq(Written \cup {Text})
    BY AppendProperties
  <2>2. wire' \in [Ends -> Seq(Written \cup {Text})]
    BY <1>9, <2>1 DEF SendText
  <2>3. odd' \in [Ends -> BOOLEAN] /\ odds' \in 0 .. MaxOdd
    BY <1>9, BoundAssumption DEF SendText
  <2> QED
    BY <1>9, <2>2, <2>3 DEF SendText, writeVars, readVars, closeVars
<1>10. ASSUME NEW e \in Ends, Expire(e) PROVE TypeInv'
  BY <1>10 DEF Expire, writeVars, readVars
<1>11. CASE CloseDone \/ Cut
  <2>1. <<>> \in Seq(Written \cup {Text})
    OBVIOUS
  <2> QED
    BY <1>11, <2>1 DEF CloseDone, Cut, writeVars, readVars
<1>12. CASE UNCHANGED vars
  BY <1>12 DEF vars, writeVars, readVars, closeVars
<1> QED
  BY <1>1, <1>2, <1>3, <1>5, <1>6, <1>7, <1>8, <1>9, <1>10, <1>11, <1>12
  DEF Next, WriteEnds, ReadEnds

\* The types say that no byte is read but one that a Write has sent.
THEOREM TypeCorrect == Spec => []TypeOK
<1>1. TypeInv => TypeOK
  <2>1. Byte \subseteq Nat /\ Written \cup {Text} \subseteq Message
    <3>1. Text \in Message
      BY DEF Text, Message
    <3>2. Seq(Byte) \subseteq Seq(Nat)
      BY SeqMonotonic DEF Byte
    <3> QED
      BY <3>1, <3>2 DEF Byte, Written, Message
  <2>2. Seq(Written) \subseteq Seq(Message) /\ Seq(Written \cup {Text}) \subseteq Seq(Message)
    BY <2>1, SeqMonotonic
  <2> QED
    BY <2>2 DEF TypeInv, TypeOK, Byte
<1> QED
  BY <1>1, TypeInit, TypeStep, PTL DEF Spec

-----------------------------------------------------------------------------
(* The stream to each end.                                                 *)

ReaderInv(e) == Arrived(e) /\ OnTheWay(e) /\ OddNoted(e)

\* The other end is one, and its other end is this one.
LEMMA Peers ==
  ASSUME NEW e \in Ends
  PROVE  Peer(e) \in Ends /\ Peer(e) # e /\ Peer(Peer(e)) = e
  BY DEF Ends, Peer

\* A writer stays as it is while nothing of it changes, also when its connection ends.
LEMMA WriterStays ==
  ASSUME NEW e \in Ends, Outgoing(e), CanWrite(e)' => CanWrite(e),
         writing'[e] = writing[e], bytes'[e] = bytes[e], flushed'[e] = flushed[e]
  PROVE  Outgoing(e)'
  BY DEF Outgoing, Continues

\* So does a reader.
LEMMA ReaderStays ==
  ASSUME NEW e \in Ends, ReaderInv(e), Dead(e) => Dead(e)',
         wire'[e] = wire[e], readBuffer'[e] = readBuffer[e], got'[e] = got[e],
         flushed'[Peer(e)] = flushed[Peer(e)], odd[e] => odd'[e]
  PROVE  ReaderInv(e)'
<1>1. Arrived(e)' /\ OddNoted(e)'
  BY DEF ReaderInv, Arrived, OddNoted, Continues
<1>2. OnTheWay(e)'
  <2>1. PICK pos \in [1 .. Len(wire[e]) + 1 -> 0 .. flushed[Peer(e)]] :
          /\ pos[1] = Len(got[e]) + Len(readBuffer[e])
          /\ \A i \in 1 .. Len(wire[e]) :
               /\ pos[i + 1] = pos[i] + Size(wire[e][i])
               /\ Accepts(wire[e][i]) => Continues(wire[e][i].data, pos[i])
          /\ ~Dead(e) => pos[Len(wire[e]) + 1] = flushed[Peer(e)]
    BY DEF ReaderInv, OnTheWay
  <2>2. pos \in [1 .. Len(wire'[e]) + 1 -> 0 .. flushed'[Peer(e)]]
    OBVIOUS
  <2>3. /\ pos[1] = Len(got'[e]) + Len(readBuffer'[e])
        /\ Dead(e)' \/ pos[Len(wire'[e]) + 1] = flushed'[Peer(e)]
    BY <2>1
  <2>4. \A i \in 1 .. Len(wire'[e]) :
          /\ pos[i + 1] = pos[i] + Size(wire'[e][i])
          /\ Accepts(wire'[e][i]) => Continues(wire'[e][i].data, pos[i])
    BY <2>1
  <2> QED
    BY <2>2, <2>3, <2>4 DEF OnTheWay, Size, Accepts, Continues
<1> QED
  BY <1>1, <1>2 DEF ReaderInv

\* What was on its way is dropped when the connection ends.
LEMMA ReaderCutOff ==
  ASSUME TypeInv, TypeInv', NEW e \in Ends, ReaderInv(e), Dead(e)', wire'[e] = <<>>,
         readBuffer'[e] = readBuffer[e], got'[e] = got[e],
         flushed'[Peer(e)] = flushed[Peer(e)]
  PROVE  ReaderInv(e)'
<1>1. Arrived(e)' /\ OddNoted(e)'
  BY DEF ReaderInv, Arrived, OddNoted, Continues
<1>2. OnTheWay(e)'
  <2>1. PICK pos \in [1 .. Len(wire[e]) + 1 -> 0 .. flushed[Peer(e)]] :
          pos[1] = Len(got[e]) + Len(readBuffer[e])
    BY DEF ReaderInv, OnTheWay
  <2>2. Len(wire[e]) \in Nat /\ Len(wire'[e]) = 0 /\ Len(wire'[e]) + 1 = 1
    BY DEF TypeInv
  <2>3. pos[1] \in 0 .. flushed[Peer(e)]
    BY <2>2
  <2> DEFINE new == [k \in 1 .. 1 |-> pos[1]]
  <2>4. new \in [1 .. 1 -> 0 .. flushed'[Peer(e)]] /\ new[1] = pos[1]
    BY <2>3
  <2> HIDE DEF new
  <2>5. new \in [1 .. Len(wire'[e]) + 1 -> 0 .. flushed'[Peer(e)]]
    BY <2>2, <2>4
  <2>6. new[1] = Len(got'[e]) + Len(readBuffer'[e])
    BY <2>1, <2>4
  <2>7. \A i \in 1 .. Len(wire'[e]) : FALSE
    BY <2>2
  <2> QED
    BY <2>5, <2>6, <2>7 DEF OnTheWay
<1> QED
  BY <1>1, <1>2 DEF ReaderInv

\* A message is sent on its way.
LEMMA ReaderSent ==
  ASSUME TypeInv, NEW e \in Ends, ReaderInv(e), ~Dead(e), NEW m \in Written \cup {Text},
         wire'[e] = Append(wire[e], m), readBuffer'[e] = readBuffer[e], got'[e] = got[e],
         flushed'[Peer(e)] = flushed[Peer(e)] + Size(m),
         Accepts(m) => Continues(m.data, flushed[Peer(e)]),
         odd[e] => odd'[e], Size(m) = 0 => odd'[e]
  PROVE  ReaderInv(e)'
<1> DEFINE n == Len(wire[e])
           w == Peer(e)
<1>1. n \in Nat /\ Len(wire'[e]) = n + 1 /\ wire'[e][n + 1] = m
      /\ \A i \in 1 .. n : wire'[e][i] = wire[e][i]
  BY AppendProperties DEF TypeInv
<1>2. Size(m) \in Nat /\ flushed[w] \in Nat
  BY Peers DEF TypeInv, Size, Accepts, Written
<1>3. Arrived(e)'
  BY DEF ReaderInv, Arrived, Continues
<1>4. OddNoted(e)'
  <2> SUFFICES ASSUME NEW i \in 1 .. n + 1, Size(wire'[e][i]) = 0 PROVE odd'[e]
    BY <1>1 DEF OddNoted, Size, Accepts
  <2> QED
    BY <1>1 DEF ReaderInv, OddNoted
<1>5. OnTheWay(e)'
  <2>1. PICK pos \in [1 .. n + 1 -> 0 .. flushed[w]] :
          /\ pos[1] = Len(got[e]) + Len(readBuffer[e])
          /\ \A i \in 1 .. n :
               /\ pos[i + 1] = pos[i] + Size(wire[e][i])
               /\ Accepts(wire[e][i]) => Continues(wire[e][i].data, pos[i])
          /\ pos[n + 1] = flushed[w]
    BY DEF ReaderInv, OnTheWay
  <2> DEFINE new == [k \in 1 .. n + 2 |-> IF k = n + 2 THEN flushed'[w] ELSE pos[k]]
  <2>2. new \in [1 .. n + 2 -> 0 .. flushed'[w]]
    BY <1>1, <1>2, <2>1
  <2>3. /\ new[n + 2] = flushed'[w] /\ \A k \in 1 .. n + 1 : new[k] = pos[k]
    BY <1>1
  <2> HIDE DEF new
  <2>4. ASSUME NEW i \in 1 .. n + 1
        PROVE  /\ new[i + 1] = new[i] + Size(wire'[e][i])
               /\ Accepts(wire'[e][i]) => Continues(wire'[e][i].data, new[i])
    <3>1. CASE i = n + 1
      BY <1>1, <2>1, <2>3, <3>1
    <3>2. CASE i # n + 1
      <4>1. i \in 1 .. n /\ i + 1 \in 1 .. n + 1
        BY <1>1, <3>2
      <4> QED
        BY <1>1, <2>1, <2>3, <4>1
    <3> QED
      BY <3>1, <3>2
  <2>5. new[1] = Len(got'[e]) + Len(readBuffer'[e])
    <3>1. 1 \in 1 .. n + 1
      BY <1>1
    <3>2. new[1] = pos[1]
      BY <2>3, <3>1
    <3> QED
      BY <2>1, <3>2
  <2>6. new \in [1 .. Len(wire'[e]) + 1 -> 0 .. flushed'[w]] /\ new[Len(wire'[e]) + 1] = flushed'[w]
    BY <1>1, <2>2, <2>3
  <2>7. \A i \in 1 .. Len(wire'[e]) :
          /\ new[i + 1] = new[i] + Size(wire'[e][i])
          /\ Accepts(wire'[e][i]) => Continues(wire'[e][i].data, new[i])
    BY <1>1, <2>4
  <2> QED
    BY <2>5, <2>6, <2>7 DEF OnTheWay, Size, Accepts, Continues
<1> QED
  BY <1>3, <1>4, <1>5 DEF ReaderInv

\* A Read returns the first of the bytes that come next, and leaves the others.
LEMMA ReturnsNext ==
  ASSUME TypeInv, NEW e \in Ends, NEW data \in Seq(Byte), Returns(e, data),
         Continues(got[e], 0), Continues(data, Len(got[e]))
  PROVE  /\ Arrived(e)'
         /\ Len(got'[e]) \in Nat /\ Len(readBuffer'[e]) \in Nat
         /\ Len(got'[e]) + Len(readBuffer'[e]) = Len(got[e]) + Len(data)
         /\ Len(got'[e]) >= Len(got[e])
         /\ data # <<>> => Len(got'[e]) > Len(got[e])
         /\ \A d \in Ends \ {e} : got'[d] = got[d] /\ readBuffer'[d] = readBuffer[d]
<1>1. PICK size \in 1 .. MaxChunk :
        /\ got' = [got EXCEPT ![e] = @ \o SubSeq(data, 1, Least(size, Len(data)))]
        /\ readBuffer' = [readBuffer EXCEPT ![e] = Left(data, size)]
  BY DEF Returns
<1> DEFINE k == Least(size, Len(data))
           returned == SubSeq(data, 1, k)
<1>2. /\ k \in 0 .. Len(data) /\ (data # <<>> => k > 0)
      /\ returned \in Seq(Byte) /\ Len(returned) = k
      /\ \A j \in 1 .. k : returned[j] = data[j]
      /\ Left(data, size) \in Seq(Byte) /\ Len(Left(data, size)) = Len(data) - k
      /\ \A j \in 1 .. Len(data) - k : Left(data, size)[j] = data[k + j]
  BY ReadParts
<1>3. got'[e] = got[e] \o returned /\ readBuffer'[e] = Left(data, size)
      /\ \A d \in Ends \ {e} : got'[d] = got[d] /\ readBuffer'[d] = readBuffer[d]
  BY <1>1 DEF TypeInv
<1>4. got[e] \in Seq(Byte) /\ Len(got[e]) \in Nat /\ Len(data) \in Nat
  BY DEF TypeInv
<1> HIDE DEF k, returned
<1>5. /\ Len(got'[e]) = Len(got[e]) + k
      /\ \A i \in 1 .. Len(got[e]) + k :
           got'[e][i] = IF i <= Len(got[e]) THEN got[e][i] ELSE returned[i - Len(got[e])]
  <2>1. returned \in Seq(Byte) /\ Len(returned) = k
    BY <1>2
  <2>2. /\ Len(got[e] \o returned) = Len(got[e]) + k
        /\ \A i \in 1 .. Len(got[e]) + k :
             (got[e] \o returned)[i] = IF i <= Len(got[e]) THEN got[e][i] ELSE returned[i - Len(got[e])]
    BY <1>4, <2>1, ConcatProperties
  <2> QED
    BY <1>3, <2>2
<1>6. Continues(got'[e], 0)
  <2> SUFFICES ASSUME NEW i \in 1 .. Len(got[e]) + k PROVE got'[e][i] = 0 + i
    BY <1>5 DEF Continues
  <2>1. CASE i <= Len(got[e])
    <3>1. i \in 1 .. Len(got[e]) /\ got'[e][i] = got[e][i]
      BY <1>2, <1>4, <1>5, <2>1
    <3> QED
      BY <3>1 DEF Continues
  <2>2. CASE i > Len(got[e])
    <3>1. i - Len(got[e]) \in 1 .. k /\ i - Len(got[e]) \in 1 .. Len(data)
      BY <1>2, <1>4, <2>2
    <3>2. got'[e][i] = data[i - Len(got[e])]
      BY <1>2, <1>4, <1>5, <2>2, <3>1
    <3> QED
      BY <1>4, <3>1, <3>2 DEF Continues
  <2> QED
    BY <1>2, <1>4, <2>1, <2>2
<1>7. Continues(readBuffer'[e], Len(got'[e]))
  <2> SUFFICES ASSUME NEW j \in 1 .. Len(data) - k PROVE readBuffer'[e][j] = Len(got[e]) + k + j
    BY <1>2, <1>3, <1>5 DEF Continues
  <2>1. k + j \in 1 .. Len(data)
    BY <1>2, <1>4
  <2> QED
    BY <1>2, <1>3, <1>4, <2>1 DEF Continues
<1>8. /\ Len(got'[e]) = Len(got[e]) + k /\ Len(readBuffer'[e]) = Len(data) - k
      /\ k \in Nat /\ k <= Len(data) /\ (data # <<>> => k > 0)
  BY <1>2, <1>3, <1>4, <1>5
<1>9. Arrived(e)'
  BY <1>6, <1>7 DEF Arrived, Continues
<1>10. /\ Len(got'[e]) \in Nat /\ Len(readBuffer'[e]) \in Nat
       /\ Len(got'[e]) + Len(readBuffer'[e]) = Len(got[e]) + Len(data)
       /\ Len(got'[e]) >= Len(got[e])
       /\ k > 0 => Len(got'[e]) > Len(got[e])
  BY <1>4, <1>8
<1> QED
  BY <1>3, <1>8, <1>9, <1>10

\* What waits for a Read at e, with data at hand that continue what it has got.
LEMMA ReaderReads ==
  ASSUME TypeInv, TypeInv', NEW e \in Ends, NEW data \in Seq(Byte), Returns(e, data),
         Continues(got[e], 0), Continues(data, Len(got[e])),
         Dead(e) => Dead(e)', flushed'[Peer(e)] = flushed[Peer(e)],
         OddNoted(e)',
         NEW pos \in [1 .. Len(wire'[e]) + 1 -> 0 .. flushed[Peer(e)]],
         pos[1] = Len(got[e]) + Len(data),
         \A i \in 1 .. Len(wire'[e]) :
            /\ pos[i + 1] = pos[i] + Size(wire'[e][i])
            /\ Accepts(wire'[e][i]) => Continues(wire'[e][i].data, pos[i]),
         ~Dead(e) => pos[Len(wire'[e]) + 1] = flushed[Peer(e)]
  PROVE  ReaderInv(e)'
<1>1. Arrived(e)' /\ pos[1] = Len(got'[e]) + Len(readBuffer'[e])
  BY ReturnsNext
<1>2. OnTheWay(e)'
  BY <1>1 DEF OnTheWay, Size, Accepts, Continues
<1> QED
  BY <1>1, <1>2 DEF ReaderInv

-----------------------------------------------------------------------------
(* Every step keeps the streams.                                           *)

LEMMA StreamInit == Init => StreamInv
<1> SUFFICES ASSUME Init, NEW e \in Ends PROVE Outgoing(e) /\ ReaderInv(e)
  BY DEF StreamInv, ReaderInv
<1>1. /\ writing[e] = <<>> /\ wire[e] = <<>> /\ readBuffer[e] = <<>> /\ got[e] = <<>>
      /\ bytes[e] = 0 /\ flushed[e] = 0 /\ flushed[Peer(e)] = 0
  BY Peers DEF Init
<1>2. Outgoing(e)
  BY <1>1 DEF Outgoing
<1>3. Arrived(e) /\ OddNoted(e)
  BY <1>1 DEF Arrived, OddNoted, Continues
<1>4. OnTheWay(e)
  <2> DEFINE new == [k \in 1 .. 1 |-> 0]
  <2>1. new \in [1 .. 1 -> 0 .. 0] /\ new[1] = 0
    OBVIOUS
  <2> HIDE DEF new
  <2>2. Len(wire[e]) = 0 /\ Len(wire[e]) + 1 = 1
    BY <1>1
  <2>3. new \in [1 .. Len(wire[e]) + 1 -> 0 .. flushed[Peer(e)]]
    BY <1>1, <2>1, <2>2
  <2>4. new[1] = Len(got[e]) + Len(readBuffer[e]) /\ new[Len(wire[e]) + 1] = flushed[Peer(e)]
    BY <1>1, <2>1, <2>2
  <2>5. \A i \in 1 .. Len(wire[e]) : FALSE
    BY <2>2
  <2> QED
    BY <2>3, <2>4, <2>5 DEF OnTheWay
<1> QED
  BY <1>2, <1>3, <1>4 DEF ReaderInv

LEMMA StreamStep == IInv /\ [Next]_vars => StreamInv'
<1> SUFFICES ASSUME IInv, [Next]_vars PROVE StreamInv'
  OBVIOUS
<1>0. TypeInv /\ TypeInv' /\ \A e \in Ends : Outgoing(e) /\ ReaderInv(e)
  BY TypeStep DEF IInv, StreamInv, ReaderInv
<1> SUFFICES \A e \in Ends : Outgoing(e)' /\ ReaderInv(e)'
  BY DEF StreamInv, ReaderInv
<1>1. ASSUME NEW a \in Ends, NEW size \in 0 .. MaxChunk, Write(a, size), NEW e \in Ends
      PROVE  Outgoing(e)' /\ ReaderInv(e)'
  <2> DEFINE m == Binary([i \in 1 .. size |-> bytes[a] + i])
  <2>1. /\ writing[a] = <<>> /\ writing' = [writing EXCEPT ![a] = Append(@, m)]
        /\ bytes' = [bytes EXCEPT ![a] = @ + size]
        /\ UNCHANGED <<flushed, readVars, closeVars, wire, odd>>
    BY <1>1 DEF Write, WriteFree
  <2>2. ReaderInv(e)'
    BY <1>0, <2>1, ReaderStays DEF readVars, closeVars, Dead
  <2>3. CASE e # a
    <3>1. Outgoing(e)'
      BY <1>0, <2>1, <2>3, WriterStays DEF closeVars, CanWrite, Dead, TypeInv
    <3> QED
      BY <2>2, <3>1
  <2>4. CASE e = a
    <3>1. size \in Nat /\ bytes[a] \in Nat /\ flushed[a] \in Nat
      BY <1>0, BoundAssumption DEF TypeInv
    <3>2. m \in Written /\ Len(m.data) = size /\ Continues(m.data, bytes[a])
      BY <3>1, WrittenType
    <3> HIDE DEF m
    <3>3. writing'[a] = <<m>> /\ bytes'[a] = bytes[a] + size /\ flushed'[a] = flushed[a]
      BY <1>0, <2>1 DEF TypeInv
    <3>4. CanWrite(a)' => bytes[a] = flushed[a]
      BY <1>0, <2>1 DEF closeVars, CanWrite, Dead, Outgoing
    <3>5. Len(writing'[a]) = 1 /\ writing'[a] # <<>> /\ writing'[a][1] = m
      BY <3>3
    <3>6. Outgoing(a)'
      BY <3>1, <3>2, <3>3, <3>4, <3>5 DEF Outgoing, Continues
    <3> QED
      BY <2>2, <2>4, <3>6
  <2> QED
    BY <2>3, <2>4
<1>2. ASSUME NEW a \in Ends, NEW i \in 1 .. Len(writing[a]), WriteDone(a, i), NEW e \in Ends
      PROVE  Outgoing(e)' /\ ReaderInv(e)'
  <2> DEFINE m == writing[a][1]
  <2>1. i = 1 /\ Len(writing[a]) = 1 /\ writing[a] # <<>>
    <3>1. Len(writing[a]) \in Nat /\ Len(writing[a]) <= 1
      BY <1>0 DEF TypeInv, Outgoing
    <3>2. ASSUME NEW n \in Nat, n <= 1, i \in 1 .. n PROVE i = 1 /\ n = 1
      BY <3>2
    <3>3. i = 1 /\ Len(writing[a]) = 1
      BY <3>1, <3>2
    <3> QED
      BY <3>3
  <2>2. /\ CanWrite(a) /\ ~Dead(Peer(a))
        /\ flushed' = [flushed EXCEPT ![a] = @ + Len(m.data)]
        /\ odd' = [odd EXCEPT ![Peer(a)] = @ \/ m.data = <<>>]
        /\ wire' = [wire EXCEPT ![Peer(a)] = Append(@, m)]
        /\ writing' = [writing EXCEPT ![a] = RemoveAt(@, 1)]
        /\ UNCHANGED <<bytes, readVars, closeVars>>
    BY <1>2, <2>1 DEF WriteDone, CanWrite, Dead
  <2>3. m \in Written /\ Len(m.data) \in Nat /\ Accepts(m) /\ Size(m) = Len(m.data)
    <3>1. m \in Written
      BY <1>0, <2>1, ElementOfSeq DEF TypeInv
    <3> QED
      BY <3>1 DEF Written, Accepts, Size
  <2>4. bytes[a] = flushed[a] + Size(m) /\ Continues(m.data, flushed[a])
    BY <1>0, <2>1, <2>2, <2>3 DEF Outgoing
  <2>5. Size(m) = 0 => m.data = <<>>
    BY <2>3, EmptySeq DEF Written
  <2>6. Peer(a) \in Ends /\ Peer(a) # a /\ Peer(Peer(a)) = a
    BY Peers
  <2> HIDE DEF m
  <2>7. CASE e = a
    <3>1. writing'[a] = <<>>
      <4>1. writing[a] \in Seq(Written) /\ 1 \in 1 .. Len(writing[a]) /\ Len(writing[a]) <= 1
        BY <1>0, <2>1 DEF TypeInv
      <4>2. RemoveAt(writing[a], 1) = <<>>
        BY <4>1, RemoveOnly
      <4> QED
        BY <1>0, <2>2, <4>2 DEF TypeInv
    <3>2. bytes'[a] = flushed'[a]
      BY <1>0, <2>2, <2>3, <2>4 DEF TypeInv
    <3>3. Outgoing(a)'
      BY <3>1, <3>2 DEF Outgoing
    <3>4. /\ wire'[a] = wire[a] /\ odd'[a] = odd[a]
          /\ flushed'[Peer(a)] = flushed[Peer(a)]
      BY <1>0, <2>2, <2>6 DEF TypeInv
    <3>5. ReaderInv(a)'
      BY <1>0, <2>2, <3>4, ReaderStays DEF readVars, closeVars, Dead
    <3> QED
      BY <2>7, <3>3, <3>5
  <2>8. CASE e = Peer(a)
    <3>1. /\ writing'[e] = writing[e] /\ flushed'[e] = flushed[e] /\ bytes'[e] = bytes[e]
          /\ wire'[e] = Append(wire[e], m) /\ flushed'[a] = flushed[a] + Size(m)
          /\ odd'[e] = (odd[e] \/ m.data = <<>>)
      BY <1>0, <2>2, <2>3, <2>6, <2>8 DEF TypeInv
    <3>2. Outgoing(e)'
      BY <1>0, <2>2, <3>1, WriterStays DEF closeVars, CanWrite, Dead
    <3>3. readBuffer'[e] = readBuffer[e] /\ got'[e] = got[e]
      BY <2>2 DEF readVars
    <3>4. ReaderInv(e)'
      BY <1>0, <2>2, <2>3, <2>4, <2>5, <2>6, <2>8, <3>1, <3>3, ReaderSent
    <3> QED
      BY <3>2, <3>4
  <2> QED
    BY <2>7, <2>8 DEF Ends, Peer
<1>3. ASSUME NEW a \in Ends, NEW i \in 1 .. Len(writing[a]), WriteFailed(a, i), NEW e \in Ends
      PROVE  Outgoing(e)' /\ ReaderInv(e)'
  <2>1. /\ ~CanWrite(a) /\ writing' = [writing EXCEPT ![a] = RemoveAt(@, i)]
        /\ UNCHANGED <<bytes, flushed, readVars, closeVars, wire, odd>>
    BY <1>3 DEF WriteFailed, CanWrite
  <2>2. ReaderInv(e)'
    BY <1>0, <2>1, ReaderStays DEF readVars, closeVars, Dead
  <2>3. CASE e # a
    <3>1. Outgoing(e)'
      BY <1>0, <2>1, <2>3, WriterStays DEF closeVars, CanWrite, Dead, TypeInv
    <3> QED
      BY <2>2, <3>1
  <2>4. CASE e = a
    <3>1. writing[a] \in Seq(Written) /\ Len(writing[a]) <= 1
      BY <1>0 DEF TypeInv, Outgoing
    <3>2. writing'[a] = <<>>
      BY <1>0, <2>1, <3>1, RemoveOnly DEF TypeInv
    <3>3. ~CanWrite(a)'
      BY <2>1 DEF closeVars, CanWrite, Dead
    <3> QED
      BY <2>2, <2>4, <3>2, <3>3 DEF Outgoing
  <2> QED
    BY <2>3, <2>4
<1>4. ASSUME NEW a \in Ends, ReadBuffered(a) \/ ReadMessage(a), NEW e \in Ends
      PROVE  Outgoing(e)'
  <2>1. UNCHANGED <<writeVars, closeVars>>
    BY <1>4 DEF ReadBuffered, ReadMessage
  <2> QED
    BY <1>0, <2>1, WriterStays DEF writeVars, closeVars, CanWrite, Dead
<1>5. ASSUME NEW a \in Ends, NEW data \in Seq(Byte), Returns(a, data),
             NEW e \in Ends, e # a, UNCHANGED <<writeVars, closeVars, odd>>, wire'[e] = wire[e]
      PROVE  ReaderInv(e)'
  <2>1. got'[e] = got[e] /\ readBuffer'[e] = readBuffer[e]
    BY <1>0, <1>5 DEF Returns, TypeInv
  <2> QED
    BY <1>0, <1>5, <2>1, ReaderStays DEF writeVars, closeVars, Dead
<1>6. ASSUME NEW a \in Ends
      PROVE  \E pos \in [1 .. Len(wire[a]) + 1 -> 0 .. flushed[Peer(a)]] :
                /\ pos[1] = Len(got[a]) + Len(readBuffer[a])
                /\ \A i \in 1 .. Len(wire[a]) :
                     /\ pos[i + 1] = pos[i] + Size(wire[a][i])
                     /\ Accepts(wire[a][i]) => Continues(wire[a][i].data, pos[i])
                /\ ~Dead(a) => pos[Len(wire[a]) + 1] = flushed[Peer(a)]
  BY <1>0 DEF ReaderInv, OnTheWay
<1>7. ASSUME NEW a \in Ends, ReadBuffered(a), NEW e \in Ends PROVE ReaderInv(e)'
  <2>1. /\ Returns(a, readBuffer[a]) /\ readBuffer[a] \in Seq(Byte)
        /\ UNCHANGED <<writeVars, closeVars, odd>> /\ wire' = wire
    BY <1>0, <1>7 DEF ReadBuffered, TypeInv
  <2>2. CASE e # a
    BY <1>5, <2>1, <2>2
  <2>3. CASE e = a
    <3>1. PICK pos \in [1 .. Len(wire[a]) + 1 -> 0 .. flushed[Peer(a)]] :
                /\ pos[1] = Len(got[a]) + Len(readBuffer[a])
                /\ \A i \in 1 .. Len(wire[a]) :
                     /\ pos[i + 1] = pos[i] + Size(wire[a][i])
                     /\ Accepts(wire[a][i]) => Continues(wire[a][i].data, pos[i])
                /\ ~Dead(a) => pos[Len(wire[a]) + 1] = flushed[Peer(a)]
      BY <1>6
    <3>2. Continues(got[a], 0) /\ Continues(readBuffer[a], Len(got[a])) /\ OddNoted(a)
      BY <1>0 DEF ReaderInv, Arrived
    <3>3. OddNoted(a)' /\ (Dead(a) => Dead(a)') /\ flushed' = flushed
      BY <2>1, <3>2 DEF OddNoted, writeVars, closeVars, Dead, Size, Accepts
    <3>4. pos \in [1 .. Len(wire'[a]) + 1 -> 0 .. flushed[Peer(a)]]
      BY <2>1
    <3>5. \A i \in 1 .. Len(wire'[a]) :
            /\ pos[i + 1] = pos[i] + Size(wire'[a][i])
            /\ Accepts(wire'[a][i]) => Continues(wire'[a][i].data, pos[i])
      BY <2>1, <3>1
    <3>6. ~Dead(a) => pos[Len(wire'[a]) + 1] = flushed[Peer(a)]
      BY <2>1, <3>1
    <3>7. ReaderInv(a)'
      BY <1>0, <2>1, <3>1, <3>2, <3>3, <3>4, <3>5, <3>6, ReaderReads
    <3> QED
      BY <2>3, <3>7
  <2> QED
    BY <2>2, <2>3
<1>8. ASSUME NEW a \in Ends, ReadMessage(a), NEW e \in Ends PROVE ReaderInv(e)'
  <2> DEFINE data == IF Accepts(Head(wire[a])) THEN Head(wire[a]).data ELSE <<>>
             n == Len(wire'[a])
  <2>1. /\ Returns(a, data) /\ readBuffer[a] = <<>> /\ wire[a] # <<>>
        /\ wire' = [wire EXCEPT ![a] = Tail(@)] /\ ~Dead(a)
        /\ UNCHANGED <<writeVars, closeVars, odd>>
    BY <1>8 DEF ReadMessage
  <2>2. /\ wire[a] \in Seq(Written \cup {Text}) /\ Head(wire[a]) \in Written \cup {Text}
        /\ wire[a][1] = Head(wire[a]) /\ n \in Nat /\ Len(wire[a]) = n + 1
        /\ \A i \in 1 .. n : wire'[a][i] = wire[a][i + 1]
    <3>1. wire[a] \in Seq(Written \cup {Text}) /\ wire'[a] = Tail(wire[a])
      BY <1>0, <2>1 DEF TypeInv
    <3>2. /\ Head(wire[a]) \in Written \cup {Text} /\ Tail(wire[a]) \in Seq(Written \cup {Text})
          /\ Len(Tail(wire[a])) = Len(wire[a]) - 1
          /\ \A i \in 1 .. Len(Tail(wire[a])) : Tail(wire[a])[i] = wire[a][i + 1]
      BY <2>1, <3>1, HeadTailProperties
    <3>3. wire[a][1] = Head(wire[a])
      BY <2>1, <3>1
    <3>4. Len(wire[a]) \in Nat /\ Len(Tail(wire[a])) \in Nat
      BY <3>1, <3>2
    <3> QED
      BY <3>1, <3>2, <3>3, <3>4
  <2>3. data \in Seq(Byte) /\ Len(data) = Size(wire[a][1])
    <3>1. CASE Accepts(Head(wire[a]))
      BY <2>2, <3>1 DEF Accepts, Written, Text, Size
    <3>2. CASE ~Accepts(Head(wire[a]))
      BY <2>2, <3>2 DEF Size
    <3> QED
      BY <3>1, <3>2
  <2>4. CASE e # a
    <3>1. wire'[e] = wire[e]
      BY <1>0, <2>1, <2>4 DEF TypeInv
    <3> HIDE DEF data
    <3> QED
      BY <1>5, <2>1, <2>3, <2>4, <3>1
  <2>5. CASE e = a
    <3>1. PICK pos \in [1 .. Len(wire[a]) + 1 -> 0 .. flushed[Peer(a)]] :
                /\ pos[1] = Len(got[a]) + Len(readBuffer[a])
                /\ \A i \in 1 .. Len(wire[a]) :
                     /\ pos[i + 1] = pos[i] + Size(wire[a][i])
                     /\ Accepts(wire[a][i]) => Continues(wire[a][i].data, pos[i])
                /\ ~Dead(a) => pos[Len(wire[a]) + 1] = flushed[Peer(a)]
      BY <1>6
    <3>2. /\ 1 \in 1 .. Len(wire[a]) /\ Len(got[a]) \in Nat /\ pos[1] = Len(got[a])
          /\ Continues(got[a], 0) /\ OddNoted(a)
      BY <1>0, <2>1, <2>2, <3>1 DEF TypeInv, ReaderInv, Arrived
    <3>3. Continues(data, Len(got[a]))
      <4>1. CASE Accepts(Head(wire[a]))
        BY <2>2, <3>1, <3>2, <4>1
      <4>2. CASE ~Accepts(Head(wire[a]))
        BY <4>2 DEF Continues
      <4> QED
        BY <4>1, <4>2
    <3> HIDE DEF data
    <3> DEFINE new == [k \in 1 .. n + 1 |-> pos[k + 1]]
    <3>4. \A k \in 1 .. n + 1 : k + 1 \in 1 .. Len(wire[a]) + 1 /\ new[k] = pos[k + 1]
      BY <2>2
    <3>5. new \in [1 .. n + 1 -> 0 .. flushed[Peer(a)]]
      BY <3>1, <3>4
    <3> HIDE DEF new
    <3>6. new[1] = Len(got[a]) + Len(data)
      <4>1. 1 \in 1 .. n + 1 /\ 1 + 1 = 2
        BY <2>2
      <4>2. new[1] = pos[2] /\ pos[2] = pos[1] + Size(wire[a][1])
        BY <3>1, <3>2, <3>4, <4>1
      <4> QED
        BY <2>3, <3>2, <4>2
    <3>7. ASSUME NEW i \in 1 .. n
          PROVE  /\ new[i + 1] = new[i] + Size(wire'[a][i])
                 /\ Accepts(wire'[a][i]) => Continues(wire'[a][i].data, new[i])
      <4>1. i \in 1 .. n + 1 /\ i + 1 \in 1 .. n + 1 /\ i + 1 \in 1 .. Len(wire[a])
        BY <2>2
      <4>2. wire'[a][i] = wire[a][i + 1] /\ new[i] = pos[i + 1] /\ new[i + 1] = pos[(i + 1) + 1]
        BY <2>2, <3>4, <4>1
      <4> QED
        BY <3>1, <4>1, <4>2
    <3>8. new[n + 1] = flushed[Peer(a)]
      BY <2>1, <2>2, <3>1, <3>4
    <3>9. OddNoted(a)'
      <4> SUFFICES ASSUME NEW i \in 1 .. n, Size(wire'[a][i]) = 0 PROVE odd'[a]
        BY DEF OddNoted, Size, Accepts
      <4>1. i + 1 \in 1 .. Len(wire[a]) /\ wire'[a][i] = wire[a][i + 1]
        BY <2>2
      <4> QED
        BY <2>1, <3>2, <4>1 DEF OddNoted
    <3>10. (Dead(a) => Dead(a)') /\ flushed'[Peer(a)] = flushed[Peer(a)]
      BY <2>1 DEF writeVars
    <3>11. ReaderInv(a)'
      BY <1>0, <2>1, <2>3, <3>2, <3>3, <3>5, <3>6, <3>7, <3>8, <3>9, <3>10, ReaderReads
    <3> QED
      BY <2>5, <3>11
  <2> QED
    BY <2>4, <2>5
<1>9. ASSUME UNCHANGED <<writeVars, wire, readBuffer, got, odd>>,
             \A d \in Ends : Dead(d) => Dead(d)', \A d \in Ends : CanWrite(d)' => CanWrite(d),
             NEW e \in Ends
      PROVE  Outgoing(e)' /\ ReaderInv(e)'
  BY <1>0, <1>9, WriterStays, ReaderStays DEF writeVars
<1>10. ASSUME NEW a \in Ends, ReadFailed(a) \/ Close(a) \/ Expire(a), NEW e \in Ends
       PROVE  Outgoing(e)' /\ ReaderInv(e)'
  <2>1. UNCHANGED <<writeVars, wire, readBuffer, got, odd, closed, cut>> /\ expired \subseteq expired'
    BY <1>10 DEF ReadFailed, Close, Expire, writeVars, readVars, closeVars
  <2> QED
    BY <1>9, <2>1 DEF Dead, CanWrite
<1>11. ASSUME CloseDone \/ UNCHANGED vars, NEW e \in Ends
       PROVE  Outgoing(e)' /\ ReaderInv(e)'
  <2>1. UNCHANGED <<writeVars, wire, readBuffer, got, odd, closed, cut, expired>>
    BY <1>11 DEF CloseDone, vars, readVars, closeVars
  <2> QED
    BY <1>9, <2>1 DEF Dead, CanWrite
<1>12. ASSUME NEW a \in Ends, CloseSocket(a) \/ Cut, NEW e \in Ends
       PROVE  Outgoing(e)' /\ ReaderInv(e)'
  <2>1. UNCHANGED <<writeVars, readBuffer, got, odd, expired>>
    BY <1>12 DEF CloseSocket, Cut, readVars
  <2>2. \A d \in Ends : (Dead(d) => Dead(d)') /\ (closed[d] => closed'[d])
    BY <1>0, <1>12 DEF CloseSocket, Cut, Dead, TypeInv
  <2>3. Outgoing(e)'
    BY <1>0, <2>1, <2>2, Peers, WriterStays DEF writeVars, CanWrite
  <2>4. wire'[e] = wire[e] \/ (wire'[e] = <<>> /\ Dead(e)')
    BY <1>0, <1>12 DEF CloseSocket, Cut, Dead, TypeInv
  <2>5. ReaderInv(e)'
    BY <1>0, <2>1, <2>2, <2>4, ReaderStays, ReaderCutOff DEF writeVars
  <2> QED
    BY <2>3, <2>5
<1>13. ASSUME NEW a \in Ends, SendText(a), NEW e \in Ends
       PROVE  Outgoing(e)' /\ ReaderInv(e)'
  <2>1. /\ ~Dead(a) /\ wire' = [wire EXCEPT ![a] = Append(@, Text)]
        /\ odd' = [odd EXCEPT ![a] = TRUE] /\ UNCHANGED <<writeVars, readVars, closeVars>>
    BY <1>13 DEF SendText
  <2>2. Outgoing(e)'
    BY <1>0, <2>1, WriterStays DEF writeVars, closeVars, CanWrite, Dead
  <2>3. CASE e # a
    <3>1. wire'[e] = wire[e] /\ odd'[e] = odd[e]
      BY <1>0, <2>1, <2>3 DEF TypeInv
    <3>2. ReaderInv(e)'
      BY <1>0, <2>1, <3>1, ReaderStays DEF writeVars, readVars, closeVars, Dead
    <3> QED
      BY <2>2, <3>2
  <2>4. CASE e = a
    <3>1. Text \in Written \cup {Text} /\ ~Accepts(Text) /\ Size(Text) = 0
      BY DEF Text, Accepts, Size
    <3>2. wire'[a] = Append(wire[a], Text) /\ odd'[a]
      BY <1>0, <2>1 DEF TypeInv
    <3>3. /\ flushed'[Peer(a)] = flushed[Peer(a)] + Size(Text)
          /\ readBuffer'[a] = readBuffer[a] /\ got'[a] = got[a]
      BY <1>0, <2>1, <3>1, Peers DEF TypeInv, writeVars, readVars
    <3>4. ReaderInv(a)'
      BY <1>0, <2>1, <3>1, <3>2, <3>3, ReaderSent
    <3> QED
      BY <2>2, <2>4, <3>4
  <2> QED
    BY <2>3, <2>4
<1> QED
  BY <1>1, <1>2, <1>3, <1>4, <1>7, <1>8, <1>10, <1>11, <1>12, <1>13
  DEF Next, WriteEnds, ReadEnds

-----------------------------------------------------------------------------
(* Every step is a step of the byte stream to either end, or none of it.   *)

\* What has been read is the numbers from 1 on.
LEMMA ReadInOrder ==
  ASSUME NEW s \in Seq(Byte), \A j \in 1 .. Len(s) : s[j] = 0 + j
  PROVE  s = [i \in 1 .. Len(s) |-> i]
<1> DEFINE numbers == [i \in 1 .. Len(s) |-> i]
<1>1. Len(s) \in Nat
  OBVIOUS
<1>2. numbers \in Seq(Byte) /\ Len(numbers) = Len(s)
  BY <1>1 DEF Byte
<1>3. \A i \in 1 .. Len(s) : s[i] = numbers[i]
  BY <1>1
<1> QED
  BY <1>2, <1>3, SeqEqual

\* It is no more than the network has got.
LEMMA ReadNoMore ==
  ASSUME NEW n \in Nat, NEW left \in Nat, NEW w \in Nat, NEW sent \in Nat,
         NEW pos \in [1 .. w + 1 -> 0 .. sent], pos[1] = n + left
  PROVE  n <= sent
<1>1. pos[1] \in 0 .. sent
  OBVIOUS
<1>2. n + left \in 0 .. sent
  BY <1>1
<1> QED
  BY <1>2

LEMMA StepsOfStreams ==
  ASSUME IInv, [Next]_vars, NEW e \in Ends
  PROVE  [Stream(e)!Next]_(Stream(e)!vars)
<1>0. TypeInv /\ TypeInv' /\ ReaderInv(e) /\ ReaderInv(e)' /\ Peer(e) \in Ends /\ Peer(e) # e
  BY TypeStep, StreamStep, Peers DEF IInv, StreamInv, ReaderInv
<1> USE DEF Stream!vars
<1>1. ASSUME UNCHANGED <<flushed, readVars, closeVars, odd>> PROVE UNCHANGED Stream(e)!vars
  BY <1>1 DEF readVars, closeVars, Over
<1>2. ASSUME NEW a \in Ends, NEW i \in 1 .. Len(writing[a]), WriteDone(a, i)
      PROVE  [Stream(e)!Next]_(Stream(e)!vars)
  <2> DEFINE m == writing[a][i]
  <2>1. /\ flushed' = [flushed EXCEPT ![a] = @ + Len(m.data)]
        /\ odd' = [odd EXCEPT ![Peer(a)] = @ \/ m.data = <<>>]
        /\ UNCHANGED <<readVars, closeVars>>
    BY <1>2 DEF WriteDone
  <2>2. UNCHANGED <<got, told, Over>>
    BY <2>1 DEF readVars, closeVars, Over
  <2>3. m \in Written /\ Len(m.data) \in Nat /\ (Len(m.data) = 0 <=> m.data = <<>>)
    <3>1. m \in Written
      BY <1>0, ElementOfSeq DEF TypeInv
    <3> QED
      BY <3>1, EmptySeq DEF Written
  <2> HIDE DEF m
  <2>4. CASE a = e
    <3>1. flushed'[Peer(e)] = flushed[Peer(e)] /\ odd'[e] = odd[e]
      BY <1>0, <2>1, <2>4, Peers DEF TypeInv
    <3> QED
      BY <2>2, <3>1
  <2>5. CASE a # e
    <3>1. a = Peer(e) /\ Peer(a) = e
      BY <2>5 DEF Peer, Ends
    <3>2. /\ flushed'[Peer(e)] = flushed[Peer(e)] + Len(m.data) /\ flushed[Peer(e)] \in Nat
          /\ odd'[e] = (odd[e] \/ m.data = <<>>)
      BY <1>0, <2>1, <3>1 DEF TypeInv
    <3>3. CASE m.data = <<>>
      <4>1. flushed'[Peer(e)] = flushed[Peer(e)]
        BY <2>3, <3>2, <3>3
      <4>2. odd[e] \in BOOLEAN /\ odd'[e] = TRUE
        BY <1>0, <3>2, <3>3 DEF TypeInv
      <4> QED
        BY <2>2, <4>1, <4>2 DEF Stream!Next, Stream!Hiccup
    <3>4. CASE m.data # <<>>
      <4>1. flushed'[Peer(e)] > flushed[Peer(e)]
        BY <2>3, <3>2, <3>4
      <4>2. odd'[e] = odd[e]
        BY <1>0, <3>2, <3>4 DEF TypeInv
      <4> QED
        BY <2>2, <4>1, <4>2 DEF Stream!Next, Stream!Write
    <3> QED
      BY <3>3, <3>4
  <2> QED
    BY <2>4, <2>5
<1>3. ASSUME NEW a \in Ends, NEW data \in Seq(Byte), Returns(a, data), ~told[a],
             data = <<>> => odd[a], Continues(got[a], 0), Continues(data, Len(got[a])),
             UNCHANGED <<writeVars, closeVars, odd>>
      PROVE  [Stream(e)!Next]_(Stream(e)!vars)
  <2>1. UNCHANGED <<flushed, odd, Over>>
    BY <1>3 DEF writeVars, closeVars, Over
  <2>2. told' = [told EXCEPT ![a] = data = <<>>]
    BY <1>3 DEF Returns
  <2>3. /\ data # <<>> => Len(got'[a]) > Len(got[a])
        /\ \A d \in Ends \ {a} : got'[d] = got[d]
    BY <1>0, <1>3, ReturnsNext
  <2>4. CASE e # a
    <3>1. got'[e] = got[e] /\ told'[e] = told[e]
      BY <1>0, <2>2, <2>3, <2>4 DEF TypeInv
    <3> QED
      BY <2>1, <3>1
  <2>5. CASE e = a /\ data # <<>>
    <3>1. told'[e] = FALSE /\ told[e] = FALSE
      BY <1>0, <1>3, <2>2, <2>5 DEF TypeInv
    <3>2. /\ Len(got'[e]) > Len(got[e]) /\ Len(got'[e]) <= flushed[Peer(e)]
          /\ got'[e] = [j \in 1 .. Len(got'[e]) |-> j]
      <4>1. Len(got'[e]) > Len(got[e])
        BY <2>3, <2>5
      <4>2. /\ got'[e] \in Seq(Byte) /\ readBuffer'[e] \in Seq(Byte)
            /\ wire'[e] \in Seq(Written \cup {Text}) /\ flushed'[Peer(e)] \in Nat
        BY <1>0 DEF TypeInv
      <4>3. got'[e] = [j \in 1 .. Len(got'[e]) |-> j]
        BY <1>0, <4>2, ReadInOrder DEF ReaderInv, Arrived, Continues
      <4>4. PICK pos \in [1 .. Len(wire'[e]) + 1 -> 0 .. flushed'[Peer(e)]] :
              pos[1] = Len(got'[e]) + Len(readBuffer'[e])
        BY <1>0 DEF ReaderInv, OnTheWay
      <4>5. Len(got'[e]) \in Nat /\ Len(readBuffer'[e]) \in Nat /\ Len(wire'[e]) \in Nat
        BY <4>2
      <4>6. Len(got'[e]) <= flushed'[Peer(e)]
        BY <4>2, <4>4, <4>5, ReadNoMore
      <4> QED
        BY <2>1, <4>1, <4>3, <4>6
    <3> QED
      BY <2>1, <3>1, <3>2 DEF Stream!Next, Stream!Read
  <2>6. CASE e = a /\ data = <<>>
    <3>1. told'[e] = TRUE /\ told[e] = FALSE /\ odd[e]
      BY <1>0, <1>3, <2>2, <2>6 DEF TypeInv
    <3>2. got'[e] = got[e]
      <4>1. PICK size \in 1 .. MaxChunk :
              got' = [got EXCEPT ![e] = @ \o SubSeq(data, 1, Least(size, Len(data)))]
        BY <1>3, <2>6 DEF Returns
      <4>2. Len(data) = 0 /\ Least(size, Len(data)) = 0
        BY <2>6, BoundAssumption DEF Least
      <4>3. SubSeq(data, 1, 0) = <<>>
        BY <2>6, SubSeqEmpty
      <4>4. got[e] \o <<>> = got[e]
        BY <1>0, ConcatEmptySeq DEF TypeInv
      <4> QED
        BY <1>0, <4>1, <4>2, <4>3, <4>4 DEF TypeInv
    <3> QED
      BY <2>1, <3>1, <3>2 DEF Stream!Next, Stream!Fail
  <2> QED
    BY <2>4, <2>5, <2>6
<1>4. ASSUME NEW a \in Ends, ReadBuffered(a) PROVE [Stream(e)!Next]_(Stream(e)!vars)
  <2>1. /\ Returns(a, readBuffer[a]) /\ readBuffer[a] \in Seq(Byte) /\ readBuffer[a] # <<>>
        /\ ~told[a] /\ UNCHANGED <<writeVars, closeVars, odd>>
    BY <1>0, <1>4 DEF ReadBuffered, Reading, TypeInv
  <2>2. Continues(got[a], 0) /\ Continues(readBuffer[a], Len(got[a]))
    BY DEF IInv, StreamInv, Arrived
  <2> QED
    BY <1>3, <2>1, <2>2
<1>5. ASSUME NEW a \in Ends, ReadMessage(a) PROVE [Stream(e)!Next]_(Stream(e)!vars)
  <2> DEFINE data == IF Accepts(Head(wire[a])) THEN Head(wire[a]).data ELSE <<>>
  <2>1. /\ Returns(a, data) /\ readBuffer[a] = <<>> /\ wire[a] # <<>>
        /\ ~told[a] /\ UNCHANGED <<writeVars, closeVars, odd>>
    BY <1>5 DEF ReadMessage, Reading
  <2>2. /\ Head(wire[a]) \in Written \cup {Text} /\ wire[a][1] = Head(wire[a])
        /\ 1 \in 1 .. Len(wire[a]) /\ Len(got[a]) \in Nat
    <3>0. TypeInv
      BY <1>0
    <3>1. wire[a] \in Seq(Written \cup {Text}) /\ Len(got[a]) \in Nat
      BY <3>0 DEF TypeInv
    <3>2. Head(wire[a]) \in Written \cup {Text} /\ Len(wire[a]) # 0
      BY <2>1, <3>1, HeadTailProperties, EmptySeq
    <3>3. wire[a][1] = Head(wire[a]) /\ Len(wire[a]) \in Nat
      BY <2>1, <3>1
    <3> QED
      BY <3>1, <3>2, <3>3
  <2>3. data \in Seq(Byte) /\ (data = <<>> => Size(wire[a][1]) = 0)
    <3>1. CASE Accepts(Head(wire[a]))
      BY <2>2, <3>1 DEF Accepts, Written, Text, Size
    <3>2. CASE ~Accepts(Head(wire[a]))
      BY <2>2, <3>2 DEF Size
    <3> QED
      BY <3>1, <3>2
  <2>4. data = <<>> => odd[a]
    BY <2>2, <2>3 DEF IInv, StreamInv, OddNoted
  <2>5. Continues(got[a], 0) /\ Continues(data, Len(got[a]))
    <3>1. Arrived(a) /\ OnTheWay(a)
      BY DEF IInv, StreamInv
    <3>2. PICK pos \in [1 .. Len(wire[a]) + 1 -> 0 .. flushed[Peer(a)]] :
            /\ pos[1] = Len(got[a]) + Len(readBuffer[a])
            /\ \A i \in 1 .. Len(wire[a]) :
                 Accepts(wire[a][i]) => Continues(wire[a][i].data, pos[i])
      BY <3>1 DEF OnTheWay
    <3>3. pos[1] = Len(got[a])
      BY <2>1, <2>2, <3>2
    <3>4. CASE Accepts(Head(wire[a]))
      BY <2>2, <3>1, <3>2, <3>3, <3>4 DEF Arrived
    <3>5. CASE ~Accepts(Head(wire[a]))
      BY <3>1, <3>5 DEF Arrived, Continues
    <3> QED
      BY <3>4, <3>5
  <2> HIDE DEF data
  <2> QED
    BY <1>3, <2>1, <2>3, <2>4, <2>5
<1>6. ASSUME NEW a \in Ends, ReadFailed(a) PROVE [Stream(e)!Next]_(Stream(e)!vars)
  <2>1. /\ UNCHANGED <<flushed, got, odd, Over>>
        /\ told' = [told EXCEPT ![a] = TRUE] /\ ~told[a]
    BY <1>6 DEF ReadFailed, Reading, writeVars, closeVars, Over
  <2>2. CASE a = e
    <3>1. Over
      BY <1>0, <1>6, <2>2 DEF ReadFailed, Dead, Over
    <3>2. told'[e] = TRUE /\ ~told[e]
      BY <1>0, <2>1, <2>2 DEF TypeInv
    <3> QED
      BY <2>1, <3>1, <3>2 DEF Stream!Next, Stream!Fail
  <2>3. CASE a # e
    <3>1. told'[e] = told[e]
      BY <1>0, <2>1, <2>3 DEF TypeInv
    <3> QED
      BY <2>1, <3>1
  <2> QED
    BY <2>2, <2>3
<1>7. ASSUME NEW a \in Ends, CloseSocket(a) \/ Cut \/ Expire(a)
      PROVE  [Stream(e)!Next]_(Stream(e)!vars)
  <2>1. UNCHANGED <<flushed, got, odd, told>>
    BY <1>7 DEF CloseSocket, Cut, Expire, writeVars, readVars
  <2>2. Over'
    BY <1>0, <1>7 DEF CloseSocket, Cut, Expire, Over, TypeInv
  <2>3. Over' = TRUE
    BY <2>2 DEF Over
  <2>4. CASE Over
    <3>1. Over = TRUE
      BY <2>4 DEF Over
    <3> QED
      BY <2>1, <2>3, <3>1
  <2>5. CASE ~Over
    BY <2>1, <2>3, <2>5 DEF Stream!Next, Stream!End
  <2> QED
    BY <2>4, <2>5
<1>8. ASSUME NEW a \in Ends, SendText(a) PROVE [Stream(e)!Next]_(Stream(e)!vars)
  <2>1. UNCHANGED <<flushed, got, told, Over>> /\ odd' = [odd EXCEPT ![a] = TRUE]
    BY <1>8 DEF SendText, writeVars, readVars, closeVars, Over
  <2>2. CASE a = e
    <3>1. odd'[e] = TRUE /\ odd[e] \in BOOLEAN
      BY <1>0, <2>1, <2>2 DEF TypeInv
    <3> QED
      BY <2>1, <3>1 DEF Stream!Next, Stream!Hiccup
  <2>3. CASE a # e
    <3>1. odd'[e] = odd[e]
      BY <1>0, <2>1, <2>3 DEF TypeInv
    <3> QED
      BY <2>1, <3>1
  <2> QED
    BY <2>2, <2>3
<1>9. ASSUME NEW a \in Ends, Close(a) PROVE UNCHANGED Stream(e)!vars
  BY <1>9 DEF Close, writeVars, readVars, Over
<1>10. ASSUME NEW a \in Ends, NEW size \in 0 .. MaxChunk, Write(a, size) PROVE UNCHANGED Stream(e)!vars
  BY <1>1, <1>10 DEF Write
<1>11. ASSUME NEW a \in Ends, NEW i \in 1 .. Len(writing[a]), WriteFailed(a, i)
       PROVE  UNCHANGED Stream(e)!vars
  BY <1>1, <1>11 DEF WriteFailed
<1>12. CASE CloseDone
  BY <1>12 DEF CloseDone, writeVars, readVars, Over
<1>13. CASE UNCHANGED vars
  BY <1>1, <1>13 DEF vars, writeVars
<1> QED
  BY <1>2, <1>4, <1>5, <1>6, <1>7, <1>8, <1>9, <1>10, <1>11, <1>12, <1>13
  DEF Next, WriteEnds, ReadEnds

\* Either direction of a websocket is a byte stream: what Reads return is what
\* Writes have sent, in order, with none lost or repeated, and a Read fails only
\* when the connection has ended or a message came without a byte.
THEOREM StreamsBothWays ==
  Spec => /\ ToAgent!Init /\ [][ToAgent!Next]_(ToAgent!vars)
          /\ ToGateway!Init /\ [][ToGateway!Next]_(ToGateway!vars)
<1>1. Init => ToAgent!Init /\ ToGateway!Init
  BY DEF Init, Over, Ends, ToAgent!Init, ToGateway!Init
<1>2. Init => IInv
  BY TypeInit, StreamInit DEF IInv
<1>3. IInv /\ [Next]_vars => IInv'
  BY TypeStep, StreamStep DEF IInv
<1>4. IInv /\ [Next]_vars => [ToAgent!Next]_(ToAgent!vars)
  <2> SUFFICES ASSUME IInv, [Next]_vars PROVE [ToAgent!Next]_(ToAgent!vars)
    OBVIOUS
  <2>1. [Stream("agent")!Next]_(Stream("agent")!vars)
    BY StepsOfStreams DEF Ends
  <2> QED
    BY <2>1 DEF Peer, Stream!vars, Stream!Next, Stream!Write, Stream!Hiccup, Stream!Read,
      Stream!End, Stream!Fail, ToAgent!vars, ToAgent!Next, ToAgent!Write, ToAgent!Hiccup,
      ToAgent!Read, ToAgent!End, ToAgent!Fail
<1>5. IInv /\ [Next]_vars => [ToGateway!Next]_(ToGateway!vars)
  <2> SUFFICES ASSUME IInv, [Next]_vars PROVE [ToGateway!Next]_(ToGateway!vars)
    OBVIOUS
  <2>1. [Stream("gateway")!Next]_(Stream("gateway")!vars)
    BY StepsOfStreams DEF Ends
  <2> QED
    BY <2>1 DEF Peer, Stream!vars, Stream!Next, Stream!Write, Stream!Hiccup, Stream!Read,
      Stream!End, Stream!Fail, ToGateway!vars, ToGateway!Next, ToGateway!Write, ToGateway!Hiccup,
      ToGateway!Read, ToGateway!End, ToGateway!Fail
<1> QED
  BY <1>1, <1>2, <1>3, <1>4, <1>5, PTL DEF Spec

=============================================================================
