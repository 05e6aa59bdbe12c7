------------------------------ MODULE ByteStream ------------------------------
(***************************************************************************)
(* What a net.Conn promises in one direction: the bytes written at one end *)
(* are read at the other, in order, none twice and none left out, and the  *)
(* reader is told of an end when there is one.  Bytes are numbered in the  *)
(* order in which they are written.                                        *)
(***************************************************************************)
EXTENDS Naturals, Sequences

VARIABLES
  sent,     \* number of bytes written
  got,      \* the bytes read
  over,     \* the connection has ended
  odd,      \* the writer has sent something that carries no byte
  told      \* a read has failed: the reader takes the stream for ended

vars == <<sent, got, over, odd, told>>

Init == sent = 0 /\ got = <<>> /\ over = FALSE /\ odd = FALSE /\ told = FALSE

\* A writer may not know yet that the connection has ended.
Write ==
  /\ sent' > sent
  /\ UNCHANGED <<got, over, odd, told>>

\* What comes with no byte in it.
Hiccup ==
  /\ ~odd /\ odd' = TRUE
  /\ UNCHANGED <<sent, got, over, told>>

\* Any number of the bytes that come next.
Read ==
  /\ ~told
  /\ Len(got') > Len(got) /\ Len(got') <= sent
  /\ got' = [i \in 1 .. Len(got') |-> i]
  /\ UNCHANGED <<sent, over, odd, told>>

End ==
  /\ ~over /\ over' = TRUE
  /\ UNCHANGED <<sent, got, odd, told>>

Fail ==
  /\ over \/ odd
  /\ ~told /\ told' = TRUE
  /\ UNCHANGED <<sent, got, over, odd>>

Next == Write \/ Hiccup \/ Read \/ End \/ Fail

\* As long as the connection lasts and the reader reads, all of it arrives;
\* when it has ended the reader is told.
AllArrives == sent > Len(got) ~> sent = Len(got) \/ over \/ told
EndIsTold  == over ~> told

Spec == Init /\ [][Next]_vars /\ AllArrives /\ EndIsTold

=============================================================================
