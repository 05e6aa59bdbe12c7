------------------------------- MODULE Handoff -------------------------------
(***************************************************************************)
(* What a listener promises for the connections handed to it: each one is  *)
(* refused at once or comes to exactly one end, accepted or, when the      *)
(* listener is shut before anybody accepts it, closed.                     *)
(***************************************************************************)
CONSTANT Conns      \* the connections

VARIABLES
  fate,       \* what has become of each connection
  shut        \* the listener takes no more

vars == <<fate, shut>>

Becomes(c, before, after) ==
  /\ fate[c] = before
  /\ fate' = [fate EXCEPT ![c] = after]
  /\ UNCHANGED shut

Take(c) == ~shut /\ Becomes(c, "outside", "waiting")

Refuse(c) == Becomes(c, "outside", "refused")

Accept(c) == Becomes(c, "waiting", "accepted")

Drop(c) == shut /\ Becomes(c, "waiting", "closed")

Shut ==
  /\ ~shut
  /\ shut' = TRUE
  /\ UNCHANGED fate

Init ==
  /\ fate = [c \in Conns |-> "outside"]
  /\ shut = FALSE

Next ==
  \/ \E c \in Conns : Take(c) \/ Refuse(c) \/ Accept(c) \/ Drop(c)
  \/ Shut

\* Nobody has to accept, but a listener that is shut leaves nothing waiting.
Spec == Init /\ [][Next]_vars /\ \A c \in Conns : WF_vars(Drop(c))

=============================================================================
