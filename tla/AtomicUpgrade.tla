---------------------------- MODULE AtomicUpgrade ----------------------------
(***************************************************************************)
(* What an upgrade promises to who asks for it, with all that goes on in   *)
(* the file system left out: a request installs its release at once or     *)
(* not at all, never over a later one's and never after it was answered;   *)
(* the answer says whether it has; and the process comes to run the        *)
(* release that is installed.                                              *)
(***************************************************************************)
EXTENDS Naturals

CONSTANT Requests   \* numbers: a later request has a greater one

VARIABLES
  release,  \* the request whose release is installed; 0 is the first
  running,  \* the release that runs, or ran last
  replies,  \* what each request was answered: "none", "ok" or "error"
  unknown   \* whether a request of unknown type is being handled

vars == <<release, running, replies, unknown>>

Init ==
  /\ release = 0 /\ running = 0
  /\ replies = [i \in Requests |-> "none"]
  /\ unknown = FALSE

\* A request comes in, or ends with the process and is never answered.
Turn ==
  /\ unknown' \in BOOLEAN
  /\ UNCHANGED <<release, running, replies>>

Install(i) ==
  /\ replies[i] = "none" /\ i > release
  /\ release' = i
  /\ UNCHANGED <<running, replies, unknown>>

\* "ok" is said of what is installed, "error" of what never was, or of an unknown type.
Answer(i, r) ==
  /\ replies[i] = "none"
  /\ IF r = "ok" THEN release = i ELSE release < i \/ unknown
  /\ replies' = [replies EXCEPT ![i] = r]
  /\ unknown' = FALSE
  /\ UNCHANGED <<release, running>>

Restart ==
  /\ running' = release
  /\ unknown' \in {unknown, FALSE}
  /\ UNCHANGED <<release, replies>>

Next ==
  \/ Turn \/ Restart
  \/ \E i \in Requests : Install(i) \/ \E r \in {"ok", "error"} : Answer(i, r)

Spec == Init /\ [][Next]_vars

=============================================================================
