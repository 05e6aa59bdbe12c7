------------------------------ MODULE WsListener ------------------------------
(***************************************************************************)
(* The in-memory listener of wsgrpc/listener.go: Enqueue hands websocket   *)
(* connections to the goroutines that Accept them, until Close.            *)
(*                                                                         *)
(* Enqueue is one critical section under l.mu, and so is Close, but Accept *)
(* takes no lock: it interleaves with the channel operations of Close, one *)
(* of which is one action.                                                 *)
(***************************************************************************)
EXTENDS Naturals, Sequences

CONSTANTS
  Conns,        \* connections
  Acceptors,    \* goroutines that call Accept until it fails
  BufferSize    \* capacity of connCh

ASSUME BufferAssumption == BufferSize \in Nat \ {0}

VARIABLES
  connCh,     \* the connections in the channel
  sealed,     \* connCh is closed
  done,       \* done is closed
  closed,     \* l.closed
  closer,     \* Close: "none", "marked" or "draining" (l.mu held), "returned"
  acceptor,   \* per goroutine, "accepting" or "stopped"
  fate        \* what has become of each connection

vars == <<connCh, sealed, done, closed, closer, acceptor, fate>>

Locked == closer \in {"marked", "draining"}

Becomes(c, f) == fate' = [fate EXCEPT ![c] = f]

-----------------------------------------------------------------------------
\* Seeded fault: Enqueue does not look at l.closed.
OpenAlways == TRUE

\* Enqueue finds the listener open.
Open == ~closed

\* A send on a closed channel panics.
EnqueueSent(c) ==
  /\ fate[c] = "outside" /\ ~Locked
  /\ Open /\ Len(connCh) < BufferSize
  /\ connCh' = IF sealed THEN connCh ELSE Append(connCh, c)
  /\ Becomes(c, IF sealed THEN "panicked" ELSE "waiting")
  /\ UNCHANGED <<sealed, done, closed, closer, acceptor>>

\* The listener is closed, or the queue is full.
Refused == IF Open THEN Len(connCh) >= BufferSize ELSE TRUE

EnqueueRefused(c) ==
  /\ fate[c] = "outside" /\ ~Locked
  /\ Refused
  /\ Becomes(c, "refused")
  /\ UNCHANGED <<connCh, sealed, done, closed, closer, acceptor>>

\* Accept's select takes a connection, also when done is closed already ...
AcceptConn(a) ==
  /\ acceptor[a] = "accepting" /\ connCh # <<>>
  /\ Becomes(Head(connCh), "accepted")
  /\ connCh' = Tail(connCh)
  /\ UNCHANGED <<sealed, done, closed, closer, acceptor>>

\* Seeded fault: Accept just receives from connCh.
EndsNever == FALSE

\* ... or fails, on done or on the closed channel.
Ends == IF done THEN TRUE ELSE sealed /\ connCh = <<>>

AcceptFailed(a) ==
  /\ acceptor[a] = "accepting" /\ Ends
  /\ acceptor' = [acceptor EXCEPT ![a] = "stopped"]
  /\ UNCHANGED <<connCh, sealed, done, closed, closer, fate>>

\* Close marks the listener closed; a second Close does nothing.
Close ==
  /\ ~closed
  /\ closed' = TRUE
  /\ closer' = "marked"
  /\ UNCHANGED <<connCh, sealed, done, acceptor, fate>>

CloseDone ==
  /\ closer = "marked"
  /\ done' = TRUE
  /\ closer' = "draining"
  /\ UNCHANGED <<connCh, sealed, closed, acceptor, fate>>

\* Seeded fault: a drained connection is not closed.
DroppedOpen(c) == UNCHANGED fate

Dropped(c) == Becomes(c, "closed")

\* A queued connection that will never be accepted is closed.
Drain ==
  /\ closer = "draining" /\ connCh # <<>>
  /\ Dropped(Head(connCh))
  /\ connCh' = Tail(connCh)
  /\ UNCHANGED <<sealed, done, closed, closer, acceptor>>

\* Seeded fault: Close does not drain the channel.
DrainedAlways == TRUE

Drained == connCh = <<>>

Seal ==
  /\ closer = "draining" /\ Drained
  /\ sealed' = TRUE
  /\ closer' = "returned"
  /\ UNCHANGED <<connCh, done, closed, acceptor, fate>>

Init ==
  /\ connCh = <<>> /\ sealed = FALSE /\ done = FALSE
  /\ closed = FALSE /\ closer = "none"
  /\ acceptor = [a \in Acceptors |-> "accepting"]
  /\ fate = [c \in Conns |-> "outside"]

Closing == CloseDone \/ Drain \/ Seal

Next ==
  \/ \E c \in Conns : EnqueueSent(c) \/ EnqueueRefused(c)
  \/ \E a \in Acceptors : AcceptConn(a) \/ AcceptFailed(a)
  \/ Close \/ Closing

\* Goroutines are scheduled; nobody has to enqueue or to close.
Fairness ==
  /\ \A a \in Acceptors : WF_vars(AcceptConn(a) \/ AcceptFailed(a))
  /\ WF_vars(Closing)

Spec == Init /\ [][Next]_vars /\ Fairness

-----------------------------------------------------------------------------
(* Correctness.                                                            *)

\* No connection's fate is "panicked": nothing is sent on connCh once Close has
\* closed it.
TypeOK ==
  /\ connCh \in Seq(Conns) /\ Len(connCh) <= BufferSize
  /\ sealed \in BOOLEAN /\ done \in BOOLEAN /\ closed \in BOOLEAN
  /\ closer \in {"none", "marked", "draining", "returned"}
  /\ acceptor \in [Acceptors -> {"accepting", "stopped"}]
  /\ fate \in [Conns -> {"outside", "waiting", "accepted", "closed", "refused"}]

\* The listener keeps Handoff's promises: a connection is refused or ends up
\* accepted or closed, once, and none waits for ever after Close.
H == INSTANCE Handoff WITH shut <- closed

Implements == H!Spec

\* Every Accept that is blocked when the listener is closed returns, and so
\* does Close.
AllReturn ==
  closed ~> closer = "returned" /\ \A a \in Acceptors : acceptor[a] = "stopped"

=============================================================================
