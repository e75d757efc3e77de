---------------------------- MODULE OrderLifecycle ----------------------------
(***************************************************************************)
(* What the order service promises of an order's status, whatever requests *)
(* overlap: people move it along the status table; the provider moves it   *)
(* anywhere among its own statuses and FAILED, but only by a call that was *)
(* begun while the order was open, and once for each call; every move and  *)
(* every edit is one new version; and nobody but a person completes,       *)
(* disputes or refunds an order.  src/lib/domain.ts gives the table.       *)
(***************************************************************************)
EXTENDS OrderDomain, Naturals

CONSTANT Callers   \* those who may have a call to the provider under way

VARIABLES
  status, version, closed,   \* of the order
  asked                      \* the callers whose answer may still move the order

lifecycle == <<status, version, closed, asked>>

LifecycleInit ==
  /\ status \in {"DRAFT", "APPROVED"}
  /\ version \in Nat
  /\ closed = FALSE
  /\ asked = {}

\* A person's move: along the table, and closed exactly in a closing status.
UserMove ==
  /\ \E next \in Statuses : CanTransition(status, next) /\ status' = next
  /\ version' = version + 1
  /\ closed' = (status' \in Terminal)
  /\ UNCHANGED asked

Edit ==
  /\ version' = version + 1
  /\ UNCHANGED <<status, closed, asked>>

\* A call to the provider about an order that is open.
Ask(c) ==
  /\ status \notin Terminal
  /\ asked' = asked \cup {c}
  /\ UNCHANGED <<status, version, closed>>

\* The provider's move, at the end of such a call, whatever has become of the order
\* in the meantime: it may close an order but it never unsets closedAt.
ProviderMove(c) ==
  /\ c \in asked
  /\ asked' = asked \ {c}
  /\ status' \in (ProviderStatuses \ {"COMPLETED"}) \cup {"FAILED"}
  /\ version' = version + 1
  /\ closed' = (closed \/ status' \in Terminal)

\* A call that ends without moving the order.
Drop(c) ==
  /\ asked' = asked \ {c}
  /\ UNCHANGED <<status, version, closed>>

LifecycleNext ==
  \/ UserMove
  \/ Edit
  \/ \E c \in Callers : Ask(c) \/ ProviderMove(c) \/ Drop(c)

LifecycleSpec == LifecycleInit /\ [][LifecycleNext]_lifecycle
=============================================================================
