----------------------------- MODULE OrderState -----------------------------
(***************************************************************************)
(* The database rows of ONE order and the requests in flight against it.   *)
(* Orders share no rows that the handlers below change, so one order shows *)
(* every interleaving.                                                     *)
(*                                                                         *)
(* Each handler of src/lib/orders/service.ts reads the order, awaits, and  *)
(* writes: only a $transaction or a single statement is atomic.  A request *)
(* is therefore a slot with a program counter ("at") naming the await it   *)
(* is suspended on, and the part of what it read that it still needs.  A   *)
(* guard that fails throws an AppError and changes nothing: it is the      *)
(* action not being enabled.                                               *)
(***************************************************************************)
EXTENDS OrderDomain, Naturals

CONSTANTS
  Requests,       \* handler invocations that may be in flight at once
  Ops,            \* the operations the users of this instance send
  Faults,         \* the faults of this instance, a subset of FaultKinds
  MaxVersion,     \* bound: no operation that moves the version starts from it on
  StartApproved   \* start from an order already reviewed and approved

FaultKinds == {"crash", "lostReply", "badReply", "dbError"}

ASSUME BoundsAssumption == MaxVersion \in Nat /\ StartApproved \in BOOLEAN
ASSUME FaultsAssumption == Faults \subseteq FaultKinds

VARIABLES
  order,   \* the Order row
  fut,     \* the FutOrder row: submission state, provider id known, actual cost known
  cred,    \* the CustomerCredential row and when it is due for deletion
  proof,   \* whether a ProofFile row exists
  refunds, \* how many REFUND lines applyRefund has booked in the ledger
  placed,  \* submissions the FUT provider accepted, and those of them whose order
           \* number a fault kept from us (nobody's column: the provider's own record)
  req      \* the requests in flight

rows == <<order, fut, cred, proof, refunds>>
vars == <<order, fut, cred, proof, refunds, placed, req>>

Nobody == "nobody"
Keep == "keep"

\* The awaits a handler can be suspended on; "idle" is a free slot.
Points ==
  {"idle", "update", "statusWrite", "retention", "complete", "credsWrite",
   "credsDelete", "proofWrite", "expire", "prepare", "reserve", "claim",
   "submit", "accepted", "unknown", "failed", "sync", "correct", "cancelFut",
   "cancelStatus", "reconcile", "refund"}

Dues == {"none", "far", "week"}
RequestArgs == Statuses \cup Assignees \cup Dues \cup {Keep, "create", "modify"}

Free == [at |-> "idle", actor |-> Nobody, status |-> "DRAFT", version |-> 0,
         arg |-> Keep]

PlacedType == [accepted : Nat, unrecorded : Nat]

RowsOK ==
  /\ order \in [status : Statuses, version : Nat, closed : BOOLEAN,
                assignee : Assignees, reconciled : BOOLEAN]
  /\ fut \in [state : SubmissionStates, ref : BOOLEAN, cost : BOOLEAN]
  /\ cred \in [state : {"none", "active", "deleted"}, due : Dues]
  /\ proof \in BOOLEAN
  /\ refunds \in Nat
  /\ placed \in PlacedType

Slots == [Requests -> [at : Points, actor : Actors \cup {Nobody},
                       status : Statuses, version : Nat, arg : RequestArgs]]

TypeOK == RowsOK /\ req \in Slots

\* As createOrder leaves an order (a worker assigns it to himself), or as it is
\* after the same order was given credentials, marked ready and approved.
Init ==
  /\ order \in
       IF StartApproved
       THEN [status : {"APPROVED"}, version : {3}, closed : {FALSE},
             assignee : Workers, reconciled : {FALSE}]
       ELSE [status : {"DRAFT"}, version : {1}, closed : {FALSE},
             assignee : Assignees, reconciled : {FALSE}]
  /\ fut = [state |-> "NONE", ref |-> FALSE, cost |-> FALSE]
  /\ cred = IF StartApproved THEN [state |-> "active", due |-> "far"]
                             ELSE [state |-> "none", due |-> "none"]
  /\ proof = FALSE
  /\ refunds = 0
  /\ placed = [accepted |-> 0, unrecorded |-> 0]
  /\ req = [r \in Requests |-> Free]

-----------------------------------------------------------------------------
(* Request slots.                                                          *)

Starts(r, op) == op \in Ops /\ req[r].at = "idle"

\* Operations that move Order.version start only below the bound.
Room == order.version < MaxVersion

MayWrite(a) == CanWriteOrder(a, order.assignee, order.status)

\* The request is suspended at point p, remembering the status and version it read.
Holding(r, p, a, arg) ==
  req' = [req EXCEPT ![r] = [at |-> p, actor |-> a, status |-> order.status,
                             version |-> order.version, arg |-> arg]]

\* The same, for a handler that uses nothing of the order it read later on.
Waiting(r, p, arg) ==
  req' = [req EXCEPT ![r] = [Free EXCEPT !.at = p, !.arg = arg]]

Moves(r, p) == req' = [req EXCEPT ![r].at = p]
Ends(r) == req' = [req EXCEPT ![r] = Free]

\* updateMany({ where: { id, version } }) finds the row it expects.
Current(r) == order.version = req[r].version

\* A write of the status column always comes with version: { increment: 1 }.
WithStatus(o, s, c) == [o EXCEPT !.status = s, !.version = @ + 1, !.closed = c]

\* The order number of an accepted submission is lost before it is stored.
Unrecorded == placed' = [placed EXCEPT !.unrecorded = @ + 1]

\* customerCredential.updateMany({ where: { deletedAt: null }, data: { deletionDueAt } })
DueIn(d) == IF cred.state = "active" THEN [cred EXCEPT !.due = d] ELSE cred
=============================================================================
