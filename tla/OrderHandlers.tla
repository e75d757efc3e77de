---------------------------- MODULE OrderHandlers ----------------------------
(***************************************************************************)
(* The handlers an order's users call: editing, credentials, proof, status *)
(* changes, manual completion (src/lib/orders/service.ts), reconciliation  *)
(* and refund (src/lib/ledger.ts), and the daily credential deletion.      *)
(* Each handler is a Read action, with every check made on the row that    *)
(* was read, followed by the writes it makes after its awaits.             *)
(***************************************************************************)
EXTENDS OrderState

\* updateOrder: w is the assignee an administrator asks for, Keep leaves it alone.
UpdateRead(r, a, w) ==
  /\ Starts(r, "update") /\ Room
  /\ MayWrite(a)
  /\ order.reconciled => a = Admin
  /\ w # Keep => a = Admin
  /\ Holding(r, "update", a, w)
  /\ UNCHANGED <<rows, placed>>

Assigned(r) == IF req[r].arg = Keep THEN order.assignee ELSE req[r].arg

\* Variant: reassigning an order does not count as a new version.
UpdateWriteSameVersion(r) ==
  /\ req[r].at = "update"
  /\ order' = IF Current(r) THEN [order EXCEPT !.assignee = Assigned(r)] ELSE order
  /\ Ends(r)
  /\ UNCHANGED <<fut, cred, proof, refunds, placed>>

UpdateWrite(r) ==
  /\ req[r].at = "update"
  /\ IF Current(r)
     THEN order' = [order EXCEPT !.assignee = Assigned(r), !.version = @ + 1]
     ELSE UNCHANGED order
  /\ Ends(r)
  /\ UNCHANGED <<fut, cred, proof, refunds, placed>>

-----------------------------------------------------------------------------
(* Credentials.                                                            *)

\* addCredentials: the deletion date comes from the closedAt that was read.
AddCredentialsRead(r, a) ==
  /\ Starts(r, "credentials")
  /\ MayWrite(a)
  /\ Waiting(r, "credsWrite", IF order.closed THEN "week" ELSE "far")
  /\ UNCHANGED <<rows, placed>>

AddCredentialsWrite(r) ==
  /\ req[r].at = "credsWrite"
  /\ cred' = [state |-> "active", due |-> req[r].arg]
  /\ Ends(r)
  /\ UNCHANGED <<order, fut, proof, refunds, placed>>

\* deleteCredentialsNow, for administrators only.
DeleteCredentialsRead(r, a) ==
  /\ Starts(r, "deletion")
  /\ a = Admin
  /\ cred.state = "active"
  /\ Waiting(r, "credsDelete", Keep)
  /\ UNCHANGED <<rows, placed>>

\* deleteExpiredCredentials, called by the jobs cron: a "week" may have passed by now.
ExpireRead(r) ==
  /\ Starts(r, "expiry")
  /\ cred = [state |-> "active", due |-> "week"]
  /\ Waiting(r, "expire", Keep)
  /\ UNCHANGED <<rows, placed>>

\* Both erase the row they found by its id alone.
EraseCredentials(r) ==
  /\ req[r].at \in {"credsDelete", "expire"}
  /\ cred' = [state |-> "deleted", due |-> "none"]
  /\ Ends(r)
  /\ UNCHANGED <<order, fut, proof, refunds, placed>>

-----------------------------------------------------------------------------
(* Delivery proof: scanned and stored in the bucket between read and row.  *)

ProofRead(r, a) ==
  /\ Starts(r, "proof")
  /\ MayWrite(a)
  /\ order.status \in {"READY_FOR_REVIEW", "APPROVED", "PROCESSING",
                       "CUSTOMER_ACTION_REQUIRED", "COMPLETED"}
  /\ Waiting(r, "proofWrite", Keep)
  /\ UNCHANGED <<rows, placed>>

ProofWrite(r) ==
  /\ req[r].at = "proofWrite"
  /\ proof' = TRUE
  /\ Ends(r)
  /\ UNCHANGED <<order, fut, cred, refunds, placed>>

-----------------------------------------------------------------------------
(* Status changes.                                                         *)

\* What changeOrderStatus asks of the row it read before it accepts next.
StatusAllowed(a, next) ==
  /\ next \in {"READY_FOR_REVIEW", "APPROVED", "SUBMITTED_TO_FUT"} =>
       order.assignee # NoWorker /\ cred.state = "active"
  /\ next = "COMPLETED" => fut.cost /\ proof
  /\ next = "REFUNDED" => a = Admin
  /\ CanTransition(order.status, next)

ChangeStatusRead(r, a, next) ==
  /\ Starts(r, "status") /\ Room
  /\ MayWrite(a)
  /\ StatusAllowed(a, next)
  /\ Holding(r, "statusWrite", a, next)
  /\ UNCHANGED <<rows, placed>>

\* Variant: the status is written by id, without comparing the version.
StatusWriteUnchecked(r) ==
  /\ req[r].at = "statusWrite"
  /\ order' = WithStatus(order, req[r].arg, req[r].arg \in Terminal)
  /\ Waiting(r, "retention", IF req[r].arg \in Terminal THEN "week" ELSE "far")
  /\ UNCHANGED <<fut, cred, proof, refunds, placed>>

\* transitionWithHistory: the compare-and-set on the version ...
StatusWrite(r) ==
  /\ req[r].at = "statusWrite"
  /\ IF Current(r)
     THEN /\ order' = WithStatus(order, req[r].arg, req[r].arg \in Terminal)
          /\ Waiting(r, "retention", IF req[r].arg \in Terminal THEN "week" ELSE "far")
     ELSE UNCHANGED order /\ Ends(r)
  /\ UNCHANGED <<fut, cred, proof, refunds, placed>>

\* Variant: reopening an order leaves its credentials due for deletion.
RetentionWriteClosingOnly(r) ==
  /\ req[r].at = "retention"
  /\ cred' = IF req[r].arg = "week" THEN DueIn("week") ELSE cred
  /\ Ends(r)
  /\ UNCHANGED <<order, fut, proof, refunds, placed>>

\* ... and, in a statement of its own, the new deletion date of the credentials.
RetentionWrite(r) ==
  /\ req[r].at = "retention"
  /\ cred' = DueIn(req[r].arg)
  /\ Ends(r)
  /\ UNCHANGED <<order, fut, proof, refunds, placed>>

-----------------------------------------------------------------------------
(* Manual completion: the actual cost comes with the request.              *)

CompleteRead(r, a) ==
  /\ Starts(r, "complete") /\ Room
  /\ MayWrite(a)
  /\ order.status \in {"READY_FOR_REVIEW", "APPROVED"}
  /\ order.assignee # NoWorker
  /\ cred.state = "active"
  /\ proof
  /\ ~fut.ref
  /\ fut.state \notin {"UNKNOWN", "SUBMITTED"}
  /\ Holding(r, "complete", a, "COMPLETED")
  /\ UNCHANGED <<rows, placed>>

CompleteWrite(r) ==
  /\ req[r].at = "complete"
  /\ IF Current(r)
     THEN /\ order' = WithStatus(order, "COMPLETED", TRUE)
          /\ fut' = [fut EXCEPT !.state = "COMPLETED", !.cost = TRUE]
          /\ cred' = DueIn("week")
     ELSE UNCHANGED <<order, fut, cred>>
  /\ Ends(r)
  /\ UNCHANGED <<proof, refunds, placed>>

-----------------------------------------------------------------------------
(* Ledger.                                                                 *)

\* reconcileOrder: only the reconciledAt column is compared, not the version.
ReconcileRead(r, a) ==
  /\ Starts(r, "reconcile")
  /\ a = Admin
  /\ order.status = "COMPLETED"
  /\ fut.cost
  /\ ~order.reconciled
  /\ Waiting(r, "reconcile", Keep)
  /\ UNCHANGED <<rows, placed>>

ReconcileWrite(r) ==
  /\ req[r].at = "reconcile"
  /\ order' = [order EXCEPT !.reconciled = TRUE]
  /\ Ends(r)
  /\ UNCHANGED <<fut, cred, proof, refunds, placed>>

\* Variant: trusts the table, which lets every status move to itself.
RefundReadByTable(r, a) ==
  /\ Starts(r, "refund") /\ Room
  /\ a = Admin
  /\ CanTransition(order.status, "REFUNDED")
  /\ Holding(r, "refund", a, "REFUNDED")
  /\ UNCHANGED <<rows, placed>>

\* applyRefund, the ledger entry and the status in one transaction.
RefundRead(r, a) ==
  /\ Starts(r, "refund") /\ Room
  /\ a = Admin
  /\ order.status # "REFUNDED"
  /\ CanTransition(order.status, "REFUNDED")
  /\ Holding(r, "refund", a, "REFUNDED")
  /\ UNCHANGED <<rows, placed>>

RefundWrite(r) ==
  /\ req[r].at = "refund"
  /\ IF Current(r) /\ order.status = req[r].status
     THEN /\ order' = WithStatus(order, "REFUNDED", TRUE)
          /\ refunds' = refunds + 1
          /\ cred' = DueIn("week")
     ELSE UNCHANGED <<order, refunds, cred>>
  /\ Ends(r)
  /\ UNCHANGED <<fut, proof, placed>>
=============================================================================
