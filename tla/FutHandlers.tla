----------------------------- MODULE FutHandlers -----------------------------
(***************************************************************************)
(* The handlers that talk to the FUT provider: prepare, confirm, sync,     *)
(* correct and cancel (src/lib/orders/service.ts over                      *)
(* src/lib/integrations/fut.ts).  Each of them suspends on a provider call *)
(* between what it read and what it writes, and only the reservation of    *)
(* confirmFutOrder compares the version again.                             *)
(***************************************************************************)
EXTENDS OrderState

\* Variant: prepares again although the provider order id is known.
PrepareReadKnown(r, a) ==
  /\ Starts(r, "prepare")
  /\ MayWrite(a)
  /\ order.status \in {"READY_FOR_REVIEW", "APPROVED"}
  /\ order.assignee # NoWorker
  /\ cred.state = "active"
  /\ Waiting(r, "prepare", IF fut.state = "NONE" THEN "create" ELSE "modify")
  /\ UNCHANGED <<rows, placed>>

\* prepareFutOrder, up to the quote.  A known provider order returns early.
PrepareRead(r, a) ==
  /\ Starts(r, "prepare")
  /\ MayWrite(a)
  /\ order.status \in {"READY_FOR_REVIEW", "APPROVED"}
  /\ order.assignee # NoWorker
  /\ cred.state = "active"
  /\ ~fut.ref
  /\ Waiting(r, "prepare", IF fut.state = "NONE" THEN "create" ELSE "modify")
  /\ UNCHANGED <<rows, placed>>

\* The row is created (a concurrent creation breaks the unique key and throws),
\* or updated whatever its state has become.
PrepareWrite(r) ==
  /\ req[r].at = "prepare"
  /\ fut' = IF req[r].arg = "create" /\ fut.state # "NONE"
            THEN fut ELSE [fut EXCEPT !.state = "PREPARED"]
  /\ Ends(r)
  /\ UNCHANGED <<order, cred, proof, refunds, placed>>

-----------------------------------------------------------------------------
(* Confirmation: check, re-quote, reserve, claim, submit, settle.          *)

ConfirmRead(r, a) ==
  /\ Starts(r, "confirm") /\ Room
  /\ MayWrite(a)
  /\ order.status = "APPROVED"
  /\ fut.state = "PREPARED"
  /\ cred.state = "active"
  /\ Holding(r, "reserve", a, Keep)
  /\ UNCHANGED <<rows, placed>>

\* Variant: reserves any approved order, whatever version was reviewed.
ReserveByStatus(r) ==
  /\ req[r].at = "reserve"
  /\ IF order.status = "APPROVED"
     THEN order' = [order EXCEPT !.version = @ + 1] /\ Moves(r, "claim")
     ELSE UNCHANGED order /\ Ends(r)
  /\ UNCHANGED <<fut, cred, proof, refunds, placed>>

Reserve(r) ==
  /\ req[r].at = "reserve"
  /\ IF Current(r) /\ order.status = "APPROVED"
     THEN order' = [order EXCEPT !.version = @ + 1] /\ Moves(r, "claim")
     ELSE UNCHANGED order /\ Ends(r)
  /\ UNCHANGED <<fut, cred, proof, refunds, placed>>

Claim(r) ==
  /\ req[r].at = "claim"
  /\ fut' = [fut EXCEPT !.state = "CONFIRMING"]
  /\ Moves(r, "submit")
  /\ UNCHANGED <<order, cred, proof, refunds, placed>>

\* provider.createOrder, never retried.  The purchase is accepted or not; the
\* reply is read, lost in transport (an ambiguous error), or answers with a
\* refusal, a 5xx or a body without an order id (an error that is not ambiguous).
Submit(r) ==
  /\ req[r].at = "submit"
  /\ \/ /\ placed' = [placed EXCEPT !.accepted = @ + 1]
        /\ Moves(r, "accepted")
     \/ /\ placed' = [placed EXCEPT !.accepted = @ + 1, !.unrecorded = @ + 1]
        /\ \/ "lostReply" \in Faults /\ Moves(r, "unknown")
           \/ "badReply" \in Faults /\ Moves(r, "failed")
     \/ /\ UNCHANGED placed
        /\ \/ Moves(r, "failed")
           \/ "lostReply" \in Faults /\ Moves(r, "unknown")
  /\ UNCHANGED rows

\* The success transaction writes both rows unconditionally; both adapters
\* report a new order as "entered".  If it fails, the catch treats the
\* database error like a refusal.
SettleAccepted(r) ==
  /\ req[r].at = "accepted"
  /\ \/ /\ fut' = [state |-> "SUBMITTED", ref |-> TRUE, cost |-> TRUE]
        /\ order' = WithStatus(order, "SUBMITTED_TO_FUT", order.closed)
        /\ Ends(r)
        /\ UNCHANGED placed
     \/ /\ "dbError" \in Faults
        /\ Moves(r, "failed")
        /\ Unrecorded
        /\ UNCHANGED <<order, fut>>
  /\ UNCHANGED <<cred, proof, refunds>>

\* Variant: an ambiguous error is rethrown without being recorded.
SettleUnknownUnrecorded(r) ==
  /\ req[r].at = "unknown"
  /\ Ends(r)
  /\ UNCHANGED <<rows, placed>>

SettleUnknown(r) ==
  /\ req[r].at = "unknown"
  /\ fut' = [fut EXCEPT !.state = "UNKNOWN"]
  /\ Ends(r)
  /\ UNCHANGED <<order, cred, proof, refunds, placed>>

\* Variant: the failed order gets no closedAt.
SettleFailedOpen(r) ==
  /\ req[r].at = "failed"
  /\ fut' = [fut EXCEPT !.state = "FAILED"]
  /\ order' = WithStatus(order, "FAILED", order.closed)
  /\ cred' = DueIn("week")
  /\ Ends(r)
  /\ UNCHANGED <<proof, refunds, placed>>

SettleFailed(r) ==
  /\ req[r].at = "failed"
  /\ fut' = [fut EXCEPT !.state = "FAILED"]
  /\ order' = WithStatus(order, "FAILED", TRUE)
  /\ cred' = DueIn("week")
  /\ Ends(r)
  /\ UNCHANGED <<proof, refunds, placed>>

-----------------------------------------------------------------------------
(* Synchronisation.                                                        *)

SyncRead(r, a) ==
  /\ Starts(r, "sync") /\ Room
  /\ MayWrite(a)
  /\ fut.ref \/ fut.state = "UNKNOWN"
  /\ req' = [req EXCEPT ![r] = [Free EXCEPT !.at = "sync", !.actor = a,
                                             !.status = order.status]]
  /\ UNCHANGED <<rows, placed>>

\* Variant: stores the provider's status as the submission state.
SyncedStateRaw(mapped) == mapped

SyncedState(mapped) ==
  IF mapped \in {"COMPLETED", "CANCELLED"} THEN mapped ELSE "SUBMITTED"

\* Variant: a finished provider order completes the order.
SyncedStatusRaw(mapped) == mapped

\* A finished provider order still waits for proof and a person to complete it.
SyncedStatus(mapped) == IF mapped = "COMPLETED" THEN "PROCESSING" ELSE mapped

\* closedAt is written when the order closes and left alone otherwise.
SyncedClosed(closes) == order.closed \/ closes

\* Variant: a closed order is moved as well.
SyncMovesClosed(read, next) == read # next

\* Whether to move the order is decided on the status read before the call.
SyncMoves(read, next) == read # next /\ read \notin Terminal

\* The transaction after provider.getStatus.
SyncWrite(r, mapped, ref, cost) ==
  LET next == SyncedStatus(mapped)
      moves == SyncMoves(req[r].status, next)
      closes == moves /\ next \in Terminal
  IN
  /\ req[r].at = "sync"
  /\ fut' = [state |-> SyncedState(mapped), ref |-> fut.ref \/ ref,
             cost |-> fut.cost \/ cost]
  /\ order' = IF moves THEN WithStatus(order, next, SyncedClosed(closes)) ELSE order
  /\ cred' = IF closes THEN DueIn("week") ELSE cred
  /\ Ends(r)
  /\ UNCHANGED <<proof, refunds, placed>>

-----------------------------------------------------------------------------
(* Correcting the customer's credentials and cancelling.                   *)

CorrectRead(r, a) ==
  /\ Starts(r, "correct") /\ Room
  /\ MayWrite(a)
  /\ order.status = "CUSTOMER_ACTION_REQUIRED"
  /\ fut.state # "NONE"
  /\ cred.state = "active"
  /\ Waiting(r, "correct", Keep)
  /\ UNCHANGED <<rows, placed>>

CorrectWrite(r) ==
  /\ req[r].at = "correct"
  /\ fut' = [fut EXCEPT !.state = "SUBMITTED"]
  /\ order' = WithStatus(order, "PROCESSING", order.closed)
  /\ Ends(r)
  /\ UNCHANGED <<cred, proof, refunds, placed>>

\* cancelFutOrder (exported, called by no route): provider first, ...
CancelRead(r, a) ==
  /\ Starts(r, "cancel") /\ Room
  /\ a = Admin
  /\ fut.ref
  /\ Holding(r, "cancelFut", a, "CANCELLED")
  /\ UNCHANGED <<rows, placed>>

CancelFutWrite(r) ==
  /\ req[r].at = "cancelFut"
  /\ fut' = [fut EXCEPT !.state = "CANCELLED"]
  /\ Moves(r, "cancelStatus")
  /\ UNCHANGED <<order, cred, proof, refunds, placed>>

\* ... then changeOrderStatus, which reads the order again and may refuse.
CancelStatus(r) ==
  /\ req[r].at = "cancelStatus"
  /\ IF Current(r) /\ CanTransition(order.status, "CANCELLED")
     THEN Holding(r, "statusWrite", req[r].actor, "CANCELLED")
     ELSE Ends(r)
  /\ UNCHANGED <<rows, placed>>

-----------------------------------------------------------------------------
\* A provider or bucket call that fails before the handler has written anything
\* (and the price check of confirmFutOrder) ends the request with an error.
CallFails(r) ==
  /\ req[r].at \in {"prepare", "reserve", "sync", "correct", "cancelFut", "proofWrite"}
  /\ Ends(r)
  /\ UNCHANGED <<rows, placed>>
=============================================================================
