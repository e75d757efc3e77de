----------------------------- MODULE OrderSystem -----------------------------
(***************************************************************************)
(* The order service: every handler of OrderHandlers and FutHandlers,      *)
(* interleaved at its awaits by any number of requests, with the faults    *)
(* the deployment can meet.  The properties say what the optimistic lock   *)
(* on Order.version does protect, what holds only while no two requests    *)
(* overlap, and what the repository's documents claim.                     *)
(***************************************************************************)
EXTENDS OrderHandlers, FutHandlers

\* A user sends a request, or the cron starts the credential deletion.
Start(r) ==
  \/ \E a \in Actors :
       \/ \E w \in Assignees \cup {Keep} : UpdateRead(r, a, w)
       \/ \E next \in Statuses : ChangeStatusRead(r, a, next)
       \/ AddCredentialsRead(r, a)
       \/ DeleteCredentialsRead(r, a)
       \/ ProofRead(r, a)
       \/ CompleteRead(r, a)
       \/ ReconcileRead(r, a)
       \/ RefundRead(r, a)
       \/ PrepareRead(r, a)
       \/ ConfirmRead(r, a)
       \/ SyncRead(r, a)
       \/ CorrectRead(r, a)
       \/ CancelRead(r, a)
  \/ ExpireRead(r)

\* The next step of a handler that is running.
Continue(r) ==
  \/ UpdateWrite(r)
  \/ AddCredentialsWrite(r)
  \/ EraseCredentials(r)
  \/ ProofWrite(r)
  \/ StatusWrite(r)
  \/ RetentionWrite(r)
  \/ CompleteWrite(r)
  \/ ReconcileWrite(r)
  \/ RefundWrite(r)
  \/ PrepareWrite(r)
  \/ Reserve(r)
  \/ Claim(r)
  \/ Submit(r)
  \/ SettleAccepted(r)
  \/ SettleUnknown(r)
  \/ SettleFailed(r)
  \/ \E mapped \in ProviderStatuses, ref, cost \in BOOLEAN : SyncWrite(r, mapped, ref, cost)
  \/ CorrectWrite(r)
  \/ CancelFutWrite(r)
  \/ CancelStatus(r)
  \/ CallFails(r)

\* The process stops, or a statement fails, between two steps of a handler.
Crash(r) ==
  /\ "crash" \in Faults
  /\ req[r].at # "idle"
  /\ Ends(r)
  /\ IF req[r].at = "accepted" THEN Unrecorded ELSE UNCHANGED placed
  /\ UNCHANGED rows

Next == \E r \in Requests : Start(r) \/ Continue(r) \/ Crash(r)

Spec == Init /\ [][Next]_vars

\* Node runs every handler that has started: its awaits end, the provider's by
\* the AbortController of request() in fut.ts.  Nobody has to send a request.
FairSpec == Spec /\ \A r \in Requests : WF_vars(Continue(r))

-----------------------------------------------------------------------------
(* What the optimistic lock protects, for any number of requests.          *)

\* The points at which a request still holds the version it read.
Versioned ==
  {"update", "statusWrite", "complete", "reserve", "refund", "cancelFut", "cancelStatus"}

\* No request remembers a version from the future, and one whose version is
\* still current remembers the current status and may still write: every change
\* of status or assignee by any handler moves Order.version.
SnapshotCoherent ==
  \A r \in Requests :
    req[r].at \in Versioned =>
      /\ req[r].version <= order.version
      /\ Current(r) => /\ req[r].status = order.status
                       /\ MayWrite(req[r].actor)

\* changeOrderStatus, completeOrderManually and applyRefund check the table and
\* the access on a row that may be stale when they write: what they do write
\* follows the table from the status at that moment, by somebody who may then.
GuardedWritesAreCurrent ==
  [][\A r \in Requests :
       req[r].at \in {"statusWrite", "complete", "refund"} /\ order' # order
         /\ req'[r] # req[r] =>
           /\ CanTransition(order.status, order'.status)
           /\ MayWrite(req[r].actor)]_vars

\* Past the reservation of confirmFutOrder, until the outcome is stored.
Confirming == {"claim", "submit", "accepted", "unknown", "failed"}

\* One reviewed version is spent on one submission: two confirmations on their
\* way to the provider were reviewed at different versions, both already past.
ReservationExclusive ==
  \A r, s \in Requests :
    req[r].at \in Confirming =>
      /\ req[r].version < order.version
      /\ req[s].at \in Confirming /\ req[s].version = req[r].version => r = s

HasEvidence == proof /\ fut.cost

\* PROJECT_PLAN.md:85, in every interleaving: an order is never COMPLETED, nor
\* reconciled by a request that saw it COMPLETED, without proof and actual cost.
CompletedHasEvidence ==
  order.status = "COMPLETED" \/ order.reconciled => HasEvidence

\* A request that will write the order's status by id when its call to the provider
\* ends: a synchronisation only if it read an open order.
MayMoveById(q) ==
  \/ q.at \in {"reserve", "correct"} \cup Confirming
  \/ q.at = "sync" /\ q.status \notin Terminal

Asked == {r \in Requests : MayMoveById(req[r])}

Lifecycle == INSTANCE OrderLifecycle
               WITH Callers <- Requests, status <- order.status,
                    version <- order.version, closed <- order.closed, asked <- Asked

\* syncFutOrder, the settlement of confirmFutOrder and correctAndResumeFutOrder write
\* the status by id, without comparing the version, and everybody else compares it:
\* together they move status, version and closedAt as OrderLifecycle allows.  A closed
\* order is moved by the provider only through a call begun while it was open.
ImplementsLifecycle == Lifecycle!LifecycleSpec

-----------------------------------------------------------------------------
(* What holds while requests do not overlap (one slot).                    *)

\* closedAt is set exactly in a closing status.
ClosedIffTerminal == order.closed <=> order.status \in Terminal

\* An order is bought once, and once more for each purchase whose order number a
\* lost or bad reply, a failing settlement or a crash kept from being stored.
BoughtAgainOnlyIfLost == placed.accepted <= 1 + placed.unrecorded

\* A refund is booked once: REFUNDED is never left.
RefundedOnce == refunds <= 1 /\ (refunds = 1 => order.status = "REFUNDED")

Quiet == \A r \in Requests : req[r].at = "idle"

\* PROJECT_PLAN.md:143, docs/ACTIVE_MVP_PLAN.md:277: once the handlers are done, stored
\* credentials are due within a week exactly when the order is closed.
RetentionScheduled ==
  Quiet /\ cred.state = "active" => (cred.due = "week" <=> order.status \in Terminal)

-----------------------------------------------------------------------------
(* What happens eventually.                                                *)

\* A confirmation that is not interrupted leaves CONFIRMING.
ConfirmingSettles == fut.state = "CONFIRMING" ~> fut.state # "CONFIRMING"

-----------------------------------------------------------------------------
(* What the documents say and the code does not keep.                      *)

\* docs/FUT_TRANSFER_CONTRACT.md:32, PROJECT_PLAN.md:297: the provider accepts at
\* most one submission of an order.  (Whether it would recognise a second one by
\* its externalOrderID is not in this repository, and nothing here relies on it.)
AcceptedOnce == placed.accepted <= 1
=============================================================================
