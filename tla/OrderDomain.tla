---------------------------- MODULE OrderDomain ----------------------------
(***************************************************************************)
(* The vocabulary of the order service: order statuses and the status      *)
(* table of src/lib/domain.ts, the FUT submission states, and who may      *)
(* touch an order.  Pure definitions, no state.                            *)
(***************************************************************************)

CONSTANTS
  Workers,   \* users with the role WORKER
  Admin,     \* a user with the role OWNER_ADMIN
  NoWorker   \* the null of Order.assignedWorkerId

ASSUME RolesAssumption == Admin \notin Workers /\ NoWorker \notin Workers \cup {Admin}

Actors == Workers \cup {Admin}
Assignees == Workers \cup {NoWorker}

Statuses ==
  {"DRAFT", "WAITING_FOR_DETAILS", "READY_FOR_REVIEW", "APPROVED",
   "SUBMITTED_TO_FUT", "PROCESSING", "CUSTOMER_ACTION_REQUIRED", "COMPLETED",
   "FAILED", "CANCELLED", "DISPUTED", "REFUNDED"}

\* Closing statuses: an order in one of them has a closedAt.  DISPUTED is open again.
Terminal == {"COMPLETED", "FAILED", "CANCELLED", "REFUNDED"}

Transitions ==
  [DRAFT |-> {"WAITING_FOR_DETAILS", "READY_FOR_REVIEW", "CANCELLED"},
   WAITING_FOR_DETAILS |-> {"READY_FOR_REVIEW", "DRAFT", "CANCELLED"},
   READY_FOR_REVIEW |-> {"APPROVED", "COMPLETED", "DRAFT", "CANCELLED"},
   APPROVED |-> {"SUBMITTED_TO_FUT", "COMPLETED", "CANCELLED"},
   SUBMITTED_TO_FUT |-> {"PROCESSING", "CUSTOMER_ACTION_REQUIRED", "COMPLETED",
                         "FAILED", "CANCELLED"},
   PROCESSING |-> {"CUSTOMER_ACTION_REQUIRED", "COMPLETED", "FAILED", "DISPUTED"},
   CUSTOMER_ACTION_REQUIRED |-> {"PROCESSING", "COMPLETED", "FAILED", "DISPUTED"},
   COMPLETED |-> {"DISPUTED", "REFUNDED"},
   FAILED |-> {"READY_FOR_REVIEW", "CANCELLED", "REFUNDED"},
   CANCELLED |-> {"READY_FOR_REVIEW", "REFUNDED"},
   DISPUTED |-> {"COMPLETED", "REFUNDED"},
   REFUNDED |-> {}]

CanTransition(from, to) == from = to \/ to \in Transitions[from]

\* The states of FutOrder.submissionState; "NONE" stands for "no FutOrder row yet".
SubmissionStates ==
  {"NONE", "PREPARED", "CONFIRMING", "SUBMITTED", "UNKNOWN", "FAILED",
   "COMPLETED", "CANCELLED"}

\* What interpretFutStatus can make of a provider answer: it never says FAILED.
ProviderStatuses ==
  {"SUBMITTED_TO_FUT", "PROCESSING", "CUSTOMER_ACTION_REQUIRED", "COMPLETED",
   "CANCELLED"}

CanAccessOrder(actor, assignee, status) ==
  \/ actor = Admin
  \/ actor \in Workers /\ assignee = actor /\ status \notin {"CANCELLED", "REFUNDED"}

\* assertOrderAccess with write = true: closed orders are read-only for workers.
CanWriteOrder(actor, assignee, status) ==
  /\ CanAccessOrder(actor, assignee, status)
  /\ status \in Terminal => actor = Admin
=============================================================================
