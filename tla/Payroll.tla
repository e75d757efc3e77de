------------------------------- MODULE Payroll -------------------------------
(***************************************************************************)
(* Monthly payroll (src/lib/payroll.ts) over the orders it counts and the  *)
(* refunds that reverse what it counted (src/lib/ledger.ts).               *)
(*                                                                         *)
(* A payroll entry is a number; here it is the set of <<order, worker>>    *)
(* pairs behind the number: one credit, or one reversal, per pair.         *)
(*                                                                         *)
(* Two things overlap.  A draft is built by several reads and a last       *)
(* transaction.  And a handler that talks to the provider reads the order, *)
(* awaits the answer and writes the status by id, off the table, whatever  *)
(* the order has become: these are calls in flight (call).  A reconcili-   *)
(* ation writes late as well (reconciling).  The handlers that compare     *)
(* Order.version are single steps, since every write they could miss moves *)
(* the version or is none they read.  The FutOrder row is left out: which  *)
(* orders the provider knows is open here, and settled in OrderSystem.     *)
(***************************************************************************)
EXTENDS OrderDomain, Integers

CONSTANTS
  Orders,     \* the orders of the organisation
  Builds,     \* draft builds that may be under way at once
  Calls,      \* provider calls that may be under way at once
  LastMonth,  \* bound: the clock stops in this month
  Drafted,    \* bound: the periods that drafts are built for
  Targets     \* bound: the statuses that people move an order to

ASSUME MonthsAssumption == LastMonth \in Nat \ {0} /\ Drafted \subseteq 1..LastMonth + 1
ASSUME TargetsAssumption == Targets \subseteq Statuses
ASSUME OrdersAssumption == Orders # {}

VARIABLES
  month,      \* the current month
  order,      \* what payroll reads of each order, and its history (see TypeOK)
  booked,     \* the orders with a REFUND line of applyRefund
  period,     \* status of each PayrollPeriod, "NONE" before its row exists
  entry,      \* the PayrollEntry rows of each period: pairs credited, pairs reversed
  adjustment, \* the PayrollAdjustment rows of each period
  build,      \* the buildPayrollDraft calls under way
  racing,     \* those whose period has been approved since they began
  call,       \* the handlers that write after a provider call, and what they read
  reconciling \* the orders that reconciliations under way have read

orders == <<month, order, booked, call, reconciling>>
books == <<period, entry, adjustment, build, racing>>
vars == <<month, order, booked, call, reconciling, period, entry, adjustment, build, racing>>

Months == 1..LastMonth          \* months the clock reaches
Periods == 1..LastMonth + 1     \* a refund in the last month reverses in the next
Open == 0                       \* the null of Order.closedAt
Pairs == Orders \X Workers
Empty == [credited |-> {}, reversed |-> {}]
NoBuild == [at |-> "idle", month |-> 1, credited |-> {}, reversed |-> {}]
NoCall == [at |-> "idle", order |-> CHOOSE o \in Orders : TRUE, status |-> "DRAFT"]

\* disputed: the order has been DISPUTED.  overwritten: a provider call that began while
\* the order was open has written its answer over COMPLETED or REFUNDED.
TypeOK ==
  /\ month \in Months
  /\ order \in [Orders -> [status : Statuses, closedIn : Months \cup {Open},
                           reconciled : BOOLEAN, assignee : Assignees,
                           disputed : BOOLEAN, overwritten : BOOLEAN]]
  /\ booked \subseteq Orders
  /\ period \in [Periods -> {"NONE", "DRAFT", "APPROVED", "PAID"}]
  /\ entry \in [Periods -> [credited : SUBSET Pairs, reversed : SUBSET Pairs]]
  /\ adjustment \in [Periods -> SUBSET Pairs]
  /\ build \in [Builds -> [at : {"idle", "count", "adjust", "write"}, month : Periods,
                           credited : SUBSET Pairs, reversed : SUBSET Pairs]]
  /\ racing \subseteq Builds
  /\ call \in [Calls -> [at : {"idle", "confirm", "sync", "correct"},
                         order : Orders, status : Statuses]]
  /\ reconciling \subseteq Orders

Init ==
  /\ month = 1
  /\ order \in [Orders -> [status : {"APPROVED"}, closedIn : {Open},
                           reconciled : {FALSE}, assignee : Workers,
                           disputed : {FALSE}, overwritten : {FALSE}]]
  /\ booked = {}
  /\ period = [m \in Periods |-> "NONE"]
  /\ entry = [m \in Periods |-> Empty]
  /\ adjustment = [m \in Periods |-> {}]
  /\ build = [b \in Builds |-> NoBuild]
  /\ racing = {}
  /\ call = [c \in Calls |-> NoCall]
  /\ reconciling = {}

-----------------------------------------------------------------------------
(* The orders: what compares Order.version.                                *)

NextMonth ==
  /\ month < LastMonth
  /\ month' = month + 1
  /\ UNCHANGED <<order, booked, call, reconciling, books>>

\* closedAt of an order moved to status next: kept from one closing status to another.
ClosedIn(o, next) ==
  CASE next \notin Terminal -> Open
    [] next \in Terminal /\ order[o].closedIn # Open -> order[o].closedIn
    [] OTHER -> month

\* A status change through the table (changeOrderStatus), or a manual completion, whose
\* order is READY_FOR_REVIEW or APPROVED and so without a closedAt to keep.
Move(o, next) ==
  /\ CanTransition(order[o].status, next)
  /\ order' = [order EXCEPT ![o].status = next,
                            ![o].closedIn = ClosedIn(o, next),
                            ![o].disputed = @ \/ next = "DISPUTED"]
  /\ UNCHANGED <<month, booked, call, reconciling, books>>

\* updateOrder by an administrator, closed orders included.
Assign(o, w) ==
  /\ order' = [order EXCEPT ![o].assignee = w]
  /\ UNCHANGED <<month, booked, call, reconciling, books>>

Fixed(m) == period[m] \in {"APPROVED", "PAID"}

\* The period in which a refund of o is reversed: the one after the period that
\* contains closedAt, if that one is no longer a draft, and only if it is a draft.
ReversalPeriod(o) == ClosedIn(o, "REFUNDED") + 1

\* Variant: reverses whatever became of the period that counted the order.
ReversalDueAlways(o) ==
  /\ order[o].assignee # NoWorker
  /\ period[ReversalPeriod(o)] \in {"NONE", "DRAFT"}

ReversalDue(o) ==
  /\ order[o].assignee # NoWorker
  /\ Fixed(ClosedIn(o, "REFUNDED"))
  /\ period[ReversalPeriod(o)] \in {"NONE", "DRAFT"}

\* An adjustment of the order that is there already stays as it is: the upsert updates nothing.
Reversed(o, n) ==
  IF \E w \in Workers : <<o, w>> \in adjustment[n] THEN adjustment
  ELSE [adjustment EXCEPT ![n] = @ \cup {<<o, order[o].assignee>>}]

\* applyRefund: its transaction compares version and status, so that what it
\* read of the order is still current and the call is one step.
Refund(o) ==
  /\ order[o].status # "REFUNDED"
  /\ CanTransition(order[o].status, "REFUNDED")
  /\ order' = [order EXCEPT ![o].status = "REFUNDED", ![o].closedIn = ClosedIn(o, "REFUNDED")]
  /\ booked' = booked \cup {o}
  /\ IF ReversalDue(o)
     THEN LET n == ReversalPeriod(o)
          IN  period' = [period EXCEPT ![n] = "DRAFT"] /\ adjustment' = Reversed(o, n)
     ELSE UNCHANGED <<period, adjustment>>
  /\ UNCHANGED <<month, call, reconciling, entry, build, racing>>

-----------------------------------------------------------------------------
(* The orders: what writes by id, on an older reading.                     *)

\* A call suspends on its await, remembering the order and the status it read.
Calling(c, o, at) ==
  /\ call[c].at = "idle"
  /\ call' = [call EXCEPT ![c] = [at |-> at, order |-> o, status |-> order[o].status]]
  /\ UNCHANGED <<month, order, booked, reconciling, books>>

\* The write of its answer: status and closedAt, whatever the order is by now.
Overwrite(c, next, closed) ==
  LET o == call[c].order IN
  order' = [order EXCEPT ![o].status = next, ![o].closedIn = closed,
                         ![o].overwritten = @ \/ /\ call[c].status \notin Terminal
                                                 /\ order[o].status \in {"COMPLETED", "REFUNDED"}]

Answered(c) == call' = [call EXCEPT ![c] = NoCall] /\ UNCHANGED <<month, booked, reconciling, books>>

\* The reservation of confirmFutOrder is the last of its writes that compares the version ...
Reserve(c, o) == order[o].status = "APPROVED" /\ Calling(c, o, "confirm")

\* ... the settlement, after provider.createOrder, keeps closedAt as it is ...
SettleAccepted(c) ==
  /\ call[c].at = "confirm"
  /\ Overwrite(c, "SUBMITTED_TO_FUT", order[call[c].order].closedIn)
  /\ Answered(c)

\* ... or closes the order.
SettleFailed(c) ==
  /\ call[c].at = "confirm"
  /\ Overwrite(c, "FAILED", month)
  /\ Answered(c)

SyncRead(c, o) == Calling(c, o, "sync")

\* What a synchronisation writes: a finished provider order goes on as PROCESSING.
SyncedStatuses == (ProviderStatuses \ {"COMPLETED"})

\* Variant: a synchronisation moves a closed order too.
SyncMovesClosed(c, next) == call[c].status # next

\* The decision to move the order is taken on the status read before provider.getStatus.
SyncMoves(c, next) == call[c].status # next /\ call[c].status \notin Terminal

SyncWrite(c, next) ==
  /\ call[c].at = "sync"
  /\ IF SyncMoves(c, next)
     THEN Overwrite(c, next, IF next \in Terminal THEN month ELSE order[call[c].order].closedIn)
     ELSE UNCHANGED order
  /\ Answered(c)

CorrectRead(c, o) == order[o].status = "CUSTOMER_ACTION_REQUIRED" /\ Calling(c, o, "correct")

CorrectWrite(c) ==
  /\ call[c].at = "correct"
  /\ Overwrite(c, "PROCESSING", order[call[c].order].closedIn)
  /\ Answered(c)

\* The call fails, its outcome is unknown, or the process stops: the order stays as it is.
CallFails(c) == call[c].at # "idle" /\ UNCHANGED order /\ Answered(c)

\* reconcileOrder: its transaction compares reconciledAt alone.
ReconcileRead(o) ==
  /\ order[o].status = "COMPLETED"
  /\ ~order[o].reconciled
  /\ reconciling' = reconciling \cup {o}
  /\ UNCHANGED <<month, order, booked, call, books>>

ReconcileWrite(o) ==
  /\ o \in reconciling
  /\ order' = [order EXCEPT ![o].reconciled = TRUE]
  /\ reconciling' = reconciling \ {o}
  /\ UNCHANGED <<month, booked, call, books>>

-----------------------------------------------------------------------------
(* The periods.                                                            *)

\* Variant: rebuilds a period whatever its status.
BuildReadAny(b, m) ==
  /\ build[b].at = "idle"
  /\ period' = [period EXCEPT ![m] = IF @ = "NONE" THEN "DRAFT" ELSE @]
  /\ build' = [build EXCEPT ![b] = [NoBuild EXCEPT !.at = "count", !.month = m]]
  /\ UNCHANGED <<orders, entry, adjustment, racing>>

\* buildPayrollDraft: the period is created or found, and must be a draft now ...
BuildRead(b, m) ==
  /\ build[b].at = "idle"
  /\ period[m] \in {"NONE", "DRAFT"}
  /\ period' = [period EXCEPT ![m] = "DRAFT"]
  /\ build' = [build EXCEPT ![b] = [NoBuild EXCEPT !.at = "count", !.month = m]]
  /\ UNCHANGED <<orders, entry, adjustment, racing>>

Counted(m) ==
  {o \in Orders : /\ order[o].status = "COMPLETED"
                  /\ order[o].reconciled
                  /\ order[o].closedIn = m}

\* ... the orders completed, reconciled and closed in the month are read ...
BuildCount(b) ==
  /\ build[b].at = "count"
  /\ build' = [build EXCEPT ![b].at = "adjust",
                            ![b].credited = {p \in Pairs : /\ p[1] \in Counted(build[b].month)
                                                           /\ p[2] = order[p[1]].assignee}]
  /\ UNCHANGED <<orders, period, entry, adjustment, racing>>

\* ... then its adjustments ...
BuildAdjust(b) ==
  /\ build[b].at = "adjust"
  /\ build' = [build EXCEPT ![b].at = "write",
                            ![b].reversed = adjustment[build[b].month]]
  /\ UNCHANGED <<orders, period, entry, adjustment, racing>>

\* ... and the entries are replaced, without another look at the period's status.
BuildWrite(b) ==
  /\ build[b].at = "write"
  /\ entry' = [entry EXCEPT ![build[b].month] =
                 [credited |-> build[b].credited, reversed |-> build[b].reversed]]
  /\ build' = [build EXCEPT ![b] = NoBuild]
  /\ racing' = racing \ {b}
  /\ UNCHANGED <<orders, period, adjustment>>

\* The process stops or a statement fails; nothing has been written yet.
BuildFails(b) ==
  /\ build[b].at # "idle"
  /\ build' = [build EXCEPT ![b] = NoBuild]
  /\ racing' = racing \ {b}
  /\ UNCHANGED <<orders, period, entry, adjustment>>

\* Both are one compare-and-set on the period's status.
Approve(m) ==
  /\ period[m] = "DRAFT"
  /\ period' = [period EXCEPT ![m] = "APPROVED"]
  /\ racing' = racing \cup {b \in Builds : build[b].at # "idle" /\ build[b].month = m}
  /\ UNCHANGED <<orders, entry, adjustment, build>>

Pay(m) ==
  /\ period[m] = "APPROVED"
  /\ period' = [period EXCEPT ![m] = "PAID"]
  /\ UNCHANGED <<orders, entry, adjustment, build, racing>>

Next ==
  \/ NextMonth
  \/ \E o \in Orders :
       \/ \E next \in Targets : Move(o, next)
       \/ \E w \in Assignees : Assign(o, w)
       \/ Refund(o)
       \/ ReconcileRead(o)
       \/ ReconcileWrite(o)
  \/ \E c \in Calls :
       \/ \E o \in Orders : Reserve(c, o) \/ SyncRead(c, o) \/ CorrectRead(c, o)
       \/ SettleAccepted(c) \/ SettleFailed(c)
       \/ \E next \in SyncedStatuses : SyncWrite(c, next)
       \/ CorrectWrite(c)
       \/ CallFails(c)
  \/ \E b \in Builds :
       \/ \E m \in Drafted : BuildRead(b, m)
       \/ BuildCount(b)
       \/ BuildAdjust(b)
       \/ BuildWrite(b)
       \/ BuildFails(b)
  \/ \E m \in Periods : Approve(m) \/ Pay(m)

Spec == Init /\ [][Next]_vars

-----------------------------------------------------------------------------
(* What holds however builds, approvals, refunds and calls interleave.     *)

ReversedIn(o, m) == \E w \in Workers : <<o, w>> \in adjustment[m]

\* A reversal belongs to an order whose refund was booked, is charged to one worker,
\* and follows a period that is already approved: until then the order just stops being
\* counted there.  The order stays REFUNDED with the closing month before the reversal,
\* so that there is one reversal at most, unless a provider call that began while it was
\* open overwrites it later.  (applyRefund, src/lib/ledger.ts)
ReversalFollowsApproval ==
  \A o \in Orders, m \in Periods :
    ReversedIn(o, m) =>
      /\ o \in booked /\ m - 1 \in Periods /\ Fixed(m - 1)
      /\ \A v, w \in Workers : {<<o, v>>, <<o, w>>} \subseteq adjustment[m] => v = w
      /\ ~order[o].overwritten => order[o].status = "REFUNDED" /\ order[o].closedIn = m - 1

CountedIn(o, m) ==
  \E w \in Workers :
    \/ <<o, w>> \in entry[m].credited
    \/ \E b \in Builds : build[b].month = m /\ <<o, w>> \in build[b].credited

\* An order counts in no two periods, not even across the reads of builds under way: its
\* closing month, once counted, is final.  Two things only reopen it: a dispute, and a
\* provider call that began while it was open and is answered after it was completed.
CountedInOneMonth ==
  \A o \in Orders, m, n \in Periods :
    /\ ~order[o].disputed /\ ~order[o].overwritten
    /\ CountedIn(o, m) /\ CountedIn(o, n)
    => m = n

\* The entries of an approved or paid period are rewritten by nothing but a build that was
\* under way when the period was approved, and by each of those once (payroll.ts:46).
OnlyRacersRewrite ==
  [][\A m \in Periods :
       Fixed(m) /\ entry'[m] # entry[m] =>
         \E b \in racing : build[b].month = m /\ b \notin racing']_vars
=============================================================================
