---------------------------- MODULE PayrollProofs ----------------------------
(***************************************************************************)
(* Proofs about Payroll for any number of orders, workers, builds, calls   *)
(* and months.  The inductive invariant adds to the properties why they    *)
(* last: what was counted of an order that neither a dispute nor a late    *)
(* call reopened was counted in its present closing month, and a build of  *)
(* a period that is approved by now was under way when it was.             *)
(***************************************************************************)
EXTENDS Payroll, TLAPS

OrderRows ==
  [status : Statuses, closedIn : Months \cup {Open}, reconciled : BOOLEAN,
   assignee : Assignees, disputed : BOOLEAN, overwritten : BOOLEAN]

CallRows ==
  [at : {"idle", "confirm", "sync", "correct"}, order : Orders, status : Statuses]

BuildRows ==
  [at : {"idle", "count", "adjust", "write"}, month : Periods,
   credited : SUBSET Pairs, reversed : SUBSET Pairs]

\* What an order that counts in a period looks like while nothing has reopened it.
CountedWhereClosed ==
  \A o \in Orders, m \in Periods :
    ~order[o].disputed /\ ~order[o].overwritten /\ CountedIn(o, m) =>
      order[o].status \in {"COMPLETED", "REFUNDED"} /\ order[o].closedIn = m

RacersKnown ==
  \A b \in Builds : build[b].at # "idle" /\ Fixed(build[b].month) => b \in racing

\* A confirmation or a correction began while the order was open.
CallsOpen ==
  \A c \in Calls : call[c].at \in {"confirm", "correct"} => call[c].status \notin Terminal

IInv ==
  /\ TypeOK
  /\ ReversalFollowsApproval
  /\ CountedWhereClosed
  /\ RacersKnown
  /\ CallsOpen

\* A step keeps the closing month of an order that is closed for good, unless the step
\* itself is the dispute or the late call that reopens it.
Keeps(o) ==
  ~order'[o].overwritten =>
    /\ ~order[o].overwritten
    /\ order[o].status = "REFUNDED" /\ order[o].closedIn # Open =>
         order'[o].status = "REFUNDED" /\ order'[o].closedIn = order[o].closedIn
    /\ ~order'[o].disputed =>
         /\ ~order[o].disputed
         /\ order[o].status = "COMPLETED" /\ order[o].closedIn # Open =>
              /\ order'[o].status \in {"COMPLETED", "REFUNDED"}
              /\ order'[o].closedIn = order[o].closedIn

-----------------------------------------------------------------------------
LEMMA MonthFacts ==
  /\ Months \subseteq Periods /\ 1 \in Months /\ Open \notin Periods
  /\ \A m \in Months : m \in Nat /\ m + 1 \in Periods /\ (m + 1) - 1 = m
  /\ \A m \in Periods : m \in Nat
  BY MonthsAssumption DEF Months, Periods, Open

\* The table leads from a completed order to DISPUTED or REFUNDED, and from a
\* refunded one nowhere.
LEMMA TableFacts ==
  /\ \A s \in Statuses : CanTransition("REFUNDED", s) => s = "REFUNDED"
  /\ \A s \in Statuses : CanTransition("COMPLETED", s) =>
       s \in {"COMPLETED", "DISPUTED", "REFUNDED"}
  /\ "COMPLETED" \in Terminal /\ "REFUNDED" \in Terminal /\ "DISPUTED" \notin Terminal
  /\ Terminal \subseteq Statuses
  BY DEF CanTransition, Transitions, Terminal, Statuses

LEMMA ClosedInFacts ==
  ASSUME TypeOK, NEW o \in Orders, NEW next \in Statuses
  PROVE  /\ ClosedIn(o, next) \in Months \cup {Open}
         /\ next \in Terminal => ClosedIn(o, next) \in Months
         /\ next \in Terminal /\ order[o].closedIn # Open => ClosedIn(o, next) = order[o].closedIn
  BY MonthFacts DEF ClosedIn, TypeOK

LEMMA InitIInv == Init => IInv
  <1> SUFFICES ASSUME Init PROVE IInv
    OBVIOUS
  <1>1. TypeOK
    <2>1. NoCall \in CallRows
      BY OrdersAssumption DEF NoCall, CallRows, Statuses
    <2>2. call \in [Calls -> CallRows]
      BY <2>1 DEF Init
    <2>3. order \in [Orders -> OrderRows]
      BY MonthFacts DEF Init, OrderRows, Statuses, Assignees
    <2>4. NoBuild \in BuildRows /\ Empty \in [credited : SUBSET Pairs, reversed : SUBSET Pairs]
      BY MonthFacts DEF NoBuild, BuildRows, Empty
    <2> QED
      BY <2>2, <2>3, <2>4, MonthFacts DEF Init, TypeOK, OrderRows, CallRows, BuildRows
  <1>2. ReversalFollowsApproval
    BY DEF Init, ReversalFollowsApproval, ReversedIn
  <1>3. CountedWhereClosed
    BY DEF Init, CountedWhereClosed, CountedIn, Empty, NoBuild
  <1>4. RacersKnown
    BY DEF Init, RacersKnown, NoBuild
  <1>5. CallsOpen
    BY DEF Init, CallsOpen, NoCall
  <1> QED
    BY <1>1, <1>2, <1>3, <1>4, <1>5 DEF IInv

-----------------------------------------------------------------------------
(* The two sides of the system: steps of the orders, steps of the books.   *)

\* What counts, and is not reopened by the step, stays closed in the same month.
LEMMA StaysCounted ==
  ASSUME IInv, NEW o \in Orders, NEW m \in Periods, Keeps(o), CountedIn(o, m),
         ~order'[o].disputed, ~order'[o].overwritten
  PROVE  order'[o].status \in {"COMPLETED", "REFUNDED"} /\ order'[o].closedIn = m
  <1>1. ~order[o].disputed /\ ~order[o].overwritten
    BY DEF Keeps
  <1>2. order[o].status \in {"COMPLETED", "REFUNDED"} /\ order[o].closedIn = m
    BY <1>1 DEF IInv, CountedWhereClosed
  <1>3. order[o].closedIn # Open
    BY <1>2, MonthFacts
  <1> QED
    BY <1>2, <1>3 DEF Keeps

\* What was reversed, and is not overwritten by the step, stays refunded.
LEMMA StaysReversed ==
  ASSUME IInv, NEW o \in Orders, NEW m \in Periods, Keeps(o), ReversedIn(o, m)
  PROVE  /\ o \in booked /\ m - 1 \in Periods /\ Fixed(m - 1)
         /\ \A v, w \in Workers : {<<o, v>>, <<o, w>>} \subseteq adjustment[m] => v = w
         /\ ~order'[o].overwritten => order'[o].status = "REFUNDED" /\ order'[o].closedIn = m - 1
  <1>1. /\ o \in booked /\ m - 1 \in Periods /\ Fixed(m - 1)
        /\ \A v, w \in Workers : {<<o, v>>, <<o, w>>} \subseteq adjustment[m] => v = w
        /\ ~order[o].overwritten => order[o].status = "REFUNDED" /\ order[o].closedIn = m - 1
    BY DEF IInv, ReversalFollowsApproval
  <1>2. m - 1 # Open
    BY <1>1, MonthFacts
  <1> QED
    BY <1>1, <1>2 DEF Keeps

\* A step that changes orders and no books.
LEMMA OrderStep ==
  ASSUME IInv, TypeOK', CallsOpen', UNCHANGED <<books, booked>>, \A o \in Orders : Keeps(o)
  PROVE  IInv'
  <1>1. ReversalFollowsApproval'
    <2> SUFFICES ASSUME NEW o \in Orders, NEW m \in Periods, ReversedIn(o, m)'
                 PROVE  /\ o \in booked' /\ m - 1 \in Periods /\ Fixed(m - 1)'
                        /\ \A v, w \in Workers :
                             {<<o, v>>, <<o, w>>} \subseteq adjustment'[m] => v = w
                        /\ ~order'[o].overwritten =>
                             order'[o].status = "REFUNDED" /\ order'[o].closedIn = m - 1
      BY DEF ReversalFollowsApproval
    <2>1. ReversedIn(o, m)
      BY DEF ReversedIn, books
    <2> QED
      BY <2>1, StaysReversed DEF Fixed, books
  <1>2. CountedWhereClosed'
    <2> SUFFICES ASSUME NEW o \in Orders, NEW m \in Periods,
                        ~order'[o].disputed, ~order'[o].overwritten, CountedIn(o, m)'
                 PROVE  order'[o].status \in {"COMPLETED", "REFUNDED"} /\ order'[o].closedIn = m
      BY DEF CountedWhereClosed
    <2>1. CountedIn(o, m)
      BY DEF CountedIn, books
    <2> QED
      BY <2>1, StaysCounted
  <1>3. RacersKnown'
    BY DEF IInv, RacersKnown, Fixed, books
  <1> QED
    BY <1>1, <1>2, <1>3 DEF IInv

\* A step of builds and periods, which counts only what is completed in the month.
LEMMA BookStep ==
  ASSUME IInv, TypeOK', RacersKnown', UNCHANGED <<order, booked, call, adjustment>>,
         \A m \in Periods : Fixed(m) => Fixed(m)',
         \A o \in Orders, m \in Periods : CountedIn(o, m)' =>
           \/ CountedIn(o, m)
           \/ order[o].status = "COMPLETED" /\ order[o].closedIn = m
  PROVE  IInv'
  <1>1. ReversalFollowsApproval'
    <2> SUFFICES ASSUME NEW o \in Orders, NEW m \in Periods, ReversedIn(o, m)'
                 PROVE  /\ o \in booked' /\ m - 1 \in Periods /\ Fixed(m - 1)'
                        /\ \A v, w \in Workers :
                             {<<o, v>>, <<o, w>>} \subseteq adjustment'[m] => v = w
                        /\ ~order'[o].overwritten =>
                             order'[o].status = "REFUNDED" /\ order'[o].closedIn = m - 1
      BY DEF ReversalFollowsApproval
    <2>1. ReversedIn(o, m)
      BY DEF ReversedIn
    <2> QED
      BY <2>1 DEF IInv, ReversalFollowsApproval
  <1>2. CountedWhereClosed'
    BY DEF IInv, CountedWhereClosed
  <1> QED
    BY <1>1, <1>2 DEF IInv, CallsOpen

-----------------------------------------------------------------------------
(* The orders.                                                             *)

\* A status change through the table.
LEMMA MoveStep ==
  ASSUME IInv, NEW o \in Orders, NEW next \in Statuses, Move(o, next)
  PROVE  IInv'
  <1> DEFINE closed == ClosedIn(o, next)
             row == [order[o] EXCEPT !.status = next, !.closedIn = closed,
                                     !.disputed = @ \/ next = "DISPUTED"]
  <1>1. /\ closed \in Months \cup {Open}
        /\ next \in Terminal /\ order[o].closedIn # Open => closed = order[o].closedIn
    BY ClosedInFacts DEF IInv
  <1>2. order \in [Orders -> OrderRows]
    BY DEF IInv, TypeOK, OrderRows
  <1>3. row \in OrderRows
    <2>1. (order[o].disputed \/ next = "DISPUTED") \in BOOLEAN
      OBVIOUS
    <2> QED
      BY <2>1, <1>1, <1>2 DEF OrderRows
  <1>4. order' = [order EXCEPT ![o] = row]
    BY <1>2 DEF Move, OrderRows
  <1>5. /\ row.status = next /\ row.closedIn = closed
        /\ row.disputed = (order[o].disputed \/ next = "DISPUTED")
        /\ row.overwritten = order[o].overwritten
    BY <1>2 DEF OrderRows
  <1> HIDE DEF row
  <1>6. order'[o] = row /\ \A p \in Orders \ {o} : order'[p] = order[p]
    BY <1>2, <1>4
  <1>7. TypeOK'
    <2>1. order' \in [Orders -> OrderRows]
      BY <1>2, <1>3, <1>4
    <2> QED
      BY <2>1 DEF Move, IInv, TypeOK, OrderRows, books
  <1>8. Keeps(o)
    <2>1. order[o].status = "REFUNDED" => next = "REFUNDED"
      BY TableFacts DEF Move
    <2>2. order[o].status = "COMPLETED" => next \in {"COMPLETED", "DISPUTED", "REFUNDED"}
      BY TableFacts DEF Move
    <2> QED
      BY <1>1, <1>5, <1>6, <2>1, <2>2, TableFacts DEF Keeps
  <1>9. \A p \in Orders : Keeps(p)
    BY <1>6, <1>8 DEF Keeps
  <1> QED
    BY <1>7, <1>9, OrderStep DEF Move, IInv, CallsOpen

\* The late write of a provider call: whatever it does to a closed order is recorded.
LEMMA OverwriteStep ==
  ASSUME IInv, NEW c \in Calls, NEW next \in Statuses, NEW closed \in Months \cup {Open},
         call[c].status \notin Terminal, Overwrite(c, next, closed), Answered(c)
  PROVE  IInv'
  <1> DEFINE o == call[c].order
             late == call[c].status \notin Terminal /\ order[o].status \in {"COMPLETED", "REFUNDED"}
             row == [order[o] EXCEPT !.status = next, !.closedIn = closed, !.overwritten = @ \/ late]
  <1>1. order \in [Orders -> OrderRows] /\ call \in [Calls -> CallRows] /\ o \in Orders
    BY DEF IInv, TypeOK, OrderRows, CallRows
  <1>2. row \in OrderRows
    <2>1. late \in BOOLEAN
      OBVIOUS
    <2> HIDE DEF late, o
    <2> QED
      BY <2>1, <1>1 DEF OrderRows
  <1>3. order' = [order EXCEPT ![o] = row]
    BY <1>1 DEF Overwrite, OrderRows
  <1>4. row.overwritten = (order[o].overwritten \/ late) /\ row.disputed = order[o].disputed
    BY <1>1 DEF OrderRows
  <1> HIDE DEF row, o
  <1>5. order'[o] = row /\ \A p \in Orders \ {o} : order'[p] = order[p]
    BY <1>1, <1>3
  <1>6. TypeOK'
    <2>1. order' \in [Orders -> OrderRows]
      BY <1>1, <1>2, <1>3
    <2>2. call' \in [Calls -> CallRows]
      BY <1>1, OrdersAssumption DEF Answered, NoCall, CallRows, Statuses
    <2> QED
      BY <2>1, <2>2 DEF Answered, IInv, TypeOK, OrderRows, CallRows, books
  <1>7. Keeps(o)
    BY <1>4, <1>5 DEF Keeps
  <1>8. \A p \in Orders : Keeps(p)
    BY <1>5, <1>7 DEF Keeps
  <1>9. CallsOpen'
    BY <1>1 DEF Answered, NoCall, IInv, CallsOpen
  <1> QED
    BY <1>6, <1>8, <1>9, OrderStep DEF Answered

\* A handler that is done without a write to the order's status.
LEMMA AnsweredStep ==
  ASSUME IInv, NEW c \in Calls, Answered(c), UNCHANGED order
  PROVE  IInv'
  <1>1. TypeOK'
    <2>1. call \in [Calls -> CallRows]
      BY DEF IInv, TypeOK, CallRows
    <2>2. call' \in [Calls -> CallRows]
      BY <2>1, OrdersAssumption DEF Answered, NoCall, CallRows, Statuses
    <2> QED
      BY <2>2 DEF Answered, IInv, TypeOK, CallRows, books
  <1>2. CallsOpen'
    BY DEF Answered, NoCall, IInv, TypeOK, CallsOpen
  <1>3. \A o \in Orders : Keeps(o)
    BY DEF Keeps
  <1> QED
    BY <1>1, <1>2, <1>3, OrderStep DEF Answered

\* A call begins: a confirmation or a correction with an order that is open.
LEMMA CallingStep ==
  ASSUME IInv, NEW c \in Calls, NEW o \in Orders, NEW at \in {"confirm", "sync", "correct"},
         Calling(c, o, at), at # "sync" => order[o].status \notin Terminal
  PROVE  IInv'
  <1> DEFINE slot == [at |-> at, order |-> o, status |-> order[o].status]
  <1>1. call \in [Calls -> CallRows] /\ slot \in CallRows
    BY DEF IInv, TypeOK, CallRows
  <1>2. call' = [call EXCEPT ![c] = slot]
    BY DEF Calling
  <1>3. slot.at = at /\ slot.status = order[o].status
    OBVIOUS
  <1> HIDE DEF slot
  <1>4. TypeOK'
    <2>1. call' \in [Calls -> CallRows]
      BY <1>1, <1>2
    <2> QED
      BY <2>1 DEF Calling, IInv, TypeOK, CallRows, books
  <1>5. CallsOpen'
    BY <1>1, <1>2, <1>3 DEF IInv, CallsOpen
  <1>6. \A p \in Orders : Keeps(p)
    BY DEF Calling, Keeps
  <1> QED
    BY <1>4, <1>5, <1>6, OrderStep DEF Calling

\* One column of one order changes, and it is not one that counting depends on.
LEMMA ColumnStep ==
  ASSUME IInv, NEW o \in Orders, NEW row \in OrderRows,
         order' = [order EXCEPT ![o] = row],
         row.status = order[o].status, row.closedIn = order[o].closedIn,
         row.disputed = order[o].disputed, row.overwritten = order[o].overwritten,
         reconciling' \subseteq Orders, UNCHANGED <<month, booked, call, books>>
  PROVE  IInv'
  <1>1. order \in [Orders -> OrderRows]
    BY DEF IInv, TypeOK, OrderRows
  <1>2. TypeOK'
    <2>1. order' \in [Orders -> OrderRows]
      BY <1>1
    <2> QED
      BY <2>1 DEF IInv, TypeOK, OrderRows, books
  <1>3. CallsOpen'
    BY DEF IInv, CallsOpen
  <1>4. order'[o] = row /\ \A p \in Orders \ {o} : order'[p] = order[p]
    BY <1>1
  <1>5. \A p \in Orders : Keeps(p)
    BY <1>4 DEF Keeps
  <1> QED
    BY <1>2, <1>3, <1>5, OrderStep

\* A refund, with its reversal in the period after the closing month.
LEMMA RefundStep ==
  ASSUME IInv, NEW o \in Orders, Refund(o)
  PROVE  IInv'
  <1> DEFINE closed == ClosedIn(o, "REFUNDED")
             row == [order[o] EXCEPT !.status = "REFUNDED", !.closedIn = closed]
  <1>0. "REFUNDED" \in Statuses /\ "REFUNDED" \in Terminal
    BY TableFacts
  <1>1. /\ closed \in Months /\ closed \in Periods /\ closed + 1 \in Periods
        /\ (closed + 1) - 1 = closed
        /\ order[o].closedIn # Open => closed = order[o].closedIn
    BY <1>0, ClosedInFacts, MonthFacts DEF IInv
  <1>2. order \in [Orders -> OrderRows]
    BY DEF IInv, TypeOK, OrderRows
  <1>3. row \in OrderRows
    BY <1>0, <1>1, <1>2 DEF OrderRows
  <1>4. order' = [order EXCEPT ![o] = row]
    BY <1>2 DEF Refund, OrderRows
  <1>5. /\ row.status = "REFUNDED" /\ row.closedIn = closed
        /\ row.disputed = order[o].disputed /\ row.overwritten = order[o].overwritten
    BY <1>2 DEF OrderRows
  <1> HIDE DEF row
  <1>6. order'[o] = row /\ \A p \in Orders \ {o} : order'[p] = order[p]
    BY <1>2, <1>4
  <1>7. \A m \in Periods : Fixed(m) <=> Fixed(m)'
    BY <1>1 DEF Refund, ReversalDue, ReversalPeriod, Fixed, IInv, TypeOK
  <1>8. \A p \in Orders : Keeps(p)
    BY <1>1, <1>5, <1>6 DEF Keeps
  <1>9. adjustment' = adjustment
        \/ /\ \A w \in Workers : <<o, w>> \notin adjustment[closed + 1]
           /\ ReversalDue(o)
           /\ adjustment' = [adjustment EXCEPT ![closed + 1] = @ \cup {<<o, order[o].assignee>>}]
    BY DEF Refund, ReversalPeriod, Reversed
  <1>10. ReversalDue(o) => Fixed(closed) /\ order[o].assignee \in Workers
    BY DEF ReversalDue, IInv, TypeOK, Assignees
  <1>11. adjustment \in [Periods -> SUBSET Pairs]
    BY DEF IInv, TypeOK
  <1>12. TypeOK'
    <2>1. order' \in [Orders -> OrderRows]
      BY <1>2, <1>3, <1>4
    <2>2. adjustment' \in [Periods -> SUBSET Pairs]
      BY <1>1, <1>9, <1>10, <1>11 DEF Pairs
    <2>3. period' \in [Periods -> {"NONE", "DRAFT", "APPROVED", "PAID"}]
      BY <1>1 DEF Refund, ReversalPeriod, IInv, TypeOK
    <2> QED
      BY <2>1, <2>2, <2>3 DEF Refund, IInv, TypeOK, OrderRows
  <1>13. ReversalFollowsApproval'
    <2> SUFFICES ASSUME NEW p \in Orders, NEW m \in Periods, ReversedIn(p, m)'
                 PROVE  /\ p \in booked' /\ m - 1 \in Periods /\ Fixed(m - 1)'
                        /\ \A v, w \in Workers :
                             {<<p, v>>, <<p, w>>} \subseteq adjustment'[m] => v = w
                        /\ ~order'[p].overwritten =>
                             order'[p].status = "REFUNDED" /\ order'[p].closedIn = m - 1
      BY DEF ReversalFollowsApproval
    <2>1. CASE \A w \in Workers : <<p, w>> \in adjustment'[m] <=> <<p, w>> \in adjustment[m]
      <3>1. ReversedIn(p, m)
        BY <2>1 DEF ReversedIn
      <3>2. /\ p \in booked /\ m - 1 \in Periods /\ Fixed(m - 1)
            /\ \A v, w \in Workers : {<<p, v>>, <<p, w>>} \subseteq adjustment[m] => v = w
            /\ ~order'[p].overwritten =>
                 order'[p].status = "REFUNDED" /\ order'[p].closedIn = m - 1
        BY <3>1, <1>8, StaysReversed
      <3>3. \A v, w \in Workers : {<<p, v>>, <<p, w>>} \subseteq adjustment'[m] => v = w
        BY <2>1, <3>2
      <3> QED
        BY <3>2, <3>3, <1>7 DEF Refund
    <2>2. CASE ~\A w \in Workers : <<p, w>> \in adjustment'[m] <=> <<p, w>> \in adjustment[m]
      <3>1. /\ \A w \in Workers : <<o, w>> \notin adjustment[closed + 1]
            /\ ReversalDue(o)
            /\ adjustment' = [adjustment EXCEPT ![closed + 1] = @ \cup {<<o, order[o].assignee>>}]
        BY <2>2, <1>9
      <3>2. m = closed + 1
        BY <2>2, <3>1, <1>1, <1>11
      <3>3. adjustment'[m] = adjustment[m] \cup {<<o, order[o].assignee>>}
        BY <3>1, <3>2, <1>1, <1>11
      <3>4. p = o
        BY <2>2, <3>3
      <3>5. \A w \in Workers : <<o, w>> \in adjustment'[m] => w = order[o].assignee
        BY <3>1, <3>2, <3>3
      <3>6. m - 1 \in Periods /\ m - 1 = closed /\ Fixed(m - 1)
        BY <3>1, <3>2, <1>1, <1>10
      <3>7. Fixed(m - 1)'
        BY <3>6, <1>7
      <3> QED
        BY <3>4, <3>5, <3>6, <3>7, <1>5, <1>6 DEF Refund
    <2> QED
      BY <2>1, <2>2
  <1>14. CountedWhereClosed'
    <2> SUFFICES ASSUME NEW p \in Orders, NEW m \in Periods,
                        ~order'[p].disputed, ~order'[p].overwritten, CountedIn(p, m)'
                 PROVE  order'[p].status \in {"COMPLETED", "REFUNDED"} /\ order'[p].closedIn = m
      BY DEF CountedWhereClosed
    <2>1. CountedIn(p, m)
      BY DEF CountedIn, Refund
    <2> QED
      BY <2>1, <1>8, StaysCounted
  <1>15. RacersKnown'
    BY <1>7 DEF Refund, IInv, TypeOK, RacersKnown
  <1>16. CallsOpen'
    BY DEF Refund, IInv, CallsOpen
  <1> QED
    BY <1>12, <1>13, <1>14, <1>15, <1>16 DEF IInv

-----------------------------------------------------------------------------
(* The books.                                                              *)

\* A draft that is read, counted, adjusted, written or given up.
LEMMA BuildStep ==
  ASSUME IInv, NEW b \in Builds, NEW row \in BuildRows, build' = [build EXCEPT ![b] = row],
         racing' = IF row.at = "idle" THEN racing \ {b} ELSE racing,
         entry' \in [Periods -> [credited : SUBSET Pairs, reversed : SUBSET Pairs]],
         period' \in [Periods -> {"NONE", "DRAFT", "APPROVED", "PAID"}],
         \A m \in Periods : Fixed(m) <=> Fixed(m)',
         \/ row.at = "idle"
         \/ build[b].at # "idle" /\ row.month = build[b].month
         \/ ~Fixed(row.month),
         \A o \in Orders, m \in Periods : CountedIn(o, m)' =>
           \/ CountedIn(o, m)
           \/ order[o].status = "COMPLETED" /\ order[o].closedIn = m,
         UNCHANGED <<orders, adjustment>>
  PROVE  IInv'
  <1>1. build \in [Builds -> BuildRows] /\ build' \in [Builds -> BuildRows]
    BY DEF IInv, TypeOK, BuildRows
  <1>2. TypeOK'
    BY <1>1 DEF IInv, TypeOK, BuildRows, orders
  <1>3. build'[b] = row /\ \A c \in Builds \ {b} : build'[c] = build[c]
    BY <1>1
  <1>4. RacersKnown'
    <2> SUFFICES ASSUME NEW c \in Builds, build'[c].at # "idle",
                        period'[build'[c].month] \in {"APPROVED", "PAID"}
                 PROVE  c \in racing'
      BY DEF RacersKnown, Fixed
    <2>1. build'[c].month \in Periods /\ build[c].month \in Periods
      BY <1>1 DEF BuildRows
    <2>2. PICK m \in Periods : m = build'[c].month
      BY <2>1
    <2>3. Fixed(m)'
      BY <2>2 DEF Fixed
    <2>4. Fixed(build'[c].month)
      BY <2>2, <2>3
    <2>5. CASE c = b
      BY <2>4, <2>5, <1>3 DEF IInv, RacersKnown
    <2>6. CASE c # b
      BY <2>4, <2>6, <1>3 DEF IInv, RacersKnown
    <2> QED
      BY <2>5, <2>6
  <1> QED
    BY <1>2, <1>4, BookStep DEF orders

\* An approval or a payment.
LEMMA PeriodStep ==
  ASSUME IInv, NEW m \in Periods, NEW s \in {"APPROVED", "PAID"},
         period' = [period EXCEPT ![m] = s],
         racing' \subseteq Builds, racing \subseteq racing',
         Fixed(m) \/ \A b \in Builds : build[b].at # "idle" /\ build[b].month = m => b \in racing',
         UNCHANGED <<orders, entry, adjustment, build>>
  PROVE  IInv'
  <1>1. TypeOK'
    BY DEF IInv, TypeOK, orders
  <1>2. \A n \in Periods : Fixed(n)' <=> Fixed(n) \/ n = m
    BY DEF IInv, TypeOK, Fixed
  <1>3. RacersKnown'
    <2> SUFFICES ASSUME NEW b \in Builds, build'[b].at # "idle",
                        period'[build'[b].month] \in {"APPROVED", "PAID"}
                 PROVE  b \in racing'
      BY DEF RacersKnown, Fixed
    <2>1. /\ build[b].at # "idle" /\ build[b].month \in Periods
          /\ period'[build[b].month] \in {"APPROVED", "PAID"}
      BY DEF IInv, TypeOK
    <2>2. PICK n \in Periods : n = build[b].month
      BY <2>1
    <2>3. Fixed(n) \/ n = m
      BY <2>1, <2>2, <1>2 DEF Fixed
    <2> QED
      BY <2>1, <2>2, <2>3 DEF IInv, RacersKnown
  <1> QED
    BY <1>1, <1>2, <1>3, BookStep DEF orders, CountedIn

-----------------------------------------------------------------------------
LEMMA NextIInv == IInv /\ [Next]_vars => IInv'
  <1> SUFFICES ASSUME IInv, [Next]_vars PROVE IInv'
    OBVIOUS
  <1>a. build \in [Builds -> BuildRows]
    BY DEF IInv, TypeOK, BuildRows
  <1>b. order \in [Orders -> OrderRows]
    BY DEF IInv, TypeOK, OrderRows
  <1>1. CASE NextMonth
    <2>1. TypeOK' /\ CallsOpen'
      BY <1>1, MonthsAssumption DEF NextMonth, Months, books, IInv, TypeOK, CallsOpen
    <2> QED
      BY <1>1, <2>1, OrderStep DEF NextMonth, Keeps
  <1>2. ASSUME NEW o \in Orders, NEW next \in Targets, Move(o, next) PROVE IInv'
    BY <1>2, TargetsAssumption, MoveStep
  <1>3. ASSUME NEW o \in Orders, NEW w \in Assignees, Assign(o, w) PROVE IInv'
    <2> DEFINE row == [order[o] EXCEPT !.assignee = w]
    <2>1. row \in OrderRows
      BY <1>b DEF OrderRows
    <2>2. order' = [order EXCEPT ![o] = row]
      BY <1>3, <1>b DEF Assign, OrderRows
    <2>3. /\ row.status = order[o].status /\ row.closedIn = order[o].closedIn
          /\ row.disputed = order[o].disputed /\ row.overwritten = order[o].overwritten
      BY <1>b DEF OrderRows
    <2> HIDE DEF row
    <2> QED
      BY <1>3, <2>1, <2>2, <2>3, ColumnStep DEF Assign, IInv, TypeOK
  <1>4. ASSUME NEW o \in Orders, Refund(o) PROVE IInv'
    BY <1>4, RefundStep
  <1>5. ASSUME NEW o \in Orders, ReconcileRead(o) PROVE IInv'
    <2>1. TypeOK' /\ CallsOpen'
      BY <1>5 DEF ReconcileRead, books, IInv, TypeOK, CallsOpen
    <2> QED
      BY <1>5, <2>1, OrderStep DEF ReconcileRead, Keeps
  <1>6. ASSUME NEW o \in Orders, ReconcileWrite(o) PROVE IInv'
    <2> DEFINE row == [order[o] EXCEPT !.reconciled = TRUE]
    <2>1. row \in OrderRows
      BY <1>b DEF OrderRows
    <2>2. order' = [order EXCEPT ![o] = row]
      BY <1>6, <1>b DEF ReconcileWrite, OrderRows
    <2>3. /\ row.status = order[o].status /\ row.closedIn = order[o].closedIn
          /\ row.disputed = order[o].disputed /\ row.overwritten = order[o].overwritten
      BY <1>b DEF OrderRows
    <2> HIDE DEF row
    <2> QED
      BY <1>6, <2>1, <2>2, <2>3, ColumnStep DEF ReconcileWrite, IInv, TypeOK
  <1>7. ASSUME NEW c \in Calls, NEW o \in Orders,
               Reserve(c, o) \/ SyncRead(c, o) \/ CorrectRead(c, o)
        PROVE  IInv'
    BY <1>7, CallingStep DEF Reserve, SyncRead, CorrectRead, Terminal
  <1>8. ASSUME NEW c \in Calls,
               \/ SettleAccepted(c) \/ SettleFailed(c) \/ CorrectWrite(c)
               \/ \E next \in SyncedStatuses : SyncWrite(c, next)
        PROVE  IInv'
    <2>1. /\ {"SUBMITTED_TO_FUT", "FAILED", "PROCESSING"} \subseteq Statuses
          /\ SyncedStatuses \subseteq Statuses
      BY DEF Statuses, SyncedStatuses, ProviderStatuses
    <2>2. /\ order[call[c].order].closedIn \in Months \cup {Open}
          /\ month \in Months \cup {Open}
      BY DEF IInv, TypeOK
    <2>3. CASE SettleAccepted(c) \/ SettleFailed(c) \/ CorrectWrite(c)
      <3>1. call[c].status \notin Terminal
        BY <2>3 DEF SettleAccepted, SettleFailed, CorrectWrite, IInv, CallsOpen
      <3> QED
        BY <2>1, <2>2, <2>3, <3>1, OverwriteStep DEF SettleAccepted, SettleFailed, CorrectWrite
    <2>4. ASSUME NEW next \in SyncedStatuses, SyncWrite(c, next) PROVE IInv'
      <3>1. CASE SyncMoves(c, next)
        BY <2>1, <2>2, <2>4, <3>1, OverwriteStep DEF SyncWrite, SyncMoves
      <3>2. CASE ~SyncMoves(c, next)
        BY <2>4, <3>2, AnsweredStep DEF SyncWrite
      <3> QED
        BY <3>1, <3>2
    <2> QED
      BY <1>8, <2>3, <2>4
  <1>9. ASSUME NEW c \in Calls, CallFails(c) PROVE IInv'
    BY <1>9, AnsweredStep DEF CallFails
  <1>10. ASSUME NEW b \in Builds, NEW m \in Drafted, BuildRead(b, m) PROVE IInv'
    <2>1. m \in Periods
      BY MonthsAssumption DEF Periods
    <2> DEFINE row == [NoBuild EXCEPT !.at = "count", !.month = m]
    <2>2. row \in BuildRows /\ row.at # "idle" /\ row.month = m /\ row.credited = {}
      BY <2>1 DEF NoBuild, BuildRows
    <2>3. build' = [build EXCEPT ![b] = row]
      BY <1>10 DEF BuildRead
    <2> HIDE DEF row
    <2>4. build'[b] = row /\ \A c \in Builds \ {b} : build'[c] = build[c]
      BY <2>3, <1>a
    <2>5. \A o \in Orders, n \in Periods : CountedIn(o, n)' => CountedIn(o, n)
      BY <1>10, <2>2, <2>4 DEF BuildRead, CountedIn
    <2>6. \A n \in Periods : Fixed(n) <=> Fixed(n)'
      BY <1>10, <2>1 DEF BuildRead, Fixed, IInv, TypeOK
    <2>7. ~Fixed(m) /\ period' \in [Periods -> {"NONE", "DRAFT", "APPROVED", "PAID"}]
      BY <1>10, <2>1 DEF BuildRead, Fixed, IInv, TypeOK
    <2>8. /\ racing' = racing /\ UNCHANGED <<orders, adjustment>>
          /\ entry' \in [Periods -> [credited : SUBSET Pairs, reversed : SUBSET Pairs]]
      BY <1>10 DEF BuildRead, IInv, TypeOK
    <2> QED
      BY <2>2, <2>3, <2>5, <2>6, <2>7, <2>8, BuildStep
  <1>11. ASSUME NEW b \in Builds, BuildCount(b) PROVE IInv'
    <2> DEFINE counted == {p \in Pairs : p[1] \in Counted(build[b].month)
                                           /\ p[2] = order[p[1]].assignee}
               row == [build[b] EXCEPT !.at = "adjust", !.credited = counted]
    <2>1. counted \in SUBSET Pairs
      OBVIOUS
    <2>2. \A o \in Orders, w \in Workers : <<o, w>> \in counted =>
            order[o].status = "COMPLETED" /\ order[o].closedIn = build[b].month
      BY DEF Counted, Pairs
    <2> HIDE DEF counted
    <2>3. row \in BuildRows /\ row.at # "idle" /\ row.month = build[b].month /\ row.credited = counted
      BY <2>1, <1>a DEF BuildRows
    <2>4. build' = [build EXCEPT ![b] = row]
      BY <1>11, <1>a DEF BuildCount, BuildRows, counted
    <2> HIDE DEF row
    <2>5. build'[b] = row /\ \A c \in Builds \ {b} : build'[c] = build[c]
      BY <2>4, <1>a
    <2>6. \A o \in Orders, n \in Periods : CountedIn(o, n)' =>
            \/ CountedIn(o, n)
            \/ order[o].status = "COMPLETED" /\ order[o].closedIn = n
      <3>1. entry' = entry
        BY <1>11 DEF BuildCount
      <3> SUFFICES ASSUME NEW o \in Orders, NEW n \in Periods, CountedIn(o, n)', ~CountedIn(o, n)
                   PROVE  order[o].status = "COMPLETED" /\ order[o].closedIn = n
        OBVIOUS
      <3>2. PICK w \in Workers, c \in Builds : build'[c].month = n /\ <<o, w>> \in build'[c].credited
        BY <3>1 DEF CountedIn
      <3>3. c = b
        BY <3>2, <2>5 DEF CountedIn
      <3> QED
        BY <3>2, <3>3, <2>2, <2>3, <2>5
    <2>7. /\ build[b].at # "idle" /\ racing' = racing /\ UNCHANGED <<orders, period, entry, adjustment>>
          /\ entry \in [Periods -> [credited : SUBSET Pairs, reversed : SUBSET Pairs]]
          /\ period \in [Periods -> {"NONE", "DRAFT", "APPROVED", "PAID"}]
      BY <1>11 DEF BuildCount, IInv, TypeOK
    <2> QED
      BY <2>3, <2>4, <2>6, <2>7, BuildStep DEF Fixed
  <1>12. ASSUME NEW b \in Builds, BuildAdjust(b) PROVE IInv'
    <2> DEFINE reversals == adjustment[build[b].month]
               row == [build[b] EXCEPT !.at = "write", !.reversed = reversals]
    <2>1. reversals \in SUBSET Pairs
      BY DEF IInv, TypeOK
    <2> HIDE DEF reversals
    <2>2. /\ row \in BuildRows /\ row.at # "idle" /\ row.month = build[b].month
          /\ row.credited = build[b].credited
      BY <2>1, <1>a DEF BuildRows
    <2>3. build' = [build EXCEPT ![b] = row]
      BY <1>12, <1>a DEF BuildAdjust, BuildRows, reversals
    <2> HIDE DEF row
    <2>4. build'[b] = row /\ \A c \in Builds \ {b} : build'[c] = build[c]
      BY <2>3, <1>a
    <2>5. \A o \in Orders, n \in Periods : CountedIn(o, n)' => CountedIn(o, n)
      <3>1. entry' = entry
        BY <1>12 DEF BuildAdjust
      <3>2. \A c \in Builds : build'[c].month = build[c].month
                              /\ build'[c].credited = build[c].credited
        BY <2>2, <2>4
      <3> QED
        BY <3>1, <3>2 DEF CountedIn
    <2>6. /\ build[b].at # "idle" /\ racing' = racing /\ UNCHANGED <<orders, period, entry, adjustment>>
          /\ entry \in [Periods -> [credited : SUBSET Pairs, reversed : SUBSET Pairs]]
          /\ period \in [Periods -> {"NONE", "DRAFT", "APPROVED", "PAID"}]
      BY <1>12 DEF BuildAdjust, IInv, TypeOK
    <2> QED
      BY <2>2, <2>3, <2>5, <2>6, BuildStep DEF Fixed
  <1>13. ASSUME NEW b \in Builds, BuildWrite(b) PROVE IInv'
    <2>1. NoBuild \in BuildRows /\ NoBuild.at = "idle" /\ NoBuild.credited = {}
      BY MonthFacts DEF NoBuild, BuildRows
    <2>2. build'[b] = NoBuild /\ \A c \in Builds \ {b} : build'[c] = build[c]
      BY <1>13, <1>a DEF BuildWrite
    <2>3. entry' \in [Periods -> [credited : SUBSET Pairs, reversed : SUBSET Pairs]]
      BY <1>13 DEF BuildWrite, IInv, TypeOK
    <2>4. \A o \in Orders, n \in Periods : CountedIn(o, n)' => CountedIn(o, n)
      <3>1. \A n \in Periods :
              \/ entry'[n].credited = entry[n].credited
              \/ n = build[b].month /\ entry'[n].credited = build[b].credited
        <4>1. /\ entry' = [entry EXCEPT ![build[b].month] =
                             [credited |-> build[b].credited, reversed |-> build[b].reversed]]
              /\ entry \in [Periods -> [credited : SUBSET Pairs, reversed : SUBSET Pairs]]
          BY <1>13 DEF BuildWrite, IInv, TypeOK
        <4> DEFINE new == [credited |-> build[b].credited, reversed |-> build[b].reversed]
        <4>2. new.credited = build[b].credited
          OBVIOUS
        <4> HIDE DEF new
        <4>3. \A n \in Periods :
                \/ entry'[n] = entry[n]
                \/ n = build[b].month /\ entry'[n] = new
          BY <4>1 DEF new
        <4> QED
          BY <4>2, <4>3
      <3> QED
        BY <3>1, <2>1, <2>2 DEF CountedIn
    <2> QED
      BY <1>13, <2>1, <2>3, <2>4, BuildStep DEF BuildWrite, Fixed, IInv, TypeOK
  <1>14. ASSUME NEW b \in Builds, BuildFails(b) PROVE IInv'
    <2>1. NoBuild \in BuildRows /\ NoBuild.at = "idle" /\ NoBuild.credited = {}
      BY MonthFacts DEF NoBuild, BuildRows
    <2>2. build'[b] = NoBuild /\ \A c \in Builds \ {b} : build'[c] = build[c]
      BY <1>14, <1>a DEF BuildFails
    <2>3. \A o \in Orders, n \in Periods : CountedIn(o, n)' => CountedIn(o, n)
      BY <1>14, <2>1, <2>2 DEF BuildFails, CountedIn
    <2> QED
      BY <1>14, <2>1, <2>3, BuildStep DEF BuildFails, Fixed, IInv, TypeOK
  <1>15. ASSUME NEW m \in Periods, Approve(m) PROVE IInv'
    BY <1>15, PeriodStep DEF Approve, IInv, TypeOK
  <1>16. ASSUME NEW m \in Periods, Pay(m) PROVE IInv'
    BY <1>16, PeriodStep DEF Pay, Fixed, IInv, TypeOK
  <1>17. CASE UNCHANGED vars
    BY <1>17, OrderStep DEF vars, books, Keeps, IInv, TypeOK, CallsOpen
  <1> QED
    BY <1>1, <1>2, <1>3, <1>4, <1>5, <1>6, <1>7, <1>8, <1>9, <1>10, <1>11, <1>12, <1>13,
       <1>14, <1>15, <1>16, <1>17
    DEF Next

\* The inductive invariant holds in every reachable state.
THEOREM PayrollInvariance == Spec => []IInv
  BY InitIInv, NextIInv, PTL DEF Spec

\* Rows, builds, calls and the clock stay what their columns allow, whatever overlaps.
THEOREM PayrollTypes == Spec => []TypeOK
  <1>1. IInv => TypeOK
    BY DEF IInv
  <1> QED
    BY <1>1, PayrollInvariance, PTL

\* A reversal is of a booked refund, from one worker, in the period after one that was
\* approved (applyRefund, src/lib/ledger.ts), and there is one unless a provider call
\* that began while the order was open overwrites the REFUNDED order.
THEOREM RefundsReversedOnce == Spec => []ReversalFollowsApproval
  <1>1. IInv => ReversalFollowsApproval
    BY DEF IInv
  <1> QED
    BY <1>1, PayrollInvariance, PTL

\* An order counts in one payroll period at most, whatever builds and calls overlap,
\* unless a dispute or a late provider call reopens it (buildPayrollDraft).
THEOREM CountedOnce == Spec => []CountedInOneMonth
  <1>1. IInv => CountedInOneMonth
    BY DEF IInv, CountedWhereClosed, CountedInOneMonth
  <1> QED
    BY <1>1, PayrollInvariance, PTL

\* An approved or paid period is rewritten only by the builds that were under way when it
\* was approved, and once by each (buildPayrollDraft, approvePayroll).
THEOREM RewritersWereUnderWay == Spec => OnlyRacersRewrite
  <1> DEFINE OnlyRacers ==
        \A m \in Periods :
          Fixed(m) /\ entry'[m] # entry[m] =>
            \E b \in racing : build[b].month = m /\ b \notin racing'
  <1>1. ASSUME IInv, [Next]_vars PROVE OnlyRacers
    <2>1. CASE \E b \in Builds : BuildWrite(b)
      <3>1. PICK b \in Builds : BuildWrite(b)
        BY <2>1
      <3>2. b \notin racing' /\ build[b].at # "idle"
        BY <3>1 DEF BuildWrite
      <3>3. \A m \in Periods : entry'[m] # entry[m] => m = build[b].month
        BY <3>1, <1>1 DEF BuildWrite, IInv, TypeOK
      <3> QED
        BY <3>2, <3>3, <1>1 DEF IInv, RacersKnown
    <2>2. CASE ~\E b \in Builds : BuildWrite(b)
      <3>1. entry' = entry
        BY <2>2, <1>1
        DEF Next, vars, books, NextMonth, Move, Assign, Refund, ReconcileRead, ReconcileWrite,
            Reserve, SyncRead, CorrectRead, Calling, SettleAccepted, SettleFailed, SyncWrite,
            CorrectWrite, CallFails, Answered, BuildRead, BuildCount, BuildAdjust, BuildFails,
            Approve, Pay
      <3> QED
        BY <3>1
    <2> QED
      BY <2>1, <2>2
  <1> QED
    BY <1>1, PayrollInvariance, PTL DEF Spec, OnlyRacersRewrite
=============================================================================
