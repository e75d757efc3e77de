--------------------------- MODULE AutomationProofs ---------------------------
(***************************************************************************)
(* Proofs about Automation for any number of calls, any policies, prices    *)
(* and bounds: what an emergency stop still lets through, which order a     *)
(* reservation takes, and at what cost an attempt buys.                    *)
(***************************************************************************)
EXTENDS Automation, FiniteSetTheorems, SequenceTheorems, TLAPS

OrderRows ==
  [status : {"READY_FOR_REVIEW", "APPROVED", "SUBMITTED_TO_FUT", "FAILED", "CANCELLED"}, version : Nat]
QuoteRows ==
  [state : {"NONE", "PREPARED", "CONFIRMING", "SUBMITTED", "FAILED", "UNKNOWN"},
   cost : Nat, at : Nat, id : Nat, ref : BOOLEAN]
Calls ==
  [at : {"idle", "order", "evaluate", "confirm", "price", "reserve", "claim", "submit", "prepare", "stop"},
   auto : BOOLEAN, policy : PolicyRows, order : OrderRows, quote : QuoteRows,
   fails : Nat, seen : Nat, moves : Nat]

TypeOK ==
  /\ order \in OrderRows /\ quote \in QuoteRows /\ events \in Seq(BOOLEAN)
  /\ policy \in PolicyRows /\ now \in Nat /\ moves \in Nat
  /\ slot \in [Slots -> Calls] /\ after \in [flying : Nat, buys : Nat]

Autos == {i \in Slots : slot[i].auto}

\* The attempts that may still buy.
Live == {i \in Slots : slot[i].auto /\ Armed(slot[i].policy)}

\* While the policy is stopped, what was bought and what may still be bought stay within the
\* attempts that were in flight when it was written.
StopBound == Stopped(policy) => after.buys + Cardinality(Live) <= after.flying

\* Past its evaluation an attempt holds an armed policy.
Evaluated(c) == c.auto /\ c.at \notin {"order", "evaluate"} => Armed(c.policy)

\* People who change the order move its version: a call that holds the current one has seen
\* their last change.
Reviewed(c) ==
  c.at \in {"evaluate", "confirm", "price", "reserve"} =>
    c.order.version <= order.version /\ (c.order.version = order.version => c.moves = moves)

IInv == TypeOK /\ StopBound /\ \A i \in Slots : Evaluated(slot[i]) /\ Reviewed(slot[i])

-----------------------------------------------------------------------------
LEMMA Counts ==
  /\ \A S \in SUBSET Slots : IsFiniteSet(S) /\ Cardinality(S) \in Nat
  /\ \A S \in SUBSET Slots : \A T \in SUBSET S : Cardinality(T) <= Cardinality(S)
  <1>1. \A S \in SUBSET Slots : IsFiniteSet(S)
    BY SlotsAssumption, FS_Subset
  <1> QED
    BY <1>1, FS_Subset, FS_CardinalityType

LEMMA Subsets == Autos \in SUBSET Slots /\ Live \in SUBSET Autos /\ Live \in SUBSET Slots /\ Live' \in SUBSET Slots
  BY DEF Autos, Live

LEMMA FailuresType == events \in Seq(BOOLEAN) => Failures \in Nat
  <1> SUFFICES ASSUME events \in Seq(BOOLEAN) PROVE Failures \in Nat
    OBVIOUS
  <1> DEFINE leading == {i \in DOMAIN events : \A j \in 1..i : events[j]}
  <1>1. leading \subseteq 1..Len(events) /\ Len(events) \in Nat
    OBVIOUS
  <1>2. IsFiniteSet(leading)
    BY <1>1, FS_Interval, FS_Subset
  <1> QED
    BY <1>2, FS_CardinalityType DEF Failures

LEMMA Logged == events \in Seq(BOOLEAN) => \A b \in BOOLEAN : <<b>> \o events \in Seq(BOOLEAN)
  <1>1. \A b \in BOOLEAN : <<b>> \in Seq(BOOLEAN)
    OBVIOUS
  <1> QED
    BY <1>1, ConcatProperties

LEMMA StopIsSafe == IInv => StopHolds
  BY Counts, Subsets DEF IInv, TypeOK, StopBound, StopHolds

LEMMA FreeType ==
  /\ DefaultPolicy \in PolicyRows /\ NoQuote \in QuoteRows
  /\ Free \in Calls /\ ~Free.auto /\ Free.at = "idle" /\ Free.order = Unsent
  <1>1. {} \in SUBSET {"PC", "PLAYSTATION", "XBOX"} /\ {} \in SUBSET {"PUBLIC_SUPPLIER", "OWNED_SENDERS"}
    OBVIOUS
  <1>2. DefaultPolicy \in PolicyRows
    BY <1>1 DEF DefaultPolicy, PolicyRows
  <1>3. NoQuote \in QuoteRows
    BY DEF NoQuote, QuoteRows
  <1>4. Unsent \in OrderRows
    BY DEF Unsent, OrderRows
  <1>5. Free \in Calls
    BY <1>2, <1>3, <1>4 DEF Free, Calls
  <1>6. ~Free.auto /\ Free.at = "idle" /\ Free.order = Unsent
    BY DEF Free
  <1> QED
    BY <1>2, <1>3, <1>5, <1>6

LEMMA InitIInv == Init => IInv
  <1> SUFFICES ASSUME Init PROVE IInv
    OBVIOUS
  <1>1. TypeOK
    BY FreeType, PoliciesAssumption DEF Init, TypeOK, Unsent, OrderRows, NoQuote, QuoteRows
  <1>2. Live = {}
    BY FreeType DEF Init, Live
  <1>3. StopBound
    BY <1>2, FS_EmptySet DEF Init, StopBound
  <1> QED
    BY <1>1, <1>3, FreeType DEF Init, IInv, Evaluated, Reviewed

-----------------------------------------------------------------------------
\* A step of one call, which leaves it as c, beside what it does to the rows.
LEMMA CallStep ==
  ASSUME IInv, NEW i \in Slots, NEW c \in Calls, slot' = [slot EXCEPT ![i] = c],
         UNCHANGED <<policy, now, moves, after>>,
         order' \in OrderRows, order'.version >= order.version,
         quote' \in QuoteRows, events' \in Seq(BOOLEAN),
         Stopped(policy) /\ c.auto /\ Armed(c.policy) => i \in Live,
         Evaluated(c), Reviewed(c)'
  PROVE  IInv'
  <1>1. TypeOK'
    BY DEF IInv, TypeOK
  <1>2. StopBound'
    <2> SUFFICES ASSUME Stopped(policy) PROVE StopBound'
      BY DEF StopBound
    <2>1. Live' \in SUBSET Live
      BY DEF IInv, TypeOK, Live
    <2>2. Cardinality(Live') <= Cardinality(Live) /\ Cardinality(Live') \in Nat /\ Cardinality(Live) \in Nat
      BY <2>1, Counts, Subsets
    <2> QED
      BY <2>2 DEF IInv, TypeOK, StopBound
  <1>3. \A j \in Slots : Evaluated(slot[j])'
    BY DEF IInv, TypeOK, Evaluated
  <1>4. \A j \in Slots : Reviewed(slot[j])'
    <2> TAKE j \in Slots
    <2>1. slot'[j] = IF j = i THEN c ELSE slot[j]
      BY DEF IInv, TypeOK
    <2>2. CASE j = i
      BY <2>1, <2>2 DEF Reviewed
    <2>3. CASE j # i
      <3>1. Reviewed(slot[j]) /\ slot[j].order.version \in Nat /\ order.version \in Nat
        BY DEF IInv, TypeOK, Calls, OrderRows
      <3>2. order'.version \in Nat
        BY DEF OrderRows
      <3> QED
        BY <2>1, <2>3, <3>1, <3>2 DEF Reviewed
    <2> QED
      BY <2>2, <2>3
  <1> QED
    BY <1>1, <1>2, <1>3, <1>4 DEF IInv

\* A call that gives up.
LEMMA CallEnds ==
  ASSUME IInv, NEW i \in Slots, slot' = [slot EXCEPT ![i] = Free],
         UNCHANGED <<policy, now, moves, after>>,
         order' \in OrderRows, order'.version >= order.version,
         quote' \in QuoteRows, events' \in Seq(BOOLEAN)
  PROVE  IInv'
  <1>1. Evaluated(Free) /\ Reviewed(Free)'
    BY FreeType DEF Evaluated, Reviewed, Free
  <1> QED
    BY <1>1, FreeType, CallStep DEF Free

\* A call that goes on to another place holds what it held.
LEMMA CallGoes ==
  ASSUME IInv, NEW i \in Slots,
         NEW at \in {"confirm", "price", "reserve", "claim", "submit"}, Goes(i, at),
         slot[i].at \notin {"order", "evaluate"},
         at \in {"confirm", "price", "reserve"} =>
           slot[i].at \in {"evaluate", "confirm", "price", "reserve"} /\ order' = order,
         UNCHANGED <<policy, now, moves, after>>,
         order' \in OrderRows, order'.version >= order.version,
         quote' \in QuoteRows, events' \in Seq(BOOLEAN)
  PROVE  IInv'
  <1>a. slot[i] \in Calls
    BY DEF IInv, TypeOK
  <1>1. [slot[i] EXCEPT !.at = at] \in Calls
    BY <1>a DEF Calls
  <1>2. PICK c \in Calls : c = [slot[i] EXCEPT !.at = at]
    BY <1>1
  <1>3. slot' = [slot EXCEPT ![i] = c]
    BY <1>2 DEF Goes
  <1>4. /\ c.auto = slot[i].auto /\ c.policy = slot[i].policy /\ c.at = at
        /\ c.order = slot[i].order /\ c.moves = slot[i].moves
    BY <1>2 DEF IInv, TypeOK, Calls
  <1>5. Evaluated(slot[i]) /\ Reviewed(slot[i])
    BY DEF IInv
  <1>6. Evaluated(c)
    BY <1>5, <1>4 DEF Evaluated
  <1>7. Reviewed(c)'
    BY <1>5, <1>4 DEF Reviewed
  <1>8. Stopped(policy) /\ c.auto /\ Armed(c.policy) => i \in Live
    BY <1>4 DEF Live
  <1> QED
    BY <1>3, <1>6, <1>7, <1>8, CallStep

LEMMA Same == IInv /\ UNCHANGED rows => /\ order' \in OrderRows /\ order'.version >= order.version
                                       /\ quote' \in QuoteRows /\ events' \in Seq(BOOLEAN)
  BY DEF IInv, TypeOK, OrderRows, rows

-----------------------------------------------------------------------------
\* While the policy is stopped the attempt that starts has read the kill switch.
LEMMA AttemptReadStep ==
  ASSUME IInv, NEW i \in Slots, AttemptRead(i)
  PROVE  IInv'
  <1>1. [Free EXCEPT !.at = "order", !.auto = TRUE, !.policy = policy] \in Calls
    BY FreeType DEF IInv, TypeOK, Calls
  <1>2. PICK c \in Calls : c = [Free EXCEPT !.at = "order", !.auto = TRUE, !.policy = policy]
    BY <1>1
  <1>3. c.at = "order" /\ c.policy = policy
    BY <1>2, FreeType DEF Calls
  <1>4. ~(Stopped(policy) /\ Armed(policy))
    BY DEF Stopped, Armed
  <1>5. Evaluated(c) /\ Reviewed(c)'
    BY <1>3 DEF Evaluated, Reviewed
  <1>6. slot' = [slot EXCEPT ![i] = c] /\ UNCHANGED <<rows, policy, now, moves, after>>
    BY <1>2 DEF AttemptRead
  <1> QED
    BY <1>3, <1>4, <1>5, <1>6, Same, CallStep

LEMMA OrderReadStep ==
  ASSUME IInv, NEW i \in Slots, OrderRead(i)
  PROVE  IInv'
  <1> DEFINE read == [slot[i] EXCEPT !.at = "evaluate", !.order = order, !.quote = quote,
                                     !.fails = Failures, !.moves = moves]
  <1>a. /\ slot[i] \in Calls /\ order \in OrderRows /\ quote \in QuoteRows
        /\ moves \in Nat /\ Failures \in Nat
    BY FailuresType DEF IInv, TypeOK
  <1>1. read \in Calls
    BY <1>a DEF Calls
  <1>2. PICK c \in Calls : c = read
    BY <1>1
  <1>3. /\ c.at = "evaluate" /\ c.auto = slot[i].auto /\ c.policy = slot[i].policy
        /\ c.order = order /\ c.moves = moves
    BY <1>2 DEF IInv, TypeOK, Calls
  <1>4. slot' = [slot EXCEPT ![i] = c] /\ UNCHANGED <<rows, policy, now, moves, after>>
    BY <1>2 DEF OrderRead
  <1>5. Evaluated(c) /\ Reviewed(c)'
    BY <1>3, <1>4 DEF Evaluated, Reviewed, IInv, TypeOK, OrderRows, rows
  <1>6. Stopped(policy) /\ c.auto /\ Armed(c.policy) => i \in Live
    BY <1>3 DEF Live
  <1> QED
    BY <1>4, <1>5, <1>6, Same, CallStep

LEMMA EvaluateStep ==
  ASSUME IInv, NEW i \in Slots, Evaluate(i)
  PROVE  IInv'
  <1> DEFINE chosen == [slot[i] EXCEPT !.at = "confirm", !.seen = slot[i].quote.id,
                                       !.quote = NoQuote, !.fails = 0]
  <1>1. PICK balance \in Balances :
          IF Eligible(slot[i].policy, slot[i].order, slot[i].quote, slot[i].fails, balance)
          THEN slot' = [slot EXCEPT ![i] = chosen]
          ELSE Ends(i)
    BY DEF Evaluate
  <1>2. slot[i].at = "evaluate" /\ UNCHANGED <<rows, policy, now, moves, after>>
    BY DEF Evaluate
  <1>3. CASE Ends(i)
    BY <1>2, <1>3, Same, CallEnds DEF Ends
  <1>4. CASE slot' = [slot EXCEPT ![i] = chosen] /\ Armed(slot[i].policy)
    <2>a. slot[i] \in Calls /\ NoQuote \in QuoteRows
      BY FreeType DEF IInv, TypeOK, Calls, Free
    <2>b. slot[i].quote \in QuoteRows
      BY <2>a DEF Calls
    <2>c. slot[i].quote.id \in Nat
      BY <2>b DEF QuoteRows
    <2>1. chosen \in Calls
      BY <2>a, <2>c DEF Calls
    <2>2. PICK c \in Calls : c = chosen
      BY <2>1
    <2>3. /\ c.at = "confirm" /\ c.auto = slot[i].auto /\ c.policy = slot[i].policy
          /\ c.order = slot[i].order /\ c.moves = slot[i].moves
      BY <2>2 DEF IInv, TypeOK, Calls
    <2>4. Evaluated(c) /\ Reviewed(c)'
      BY <1>2, <1>4, <2>3 DEF Evaluated, Reviewed, IInv, rows
    <2>5. Stopped(policy) /\ c.auto /\ Armed(c.policy) => i \in Live
      BY <2>3 DEF Live
    <2>6. slot' = [slot EXCEPT ![i] = c]
      BY <1>4, <2>2
    <2> QED
      BY <1>2, <2>4, <2>5, <2>6, Same, CallStep
  <1> QED
    BY <1>1, <1>3, <1>4 DEF Eligible

LEMMA OpenDialogStep ==
  ASSUME IInv, NEW i \in Slots, OpenDialog(i)
  PROVE  IInv'
  <1> DEFINE opened == [Free EXCEPT !.at = "confirm", !.order = order, !.moves = moves]
  <1>1. opened \in Calls
    BY FreeType DEF IInv, TypeOK, Calls, QuoteRows
  <1>2. PICK c \in Calls : c = opened
    BY <1>1
  <1>3. c.at = "confirm" /\ ~c.auto /\ c.order = order /\ c.moves = moves
    BY <1>2, FreeType DEF Calls
  <1>4. slot' = [slot EXCEPT ![i] = c] /\ UNCHANGED <<rows, policy, now, moves, after>>
    BY <1>2 DEF OpenDialog
  <1>5. Evaluated(c) /\ Reviewed(c)'
    BY <1>3, <1>4 DEF Evaluated, Reviewed, IInv, TypeOK, OrderRows, rows
  <1> QED
    BY <1>3, <1>4, <1>5, Same, CallStep

LEMMA ConfirmReadStep ==
  ASSUME IInv, NEW i \in Slots, ConfirmRead(i)
  PROVE  IInv'
  <1> DEFINE priced == [slot[i] EXCEPT !.at = "price", !.quote = quote]
  <1>1. slot[i].at = "confirm" /\ UNCHANGED <<rows, policy, now, moves, after>>
    BY DEF ConfirmRead
  <1>2. CASE Ends(i)
    BY <1>1, <1>2, Same, CallEnds DEF Ends
  <1>3. CASE slot' = [slot EXCEPT ![i] = priced]
    <2>1. priced \in Calls
      BY DEF IInv, TypeOK, Calls
    <2>2. PICK c \in Calls : c = priced
      BY <2>1
    <2>3. /\ c.at = "price" /\ c.auto = slot[i].auto /\ c.policy = slot[i].policy
          /\ c.order = slot[i].order /\ c.moves = slot[i].moves
      BY <2>2 DEF IInv, TypeOK, Calls
    <2>4. Evaluated(c) /\ Reviewed(c)'
      BY <1>1, <2>3 DEF Evaluated, Reviewed, IInv, rows
    <2>5. Stopped(policy) /\ c.auto /\ Armed(c.policy) => i \in Live
      BY <2>3 DEF Live
    <2>6. slot' = [slot EXCEPT ![i] = c]
      BY <1>3, <2>2
    <2> QED
      BY <1>1, <2>4, <2>5, <2>6, Same, CallStep
  <1> QED
    BY <1>2, <1>3 DEF ConfirmRead

LEMMA PriceCheckStep ==
  ASSUME IInv, NEW i \in Slots, PriceCheck(i)
  PROVE  IInv'
  <1>1. slot[i].at = "price" /\ UNCHANGED <<rows, policy, now, moves, after>>
    BY DEF PriceCheck
  <1>2. CASE Ends(i)
    BY <1>1, <1>2, Same, CallEnds DEF Ends
  <1>3. CASE Goes(i, "reserve")
    BY <1>1, <1>3, Same, CallGoes DEF rows
  <1> QED
    BY <1>2, <1>3 DEF PriceCheck

LEMMA ReserveStep ==
  ASSUME IInv, NEW i \in Slots, Reserve(i)
  PROVE  IInv'
  <1>1. slot[i].at = "reserve" /\ UNCHANGED <<quote, events, policy, now, moves, after>>
    BY DEF Reserve
  <1>2. /\ order' \in OrderRows /\ order'.version >= order.version
        /\ quote' \in QuoteRows /\ events' \in Seq(BOOLEAN)
    BY DEF Reserve, IInv, TypeOK, OrderRows
  <1>3. CASE Ends(i)
    BY <1>1, <1>2, <1>3, CallEnds DEF Ends
  <1>4. CASE Goes(i, "claim")
    BY <1>1, <1>2, <1>4, CallGoes
  <1> QED
    BY <1>3, <1>4 DEF Reserve

LEMMA ClaimStep ==
  ASSUME IInv, NEW i \in Slots, Claim(i)
  PROVE  IInv'
  <1>1. slot[i].at = "claim" /\ Goes(i, "submit") /\ UNCHANGED <<order, events, policy, now, moves, after>>
    BY DEF Claim
  <1>2. /\ order' \in OrderRows /\ order'.version >= order.version
        /\ quote' \in QuoteRows /\ events' \in Seq(BOOLEAN)
    BY DEF Claim, IInv, TypeOK, OrderRows, QuoteRows
  <1> QED
    BY <1>1, <1>2, CallGoes

\* An attempt that buys was one of those that might, and gives its place up.
LEMMA SubmitStep ==
  ASSUME IInv, NEW i \in Slots, Submit(i)
  PROVE  IInv'
  <1>1. /\ slot[i].at = "submit" /\ slot' = [slot EXCEPT ![i] = Free]
        /\ UNCHANGED <<policy, now, moves>>
        /\ after' = [after EXCEPT !.buys = @ + (IF slot[i].auto THEN 1 ELSE 0)]
    BY DEF Submit, Ends
  <1>2. order' \in OrderRows /\ order'.version >= order.version /\ quote' \in QuoteRows
    <2>1. order.version \in Nat /\ order \in OrderRows /\ quote \in QuoteRows
      BY DEF IInv, TypeOK, OrderRows
    <2>2. order' \in OrderRows /\ order'.version >= order.version
      <3>1. CASE UNCHANGED order
        BY <2>1, <3>1
      <3>2. CASE \E s \in {"SUBMITTED_TO_FUT", "FAILED"} : order' = [status |-> s, version |-> order.version + 1]
        BY <2>1, <3>2 DEF OrderRows
      <3> QED
        BY <3>1, <3>2 DEF Submit
    <2>3. \/ quote' = [quote EXCEPT !.state = "SUBMITTED", !.ref = TRUE]
          \/ quote' = [quote EXCEPT !.state = "FAILED"]
          \/ quote' = [quote EXCEPT !.state = "UNKNOWN"]
      BY DEF Submit
    <2>4. quote' \in QuoteRows
      BY <2>1, <2>3 DEF QuoteRows
    <2> QED
      BY <2>2, <2>4
  <1>3. events' \in Seq(BOOLEAN)
    BY Logged DEF Submit, IInv, TypeOK
  <1>4. after'.flying = after.flying /\ after' \in [flying : Nat, buys : Nat]
        /\ after'.buys = after.buys + (IF slot[i].auto THEN 1 ELSE 0)
    BY <1>1 DEF IInv, TypeOK
  <1>5. TypeOK'
    BY <1>1, <1>2, <1>3, <1>4, FreeType DEF IInv, TypeOK
  <1>6. StopBound'
    <2> SUFFICES ASSUME Stopped(policy) PROVE after'.buys + Cardinality(Live') <= after'.flying
      BY <1>1 DEF StopBound
    <2>1. after.buys + Cardinality(Live) <= after.flying
      BY DEF IInv, StopBound
    <2>2. Cardinality(Live') \in Nat /\ Cardinality(Live) \in Nat /\ IsFiniteSet(Live)
      BY Counts, Subsets
    <2>3. CASE slot[i].auto
      <3>1. i \in Live
        BY <1>1, <2>3 DEF IInv, Evaluated, Live
      <3>2. Live' = Live \ {i}
        BY <1>1, FreeType DEF IInv, TypeOK, Live
      <3>3. Cardinality(Live') = Cardinality(Live) - 1
        BY <2>2, <3>1, <3>2, FS_RemoveElement
      <3> QED
        BY <1>4, <2>1, <2>2, <2>3, <3>3 DEF IInv, TypeOK
    <2>4. CASE ~slot[i].auto
      <3>1. Live' = Live
        BY <1>1, <2>4, FreeType DEF IInv, TypeOK, Live
      <3> QED
        BY <1>4, <2>1, <2>2, <2>4, <3>1 DEF IInv, TypeOK
    <2> QED
      BY <2>3, <2>4
  <1>7. \A j \in Slots : Evaluated(slot[j])'
    BY <1>1, FreeType DEF IInv, TypeOK, Evaluated
  <1>8. \A j \in Slots : Reviewed(slot[j])'
    <2> TAKE j \in Slots
    <2>1. CASE j = i
      BY <1>1, <2>1, FreeType DEF IInv, TypeOK, Reviewed
    <2>2. CASE j # i
      <3>1. slot'[j] = slot[j] /\ Reviewed(slot[j])
        BY <1>1, <2>2 DEF IInv, TypeOK
      <3>2. /\ slot[j].order.version \in Nat
            /\ order.version \in Nat /\ order'.version \in Nat
        BY <1>2 DEF IInv, TypeOK, Calls, OrderRows
      <3> QED
        BY <1>1, <1>2, <3>1, <3>2 DEF Reviewed
    <2> QED
      BY <2>1, <2>2
  <1> QED
    BY <1>5, <1>6, <1>7, <1>8 DEF IInv

LEMMA PrepareReadStep ==
  ASSUME IInv, NEW i \in Slots, PrepareRead(i)
  PROVE  IInv'
  <1>1. PICK price \in Prices :
          slot' = [slot EXCEPT ![i] = [Free EXCEPT !.at = "prepare", !.quote.cost = price]]
    BY DEF PrepareRead
  <1> DEFINE priced == [Free EXCEPT !.at = "prepare", !.quote.cost = price]
  <1>2. price \in Nat
    BY PricesAssumption
  <1>3. priced \in Calls
    BY <1>2, FreeType DEF Calls, QuoteRows
  <1>4. PICK c \in Calls : c = priced
    BY <1>3
  <1>5. c.at = "prepare" /\ ~c.auto
    BY <1>4, FreeType DEF Calls
  <1>6. slot' = [slot EXCEPT ![i] = c] /\ UNCHANGED <<rows, policy, now, moves, after>>
    BY <1>1, <1>4 DEF PrepareRead
  <1>7. Evaluated(c) /\ Reviewed(c)'
    BY <1>5 DEF Evaluated, Reviewed
  <1> QED
    BY <1>5, <1>6, <1>7, Same, CallStep

LEMMA PrepareWriteStep ==
  ASSUME IInv, NEW i \in Slots, PrepareWrite(i)
  PROVE  IInv'
  <1>1. slot' = [slot EXCEPT ![i] = Free] /\ UNCHANGED <<order, policy, now, moves, after>>
    BY DEF PrepareWrite, Ends
  <1>2. slot[i].quote.cost \in Nat /\ now \in Nat /\ quote \in QuoteRows
    BY DEF IInv, TypeOK, Calls, QuoteRows
  <1>3. quote' \in QuoteRows
    <2>1. PICK cost \in Nat : cost = slot[i].quote.cost
      BY <1>2
    <2>2. PICK id \in Nat : id = quote.id + 1
      BY <1>2 DEF QuoteRows
    <2>3. quote' = [quote EXCEPT !.state = "PREPARED", !.cost = cost, !.at = now, !.id = id]
      BY <2>1, <2>2 DEF PrepareWrite
    <2> QED
      BY <1>2, <2>1, <2>2, <2>3 DEF QuoteRows
  <1>4. order' \in OrderRows /\ order'.version >= order.version
    BY <1>1 DEF IInv, TypeOK, OrderRows
  <1>5. events' \in Seq(BOOLEAN)
    BY Logged DEF PrepareWrite, IInv, TypeOK
  <1> QED
    BY <1>1, <1>3, <1>4, <1>5, CallEnds

LEMMA StopReadStep ==
  ASSUME IInv, NEW i \in Slots, StopRead(i)
  PROVE  IInv'
  <1>1. [Free EXCEPT !.at = "stop", !.policy = policy] \in Calls
    BY FreeType DEF IInv, TypeOK, Calls
  <1>2. PICK c \in Calls : c = [Free EXCEPT !.at = "stop", !.policy = policy]
    BY <1>1
  <1>3. c.at = "stop" /\ ~c.auto
    BY <1>2, FreeType DEF Calls
  <1>4. slot' = [slot EXCEPT ![i] = c] /\ UNCHANGED <<rows, policy, now, moves, after>>
    BY <1>2 DEF StopRead
  <1>5. Evaluated(c) /\ Reviewed(c)'
    BY <1>3 DEF Evaluated, Reviewed
  <1> QED
    BY <1>3, <1>4, <1>5, Same, CallStep

\* Whatever a policy is written, the attempts that may still buy are among those in flight.
LEMMA PolicyWritten ==
  ASSUME IInv, UNCHANGED <<rows, now, moves>>, policy' \in PolicyRows,
         after' = [flying |-> InFlight, buys |-> 0],
         slot' = slot \/ \E i \in Slots : slot' = [slot EXCEPT ![i] = Free]
  PROVE  IInv'
  <1>1. InFlight = Cardinality(Autos)
    BY DEF InFlight, Autos
  <1>2. Cardinality(Autos) \in Nat
    BY Counts, Subsets
  <1>3. TypeOK'
    BY <1>1, <1>2, FreeType DEF IInv, TypeOK, rows
  <1>4. Live' \in SUBSET Autos
    BY FreeType DEF IInv, TypeOK, Live, Autos
  <1>5. Cardinality(Live') <= Cardinality(Autos) /\ Cardinality(Live') \in Nat
    BY <1>4, Counts, Subsets
  <1>6. StopBound'
    BY <1>1, <1>2, <1>5 DEF StopBound
  <1>7. \A j \in Slots : slot'[j] = slot[j] \/ slot'[j] = Free
    BY DEF IInv, TypeOK
  <1>8. \A j \in Slots : Evaluated(slot[j])'
    BY <1>7, FreeType DEF IInv, Evaluated
  <1>9. \A j \in Slots : Reviewed(slot[j])'
    BY <1>7, FreeType DEF IInv, Reviewed, rows
  <1> QED
    BY <1>3, <1>6, <1>8, <1>9 DEF IInv

LEMMA UpdatePolicyStep ==
  ASSUME IInv, NEW p \in Policies, UpdatePolicy(p)
  PROVE  IInv'
  BY PolicyWritten, PoliciesAssumption DEF UpdatePolicy

LEMMA StopWriteStep ==
  ASSUME IInv, NEW i \in Slots, StopWrite(i)
  PROVE  IInv'
  <1>1. slot[i].policy \in PolicyRows
    BY DEF IInv, TypeOK, Calls
  <1>2. policy' \in PolicyRows
    BY <1>1 DEF StopWrite, PolicyRows
  <1> QED
    BY <1>2, PolicyWritten DEF StopWrite, Ends

\* People move the version: no call in flight holds the current one any more.
LEMMA ChangeOrderStep ==
  ASSUME IInv, ChangeOrder
  PROVE  IInv'
  <1>1. /\ UNCHANGED <<quote, events, policy, now, slot, after>> /\ moves' = moves + 1
    BY DEF ChangeOrder
  <1>2. PICK next \in {order.status} \cup Transitions[order.status] :
          order' = [status |-> next, version |-> order.version + 1]
    BY DEF ChangeOrder
  <1>3. next \in {"READY_FOR_REVIEW", "APPROVED", "SUBMITTED_TO_FUT", "FAILED", "CANCELLED"}
    BY DEF Transitions, IInv, TypeOK, OrderRows
  <1>4. TypeOK'
    BY <1>1, <1>2, <1>3 DEF IInv, TypeOK, OrderRows
  <1>5. StopBound'
    BY <1>1 DEF IInv, StopBound, Live
  <1>6. \A j \in Slots : Evaluated(slot[j])' /\ Reviewed(slot[j])'
    BY <1>1, <1>2 DEF IInv, TypeOK, Evaluated, Reviewed, Calls, OrderRows
  <1> QED
    BY <1>4, <1>5, <1>6 DEF IInv

LEMMA QuietStep ==
  ASSUME IInv, UNCHANGED <<rows, policy, slot, moves, after>>, now' \in Nat
  PROVE  IInv'
  BY DEF IInv, TypeOK, StopBound, Live, Evaluated, Reviewed, rows

LEMMA IInvStep == IInv /\ [Next]_vars => IInv'
  <1> SUFFICES ASSUME IInv, [Next]_vars PROVE IInv'
    OBVIOUS
  <1>1. CASE \E i \in Slots : \/ AttemptRead(i) \/ OrderRead(i) \/ Evaluate(i) \/ OpenDialog(i)
    BY <1>1, AttemptReadStep, OrderReadStep, EvaluateStep, OpenDialogStep
  <1>2. CASE \E i \in Slots : \/ ConfirmRead(i) \/ PriceCheck(i) \/ Reserve(i) \/ Claim(i) \/ Submit(i)
    BY <1>2, ConfirmReadStep, PriceCheckStep, ReserveStep, ClaimStep, SubmitStep
  <1>3. CASE \E i \in Slots : \/ PrepareRead(i) \/ PrepareWrite(i) \/ StopRead(i) \/ StopWrite(i)
    BY <1>3, PrepareReadStep, PrepareWriteStep, StopReadStep, StopWriteStep
  <1>4. CASE \E p \in Policies : UpdatePolicy(p)
    BY <1>4, UpdatePolicyStep
  <1>5. CASE ChangeOrder
    BY <1>5, ChangeOrderStep
  <1>6. CASE Tick
    BY <1>6, QuietStep DEF Tick, IInv, TypeOK
  <1>7. CASE UNCHANGED vars
    BY <1>7, QuietStep DEF vars, IInv, TypeOK
  <1> QED
    BY <1>1, <1>2, <1>3, <1>4, <1>5, <1>6, <1>7 DEF Next

\* No other step takes a call to where it claims the quote.
LEMMA OnlyReserve ==
  ASSUME IInv, Next, NEW i \in Slots, slot[i].at = "reserve", slot'[i].at = "claim"
  PROVE  Reserve(i)
  <1>1. slot \in [Slots -> Calls] /\ slot'[i] # slot[i] /\ slot'[i] # Free
    BY FreeType DEF IInv, TypeOK
  <1>2. ASSUME NEW j \in Slots, j # i PROVE \A c : slot' # [slot EXCEPT ![j] = c]
    BY <1>1, <1>2
  <1>3. CASE \E j \in Slots : \/ AttemptRead(j) \/ OrderRead(j) \/ Evaluate(j) \/ OpenDialog(j)
    BY <1>1, <1>2, <1>3 DEF AttemptRead, OrderRead, Evaluate, OpenDialog, Ends
  <1>4. CASE \E j \in Slots : ConfirmRead(j) \/ PriceCheck(j) \/ Claim(j) \/ Submit(j)
    BY <1>1, <1>2, <1>4 DEF ConfirmRead, PriceCheck, Claim, Submit, Ends, Goes
  <1>5. CASE \E j \in Slots : \/ PrepareRead(j) \/ PrepareWrite(j) \/ StopRead(j) \/ StopWrite(j)
    BY <1>1, <1>2, <1>5 DEF PrepareRead, PrepareWrite, StopRead, StopWrite, Ends
  <1>6. CASE \E j \in Slots : Reserve(j)
    BY <1>1, <1>2, <1>6 DEF Reserve, Ends, Goes
  <1>7. CASE (\E p \in Policies : UpdatePolicy(p)) \/ ChangeOrder \/ Tick
    BY <1>1, <1>7 DEF UpdatePolicy, ChangeOrder, Tick
  <1> QED
    BY <1>3, <1>4, <1>5, <1>6, <1>7 DEF Next

-----------------------------------------------------------------------------
\* The inductive invariant: attempts that may still buy after a stop are counted with what
\* was bought since, evaluated attempts hold an armed policy, versions tell changes.
THEOREM AutomationInvariance == Spec => []IInv
  BY InitIInv, IInvStep, PTL DEF Spec

\* While the policy is stopped, at most the attempts that were in flight when it was written
\* buy (automation.ts:115-129, the policy being read once), whatever the number of calls.
THEOREM StopsHold == Spec => []StopHolds
  BY AutomationInvariance, StopIsSafe, PTL

\* A reservation of confirmFutOrder goes through only on an order nobody has changed since
\* it was reviewed or evaluated (service.ts:256, the version compared by the update).
THEOREM ReservationsAreReviewed == Spec => ReservedAsReviewed
  <1> DEFINE Kept == \A i \in Slots :
                       slot[i].at = "reserve" /\ slot'[i].at = "claim" => slot[i].moves = moves
  <1>1. ASSUME IInv, [Next]_vars PROVE [Kept]_vars
    <2> SUFFICES ASSUME NEW i \in Slots, Next, slot[i].at = "reserve", slot'[i].at = "claim"
                 PROVE  slot[i].moves = moves
      BY <1>1 DEF Kept
    <2>1. order = slot[i].order => slot[i].moves = moves
      BY <1>1 DEF IInv, TypeOK, Reviewed, OrderRows
    <2>2. Reserve(i)
      BY <1>1, OnlyReserve
    <2>3. Ends(i) => slot'[i].at = "idle"
      BY <1>1, FreeType DEF IInv, TypeOK, Ends
    <2> QED
      BY <2>1, <2>2, <2>3 DEF Reserve
  <1> QED
    BY <1>1, AutomationInvariance, PTL DEF Spec, ReservedAsReviewed

-----------------------------------------------------------------------------
(* The limits of an attempt.                                               *)

\* The quotient that \div gives, whatever the divisor.
LEMMA Quotient ==
  ASSUME NEW n \in Nat, NEW d \in Nat \ {0}
  PROVE  /\ n \div d \in Nat
         /\ (n \div d) * d <= n
         /\ n < (n \div d) * d + d
  <1>1. n \div d \in Int /\ n \div d >= 0
    OBVIOUS
  <1>2. (n \div d) * d <= n
    OBVIOUS
  <1>3. n < (n \div d) * d + d
    OBVIOUS
  <1> QED
    BY <1>1, <1>2, <1>3

LEMMA Scales ==
  ASSUME NEW a \in Nat, NEW b \in Nat, NEW d \in Nat, a <= b
  PROVE  a * d <= b * d
  OBVIOUS

\* What a policy's limits leave of an order bought at this cost.
Left(cost) == (Sale.gross - Sale.fee - cost) * 10000
Within(p, cost) ==
  /\ Sale.gross <= p.maxGross
  /\ Left(cost) >= p.minMargin * Sale.gross \/ (p.minMargin = 0 /\ Left(cost) > -Sale.gross)

\* Math.trunc rounds a loss up and a margin down: a margin of m basis points is one of m at
\* least, but no margin at all may be a loss below one.
LEMMA TruncatedMargin ==
  ASSUME NEW n \in Int, NEW d \in Nat \ {0}, NEW m \in Nat, Trunc(n, d) >= m
  PROVE  n >= m * d \/ (m = 0 /\ n > -d)
  <1>1. CASE n >= 0
    <2>1. n \in Nat /\ n \div d >= m
      BY <1>1 DEF Trunc
    <2>2. PICK q \in Nat : q = n \div d
      BY <2>1, Quotient
    <2>3. m * d <= q * d /\ q * d <= n /\ q * d \in Nat /\ m * d \in Nat
      BY <2>1, <2>2, Quotient, Scales
    <2> QED
      BY <2>3
  <1>2. CASE ~(n >= 0)
    <2>1. -n \in Nat
      BY <1>2
    <2>2. PICK k \in Nat : k = -n
      BY <2>1
    <2>3. PICK q \in Nat : q = k \div d
      BY <2>2, Quotient
    <2>4. -q >= m
      BY <1>2, <2>2, <2>3 DEF Trunc
    <2>5. q = 0 /\ m = 0
      BY <2>4
    <2>6. k < 0 * d + d
      BY <2>3, <2>5, Quotient
    <2> QED
      BY <2>2, <2>5, <2>6
  <1> QED
    BY <1>1, <1>2

LEMMA EligibleKeepsLimits ==
  ASSUME NEW p \in PolicyRows, NEW o, NEW q \in QuoteRows, NEW fails, NEW balance,
         Eligible(p, o, q, fails, balance)
  PROVE  Within(p, q.cost)
  <1>1. Sale.gross <= p.maxGross /\ MarginBps(q.cost) >= p.minMargin
    BY DEF Eligible
  <1>2. p.minMargin \in Nat /\ q.cost \in Nat
    BY DEF PolicyRows, QuoteRows
  <1>3. Left(q.cost) \in Int
    BY <1>2, SaleAssumption DEF Left
  <1>4. Trunc(Left(q.cost), Sale.gross) >= p.minMargin
    BY <1>1 DEF MarginBps, Left
  <1> QED
    BY <1>1, <1>2, <1>3, <1>4, SaleAssumption, TruncatedMargin DEF Within

\* A call knows the cost of the quote it read, and an attempt that buys the quote it was
\* evaluated with buys it within its limits.
Tied(c) ==
  /\ c.at = "evaluate" => /\ c.quote.id <= quote.id
                          /\ c.quote.id = quote.id => c.quote.cost = quote.cost
  /\ c.at = "confirm" /\ c.auto => /\ c.seen <= quote.id
                                   /\ c.seen = quote.id => Within(c.policy, quote.cost)
  /\ c.at \in {"price", "reserve", "claim", "submit"} /\ c.auto =>
       (c.quote.id = c.seen => Within(c.policy, c.quote.cost))

LimitsInv == IInv /\ \A i \in Slots : Tied(slot[i])

\* A quote with a new cost is a new quote.
QuoteKept == quote'.id >= quote.id /\ (quote'.id = quote.id => quote'.cost = quote.cost)

LEMMA TiedElsewhere ==
  ASSUME LimitsInv, QuoteKept, quote' \in QuoteRows, NEW c, NEW i \in Slots,
         slot' = [slot EXCEPT ![i] = c], Tied(c)'
  PROVE  \A j \in Slots : Tied(slot[j])'
  <1> TAKE j \in Slots
  <1>1. slot'[j] = IF j = i THEN c ELSE slot[j]
    BY DEF LimitsInv, IInv, TypeOK
  <1>2. CASE j = i
    BY <1>1, <1>2 DEF Tied
  <1>3. CASE j # i
    <2>1. /\ Tied(slot[j]) /\ slot[j].seen \in Nat /\ slot[j].quote.id \in Nat
          /\ quote.id \in Nat /\ quote'.id \in Nat
      BY DEF LimitsInv, IInv, TypeOK, Calls, QuoteRows
    <2> QED
      BY <1>1, <1>3, <2>1 DEF Tied, QuoteKept
  <1> QED
    BY <1>2, <1>3

LEMMA TiedStep ==
  ASSUME LimitsInv, [Next]_vars
  PROVE  \A j \in Slots : Tied(slot[j])'
  <1>t. IInv /\ IInv' /\ quote \in QuoteRows /\ quote' \in QuoteRows /\ quote.id \in Nat
    BY IInvStep DEF LimitsInv, IInv, TypeOK, QuoteRows
  <1>same. UNCHANGED rows => QuoteKept
    BY <1>t DEF rows, QuoteKept
  <1>free. Tied(Free)'
    BY FreeType DEF Tied
  <1>ends. ASSUME NEW i \in Slots, Ends(i), QuoteKept PROVE \A j \in Slots : Tied(slot[j])'
    BY <1>ends, <1>t, <1>free, TiedElsewhere DEF Ends
  <1>goes. ASSUME NEW i \in Slots, NEW at \in {"price", "reserve", "claim", "submit"}, Goes(i, at),
                  slot[i].at \in {"price", "reserve", "claim", "submit"}, QuoteKept
           PROVE  \A j \in Slots : Tied(slot[j])'
    <2>1. PICK c : c = [slot[i] EXCEPT !.at = at]
      OBVIOUS
    <2>2. /\ c.at = at /\ c.auto = slot[i].auto /\ c.policy = slot[i].policy
          /\ c.quote = slot[i].quote /\ c.seen = slot[i].seen
      BY <2>1, <1>t DEF IInv, TypeOK, Calls
    <2>3. Tied(c)'
      BY <1>goes, <2>2 DEF Tied, LimitsInv
    <2> QED
      BY <1>goes, <1>t, <2>1, <2>3, TiedElsewhere DEF Goes
  <1>1. ASSUME NEW i \in Slots, AttemptRead(i) PROVE \A j \in Slots : Tied(slot[j])'
    <2>1. PICK c : c = [Free EXCEPT !.at = "order", !.auto = TRUE, !.policy = policy]
      OBVIOUS
    <2>2. c.at = "order"
      BY <2>1, FreeType DEF Calls
    <2> QED
      BY <1>1, <1>t, <1>same, <2>1, <2>2, TiedElsewhere DEF AttemptRead, Tied
  <1>2. ASSUME NEW i \in Slots, OrderRead(i) PROVE \A j \in Slots : Tied(slot[j])'
    <2>1. PICK c : c = [slot[i] EXCEPT !.at = "evaluate", !.order = order, !.quote = quote,
                                       !.fails = Failures, !.moves = moves]
      OBVIOUS
    <2>2. c.at = "evaluate" /\ c.quote = quote
      BY <2>1, <1>t DEF IInv, TypeOK, Calls
    <2>3. slot' = [slot EXCEPT ![i] = c] /\ UNCHANGED rows
      BY <1>2, <2>1 DEF OrderRead
    <2>4. Tied(c)'
      BY <1>t, <2>2, <2>3 DEF Tied, rows
    <2> QED
      BY <1>t, <1>same, <2>3, <2>4, TiedElsewhere
  <1>3. ASSUME NEW i \in Slots, Evaluate(i) PROVE \A j \in Slots : Tied(slot[j])'
    <2>1. PICK c : c = [slot[i] EXCEPT !.at = "confirm", !.seen = slot[i].quote.id,
                                       !.quote = NoQuote, !.fails = 0]
      OBVIOUS
    <2>2. c.at = "confirm" /\ c.seen = slot[i].quote.id /\ c.policy = slot[i].policy
      BY <2>1, <1>t DEF IInv, TypeOK, Calls
    <2>3. UNCHANGED rows /\ slot[i].at = "evaluate"
      BY <1>3 DEF Evaluate
    <2>4. PICK balance \in Balances :
            \/ Ends(i)
            \/ /\ Eligible(slot[i].policy, slot[i].order, slot[i].quote, slot[i].fails, balance)
               /\ slot' = [slot EXCEPT ![i] = c]
      BY <1>3, <2>1 DEF Evaluate
    <2>5. CASE Ends(i)
      BY <1>ends, <1>same, <2>3, <2>5
    <2>6. CASE /\ Eligible(slot[i].policy, slot[i].order, slot[i].quote, slot[i].fails, balance)
               /\ slot' = [slot EXCEPT ![i] = c]
      <3>1. slot[i].policy \in PolicyRows /\ slot[i].quote \in QuoteRows
        BY <1>t DEF IInv, TypeOK, Calls
      <3>2. Within(slot[i].policy, slot[i].quote.cost)
        BY <2>6, <3>1, EligibleKeepsLimits
      <3>3. Tied(slot[i])
        BY DEF LimitsInv
      <3>4. Tied(c)'
        BY <2>2, <2>3, <3>2, <3>3 DEF Tied, rows
      <3> QED
        BY <1>t, <1>same, <2>3, <2>6, <3>4, TiedElsewhere
    <2> QED
      BY <2>4, <2>5, <2>6
  <1>4. ASSUME NEW i \in Slots, OpenDialog(i) PROVE \A j \in Slots : Tied(slot[j])'
    <2>1. PICK c : c = [Free EXCEPT !.at = "confirm", !.order = order, !.moves = moves]
      OBVIOUS
    <2>2. c.at = "confirm" /\ ~c.auto
      BY <2>1, FreeType DEF Calls
    <2> QED
      BY <1>4, <1>t, <1>same, <2>1, <2>2, TiedElsewhere DEF OpenDialog, Tied
  <1>5. ASSUME NEW i \in Slots, ConfirmRead(i) PROVE \A j \in Slots : Tied(slot[j])'
    <2>1. PICK c : c = [slot[i] EXCEPT !.at = "price", !.quote = quote]
      OBVIOUS
    <2>2. /\ c.at = "price" /\ c.auto = slot[i].auto /\ c.policy = slot[i].policy
          /\ c.quote = quote /\ c.seen = slot[i].seen
      BY <2>1, <1>t DEF IInv, TypeOK, Calls
    <2>3. /\ UNCHANGED rows /\ slot[i].at = "confirm"
          /\ Ends(i) \/ slot' = [slot EXCEPT ![i] = c]
      BY <1>5, <2>1 DEF ConfirmRead
    <2>4. Tied(slot[i])
      BY DEF LimitsInv
    <2>5. Tied(c)'
      BY <2>2, <2>3, <2>4 DEF Tied, rows
    <2> QED
      BY <1>t, <1>same, <1>ends, <2>3, <2>5, TiedElsewhere
  <1>6. ASSUME NEW i \in Slots, PriceCheck(i) PROVE \A j \in Slots : Tied(slot[j])'
    <2>1. (Ends(i) \/ Goes(i, "reserve")) /\ UNCHANGED rows /\ slot[i].at = "price"
      BY <1>6 DEF PriceCheck
    <2> QED
      BY <1>same, <1>ends, <1>goes, <2>1
  <1>7. ASSUME NEW i \in Slots, Reserve(i) PROVE \A j \in Slots : Tied(slot[j])'
    <2>1. (Ends(i) \/ Goes(i, "claim")) /\ quote' = quote /\ slot[i].at = "reserve"
      BY <1>7 DEF Reserve
    <2>2. QuoteKept
      BY <1>t, <2>1 DEF QuoteKept
    <2> QED
      BY <1>ends, <1>goes, <2>1, <2>2
  <1>8. ASSUME NEW i \in Slots, Claim(i) PROVE \A j \in Slots : Tied(slot[j])'
    <2>1. Goes(i, "submit") /\ slot[i].at = "claim"
      BY <1>8 DEF Claim
    <2>2. QuoteKept
      BY <1>8, <1>t DEF Claim, QuoteKept, QuoteRows
    <2> QED
      BY <1>goes, <2>1, <2>2
  <1>9. ASSUME NEW i \in Slots, Submit(i) PROVE \A j \in Slots : Tied(slot[j])'
    <2>1. quote'.id = quote.id /\ quote'.cost = quote.cost
      BY <1>9, <1>t DEF Submit, QuoteRows
    <2>2. QuoteKept
      BY <1>t, <2>1 DEF QuoteKept
    <2> QED
      BY <1>9, <1>ends, <2>2 DEF Submit
  <1>10. ASSUME NEW i \in Slots, PrepareRead(i) PROVE \A j \in Slots : Tied(slot[j])'
    <2>1. PICK price \in Prices :
            slot' = [slot EXCEPT ![i] = [Free EXCEPT !.at = "prepare", !.quote.cost = price]]
      BY <1>10 DEF PrepareRead
    <2>2. PICK c : c = [Free EXCEPT !.at = "prepare", !.quote.cost = price]
      OBVIOUS
    <2>3. c.at = "prepare"
      BY <2>2, FreeType DEF Calls
    <2>4. UNCHANGED rows /\ Tied(c)'
      BY <1>10, <2>3 DEF PrepareRead, Tied
    <2> QED
      BY <1>t, <1>same, <2>1, <2>2, <2>4, TiedElsewhere
  <1>11. ASSUME NEW i \in Slots, PrepareWrite(i) PROVE \A j \in Slots : Tied(slot[j])'
    <2>1. quote'.id = quote.id + 1 /\ Ends(i)
      BY <1>11, <1>t DEF PrepareWrite, QuoteRows
    <2>2. QuoteKept
      BY <1>t, <2>1 DEF QuoteKept
    <2> QED
      BY <1>ends, <2>1, <2>2
  <1>12. ASSUME NEW i \in Slots, StopRead(i) PROVE \A j \in Slots : Tied(slot[j])'
    <2>1. PICK c : c = [Free EXCEPT !.at = "stop", !.policy = policy]
      OBVIOUS
    <2>2. c.at = "stop"
      BY <2>1, FreeType DEF Calls
    <2> QED
      BY <1>12, <1>t, <1>same, <2>1, <2>2, TiedElsewhere DEF StopRead, Tied
  <1>13. ASSUME NEW i \in Slots, StopWrite(i) PROVE \A j \in Slots : Tied(slot[j])'
    BY <1>13, <1>ends, <1>same DEF StopWrite
  <1>14. CASE (\E p \in Policies : UpdatePolicy(p)) \/ ChangeOrder \/ Tick \/ UNCHANGED vars
    <2>1. slot' = slot /\ quote' = quote
      BY <1>14 DEF UpdatePolicy, ChangeOrder, Tick, vars, rows
    <2> QED
      BY <2>1 DEF LimitsInv, Tied
  <1> QED
    BY <1>1, <1>2, <1>3, <1>4, <1>5, <1>6, <1>7, <1>8, <1>9, <1>10, <1>11, <1>12, <1>13, <1>14
       DEF Next

\* attemptAutomatedFutOrder (automation.ts:115-129) buys a quote within the limits of the
\* policy it read, to the minor unit, unless the quote was prepared again in between.
THEOREM LimitsHold == Spec => []LimitsKept
  <1>1. Init => LimitsInv
    BY InitIInv, FreeType DEF Init, LimitsInv, Tied
  <1>2. LimitsInv /\ [Next]_vars => LimitsInv'
    BY IInvStep, TiedStep DEF LimitsInv
  <1>3. LimitsInv => LimitsKept
    BY DEF LimitsInv, Tied, LimitsKept, Buying, Within, Left
  <1> QED
    BY <1>1, <1>2, <1>3, PTL DEF Spec
=============================================================================
