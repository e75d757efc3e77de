---------------------------- MODULE RetryProofs -----------------------------
(***************************************************************************)
(* Proofs about what the system tries again.                               *)
(*   The provider's calls (Provider), for any number of calls, retries and *)
(* seconds: how often a call is sent, how far the shared count of failures *)
(* goes, and that a quote buys the best offer.                             *)
(*   The cron's jobs and messages (Background), for any runners, rows,     *)
(* attempts and faults: who may work on a job, what a second copy of a     *)
(* message costs, and how often a row is tried.                            *)
(***************************************************************************)
EXTENDS Provider, Background, FiniteSetTheorems, WellFoundedInduction, TLAPS

-----------------------------------------------------------------------------
(* The provider's calls.                                                   *)

Busy == {i \in Slots : call[i].at # "idle"}

Calls == [at : {"idle", "sent", "waiting"}, op : Reads \cup Mutations,
          attempt : 0..MaxRetries, sent : Nat]

TypeOK == failures \in Nat /\ cooling \in 0..Cool /\ call \in [Slots -> Calls]

\* A call is sent once an attempt, and waits only if it may try again.
CallOK(i) ==
  /\ call[i].attempt <= Retries(call[i].op)
  /\ call[i].at = "waiting" => call[i].attempt < Retries(call[i].op)
  /\ call[i].sent <= call[i].attempt + 1

\* Each call in flight may still add one failure.
Counted == failures + Cardinality(Busy) <= 4 + Cardinality(Slots)

IInv == TypeOK /\ (\A i \in Slots : CallOK(i)) /\ Counted

-----------------------------------------------------------------------------
LEMMA RetriesFacts ==
  ASSUME NEW op
  PROVE  /\ Retries(op) \in 0..MaxRetries
         /\ Retries(op) = IF op \in Mutations THEN 0 ELSE MaxRetries
  BY RetriesAssumption DEF Retries

LEMMA SlotCount == IsFiniteSet(Slots) /\ Cardinality(Slots) \in Nat
  BY SlotsAssumption, FS_CardinalityType

LEMMA BusyCount ==
  ASSUME NEW S \in SUBSET Slots
  PROVE  IsFiniteSet(S) /\ Cardinality(S) \in Nat /\ Cardinality(S) <= Cardinality(Slots)
  BY SlotCount, FS_Subset, FS_CardinalityType

LEMMA InitIInv == Init => IInv
  <1> SUFFICES ASSUME Init PROVE IInv
    OBVIOUS
  <1>1. TypeOK
    BY RetriesAssumption DEF Init, TypeOK, Calls, Idle, Reads, Mutations
  <1>2. \A i \in Slots : CallOK(i)
    BY RetriesAssumption DEF Init, CallOK, Idle, Retries, Mutations
  <1>3. Busy = {}
    BY DEF Init, Busy, Idle
  <1>4. Cardinality(Busy) = 0
    BY <1>3, FS_EmptySet
  <1> QED
    BY <1>1, <1>2, <1>4, SlotCount DEF IInv, Counted, Init

-----------------------------------------------------------------------------
\* A call that ends leaves room for its failure.
LEMMA EndStep ==
  ASSUME IInv, NEW i \in Slots, call[i].at # "idle", Ends(i), Fails \/ Succeeds
  PROVE  IInv'
  <1>1. TypeOK'
    <2>1. call' \in [Slots -> Calls]
      BY RetriesAssumption DEF IInv, TypeOK, Ends, Idle, Calls, Reads, Mutations
    <2>2. failures' \in Nat /\ cooling' \in 0..Cool
      BY RetriesAssumption DEF IInv, TypeOK, Fails, Succeeds
    <2> QED
      BY <2>1, <2>2 DEF TypeOK
  <1>2. ASSUME NEW j \in Slots PROVE CallOK(j)'
    <2>1. CASE j = i
      BY <2>1, RetriesAssumption DEF IInv, TypeOK, Ends, Idle, CallOK, Retries, Mutations
    <2>2. CASE j # i
      BY <2>2 DEF IInv, TypeOK, Ends, CallOK, Retries
    <2> QED
      BY <2>1, <2>2
  <1>3. Counted'
    <2>1. Busy' = Busy \ {i} /\ i \in Busy /\ Busy \in SUBSET Slots
      BY DEF IInv, TypeOK, Ends, Idle, Busy
    <2>2. Cardinality(Busy') = Cardinality(Busy) - 1 /\ Cardinality(Busy) \in Nat
      BY <2>1, BusyCount, FS_RemoveElement
    <2>3. failures' = failures + 1 \/ failures' = 0
      BY DEF Fails, Succeeds
    <2>4. Cardinality(Busy') <= Cardinality(Slots) /\ Cardinality(Busy') \in Nat
      BY <2>1, BusyCount
    <2> QED
      BY <2>2, <2>3, <2>4, SlotCount DEF IInv, TypeOK, Counted
  <1> QED
    BY <1>1, <1>2, <1>3 DEF IInv

\* A call that goes on, or a tick, changes neither the count nor who is in flight.
LEMMA GoOnStep ==
  ASSUME IInv, UNCHANGED failures, TypeOK', \A j \in Slots : CallOK(j)', Busy' = Busy
  PROVE  IInv'
  BY DEF IInv, Counted

\* The circuit lets a call through below the threshold, or counts from zero again.
LEMMA BeginStep ==
  ASSUME IInv, NEW i \in Slots, NEW op \in Reads \cup Mutations, Begin(i, op)
  PROVE  IInv'
  <1>1. CASE Open
    <2>1. Busy' = Busy
      BY <1>1 DEF Begin, Busy
    <2> QED
      BY <1>1, <2>1 DEF Begin, IInv, TypeOK, CallOK, Counted, Retries
  <1>2. CASE ~Open
    <2>1. /\ failures' = (IF failures >= 5 THEN 0 ELSE failures) /\ cooling' = cooling
          /\ call' = [call EXCEPT ![i] = [at |-> "sent", op |-> op, attempt |-> 0, sent |-> 1]]
      BY <1>2 DEF Begin
    <2>2. TypeOK'
      <3>1. call' \in [Slots -> Calls]
        BY <2>1, RetriesAssumption DEF IInv, TypeOK, Calls
      <3> QED
        BY <2>1, <3>1 DEF IInv, TypeOK
    <2>3. ASSUME NEW j \in Slots PROVE CallOK(j)'
      <3>1. CASE j = i
        BY <2>1, <3>1, RetriesFacts DEF IInv, TypeOK, CallOK
      <3>2. CASE j # i
        BY <2>1, <3>2 DEF IInv, TypeOK, CallOK, Retries
      <3> QED
        BY <3>1, <3>2
    <2>4. Counted'
      <3>1. Busy' \in SUBSET Slots
        BY DEF Busy
      <3>2. Cardinality(Busy') \in Nat /\ Cardinality(Busy') <= Cardinality(Slots)
        BY <3>1, BusyCount
      <3>3. failures' \in Nat /\ failures' <= 4
        BY <2>1 DEF IInv, TypeOK
      <3> QED
        BY <3>2, <3>3, SlotCount DEF Counted
    <2> QED
      BY <2>2, <2>3, <2>4 DEF IInv
  <1> QED
    BY <1>1, <1>2

LEMMA LostStep ==
  ASSUME IInv, NEW i \in Slots, Lost(i)
  PROVE  IInv'
  <1>1. CASE call[i].attempt = Retries(call[i].op)
    BY <1>1, EndStep DEF Lost
  <1>2. CASE call[i].attempt # Retries(call[i].op)
    <2>1. /\ call[i].at = "sent" /\ UNCHANGED <<failures, cooling>>
          /\ call' = [call EXCEPT ![i].at = "waiting"]
      BY <1>2 DEF Lost
    <2>2. TypeOK'
      BY <2>1 DEF IInv, TypeOK, Calls
    <2>3. ASSUME NEW j \in Slots PROVE CallOK(j)'
      <3>1. call[j] \in Calls /\ CallOK(j) /\ call[j].attempt \in Nat
        BY RetriesAssumption DEF IInv, TypeOK, Calls
      <3>2. CASE j = i
        BY <1>2, <2>1, <3>1, <3>2, RetriesFacts, RetriesAssumption DEF IInv, TypeOK, Calls, CallOK, Retries
      <3>3. CASE j # i
        BY <2>1, <3>3 DEF IInv, TypeOK, CallOK, Retries
      <3> QED
        BY <3>2, <3>3
    <2>4. Busy' = Busy
      BY <2>1 DEF IInv, TypeOK, Busy
    <2> QED
      BY <2>1, <2>2, <2>3, <2>4, GoOnStep
  <1> QED
    BY <1>1, <1>2

LEMMA ResendStep ==
  ASSUME IInv, NEW i \in Slots, Resend(i)
  PROVE  IInv'
  <1>1. call[i].at = "waiting" /\ UNCHANGED <<failures, cooling>>
    BY DEF Resend
  <1>2. call' = [call EXCEPT ![i] = [at |-> "sent", op |-> call[i].op,
                                      attempt |-> call[i].attempt + 1, sent |-> call[i].sent + 1]]
    BY DEF Resend, IInv, TypeOK, Calls
  <1>3. call[i].attempt \in Nat /\ call[i].sent \in Nat /\ call[i].attempt < Retries(call[i].op)
    BY <1>1, RetriesAssumption DEF IInv, TypeOK, Calls, CallOK
  <1>4. call[i].attempt + 1 \in 0..MaxRetries
    BY <1>3, RetriesFacts, RetriesAssumption
  <1>5. TypeOK'
    BY <1>1, <1>2, <1>3, <1>4 DEF IInv, TypeOK, Calls
  <1>6. ASSUME NEW j \in Slots PROVE CallOK(j)'
    <2>1. CASE j = i
      <3>1. /\ call'[i].at = "sent" /\ call'[i].op = call[i].op
            /\ call'[i].attempt = call[i].attempt + 1 /\ call'[i].sent = call[i].sent + 1
        BY <1>2 DEF IInv, TypeOK, Calls
      <3>2. call[i].sent <= call[i].attempt + 1
        BY DEF IInv, CallOK
      <3> QED
        BY <1>3, <2>1, <3>1, <3>2, RetriesFacts, RetriesAssumption DEF CallOK, Retries
    <2>2. CASE j # i
      BY <1>2, <2>2 DEF IInv, TypeOK, CallOK, Retries
    <2> QED
      BY <2>1, <2>2
  <1>7. Busy' = Busy
    BY <1>1, <1>2 DEF IInv, TypeOK, Calls, Busy
  <1> QED
    BY <1>1, <1>5, <1>6, <1>7, GoOnStep

LEMMA NextIInv == IInv /\ [Next]_vars => IInv'
  <1> SUFFICES ASSUME IInv, [Next]_vars PROVE IInv'
    OBVIOUS
  <1>1. ASSUME NEW i \in Slots, NEW op \in Reads \cup Mutations, Begin(i, op) PROVE IInv'
    BY <1>1, BeginStep
  <1>2. ASSUME NEW i \in Slots, Quoted(i) \/ Answered(i) \/ Refused(i) PROVE IInv'
    BY <1>2, EndStep DEF Quoted, Answered, Refused
  <1>3. ASSUME NEW i \in Slots, Lost(i) PROVE IInv'
    BY <1>3, LostStep
  <1>4. ASSUME NEW i \in Slots, Resend(i) PROVE IInv'
    BY <1>4, ResendStep
  <1>5. CASE Tick
    <2>1. TypeOK'
      BY <1>5, RetriesAssumption DEF Tick, IInv, TypeOK
    <2> QED
      BY <1>5, <2>1 DEF Tick, IInv, CallOK, Retries, Counted, Busy
  <1>6. CASE UNCHANGED vars
    BY <1>6 DEF vars, IInv, TypeOK, CallOK, Retries, Counted, Busy
  <1> QED
    BY <1>1, <1>2, <1>3, <1>4, <1>5, <1>6 DEF Next, Ended

\* The inductive invariant holds in every reachable state.
THEOREM ProviderInvariance == Spec => []IInv
  BY InitIInv, NextIInv, PTL DEF Spec

\* A mutation is sent to the provider once, a read at most once more than there are
\* retries (request, src/lib/integrations/fut.ts).
THEOREM CallsSentAsAllowed == Spec => []SentAsAllowed
  <1>1. IInv => SentAsAllowed
    <2> SUFFICES ASSUME IInv, NEW i \in Slots
                 PROVE  /\ call[i].at \in {"idle", "sent", "waiting"}
                        /\ call[i].op \in Reads \cup Mutations
                        /\ call[i].attempt \in 0..MaxRetries
                        /\ call[i].sent <= 1 + (IF call[i].op \in Mutations THEN 0 ELSE MaxRetries)
      BY DEF SentAsAllowed
    <2>1. call[i] \in Calls /\ CallOK(i)
      BY DEF IInv, TypeOK
    <2> QED
      BY <2>1, RetriesAssumption, RetriesFacts DEF Calls, CallOK
  <1> QED
    BY <1>1, ProviderInvariance, PTL

\* The shared count of failures passes the threshold by the calls in flight at most
\* (failure, assertCircuit).
THEOREM FailuresStayBounded == Spec => []FailuresBounded
  <1>1. IInv => FailuresBounded
    BY DEF IInv, TypeOK, Counted, Busy, FailuresBounded
  <1> QED
    BY <1>1, ProviderInvariance, PTL

-----------------------------------------------------------------------------
(* Quotes.                                                                 *)

OfferLists == Seq([price : Nat, stock : Nat])

LEMMA Smallest ==
  ASSUME NEW T, T \subseteq Nat, T # {}
  PROVE  \E x \in T : \A y \in T : x <= y
  <1>1. PICK x \in T : \A y \in T : ~ (<<y, x>> \in OpToRel(<, Nat))
    BY NatLessThanWellFounded, WFMin
  <1>2. \A y \in T : ~(y < x)
    BY <1>1 DEF OpToRel
  <1> QED
    BY <1>2

LEMMA AbleOffers ==
  ASSUME NEW offers \in OfferLists, NEW amount \in Nat
  PROVE  /\ Able(offers, amount) \subseteq Nat
         /\ \A i \in Able(offers, amount) : offers[i].price \in Nat
  <1>1. \A i \in DOMAIN offers : i \in Nat /\ offers[i].price \in Nat
    <2>1. \A S : \A q \in Seq(S) : \A i \in DOMAIN q : i \in Nat /\ q[i] \in S
      OBVIOUS
    <2>2. \A i \in DOMAIN offers : i \in Nat /\ offers[i] \in [price : Nat, stock : Nat]
      BY <2>1 DEF OfferLists
    <2> QED
      BY <2>2
  <1>2. Able(offers, amount) \subseteq DOMAIN offers
    BY DEF Able
  <1> QED
    BY <1>1, <1>2

\* The sort finds a first cheapest supplier whenever some supplier can deliver.
LEMMA ChosenIsCheapest ==
  ASSUME NEW offers \in OfferLists, NEW amount \in Nat, Able(offers, amount) # {}
  PROVE  /\ Chosen(offers, amount) \in Able(offers, amount)
         /\ \A j \in Able(offers, amount) : offers[Chosen(offers, amount)].price <= offers[j].price
  <1> DEFINE able == Able(offers, amount)
             First(i) == \A j \in able : /\ offers[i].price <= offers[j].price
                                         /\ offers[i].price = offers[j].price => i <= j
             prices == {offers[i].price : i \in able}
  <1>1. able \subseteq Nat /\ able # {} /\ \A i \in able : offers[i].price \in Nat
    BY AbleOffers
  <1> HIDE DEF able
  <1>2. prices \subseteq Nat /\ prices # {}
    BY <1>1
  <1>3. PICK p \in prices : \A q \in prices : p <= q
    BY <1>2, Smallest
  <1> DEFINE cheapest == {i \in able : offers[i].price = p}
  <1>4. cheapest \subseteq Nat /\ cheapest # {}
    BY <1>1, <1>3
  <1>5. PICK i \in cheapest : \A j \in cheapest : i <= j
    <2> HIDE DEF cheapest
    <2> QED
      BY <1>4, Smallest
  <1>6. i \in able /\ First(i)
    BY <1>3, <1>5
  <1>7. Chosen(offers, amount) = CHOOSE k \in able : First(k)
    BY DEF Chosen, able
  <1>8. (CHOOSE k \in able : First(k)) \in able /\ First(CHOOSE k \in able : First(k))
    <2> HIDE DEF First
    <2> QED
      BY <1>6
  <1>9. \A j \in able : offers[Chosen(offers, amount)].price <= offers[j].price
    BY <1>7, <1>8
  <1> QED
    BY <1>7, <1>8, <1>9 DEF able

\* decimalToMinor is off by half a cent at most, Math.round of hundredths by half a unit.
LEMMA MinorRounds ==
  ASSUME NEW price \in Nat
  PROVE  /\ DecimalToMinor(price) \in Nat
         /\ 10 * DecimalToMinor(price) - price \in -5..5
  BY DEF DecimalToMinor

LEMMA HundredthsRound ==
  ASSUME NEW n \in Nat
  PROVE  /\ Rounded(n, 100) \in Nat
         /\ 100 * Rounded(n, 100) - n \in -50..50
  BY DEF Rounded

LEMMA Scaled ==
  ASSUME NEW x \in Int, NEW y \in Int, NEW a \in Nat, x <= y
  PROVE  x * a <= y * a
  OBVIOUS

LEMMA CostRounds ==
  ASSUME NEW price \in Nat, NEW amount \in Nat
  PROVE  /\ Cost(price, amount) \in Nat
         /\ MaxPriceTimesAmount(Cost(price, amount)) - price * amount <= 5 * amount + 500
         /\ MaxPriceTimesAmount(Cost(price, amount)) - price * amount >= -(5 * amount + 500)
  <1>1. PICK minor \in Nat : minor = DecimalToMinor(price)
    BY MinorRounds
  <1>2. PICK n \in Nat : n = minor * amount
    OBVIOUS
  <1>3. PICK cost \in Nat : cost = Rounded(n, 100)
    BY HundredthsRound
  <1>4. Cost(price, amount) = cost
    BY <1>1, <1>2, <1>3 DEF Cost
  <1>5. 100 * cost - n \in -50..50
    BY <1>3, HundredthsRound
  <1>6. PICK gap \in Int : gap = 10 * minor - price /\ -5 <= gap /\ gap <= 5
    BY <1>1, MinorRounds
  <1>7. (-5) * amount <= gap * amount /\ gap * amount <= 5 * amount
    BY <1>6, Scaled
  <1>8. gap * amount = 10 * n - price * amount
    BY <1>2, <1>6
  <1>9. PICK paid \in Int : paid = price * amount
    OBVIOUS
  <1>10. (-5) * amount <= 10 * n - paid /\ 10 * n - paid <= 5 * amount
    BY <1>7, <1>8, <1>9
  <1> QED
    BY <1>4, <1>5, <1>9, <1>10 DEF MaxPriceTimesAmount

\* The last quote came from a list of the provider's, at the price of the first cheapest
\* supplier who could deliver.
AnswerOK ==
  answer # NoAnswer =>
    /\ answer.offers \in OfferLists /\ answer.amount \in Nat
    /\ Able(answer.offers, answer.amount) # {}
    /\ answer.cost = Cost(answer.offers[Chosen(answer.offers, answer.amount)].price, answer.amount)

LEMMA CostNat ==
  ASSUME NEW price \in Nat, NEW amount \in Nat
  PROVE  Cost(price, amount) \in Nat
  BY CostRounds

LEMMA AnswerIsBest == AnswerOK => QuoteIsBestOffer
  <1> SUFFICES ASSUME AnswerOK, answer # NoAnswer PROVE QuoteIsBestOffer
    BY DEF QuoteIsBestOffer
  <1>1. PICK offers \in OfferLists, amount \in Nat :
          /\ offers = answer.offers /\ amount = answer.amount
          /\ Able(offers, amount) # {}
          /\ answer.cost = Cost(offers[Chosen(offers, amount)].price, amount)
    BY DEF AnswerOK
  <1>2. PICK c \in Able(offers, amount) : c = Chosen(offers, amount)
    BY <1>1, ChosenIsCheapest
  <1>3. \A i \in Able(offers, amount) : offers[i].price \in Nat /\ offers[c].price <= offers[i].price
    BY <1>1, <1>2, AbleOffers, ChosenIsCheapest
  <1>4. PICK price \in Nat : price = offers[c].price
    BY <1>3
  <1>5. PICK most \in Int : most = MaxPriceTimesAmount(answer.cost)
    <2>1. PICK cost \in Nat : cost = Cost(price, amount)
      BY <1>4, CostNat
    <2>2. answer.cost = cost
      BY <1>1, <1>2, <1>4, <2>1
    <2> QED
      BY <2>2 DEF MaxPriceTimesAmount
  <1>6. most - price * amount <= 5 * amount + 500 /\ most - price * amount >= -(5 * amount + 500)
    <2>1. most = MaxPriceTimesAmount(Cost(price, amount))
      BY <1>1, <1>2, <1>4, <1>5
    <2> QED
      BY <2>1, CostRounds
  <1>7. ASSUME NEW i \in Able(offers, amount)
        PROVE  most - offers[i].price * amount <= 5 * amount + 500
    <2>1. PICK other \in Nat : other = offers[i].price
      BY <1>3
    <2>2. price * amount <= other * amount
      BY <1>3, <1>4, <2>1, Scaled
    <2>3. price * amount \in Int /\ other * amount \in Int /\ 5 * amount + 500 \in Int
      OBVIOUS
    <2> QED
      BY <1>6, <2>1, <2>2, <2>3
  <1>8. most - offers[c].price * amount >= -(5 * amount + 500)
    BY <1>4, <1>6
  <1> QED
    BY <1>1, <1>2, <1>5, <1>7, <1>8 DEF QuoteIsBestOffer

LEMMA AnswerStep == AnswerOK /\ [Next]_vars => AnswerOK'
  <1> SUFFICES ASSUME AnswerOK, [Next]_vars PROVE AnswerOK'
    OBVIOUS
  <1>1. CASE answer' = answer
    BY <1>1 DEF AnswerOK
  <1>2. CASE answer' # answer
    <2>1. PICK i \in Slots : Quoted(i)
      BY <1>2 DEF Next, Ended, Begin, Answered, Refused, Lost, Resend, Tick, vars
    <2>2. PICK offers \in Offers, amount \in Amounts :
            /\ Able(offers, amount) # {}
            /\ answer' = [offers |-> offers, amount |-> amount,
                          cost |-> Cost(offers[Chosen(offers, amount)].price, amount)]
      BY <1>2, <2>1 DEF Quoted
    <2>3. offers \in OfferLists /\ amount \in Nat
      BY OffersAssumption, AmountsAssumption DEF OfferLists
    <2> QED
      BY <2>2, <2>3 DEF AnswerOK
  <1> QED
    BY <1>1, <1>2

\* getPrice quotes the cheapest supplier who can deliver, whatever suppliers answer and
\* whatever is asked for, and off by the two roundings at most (fut.ts:181-192).
THEOREM QuotesAreBestOffers == Spec => []QuoteIsBestOffer
  <1>1. Init => AnswerOK
    BY DEF Init, AnswerOK
  <1> QED
    BY <1>1, AnswerStep, AnswerIsBest, PTL DEF Spec

-----------------------------------------------------------------------------
(* The queues of the cron: what a runner holds.                            *)

\* A runner is where its hands say it is, and has read a job once at most.
RowOK(row) ==
  /\ row \in RunnerRows
  /\ row.at \in {"idle", "select"} => row.jobs = {}
  /\ row.at \in {"idle", "select", "jobs"} => row.job = Nothing
  /\ row.at \in {"job", "done", "failed"} => row.job # Nothing
  /\ row.note # Nothing <=> row.at \in {"send", "sent", "unsent"}
  /\ \A x, y \in row.jobs : x.id = y.id => x = y
  /\ \A x \in row.jobs : row.job # Nothing => x.id # row.job.id

RowsOK == QueueTypeOK /\ \A r \in Runners : RowOK(runner[r])

\* The reads of jobs a runner has not finished with.
Reading(r) == runner[r].jobs \cup (IF runner[r].job = Nothing THEN {} ELSE {runner[r].job})

-----------------------------------------------------------------------------
(* The jobs.                                                               *)

\* Attempts only grow: a claim is beyond what its runner read.
JobsReadBefore(r) ==
  /\ \A x \in runner[r].jobs : x.attempts <= job[x.id].attempts
  /\ runner[r].job # Nothing => runner[r].job.attempts < job[runner[r].job.id].attempts

\* Whoever holds a job holds its lease, until a lease is overrun.
HoldersLease ==
  faults["overrun"] = 0 =>
    /\ \A r, s \in Runners, j \in Jobs : Holds(r, j) /\ Holds(s, j) => r = s
    /\ \A r \in Runners, j \in Jobs : Holds(r, j) => job[j].status = "RUNNING" /\ ~job[j].stale

\* A job that will be claimed again without another fault, and the runners that may still
\* give it back because they read few attempts: each stands for one attempt at most.
Returns(j) ==
  \/ job[j].status = "PENDING"
  \/ job[j].status = "RUNNING" /\ (job[j].stale \/ \A r \in Runners : ~Holds(r, j))
Early(j) == {r \in Runners : \E x \in Reading(r) : x.id = j /\ JobRetries(x.attempts)}
Tries(j) == job[j].attempts + Cardinality(Early(j)) + (IF Returns(j) THEN 1 ELSE 0)
TriesPaid(j) ==
  job[j].attempts = 0 \/ Tries(j) < MaxAttempts + AllFaults + Cardinality(Runners)

JobsOK ==
  /\ \A r \in Runners : JobsReadBefore(r)
  /\ \A j \in Jobs : job[j].status = "NONE" => job[j].attempts = 0
  /\ \A j \in Jobs : job[j].status = "FAILED" => job[j].attempts >= MaxAttempts
  /\ \A j \in Jobs : TriesPaid(j)
  /\ HoldersLease

-----------------------------------------------------------------------------
(* The messages.                                                           *)

NotesReadBefore(r) ==
  /\ \A x \in runner[r].notes : x.attempts <= note[x.id].attempts
  /\ runner[r].note # Nothing => runner[r].note.attempts < note[runner[r].note.id].attempts

\* A message that may be claimed without another fault, and the claims that may still
\* deliver it or give it back: each is one copy at most.
Claimable(n) == note[n].state = "PENDING" /\ (note[n].due \/ \A r \in Runners : ~Sends(r, n))
InHand(n) == {r \in Runners : Sends(r, n) /\ runner[r].at \in {"send", "unsent"}}
Copies(n) == delivered[n] + Cardinality(InHand(n)) + (IF Claimable(n) THEN 1 ELSE 0)
CopiesPaid(n) == Copies(n) <= 1 + AllFaults

NotesOK ==
  /\ \A r \in Runners : NotesReadBefore(r)
  /\ \A n \in Notes : note[n].state = "NONE" =>
       delivered[n] = 0 /\ \A r \in Runners : ~Sends(r, n)
  /\ \A n \in Notes : note[n].state = "FAILED" => note[n].attempts >= MaxAttempts
  /\ \A n \in Notes : CopiesPaid(n)

QueueInv == RowsOK /\ JobsOK /\ NotesOK

-----------------------------------------------------------------------------
LEMMA RunnerSets ==
  /\ Cardinality(Runners) \in Nat
  /\ \A S \in SUBSET Runners : IsFiniteSet(S) /\ Cardinality(S) \in Nat
                                /\ Cardinality(S) <= Cardinality(Runners)
  /\ \A S \in SUBSET Runners : \A T \in SUBSET S :
       Cardinality(T) <= Cardinality(S) /\ (S # T => Cardinality(T) < Cardinality(S))
  /\ \A S \in SUBSET Runners : \A r \in Runners \ S :
       Cardinality(S \cup {r}) = Cardinality(S) + 1
  /\ \A S \in SUBSET Runners : \A r \in S : Cardinality(S \ {r}) = Cardinality(S) - 1
  <1>1. \A S \in SUBSET Runners : IsFiniteSet(S) /\ Cardinality(S) \in Nat
                                   /\ Cardinality(S) <= Cardinality(Runners)
    BY RunnersAssumption, FS_Subset, FS_CardinalityType
  <1>2. ASSUME NEW S \in SUBSET Runners, NEW T \in SUBSET S
        PROVE  Cardinality(T) <= Cardinality(S) /\ (S # T => Cardinality(T) < Cardinality(S))
    <2>1. Cardinality(T) <= Cardinality(S) /\ (Cardinality(S) = Cardinality(T) => S = T)
      BY <1>1, FS_Subset
    <2>2. Cardinality(T) \in Nat /\ Cardinality(S) \in Nat
      BY <1>1
    <2> QED
      BY <2>1, <2>2
  <1>3. \A S \in SUBSET Runners : \A r \in Runners \ S :
          Cardinality(S \cup {r}) = Cardinality(S) + 1
    BY <1>1, FS_AddElement
  <1>4. \A S \in SUBSET Runners : \A r \in S : Cardinality(S \ {r}) = Cardinality(S) - 1
    BY <1>1, FS_RemoveElement
  <1> QED
    BY <1>1, <1>2, <1>3, <1>4

LEMMA FaultStep ==
  ASSUME QueueTypeOK, NEW k \in FaultKinds, Fault(k)
  PROVE  /\ faults' \in [FaultKinds -> Nat]
         /\ AllFaults' = AllFaults + 1
         /\ faults'["overrun"] = faults["overrun"] + (IF k = "overrun" THEN 1 ELSE 0)
  BY DEF QueueTypeOK, Fault, AllFaults, FaultKinds

\* What a step may do to the faults.
More ==
  /\ faults \in [FaultKinds -> Nat] /\ faults' \in [FaultKinds -> Nat]
  /\ AllFaults \in Nat /\ AllFaults' \in Nat /\ AllFaults <= AllFaults'
  /\ faults'["overrun"] = 0 => faults["overrun"] = 0

LEMMA MoreOrSame ==
  ASSUME QueueTypeOK
  PROVE  /\ UNCHANGED faults => More /\ AllFaults' = AllFaults
         /\ \A k \in FaultKinds : Fault(k) => More /\ AllFaults' = AllFaults + 1
  <1>1. faults \in [FaultKinds -> Nat] /\ AllFaults \in Nat /\ faults["overrun"] \in Nat
    BY DEF QueueTypeOK, AllFaults, FaultKinds
  <1>2. UNCHANGED faults => More /\ AllFaults' = AllFaults
    BY <1>1 DEF More, AllFaults
  <1>3. \A k \in FaultKinds : Fault(k) => More /\ AllFaults' = AllFaults + 1
    BY <1>1, FaultStep DEF More
  <1> QED
    BY <1>2, <1>3

\* One runner moves: the rest stay.
Row(at, jobs, held, notes, sent) ==
  [at |-> at, jobs |-> jobs, job |-> held, notes |-> notes, note |-> sent]

Moves(r, row) ==
  /\ runner' = [s \in Runners |-> runner'[s]]
  /\ \A s \in Runners : s # r => runner'[s] = runner[s]
  /\ runner'[r] = row

LEMMA MoveKeepsRows ==
  ASSUME RowsOK, NEW r \in Runners, NEW row, Moves(r, row), RowOK(row),
         job' \in [Jobs -> JobRows], note' \in [Notes -> NoteRows],
         delivered' \in [Notes -> Nat], faults' \in [FaultKinds -> Nat]
  PROVE  RowsOK'
  <1>1. \A s \in Runners : RowOK(runner'[s])
    BY DEF RowsOK, Moves
  <1>2. \A s \in Runners : runner'[s] \in RunnerRows
    BY <1>1 DEF RowOK
  <1>3. runner' \in [Runners -> RunnerRows]
    BY <1>2 DEF Moves
  <1> QED
    BY <1>1, <1>3 DEF RowsOK, QueueTypeOK

LEMMA Rows ==
  ASSUME RowsOK, NEW r \in Runners
  PROVE  /\ runner[r] \in RunnerRows /\ RowOK(runner[r])
         /\ runner[r] = [at |-> runner[r].at, jobs |-> runner[r].jobs, job |-> runner[r].job,
                         notes |-> runner[r].notes, note |-> runner[r].note]
         /\ runner[r].jobs \subseteq JobReads /\ runner[r].notes \subseteq NoteReads
         /\ runner[r].job # Nothing => runner[r].job \in JobReads
         /\ runner[r].note # Nothing => runner[r].note \in NoteReads
  BY DEF RowsOK, QueueTypeOK, RunnerRows

LEMMA RowsRead ==
  ASSUME RowsOK, NEW r \in Runners
  PROVE  /\ \A x \in Reading(r) : x.id \in Jobs /\ x.attempts \in Nat
         /\ \A x \in runner[r].notes : x.id \in Notes /\ x.attempts \in Nat
         /\ runner[r].note # Nothing => runner[r].note.id \in Notes /\ runner[r].note.attempts \in Nat
         /\ runner[r].job # Nothing => runner[r].job.id \in Jobs /\ runner[r].job.attempts \in Nat
         /\ \A x \in runner[r].jobs : x.id \in Jobs /\ x.attempts \in Nat
  BY Rows DEF Reading, JobReads, NoteReads

LEMMA Fields ==
  ASSUME RowsOK
  PROVE  /\ job \in [Jobs -> JobRows] /\ note \in [Notes -> NoteRows]
         /\ delivered \in [Notes -> Nat] /\ faults \in [FaultKinds -> Nat]
         /\ \A j \in Jobs : job[j].attempts \in Nat
         /\ \A n \in Notes : note[n].attempts \in Nat /\ delivered[n] \in Nat
         /\ AllFaults \in Nat /\ faults["overrun"] \in Nat
  BY DEF RowsOK, QueueTypeOK, JobRows, NoteRows, AllFaults, FaultKinds

-----------------------------------------------------------------------------
(* Steps that leave the jobs, or the messages, as they are.                *)

\* A job whose attempts stay is paid for if nobody new may give it back, and it returns
\* only if it did, a runner gave it back, or a fault paid.
LEMMA TriesKept ==
  ASSUME RowsOK, NEW j \in Jobs, TriesPaid(j), More,
         job[j].attempts \in Nat, job'[j].attempts = job[j].attempts,
         Early(j)' \subseteq Early(j),
         \/ Returns(j)' => Returns(j)
         \/ AllFaults < AllFaults'
         \/ Early(j)' # Early(j)
  PROVE  TriesPaid(j)'
  <1>1. Early(j) \in SUBSET Runners /\ Early(j)' \in SUBSET Early(j)
    BY DEF Early
  <1>2. /\ Cardinality(Early(j)) \in Nat /\ Cardinality(Early(j)') \in Nat
        /\ Cardinality(Early(j)') <= Cardinality(Early(j))
        /\ Early(j)' # Early(j) => Cardinality(Early(j)') < Cardinality(Early(j))
    BY <1>1, RunnerSets
  <1>3. MaxAttempts \in Nat /\ Cardinality(Runners) \in Nat
    BY LimitsAssumption, RunnerSets
  <1>4. Tries(j) = job[j].attempts + Cardinality(Early(j)) + (IF Returns(j) THEN 1 ELSE 0)
    BY DEF Tries
  <1>5. Tries(j)' = job[j].attempts + Cardinality(Early(j)') + (IF Returns(j)' THEN 1 ELSE 0)
    BY DEF Tries
  <1>6. PICK e \in Nat, f \in Nat : e = AllFaults /\ f = AllFaults' /\ e <= f
    BY DEF More
  <1>7. CASE job[j].attempts = 0
    BY <1>7 DEF TriesPaid
  <1>8. CASE job[j].attempts # 0
    <2>1. Tries(j) < MaxAttempts + e + Cardinality(Runners)
      BY <1>6, <1>8 DEF TriesPaid
    <2>2. Tries(j)' < MaxAttempts + f + Cardinality(Runners)
      BY <1>2, <1>3, <1>4, <1>5, <1>6, <2>1
    <2> QED
      BY <1>6, <2>2 DEF TriesPaid
  <1> QED
    BY <1>7, <1>8

LEMMA CopiesKept ==
  ASSUME RowsOK, NEW n \in Notes, CopiesPaid(n), More,
         delivered[n] \in Nat, delivered'[n] = delivered[n],
         InHand(n)' \subseteq InHand(n),
         \/ Claimable(n)' => Claimable(n)
         \/ AllFaults < AllFaults'
         \/ InHand(n)' # InHand(n)
  PROVE  CopiesPaid(n)'
  <1>1. InHand(n) \in SUBSET Runners /\ InHand(n)' \in SUBSET InHand(n)
    BY DEF InHand
  <1>2. /\ Cardinality(InHand(n)) \in Nat /\ Cardinality(InHand(n)') \in Nat
        /\ Cardinality(InHand(n)') <= Cardinality(InHand(n))
        /\ InHand(n)' # InHand(n) => Cardinality(InHand(n)') < Cardinality(InHand(n))
    BY <1>1, RunnerSets
  <1>3. Copies(n) = delivered[n] + Cardinality(InHand(n)) + (IF Claimable(n) THEN 1 ELSE 0)
    BY DEF Copies
  <1>4. Copies(n)' = delivered[n] + Cardinality(InHand(n)') + (IF Claimable(n)' THEN 1 ELSE 0)
    BY DEF Copies
  <1>5. PICK e \in Nat, f \in Nat : e = AllFaults /\ f = AllFaults' /\ e <= f
    BY DEF More
  <1>6. Copies(n) <= 1 + e
    BY <1>5 DEF CopiesPaid
  <1>7. Copies(n)' <= 1 + f
    BY <1>2, <1>3, <1>4, <1>5, <1>6
  <1> QED
    BY <1>5, <1>7 DEF CopiesPaid

LEMMA JobsSame ==
  ASSUME RowsOK, JobsOK, More, UNCHANGED job,
         \A s \in Runners : runner'[s].jobs \subseteq runner[s].jobs /\ runner'[s].job = runner[s].job
  PROVE  JobsOK'
  <1>1. \A s \in Runners, j \in Jobs : Holds(s, j)' <=> Holds(s, j)
    BY DEF Holds
  <1>2. \A j \in Jobs : Early(j)' \subseteq Early(j) /\ (Returns(j)' => Returns(j))
    BY <1>1 DEF Early, Reading, Returns
  <1>3. \A j \in Jobs : job[j].attempts \in Nat
    BY DEF RowsOK, QueueTypeOK, JobRows
  <1>4. \A j \in Jobs : TriesPaid(j)'
    BY <1>2, <1>3, TriesKept DEF JobsOK
  <1>5. HoldersLease'
    BY <1>1 DEF JobsOK, HoldersLease, More
  <1>6. \A s \in Runners : JobsReadBefore(s)'
    BY DEF JobsOK, JobsReadBefore
  <1> QED
    BY <1>4, <1>5, <1>6 DEF JobsOK

\* What a runner is to do with messages it read, or reads now.
ReadsOn(s, notes) ==
  \A x \in notes : x \in runner[s].notes \/ x.attempts <= note[x.id].attempts

LEMMA NotesSame ==
  ASSUME RowsOK, NotesOK, More, UNCHANGED note, UNCHANGED delivered,
         \A s \in Runners : /\ ReadsOn(s, runner'[s].notes)
                            /\ runner'[s].note = runner[s].note
                            /\ runner[s].note # Nothing => runner'[s].at = runner[s].at
  PROVE  NotesOK'
  <1>1. \A s \in Runners, n \in Notes : Sends(s, n)' <=> Sends(s, n)
    BY DEF Sends
  <1>2. \A n \in Notes : InHand(n)' \subseteq InHand(n) /\ (Claimable(n)' => Claimable(n))
    BY <1>1 DEF InHand, Claimable, Sends
  <1>3. \A n \in Notes : delivered[n] \in Nat
    BY DEF RowsOK, QueueTypeOK
  <1>4. \A n \in Notes : CopiesPaid(n)'
    BY <1>2, <1>3, CopiesKept DEF NotesOK
  <1>5. \A s \in Runners : NotesReadBefore(s)'
    BY DEF NotesOK, NotesReadBefore, ReadsOn
  <1>6. \A n \in Notes : note'[n].state = "NONE" =>
          delivered'[n] = 0 /\ \A r \in Runners : ~Sends(r, n)'
    BY <1>1 DEF NotesOK
  <1> QED
    BY <1>4, <1>5, <1>6 DEF NotesOK

LEMMA MoveKeepsJobs ==
  ASSUME RowsOK, JobsOK, More, UNCHANGED job, NEW r \in Runners, NEW row, Moves(r, row),
         row.jobs \subseteq runner[r].jobs, row.job = runner[r].job
  PROVE  JobsOK'
  <1>1. \A s \in Runners : runner'[s].jobs \subseteq runner[s].jobs /\ runner'[s].job = runner[s].job
    BY DEF Moves
  <1> QED
    BY <1>1, JobsSame

LEMMA MoveKeepsNotes ==
  ASSUME RowsOK, NotesOK, More, UNCHANGED note, UNCHANGED delivered,
         NEW r \in Runners, NEW row, Moves(r, row),
         ReadsOn(r, row.notes),
         row.note = runner[r].note, row.note # Nothing => row.at = runner[r].at
  PROVE  NotesOK'
  <1>1. \A s \in Runners : /\ ReadsOn(s, runner'[s].notes)
                           /\ runner'[s].note = runner[s].note
                           /\ runner[s].note # Nothing => runner'[s].at = runner[s].at
    <2> TAKE s \in Runners
    <2>1. CASE s = r
      BY <2>1 DEF Moves, ReadsOn
    <2>2. CASE s # r
      BY <2>2 DEF Moves, ReadsOn
    <2> QED
      BY <2>1, <2>2
  <1> QED
    BY <1>1, NotesSame

\* A runner lets go of its message, having written what became of it or because it failed.
LEMMA DropsNote ==
  ASSUME RowsOK, NotesOK, More, UNCHANGED delivered,
         NEW r \in Runners, NEW row, Moves(r, row),
         row.note = Nothing, row.notes \subseteq runner[r].notes,
         \A m \in Notes : /\ note'[m].attempts = note[m].attempts
                          /\ note'[m].state = "NONE" => note[m].state = "NONE"
                          /\ note'[m].state = "FAILED" => note[m].attempts >= MaxAttempts
                          /\ \/ AllFaults < AllFaults'
                             \/ note'[m] = note[m] /\ ~Sends(r, m)
                             \/ note'[m].state # "PENDING"
                             \/ r \in InHand(m)
  PROVE  NotesOK'
  <1>1. \A s \in Runners, m \in Notes : Sends(s, m)' <=> Sends(s, m) /\ s # r
    BY DEF Sends, Moves
  <1>2. ASSUME NEW m \in Notes PROVE CopiesPaid(m)'
    <2>1. InHand(m)' \subseteq InHand(m) /\ r \notin InHand(m)'
      BY <1>1 DEF InHand, Moves
    <2>2. \/ Claimable(m)' => Claimable(m)
          \/ AllFaults < AllFaults'
          \/ InHand(m)' # InHand(m)
      BY <1>1, <2>1 DEF Claimable
    <2> QED
      BY <2>1, <2>2, CopiesKept, Fields DEF NotesOK
  <1>3. ASSUME NEW s \in Runners PROVE NotesReadBefore(s)'
    <2>1. NotesReadBefore(s)
      BY DEF NotesOK
    <2>2. /\ runner'[s].notes \subseteq runner[s].notes
          /\ runner'[s].note # Nothing => runner'[s].note = runner[s].note
      <3>1. CASE s = r
        BY <3>1 DEF Moves
      <3>2. CASE s # r
        BY <3>2 DEF Moves
      <3> QED
        BY <3>1, <3>2
    <2> QED
      BY <2>1, <2>2, RowsRead DEF NotesReadBefore
  <1>4. \A m \in Notes : note'[m].state = "NONE" =>
          delivered'[m] = 0 /\ \A s \in Runners : ~Sends(s, m)'
    BY <1>1 DEF NotesOK
  <1> QED
    BY <1>2, <1>3, <1>4 DEF NotesOK

\* A runner lets go of its job likewise.
LEMMA DropsJob ==
  ASSUME RowsOK, JobsOK, More, NEW r \in Runners, NEW row, Moves(r, row),
         row.job = Nothing, row.jobs \subseteq runner[r].jobs,
         \A k \in Jobs : /\ job'[k].attempts = job[k].attempts
                         /\ job'[k].status = "NONE" => job[k].status = "NONE"
                         /\ job'[k].status = "FAILED" => job[k].attempts >= MaxAttempts
                         /\ ~Holds(r, k) => job'[k] = job[k]
                         /\ \/ AllFaults < AllFaults'
                            \/ ~Holds(r, k)
                            \/ job'[k].status \notin {"PENDING", "RUNNING"}
                            \/ r \in Early(k) /\ r \notin Early(k)'
  PROVE  JobsOK'
  <1>1. \A s \in Runners, k \in Jobs : Holds(s, k)' <=> Holds(s, k) /\ s # r
    BY DEF Holds, Moves
  <1>2. \A s \in Runners : /\ runner'[s].jobs \subseteq runner[s].jobs
                           /\ runner'[s].job = runner[s].job \/ runner'[s].job = Nothing
    BY DEF Moves
  <1>3. ASSUME NEW k \in Jobs PROVE TriesPaid(k)'
    <2>1. Early(k)' \subseteq Early(k)
      BY <1>2 DEF Early, Reading
    <2>2. \/ Returns(k)' => Returns(k)
          \/ AllFaults < AllFaults'
          \/ Early(k)' # Early(k)
      <3>1. CASE ~Holds(r, k)
        BY <1>1, <3>1 DEF Returns
      <3>2. CASE Holds(r, k)
        BY <3>2 DEF Returns
      <3> QED
        BY <3>1, <3>2
    <2> QED
      BY <2>1, <2>2, TriesKept, Fields DEF JobsOK
  <1>4. HoldersLease'
    <2> SUFFICES ASSUME faults'["overrun"] = 0
                 PROVE  /\ \A s, t \in Runners, k \in Jobs : Holds(s, k)' /\ Holds(t, k)' => s = t
                        /\ \A s \in Runners, k \in Jobs :
                             Holds(s, k)' => job'[k].status = "RUNNING" /\ ~job'[k].stale
      BY DEF HoldersLease
    <2>1. /\ \A s, t \in Runners, k \in Jobs : Holds(s, k) /\ Holds(t, k) => s = t
          /\ \A s \in Runners, k \in Jobs : Holds(s, k) => job[k].status = "RUNNING" /\ ~job[k].stale
      BY DEF JobsOK, HoldersLease, More
    <2> QED
      BY <1>1, <2>1
  <1>5. ASSUME NEW s \in Runners PROVE JobsReadBefore(s)'
    BY <1>2, RowsRead DEF JobsOK, JobsReadBefore
  <1> QED
    BY <1>3, <1>4, <1>5 DEF JobsOK
-----------------------------------------------------------------------------
(* Enqueueing, and time.                                                   *)

LEMMA EnqueueJobStep ==
  ASSUME QueueInv, NEW j \in Jobs, EnqueueJob(j)
  PROVE  QueueInv'
  <1>1. /\ UNCHANGED <<note, delivered, runner, faults>> /\ job[j].status = "NONE"
        /\ job' = [job EXCEPT ![j].status = "PENDING", ![j].due = TRUE]
    BY DEF EnqueueJob
  <1>2. RowsOK /\ JobsOK /\ NotesOK /\ More
    BY <1>1, MoreOrSame DEF QueueInv, RowsOK
  <1>3. RowsOK'
    BY <1>1, <1>2 DEF RowsOK, QueueTypeOK, JobRows
  <1>4. NotesOK'
    BY <1>1, <1>2, NotesSame DEF ReadsOn
  <1>5. /\ job'[j].status = "PENDING" /\ job'[j].attempts = job[j].attempts
        /\ \A k \in Jobs : k # j => job'[k] = job[k]
    BY <1>1, <1>2, Fields DEF JobRows
  <1>6. \A s \in Runners, k \in Jobs : Holds(s, k)' <=> Holds(s, k)
    BY <1>1 DEF Holds
  <1>7. \A k \in Jobs : TriesPaid(k)'
    <2> TAKE k \in Jobs
    <2>1. CASE k = j
      BY <1>2, <1>1, <1>5, <2>1 DEF JobsOK, TriesPaid
    <2>2. CASE k # j
      <3>1. Early(k)' = Early(k)
        BY <1>1 DEF Early, Reading
      <3>2. Returns(k)' => Returns(k)
        BY <1>5, <1>6, <2>2 DEF Returns
      <3> QED
        BY <1>2, <1>5, <2>2, <3>1, <3>2, TriesKept, Fields DEF JobsOK
    <2> QED
      BY <2>1, <2>2
  <1>8. HoldersLease'
    <2>1. UNCHANGED faults /\ job[j].status = "NONE"
      BY <1>1
    <2> QED
      BY <1>2, <1>5, <1>6, <2>1 DEF JobsOK, HoldersLease
  <1>9. \A s \in Runners : JobsReadBefore(s)'
    <2>1. UNCHANGED runner /\ \A k \in Jobs : job'[k].attempts = job[k].attempts
      BY <1>1, <1>5
    <2> QED
      BY <1>2, <2>1, RowsRead DEF JobsOK, JobsReadBefore
  <1>10. JobsOK'
    BY <1>2, <1>5, <1>7, <1>8, <1>9 DEF JobsOK
  <1> QED
    BY <1>3, <1>4, <1>10 DEF QueueInv

LEMMA LeaseExpiresStep ==
  ASSUME QueueInv, NEW j \in Jobs, LeaseExpires(j)
  PROVE  QueueInv'
  <1>1. /\ UNCHANGED <<note, delivered, runner>> /\ job[j].status = "RUNNING"
        /\ job' = [job EXCEPT ![j].stale = TRUE]
        /\ IF \E r \in Runners : Holds(r, j) THEN Fault("overrun") ELSE UNCHANGED faults
    BY DEF LeaseExpires
  <1>2. RowsOK /\ JobsOK /\ NotesOK /\ More
        /\ ((\E r \in Runners : Holds(r, j)) => AllFaults < AllFaults' /\ faults'["overrun"] # 0)
    <2>1. QueueTypeOK
      BY DEF QueueInv, RowsOK
    <2>2. More /\ ((\E r \in Runners : Holds(r, j)) => AllFaults' = AllFaults + 1)
      BY <1>1, <2>1, MoreOrSame DEF FaultKinds
    <2>3. (\E r \in Runners : Holds(r, j)) => faults'["overrun"] = faults["overrun"] + 1
      BY <1>1, <2>1, FaultStep DEF FaultKinds
    <2> QED
      BY <2>1, <2>2, <2>3, Fields DEF QueueInv
  <1>3. RowsOK'
    BY <1>1, <1>2 DEF RowsOK, QueueTypeOK, JobRows, More
  <1>4. NotesOK'
    BY <1>1, <1>2, NotesSame DEF ReadsOn
  <1>5. /\ job'[j].status = job[j].status /\ job'[j].attempts = job[j].attempts
        /\ \A k \in Jobs : k # j => job'[k] = job[k]
    BY <1>1, <1>2, Fields DEF JobRows
  <1>6. \A s \in Runners, k \in Jobs : Holds(s, k)' <=> Holds(s, k)
    BY <1>1 DEF Holds
  <1>7. \A k \in Jobs : TriesPaid(k)'
    <2> TAKE k \in Jobs
    <2>1. Early(k)' = Early(k) /\ job'[k].attempts = job[k].attempts /\ job[k].attempts \in Nat
      BY <1>1, <1>2, <1>5, Fields DEF Early, Reading
    <2>2. (Returns(k)' => Returns(k)) \/ AllFaults < AllFaults'
      BY <1>1, <1>2, <1>5, <1>6 DEF Returns
    <2> QED
      BY <1>2, <2>1, <2>2, TriesKept DEF JobsOK
  <1>8. HoldersLease'
    BY <1>1, <1>2, <1>5, <1>6 DEF JobsOK, HoldersLease, More
  <1>9. \A s \in Runners : JobsReadBefore(s)'
    BY <1>1, <1>2, <1>5, RowsRead DEF JobsOK, JobsReadBefore
  <1>10. JobsOK'
    BY <1>2, <1>5, <1>7, <1>8, <1>9 DEF JobsOK
  <1> QED
    BY <1>3, <1>4, <1>10 DEF QueueInv

LEMMA JobDueStep ==
  ASSUME QueueInv, NEW j \in Jobs, JobDue(j)
  PROVE  QueueInv'
  <1>1. /\ UNCHANGED <<note, delivered, runner, faults>>
        /\ job' = [job EXCEPT ![j].due = TRUE]
    BY DEF JobDue
  <1>2. RowsOK /\ JobsOK /\ NotesOK /\ More
    BY <1>1, MoreOrSame DEF QueueInv, RowsOK
  <1>3. RowsOK'
    BY <1>1, <1>2 DEF RowsOK, QueueTypeOK, JobRows
  <1>4. NotesOK'
    BY <1>1, <1>2, NotesSame DEF ReadsOn
  <1>5. \A k \in Jobs : /\ job'[k].status = job[k].status /\ job'[k].attempts = job[k].attempts
                        /\ job'[k].stale = job[k].stale
    BY <1>1, <1>2, Fields DEF JobRows
  <1>6. \A s \in Runners, k \in Jobs : Holds(s, k)' <=> Holds(s, k)
    BY <1>1 DEF Holds
  <1>7. \A k \in Jobs : TriesPaid(k)'
    <2> TAKE k \in Jobs
    <2>1. Early(k)' = Early(k) /\ (Returns(k)' => Returns(k))
      BY <1>1, <1>5, <1>6 DEF Early, Reading, Returns
    <2> QED
      BY <1>2, <1>5, <2>1, TriesKept, Fields DEF JobsOK
  <1>8. HoldersLease'
    BY <1>1, <1>2, <1>5, <1>6 DEF JobsOK, HoldersLease
  <1>9. \A s \in Runners : JobsReadBefore(s)'
    BY <1>1, <1>2, <1>5, RowsRead DEF JobsOK, JobsReadBefore
  <1>10. JobsOK'
    BY <1>2, <1>5, <1>7, <1>8, <1>9 DEF JobsOK
  <1> QED
    BY <1>3, <1>4, <1>10 DEF QueueInv

LEMMA EnqueueNoteStep ==
  ASSUME QueueInv, NEW n \in Notes, NEW s \in {"PENDING", "SUPPRESSED"}, EnqueueNote(n, s)
  PROVE  QueueInv'
  <1>1. /\ UNCHANGED <<job, delivered, runner, faults>> /\ note[n].state = "NONE"
        /\ note' = [note EXCEPT ![n].state = s, ![n].due = TRUE]
    BY DEF EnqueueNote
  <1>2. RowsOK /\ JobsOK /\ NotesOK /\ More
    BY <1>1, MoreOrSame DEF QueueInv, RowsOK
  <1>3. RowsOK'
    BY <1>1, <1>2 DEF RowsOK, QueueTypeOK, NoteRows
  <1>4. JobsOK'
    BY <1>1, <1>2, JobsSame
  <1>5. /\ note'[n].state = s /\ note'[n].attempts = note[n].attempts
        /\ \A m \in Notes : m # n => note'[m] = note[m]
    BY <1>1, <1>2, Fields DEF NoteRows
  <1>6. \A r \in Runners, m \in Notes : Sends(r, m)' <=> Sends(r, m)
    BY <1>1 DEF Sends
  <1>7. \A m \in Notes : CopiesPaid(m)'
    <2> TAKE m \in Notes
    <2>1. InHand(m)' = InHand(m)
      BY <1>1, <1>6 DEF InHand
    <2>2. CASE m = n
      <3>1. delivered'[n] = 0 /\ InHand(n)' = {}
        BY <1>1, <1>2, <2>1, <2>2 DEF NotesOK, InHand
      <3>2. Copies(n)' <= 1
        BY <3>1, FS_EmptySet DEF Copies
      <3>3. AllFaults \in Nat /\ AllFaults' = AllFaults /\ Copies(n)' \in Int
        BY <1>1, <1>2, <3>1, Fields, FS_EmptySet DEF AllFaults, Copies
      <3> QED
        BY <2>2, <3>2, <3>3 DEF CopiesPaid
    <2>3. CASE m # n
      <3>1. Claimable(m)' => Claimable(m)
        BY <1>5, <1>6, <2>3 DEF Claimable
      <3> QED
        BY <1>1, <1>2, <2>1, <3>1, CopiesKept, Fields DEF NotesOK
    <2> QED
      BY <2>2, <2>3
  <1>8. \A r \in Runners : NotesReadBefore(r)'
    <2>1. UNCHANGED runner /\ \A m \in Notes : note'[m].attempts = note[m].attempts
      BY <1>1, <1>5
    <2> QED
      BY <1>2, <2>1, RowsRead DEF NotesOK, NotesReadBefore
  <1>9. NotesOK'
    BY <1>1, <1>2, <1>5, <1>6, <1>7, <1>8 DEF NotesOK
  <1> QED
    BY <1>3, <1>4, <1>9 DEF QueueInv

LEMMA NoteDueStep ==
  ASSUME QueueInv, NEW n \in Notes, NoteDue(n)
  PROVE  QueueInv'
  <1>1. /\ UNCHANGED <<job, delivered, runner>> /\ note[n].state = "PENDING"
        /\ note' = [note EXCEPT ![n].due = TRUE]
        /\ IF \E r \in Runners : Sends(r, n) THEN Fault("overrun") ELSE UNCHANGED faults
    BY DEF NoteDue
  <1>2. RowsOK /\ JobsOK /\ NotesOK /\ More
        /\ ((\E r \in Runners : Sends(r, n)) => AllFaults < AllFaults')
    <2>1. QueueTypeOK
      BY DEF QueueInv, RowsOK
    <2>2. More /\ ((\E r \in Runners : Sends(r, n)) => AllFaults' = AllFaults + 1)
      BY <1>1, <2>1, MoreOrSame DEF FaultKinds
    <2> QED
      BY <2>1, <2>2, Fields DEF QueueInv
  <1>3. RowsOK'
    BY <1>1, <1>2 DEF RowsOK, QueueTypeOK, NoteRows, More
  <1>4. JobsOK'
    BY <1>1, <1>2, JobsSame
  <1>5. /\ note'[n].state = note[n].state /\ note'[n].attempts = note[n].attempts
        /\ \A m \in Notes : m # n => note'[m] = note[m]
    BY <1>1, <1>2, Fields DEF NoteRows
  <1>6. \A r \in Runners, m \in Notes : Sends(r, m)' <=> Sends(r, m)
    BY <1>1 DEF Sends
  <1>7. \A m \in Notes : CopiesPaid(m)'
    <2> TAKE m \in Notes
    <2>1. InHand(m)' = InHand(m)
      BY <1>1, <1>6 DEF InHand
    <2>2. (Claimable(m)' => Claimable(m)) \/ AllFaults < AllFaults'
      BY <1>1, <1>2, <1>5, <1>6 DEF Claimable
    <2> QED
      BY <1>1, <1>2, <2>1, <2>2, CopiesKept, Fields DEF NotesOK
  <1>8. \A r \in Runners : NotesReadBefore(r)'
    BY <1>1, <1>2, <1>5, RowsRead DEF NotesOK, NotesReadBefore
  <1>9. NotesOK'
    BY <1>1, <1>2, <1>5, <1>6, <1>7, <1>8 DEF NotesOK
  <1> QED
    BY <1>3, <1>4, <1>9 DEF QueueInv

-----------------------------------------------------------------------------
(* A run: the candidates and the messages.                                 *)

LEMMA RecoverStep ==
  ASSUME QueueInv, NEW r \in Runners, Recover(r)
  PROVE  QueueInv'
  <1>1. /\ UNCHANGED <<note, delivered, faults>> /\ runner[r].at = "idle"
        /\ job' = [j \in Jobs |->
                     IF job[j].status = "RUNNING" /\ job[j].stale
                     THEN [job[j] EXCEPT !.status = "PENDING", !.stale = FALSE] ELSE job[j]]
        /\ runner' = [runner EXCEPT ![r].at = "select"]
    BY DEF Recover
  <1>2. RowsOK /\ JobsOK /\ NotesOK /\ More
    BY <1>1, MoreOrSame DEF QueueInv, RowsOK
  <1>3. PICK row : row = Row("select", runner[r].jobs, runner[r].job, runner[r].notes, runner[r].note)
    OBVIOUS
  <1>4. Moves(r, row)
    BY <1>1, <1>2, <1>3 DEF Row, Moves, RowsOK, QueueTypeOK, RunnerRows
  <1>5. RowOK(row)
    BY <1>1, <1>2, <1>3, Rows DEF Row, RowOK, RunnerRows, Points
  <1>6. /\ row.notes = runner[r].notes /\ row.note = runner[r].note /\ row.note = Nothing
        /\ row.jobs = runner[r].jobs /\ row.job = runner[r].job
    BY <1>1, <1>2, <1>3, Rows DEF Row, RowOK
  <1>7. RowsOK'
    <2>1. job' \in [Jobs -> JobRows]
      BY <1>1, <1>2, Fields DEF JobRows
    <2> QED
      BY <1>1, <1>2, <1>4, <1>5, <2>1, MoveKeepsRows, Fields
  <1>8. NotesOK'
    BY <1>1, <1>2, <1>4, <1>6, MoveKeepsNotes DEF ReadsOn
  <1>9. \A j \in Jobs : /\ job'[j].attempts = job[j].attempts
                        /\ \/ job'[j] = job[j]
                           \/ /\ job[j].status = "RUNNING" /\ job[j].stale
                              /\ job'[j].status = "PENDING"
    BY <1>1, <1>2, Fields DEF JobRows
  <1>10. \A s \in Runners : runner'[s].jobs = runner[s].jobs /\ runner'[s].job = runner[s].job
    BY <1>4, <1>6 DEF Moves
  <1>11. \A s \in Runners, k \in Jobs : Holds(s, k)' <=> Holds(s, k)
    BY <1>10 DEF Holds
  <1>12. \A k \in Jobs : TriesPaid(k)'
    <2> TAKE k \in Jobs
    <2>1. Early(k)' = Early(k)
      BY <1>10 DEF Early, Reading
    <2>2. Returns(k)' => Returns(k)
      BY <1>9, <1>11 DEF Returns
    <2> QED
      BY <1>2, <1>9, <2>1, <2>2, TriesKept, Fields DEF JobsOK
  <1>13. HoldersLease'
    BY <1>1, <1>2, <1>9, <1>11 DEF JobsOK, HoldersLease
  <1>14. \A s \in Runners : JobsReadBefore(s)'
    BY <1>2, <1>9, <1>10, RowsRead DEF JobsOK, JobsReadBefore
  <1>15. JobsOK'
    BY <1>2, <1>9, <1>12, <1>13, <1>14 DEF JobsOK
  <1> QED
    BY <1>7, <1>8, <1>15 DEF QueueInv

LEMMA SelectStep ==
  ASSUME QueueInv, NEW r \in Runners, Select(r)
  PROVE  QueueInv'
  <1>1. PICK candidates :
          candidates = {[id |-> j, attempts |-> job[j].attempts] :
                          j \in {k \in Jobs : job[k].status = "PENDING" /\ job[k].due}}
    OBVIOUS
  <1>2. /\ UNCHANGED <<job, note, delivered, faults>> /\ runner[r].at = "select"
        /\ runner' = [runner EXCEPT ![r].at = "deliver", ![r].jobs = candidates]
    BY <1>1 DEF Select
  <1>3. RowsOK /\ JobsOK /\ NotesOK /\ More
    BY <1>2, MoreOrSame DEF QueueInv, RowsOK
  <1>c. /\ candidates \subseteq JobReads
        /\ \A x, y \in candidates : x.id = y.id => x = y
        /\ \A x \in candidates : job[x.id].status = "PENDING" /\ x.attempts = job[x.id].attempts
    BY <1>1, <1>3, Fields DEF JobReads
  <1>4. PICK row : row = Row("deliver", candidates, runner[r].job, runner[r].notes, runner[r].note)
    OBVIOUS
  <1>5. Moves(r, row)
    BY <1>2, <1>3, <1>4 DEF Row, Moves, RowsOK, QueueTypeOK, RunnerRows
  <1>6. /\ row.notes = runner[r].notes /\ row.note = runner[r].note /\ row.note = Nothing
        /\ row.jobs = candidates /\ row.job = runner[r].job /\ row.job = Nothing
    BY <1>2, <1>3, <1>4, Rows DEF Row, RowOK
  <1>7. RowOK(row)
    BY <1>2, <1>3, <1>4, <1>c, <1>6, Rows DEF Row, RowOK, RunnerRows, Points
  <1>8. RowsOK' /\ NotesOK'
    BY <1>2, <1>3, <1>5, <1>6, <1>7, MoveKeepsRows, MoveKeepsNotes, Fields DEF ReadsOn
  <1>9. /\ \A s \in Runners : runner'[s].job = runner[s].job
        /\ \A s \in Runners : s # r => runner'[s].jobs = runner[s].jobs
        /\ runner'[r].jobs = candidates /\ runner'[r].job = Nothing
    BY <1>5, <1>6 DEF Moves
  <1>10. \A s \in Runners, k \in Jobs : Holds(s, k)' <=> Holds(s, k)
    BY <1>9 DEF Holds
  <1>11. ASSUME NEW k \in Jobs PROVE TriesPaid(k)'
    <2>1. Returns(k)' <=> Returns(k)
      BY <1>2, <1>10 DEF Returns
    <2>2. Early(k)' \subseteq Early(k) \cup {r}
      BY <1>9 DEF Early, Reading
    <2>3. CASE r \in Early(k)'
      \* The runner read a pending job of few attempts.
      <3>1. PICK x \in candidates : x.id = k /\ JobRetries(x.attempts)
        BY <1>9, <2>3 DEF Early, Reading
      <3>2. PICK a \in Nat : a = job[k].attempts
        BY <1>3, Fields
      <3>3. a + 1 < MaxAttempts
        BY <1>c, <3>1, <3>2 DEF JobRetries
      <3>4. Cardinality(Early(k)') \in Nat /\ Cardinality(Early(k)') <= Cardinality(Runners)
        BY RunnerSets DEF Early
      <3>5. Tries(k)' = a + Cardinality(Early(k)') + (IF Returns(k)' THEN 1 ELSE 0)
        BY <1>2, <3>2 DEF Tries
      <3>6. AllFaults' \in Nat /\ MaxAttempts \in Nat /\ Cardinality(Runners) \in Nat
        BY <1>3, LimitsAssumption, RunnerSets DEF More
      <3>7. Tries(k)' < MaxAttempts + AllFaults' + Cardinality(Runners)
        BY <3>2, <3>3, <3>4, <3>5, <3>6
      <3> QED
        BY <3>7 DEF TriesPaid
    <2>4. CASE r \notin Early(k)'
      BY <1>2, <1>3, <2>1, <2>2, <2>4, TriesKept, Fields DEF JobsOK
    <2> QED
      BY <2>3, <2>4
  <1>12. HoldersLease'
    BY <1>2, <1>3, <1>10 DEF JobsOK, HoldersLease
  <1>13. ASSUME NEW s \in Runners PROVE JobsReadBefore(s)'
    <2>1. CASE s = r
      <3>1. \A x \in candidates : x.id \in Jobs /\ x.attempts \in Nat
        BY <1>c DEF JobReads
      <3> QED
        BY <1>2, <1>9, <1>c, <2>1, <3>1 DEF JobsReadBefore
    <2>2. CASE s # r
      BY <1>2, <1>3, <1>9, <2>2 DEF JobsOK, JobsReadBefore
    <2> QED
      BY <2>1, <2>2
  <1>14. JobsOK'
    BY <1>2, <1>3, <1>11, <1>12, <1>13 DEF JobsOK
  <1> QED
    BY <1>8, <1>14 DEF QueueInv

LEMMA SelectNotesStep ==
  ASSUME QueueInv, NEW r \in Runners, SelectNotes(r)
  PROVE  QueueInv'
  <1>1. PICK pending :
          pending = {[id |-> n, attempts |-> note[n].attempts] :
                       n \in {k \in Notes : note[k].state = "PENDING" /\ note[k].due}}
    OBVIOUS
  <1>2. /\ UNCHANGED <<job, note, delivered, faults>> /\ runner[r].at = "deliver"
        /\ runner' = [runner EXCEPT ![r].at = "notes", ![r].notes = pending]
    BY <1>1 DEF SelectNotes
  <1>3. RowsOK /\ JobsOK /\ NotesOK /\ More
    BY <1>2, MoreOrSame DEF QueueInv, RowsOK
  <1>c. /\ pending \subseteq NoteReads
        /\ \A x \in pending : x.attempts <= note[x.id].attempts
    BY <1>1, <1>3, Fields DEF NoteReads
  <1>4. PICK row : row = Row("notes", runner[r].jobs, runner[r].job, pending, runner[r].note)
    OBVIOUS
  <1>5. Moves(r, row)
    BY <1>2, <1>3, <1>4 DEF Row, Moves, RowsOK, QueueTypeOK, RunnerRows
  <1>6. /\ row.notes = pending /\ row.note = runner[r].note /\ row.note = Nothing
        /\ row.jobs = runner[r].jobs /\ row.job = runner[r].job
    BY <1>2, <1>3, <1>4, Rows DEF Row, RowOK
  <1>7. RowOK(row)
    BY <1>2, <1>3, <1>4, <1>c, Rows DEF Row, RowOK, RunnerRows, Points
  <1>8. RowsOK'
    BY <1>2, <1>3, <1>5, <1>7, MoveKeepsRows, Fields
  <1>9. JobsOK' /\ NotesOK'
    BY <1>2, <1>3, <1>c, <1>5, <1>6, MoveKeepsJobs, MoveKeepsNotes DEF ReadsOn
  <1> QED
    BY <1>8, <1>9 DEF QueueInv

\* A message is claimed, or somebody else has claimed it.
LEMMA ClaimNoteStep ==
  ASSUME QueueInv, NEW r \in Runners, NEW read \in runner[r].notes, ClaimNote(r, read)
  PROVE  QueueInv'
  <1>1. /\ UNCHANGED <<job, delivered, faults>> /\ runner[r].at = "notes"
        /\ IF note[read.id].state = "PENDING" /\ note[read.id].due
           THEN /\ note' = [note EXCEPT ![read.id].due = FALSE, ![read.id].attempts = @ + 1]
                /\ runner' = [runner EXCEPT ![r].at = "send", ![r].note = read,
                                            ![r].notes = @ \ {read}]
           ELSE /\ runner' = [runner EXCEPT ![r].notes = @ \ {read}]
                /\ UNCHANGED note
    BY DEF ClaimNote
  <1>2. RowsOK /\ JobsOK /\ NotesOK /\ More /\ runner[r].note = Nothing
    BY <1>1, MoreOrSame DEF QueueInv, RowsOK, RowOK
  <1>3. read \in NoteReads /\ read.id \in Notes /\ read.attempts \in Nat /\ read # Nothing
    BY <1>2, Rows, RowsRead, NothingAssumption
  <1>4. CASE note[read.id].state = "PENDING" /\ note[read.id].due
    <2>1. PICK n \in Notes : n = read.id
      BY <1>3
    <2>2. PICK row : row = Row("send", runner[r].jobs, runner[r].job, runner[r].notes \ {read}, read)
      OBVIOUS
    <2>3. Moves(r, row)
      <3>1. runner' = [runner EXCEPT ![r].at = "send", ![r].note = read,
                                     ![r].notes = runner[r].notes \ {read}]
        BY <1>1, <1>4
      <3> QED
        BY <1>2, <2>2, <3>1 DEF Row, Moves, RowsOK, QueueTypeOK, RunnerRows
    <2>4. RowOK(row)
      <3>1. RowOK(runner[r]) /\ runner[r].at = "notes"
        BY <1>1, <1>2 DEF RowsOK
      <3>2. runner[r].notes \ {read} \in SUBSET NoteReads
        BY <1>2, Rows
      <3> QED
        BY <1>2, <1>3, <2>2, <3>1, <3>2, Rows DEF Row, RowOK, RunnerRows, Points
    <2>5. /\ row.jobs = runner[r].jobs /\ row.job = runner[r].job /\ row.note = read
          /\ row.at = "send" /\ row.notes \subseteq runner[r].notes
      BY <2>2 DEF Row
    <2>6. /\ note'[n].state = "PENDING" /\ note'[n].due = FALSE
          /\ note'[n].attempts = note[n].attempts + 1
          /\ \A m \in Notes : m # n => note'[m] = note[m]
      BY <1>1, <1>2, <1>4, <2>1, Fields DEF NoteRows
    <2>7. RowsOK'
      <3>1. note' \in [Notes -> NoteRows]
        BY <1>1, <1>2, <1>4, <2>1, Fields DEF NoteRows
      <3> QED
        BY <1>1, <1>2, <2>3, <2>4, <3>1, MoveKeepsRows, Fields
    <2>8. JobsOK'
      BY <1>1, <1>2, <2>3, <2>5, MoveKeepsJobs
    <2>9. \A s \in Runners, m \in Notes : Sends(s, m)' <=> Sends(s, m) \/ (s = r /\ m = n)
      BY <1>2, <1>3, <2>1, <2>3, <2>5 DEF Sends, Moves
    <2>10. ASSUME NEW m \in Notes PROVE CopiesPaid(m)'
      <3>1. CASE m = n
        <4>1. r \notin InHand(n) /\ InHand(n) \subseteq Runners
          BY <1>2 DEF InHand, Sends
        <4>2. InHand(n)' = InHand(n) \cup {r}
          BY <2>3, <2>5, <2>9 DEF InHand, Moves
        <4>3. Cardinality(InHand(n)') = Cardinality(InHand(n)) + 1 /\ Cardinality(InHand(n)) \in Nat
          BY <4>1, <4>2, RunnerSets
        <4>4. Claimable(n) /\ ~Claimable(n)'
          BY <1>4, <2>1, <2>6, <2>9 DEF Claimable
        <4>5. Copies(n)' = Copies(n)
          BY <1>1, <1>2, <4>3, <4>4, Fields DEF Copies
        <4>6. AllFaults' = AllFaults /\ CopiesPaid(n)
          BY <1>1, <1>2 DEF AllFaults, NotesOK
        <4> QED
          BY <3>1, <4>5, <4>6 DEF CopiesPaid
      <3>2. CASE m # n
        <4>1. InHand(m)' \subseteq InHand(m)
          <5>1. \A s \in Runners : Sends(s, m)' => Sends(s, m) /\ s # r
            BY <1>2, <2>9, <3>2 DEF Sends
          <5> QED
            BY <2>3, <5>1 DEF InHand, Moves
        <4>2. Claimable(m)' => Claimable(m)
          BY <2>6, <2>9, <3>2 DEF Claimable
        <4> QED
          BY <1>1, <1>2, <4>1, <4>2, CopiesKept, Fields DEF NotesOK
      <3> QED
        BY <3>1, <3>2
    <2>11. ASSUME NEW s \in Runners PROVE NotesReadBefore(s)'
      <3>1. \A m \in Notes : note[m].attempts \in Nat /\ note'[m].attempts \in Nat
                             /\ note[m].attempts <= note'[m].attempts
        BY <1>2, <2>6, Fields
      <3>2. NotesReadBefore(s) /\ NotesReadBefore(r)
        BY <1>2 DEF NotesOK
      <3>3. \A x \in runner[s].notes : x.attempts <= note'[x.id].attempts
        BY <1>2, <3>1, <3>2, RowsRead DEF NotesReadBefore
      <3>4. runner[s].note # Nothing => runner[s].note.attempts < note'[runner[s].note.id].attempts
        BY <1>2, <3>1, <3>2, RowsRead DEF NotesReadBefore
      <3>5. read.attempts < note'[n].attempts
        BY <1>2, <1>3, <2>1, <2>6, <3>1, <3>2 DEF NotesReadBefore
      <3>6. CASE s = r
        BY <2>1, <2>3, <2>5, <3>3, <3>5, <3>6 DEF NotesReadBefore, Moves
      <3>7. CASE s # r
        BY <2>3, <3>3, <3>4, <3>7 DEF NotesReadBefore, Moves
      <3> QED
        BY <3>6, <3>7
    <2>12. \A m \in Notes : note'[m].state = "NONE" =>
             delivered'[m] = 0 /\ \A s \in Runners : ~Sends(s, m)'
      BY <1>1, <1>2, <2>6, <2>9 DEF NotesOK
    <2>13. \A m \in Notes : note'[m].state = "FAILED" => note'[m].attempts >= MaxAttempts
      BY <1>2, <2>6 DEF NotesOK
    <2>14. NotesOK'
      BY <2>10, <2>11, <2>12, <2>13 DEF NotesOK
    <2> QED
      BY <2>7, <2>8, <2>14 DEF QueueInv
  <1>5. CASE ~(note[read.id].state = "PENDING" /\ note[read.id].due)
    <2>1. PICK row : row = Row("notes", runner[r].jobs, runner[r].job,
                               runner[r].notes \ {read}, runner[r].note)
      OBVIOUS
    <2>2. Moves(r, row)
      <3>1. PICK rest : rest = runner[r].notes \ {read}
        OBVIOUS
      <3>2. runner' = [runner EXCEPT ![r].notes = rest] /\ runner[r].at = "notes"
        BY <1>1, <1>5, <3>1
      <3>3. runner \in [Runners -> RunnerRows]
        BY <1>2 DEF RowsOK, QueueTypeOK
      <3>4. row = Row("notes", runner[r].jobs, runner[r].job, rest, runner[r].note)
        BY <2>1, <3>1
      <3> QED
        BY <3>2, <3>3, <3>4 DEF Row, Moves, RunnerRows
    <2>3. RowOK(row)
      <3>1. RowOK(runner[r]) /\ runner[r].at = "notes"
        BY <1>1, <1>2 DEF RowsOK
      <3> QED
        BY <1>2, <2>1, <3>1, Rows DEF Row, RowOK, RunnerRows, Points
    <2>4. /\ row.jobs = runner[r].jobs /\ row.job = runner[r].job /\ row.note = runner[r].note
          /\ row.notes \subseteq runner[r].notes /\ row.note = Nothing
      BY <1>2, <2>1 DEF Row
    <2>5. RowsOK'
      BY <1>1, <1>2, <1>5, <2>2, <2>3, MoveKeepsRows, Fields
    <2>6. JobsOK' /\ NotesOK'
      BY <1>1, <1>2, <1>5, <2>2, <2>4, MoveKeepsJobs, MoveKeepsNotes DEF ReadsOn
    <2> QED
      BY <2>5, <2>6 DEF QueueInv
  <1> QED
    BY <1>4, <1>5

\* A delivery: one copy in hand becomes one that arrived, or stays in hand.
LEMMA SendStep ==
  ASSUME QueueInv, NEW r \in Runners, Send(r)
  PROVE  QueueInv'
  <1>1. /\ UNCHANGED <<job, note>> /\ runner[r].at = "send"
        /\ \/ /\ delivered' = [delivered EXCEPT ![runner[r].note.id] = @ + 1]
              /\ \/ runner' = [runner EXCEPT ![r].at = "sent"] /\ UNCHANGED faults
                 \/ runner' = [runner EXCEPT ![r].at = "unsent"] /\ Fault("failure")
           \/ runner' = [runner EXCEPT ![r].at = "unsent"] /\ UNCHANGED <<delivered, faults>>
    BY DEF Send
  <1>2. RowsOK /\ JobsOK /\ NotesOK /\ QueueTypeOK /\ runner[r].note # Nothing
    BY <1>1 DEF QueueInv, RowsOK, RowOK
  <1>3. More
    BY <1>1, <1>2, MoreOrSame DEF FaultKinds
  <1>4. PICK n \in Notes : n = runner[r].note.id
    BY <1>2, RowsRead
  <1>5. PICK p \in {"sent", "unsent"} : runner' = [runner EXCEPT ![r].at = p]
    BY <1>1
  <1>6. PICK row : row = Row(p, runner[r].jobs, runner[r].job, runner[r].notes, runner[r].note)
    OBVIOUS
  <1>7. Moves(r, row)
    BY <1>2, <1>5, <1>6 DEF Row, Moves, QueueTypeOK, RunnerRows
  <1>8. RowOK(row)
    BY <1>1, <1>2, <1>6, Rows DEF Row, RowOK, RunnerRows, Points
  <1>9. /\ row.jobs = runner[r].jobs /\ row.job = runner[r].job /\ row.note = runner[r].note
        /\ row.notes = runner[r].notes /\ row.at = p
    BY <1>6 DEF Row
  <1>10. RowsOK'
    <2>1. delivered' \in [Notes -> Nat] /\ faults' \in [FaultKinds -> Nat]
      BY <1>1, <1>2, <1>3, <1>4, Fields DEF More
    <2> QED
      BY <1>1, <1>2, <1>7, <1>8, <2>1, MoveKeepsRows, Fields
  <1>11. JobsOK'
    BY <1>1, <1>2, <1>3, <1>7, <1>9, MoveKeepsJobs
  <1>12. \A s \in Runners, m \in Notes : Sends(s, m)' <=> Sends(s, m)
    BY <1>7, <1>9 DEF Sends, Moves
  <1>13. ASSUME NEW m \in Notes PROVE CopiesPaid(m)'
    <2>1. Claimable(m)' <=> Claimable(m)
      BY <1>1, <1>12 DEF Claimable
    <2>2. InHand(m)' \subseteq InHand(m)
      BY <1>1, <1>7, <1>12 DEF InHand, Moves
    <2>3. CASE delivered'[m] = delivered[m]
      BY <1>2, <1>3, <2>1, <2>2, <2>3, CopiesKept, Fields DEF NotesOK
    <2>4. CASE delivered'[m] # delivered[m]
      <3>1. m = n /\ delivered'[n] = delivered[n] + 1
        BY <1>1, <1>2, <1>4, <2>4, Fields
      <3>2. r \in InHand(n) /\ InHand(n) \subseteq Runners
        BY <1>1, <1>2, <1>4 DEF InHand, Sends
      <3>3. PICK e \in Nat, f \in Nat : e = AllFaults /\ f = AllFaults'
        BY <1>3 DEF More
      <3>4. PICK c \in Nat : c = Cardinality(InHand(n))
        BY <3>2, RunnerSets
      <3>5. /\ Copies(n) = delivered[n] + c + (IF Claimable(n) THEN 1 ELSE 0)
            /\ Copies(n)' = delivered[n] + 1 + Cardinality(InHand(n)') + (IF Claimable(n) THEN 1 ELSE 0)
            /\ Copies(n) <= 1 + e
        BY <1>2, <2>1, <3>1, <3>3, <3>4 DEF Copies, NotesOK, CopiesPaid
      <3>6. CASE p = "sent"
        <4>1. InHand(n)' = InHand(n) \ {r}
          BY <1>7, <1>9, <1>12, <3>6 DEF InHand, Moves
        <4>2. Cardinality(InHand(n)') = c - 1
          BY <3>2, <3>4, <4>1, RunnerSets
        <4>3. e <= f
          BY <1>3, <3>3 DEF More
        <4>4. Copies(n)' <= 1 + f
          BY <1>2, <3>5, <4>2, <4>3, Fields
        <4> QED
          BY <3>1, <3>3, <4>4 DEF CopiesPaid
      <3>7. CASE p = "unsent"
        <4>1. Fault("failure")
          <5>1. runner'[r].at = "unsent"
            BY <1>7, <1>9, <3>7 DEF Moves
          <5>2. runner' # [runner EXCEPT ![r].at = "sent"]
            BY <1>2, <5>1 DEF QueueTypeOK, RunnerRows
          <5> QED
            BY <1>1, <2>4, <5>2
        <4>2. f = e + 1
          BY <1>2, <3>3, <4>1, MoreOrSame DEF FaultKinds
        <4>3. Cardinality(InHand(n)') <= c /\ Cardinality(InHand(n)') \in Nat
          BY <2>2, <3>1, <3>2, <3>4, RunnerSets
        <4>4. Copies(n)' <= 1 + f
          BY <1>2, <3>5, <4>2, <4>3, Fields
        <4> QED
          BY <3>1, <3>3, <4>4 DEF CopiesPaid
      <3> QED
        BY <3>6, <3>7
    <2> QED
      BY <2>3, <2>4
  <1>14. \A s \in Runners : NotesReadBefore(s)'
    BY <1>1, <1>2, <1>7, <1>9 DEF NotesOK, NotesReadBefore, Moves
  <1>15. \A m \in Notes : note'[m].state = "NONE" =>
           delivered'[m] = 0 /\ \A s \in Runners : ~Sends(s, m)'
    <2> SUFFICES ASSUME NEW m \in Notes, note[m].state = "NONE"
                 PROVE  delivered'[m] = 0 /\ \A s \in Runners : ~Sends(s, m)'
      BY <1>1
    <2>1. delivered[m] = 0 /\ (\A s \in Runners : ~Sends(s, m)) /\ m # n
      BY <1>2, <1>4 DEF NotesOK, Sends
    <2> QED
      BY <1>1, <1>2, <1>4, <1>12, <2>1, Fields
  <1>16. NotesOK'
    BY <1>1, <1>2, <1>13, <1>14, <1>15 DEF NotesOK
  <1> QED
    BY <1>10, <1>11, <1>16 DEF QueueInv

LEMMA MarkSentStep ==
  ASSUME QueueInv, NEW r \in Runners, MarkSent(r)
  PROVE  QueueInv'
  <1>1. /\ UNCHANGED <<job, delivered, faults>> /\ runner[r].at = "sent"
        /\ note' = [note EXCEPT ![runner[r].note.id].state = "SENT", ![runner[r].note.id].due = TRUE]
        /\ runner' = [runner EXCEPT ![r].at = "notes", ![r].note = Nothing]
    BY DEF MarkSent, NextNote
  <1>2. RowsOK /\ JobsOK /\ NotesOK /\ More /\ runner[r].note # Nothing
    BY <1>1, MoreOrSame DEF QueueInv, RowsOK, RowOK
  <1>3. PICK n \in Notes : n = runner[r].note.id
    BY <1>2, RowsRead
  <1>4. PICK row : row = Row("notes", runner[r].jobs, runner[r].job, runner[r].notes, Nothing)
    OBVIOUS
  <1>5. Moves(r, row)
    BY <1>1, <1>2, <1>4 DEF Row, Moves, RowsOK, QueueTypeOK, RunnerRows
  <1>6. RowOK(row)
    BY <1>1, <1>2, <1>4, Rows DEF Row, RowOK, RunnerRows, Points
  <1>7. /\ row.jobs = runner[r].jobs /\ row.job = runner[r].job /\ row.note = Nothing
        /\ row.notes = runner[r].notes
    BY <1>4 DEF Row
  <1>8. /\ note'[n].state = "SENT" /\ note'[n].attempts = note[n].attempts
        /\ \A m \in Notes : m # n => note'[m] = note[m] /\ ~Sends(r, m)
    BY <1>1, <1>2, <1>3, Fields DEF NoteRows, Sends
  <1>9. note' \in [Notes -> NoteRows]
    <2>1. note[n] \in NoteRows
      BY <1>2, Fields
    <2>2. PICK x \in NoteRows : x = [note[n] EXCEPT !.state = "SENT", !.due = TRUE]
      BY <2>1 DEF NoteRows
    <2>3. note' = [note EXCEPT ![n] = x]
      BY <1>1, <1>3, <2>2
    <2> QED
      BY <1>2, <2>3, Fields
  <1>10. RowsOK'
    BY <1>1, <1>2, <1>5, <1>6, <1>9, MoveKeepsRows, Fields
  <1>11. JobsOK'
    BY <1>1, <1>2, <1>5, <1>7, MoveKeepsJobs
  <1>12. NotesOK'
    <2>1. \A m \in Notes : /\ note'[m].attempts = note[m].attempts
                           /\ note'[m].state = "NONE" => note[m].state = "NONE"
                           /\ note'[m].state = "FAILED" => note[m].attempts >= MaxAttempts
                           /\ \/ note'[m] = note[m] /\ ~Sends(r, m)
                              \/ note'[m].state # "PENDING"
      BY <1>2, <1>8 DEF NotesOK
    <2> QED
      BY <1>1, <1>2, <1>5, <1>7, <2>1, DropsNote
  <1> QED
    BY <1>10, <1>11, <1>12 DEF QueueInv

\* The last attempt is counted on the reading; the row has had one more by then.
LEMMA MarkUnsentStep ==
  ASSUME QueueInv, NEW r \in Runners, MarkUnsent(r)
  PROVE  QueueInv'
  <1>1. PICK state \in {"FAILED", "PENDING"} :
          /\ state = "FAILED" => NoteLimit(runner[r].note.attempts)
          /\ note' = [note EXCEPT ![runner[r].note.id].state = state,
                                  ![runner[r].note.id].due = FALSE]
    BY DEF MarkUnsent
  <1>2. /\ UNCHANGED <<job, delivered, faults>> /\ runner[r].at = "unsent"
        /\ runner' = [runner EXCEPT ![r].at = "notes", ![r].note = Nothing]
    BY DEF MarkUnsent, NextNote
  <1>3. RowsOK /\ JobsOK /\ NotesOK /\ More /\ runner[r].note # Nothing
    BY <1>2, MoreOrSame DEF QueueInv, RowsOK, RowOK
  <1>4. PICK n \in Notes : n = runner[r].note.id
    BY <1>3, RowsRead
  <1>5. PICK row : row = Row("notes", runner[r].jobs, runner[r].job, runner[r].notes, Nothing)
    OBVIOUS
  <1>6. Moves(r, row)
    BY <1>2, <1>3, <1>5 DEF Row, Moves, RowsOK, QueueTypeOK, RunnerRows
  <1>7. RowOK(row)
    BY <1>2, <1>3, <1>5, Rows DEF Row, RowOK, RunnerRows, Points
  <1>8. /\ row.jobs = runner[r].jobs /\ row.job = runner[r].job /\ row.note = Nothing
        /\ row.notes = runner[r].notes
    BY <1>5 DEF Row
  <1>9. /\ note'[n].state = state /\ note'[n].attempts = note[n].attempts
        /\ \A m \in Notes : m # n => note'[m] = note[m] /\ ~Sends(r, m)
        /\ r \in InHand(n)
    BY <1>1, <1>2, <1>3, <1>4, Fields DEF NoteRows, Sends, InHand
  <1>10. state = "FAILED" => note[n].attempts >= MaxAttempts
    <2>1. runner[r].note.attempts < note[n].attempts
      BY <1>3, <1>4 DEF NotesOK, NotesReadBefore
    <2>2. runner[r].note.attempts \in Nat /\ note[n].attempts \in Nat /\ MaxAttempts \in Nat
      BY <1>3, RowsRead, Fields, LimitsAssumption
    <2>3. state = "FAILED" => NoteLimit(runner[r].note.attempts)
      BY <1>1
    <2> QED
      BY <2>1, <2>2, <2>3 DEF NoteLimit
  <1>11. note' \in [Notes -> NoteRows]
    <2>1. note[n] \in NoteRows
      BY <1>3, Fields
    <2>2. PICK x \in NoteRows : x = [note[n] EXCEPT !.state = state, !.due = FALSE]
      BY <2>1 DEF NoteRows
    <2>3. note' = [note EXCEPT ![n] = x]
      BY <1>1, <1>4, <2>2
    <2> QED
      BY <1>3, <2>3, Fields
  <1>12. RowsOK'
    BY <1>2, <1>3, <1>6, <1>7, <1>11, MoveKeepsRows, Fields
  <1>13. JobsOK'
    BY <1>2, <1>3, <1>6, <1>8, MoveKeepsJobs
  <1>14. NotesOK'
    <2>1. \A m \in Notes : /\ note'[m].attempts = note[m].attempts
                           /\ note'[m].state = "NONE" => note[m].state = "NONE"
                           /\ note'[m].state = "FAILED" => note[m].attempts >= MaxAttempts
                           /\ \/ note'[m] = note[m] /\ ~Sends(r, m)
                              \/ r \in InHand(m)
      BY <1>3, <1>9, <1>10 DEF NotesOK
    <2> QED
      BY <1>2, <1>3, <1>6, <1>8, <2>1, DropsNote
  <1> QED
    BY <1>12, <1>13, <1>14 DEF QueueInv

\* A runner goes on with what it holds.
LEMMA GoesOn ==
  ASSUME QueueInv, UNCHANGED <<job, note, delivered, faults>>, NEW r \in Runners, NEW p,
         runner[r].note = Nothing,
         runner' = [runner EXCEPT ![r].at = p],
         RowOK(Row(p, runner[r].jobs, runner[r].job, runner[r].notes, runner[r].note))
  PROVE  QueueInv'
  <1>1. RowsOK /\ JobsOK /\ NotesOK /\ More
    BY MoreOrSame DEF QueueInv, RowsOK
  <1>2. PICK row : row = Row(p, runner[r].jobs, runner[r].job, runner[r].notes, runner[r].note)
    OBVIOUS
  <1>3. Moves(r, row)
    BY <1>1, <1>2 DEF Row, Moves, RowsOK, QueueTypeOK, RunnerRows
  <1>4. /\ row.jobs = runner[r].jobs /\ row.job = runner[r].job /\ row.note = runner[r].note
        /\ row.notes = runner[r].notes
    BY <1>2 DEF Row
  <1>5. RowsOK'
    BY <1>1, <1>2, <1>3, MoveKeepsRows, Fields
  <1>6. JobsOK' /\ NotesOK'
    BY <1>1, <1>3, <1>4, MoveKeepsJobs, MoveKeepsNotes DEF ReadsOn
  <1> QED
    BY <1>5, <1>6 DEF QueueInv

LEMMA NotesDoneStep ==
  ASSUME QueueInv, NEW r \in Runners, NotesDone(r)
  PROVE  QueueInv'
  <1>1. PICK p : p = IF runner[r].job = Nothing THEN "jobs" ELSE "done"
    OBVIOUS
  <1>2. /\ runner[r].at = "notes" /\ UNCHANGED <<job, note, delivered, faults>>
        /\ runner' = [runner EXCEPT ![r].at = p]
    BY <1>1 DEF NotesDone
  <1>3. RowOK(runner[r]) /\ runner[r].note = Nothing
    BY <1>2 DEF QueueInv, RowsOK, RowOK
  <1>4. RowOK(Row(p, runner[r].jobs, runner[r].job, runner[r].notes, runner[r].note))
    BY <1>1, <1>2, <1>3 DEF Row, RowOK, RunnerRows, Points
  <1> QED
    BY <1>2, <1>3, <1>4, GoesOn

LEMMA WorkStep ==
  ASSUME QueueInv, NEW r \in Runners, Work(r)
  PROVE  QueueInv'
  <1>1. PICK p \in {"done", "failed", "deliver"} : runner' = [runner EXCEPT ![r].at = p]
    BY DEF Work
  <1>2. runner[r].at = "job" /\ UNCHANGED <<job, note, delivered, faults>>
    BY DEF Work
  <1>3. RowOK(runner[r]) /\ runner[r].note = Nothing
    BY <1>2 DEF QueueInv, RowsOK, RowOK
  <1>4. RowOK(Row(p, runner[r].jobs, runner[r].job, runner[r].notes, runner[r].note))
    BY <1>1, <1>2, <1>3 DEF Row, RowOK, RunnerRows, Points
  <1> QED
    BY <1>1, <1>2, <1>3, <1>4, GoesOn

LEMMA DeliveryFailsStep ==
  ASSUME QueueInv, NEW r \in Runners, DeliveryFails(r)
  PROVE  QueueInv'
  <1>1. PICK p : p = IF runner[r].job = Nothing THEN "jobs" ELSE "failed"
    OBVIOUS
  <1>2. /\ runner[r].at \in {"deliver", "notes", "unsent"} /\ Fault("failure")
        /\ UNCHANGED <<job, note, delivered>>
        /\ runner' = [runner EXCEPT ![r].at = p, ![r].note = Nothing, ![r].notes = {}]
    BY <1>1 DEF DeliveryFails
  <1>3. RowsOK /\ JobsOK /\ NotesOK /\ QueueTypeOK
    BY DEF QueueInv, RowsOK
  <1>4. More /\ AllFaults < AllFaults' /\ faults' \in [FaultKinds -> Nat]
    BY <1>2, <1>3, MoreOrSame, Fields DEF FaultKinds, More
  <1>5. PICK row : row = Row(p, runner[r].jobs, runner[r].job, {}, Nothing)
    OBVIOUS
  <1>6. Moves(r, row)
    <2>1. runner' = [runner EXCEPT ![r].at = p, ![r].note = Nothing, ![r].notes = {}]
      BY <1>2
    <2>2. runner \in [Runners -> RunnerRows]
      BY <1>3 DEF QueueTypeOK
    <2> QED
      BY <1>5, <2>1, <2>2 DEF Row, Moves, RunnerRows
  <1>7. RowOK(row)
    <2>1. RowOK(runner[r]) /\ runner[r].at \in {"deliver", "notes", "unsent"} /\ p \in Points
      BY <1>1, <1>2, <1>3 DEF RowsOK, Points
    <2> QED
      BY <1>1, <1>3, <1>5, <2>1, Rows DEF Row, RowOK, RunnerRows
  <1>8. /\ row.jobs = runner[r].jobs /\ row.job = runner[r].job /\ row.note = Nothing
        /\ row.notes = {}
    BY <1>5 DEF Row
  <1>9. RowsOK'
    BY <1>2, <1>3, <1>4, <1>6, <1>7, MoveKeepsRows, Fields
  <1>10. JobsOK'
    BY <1>2, <1>3, <1>4, <1>6, <1>8, MoveKeepsJobs
  <1>11. NotesOK'
    BY <1>2, <1>3, <1>4, <1>6, <1>8, DropsNote DEF NotesOK
  <1> QED
    BY <1>9, <1>10, <1>11 DEF QueueInv

-----------------------------------------------------------------------------
(* A run: the jobs.                                                        *)

\* A claim takes one attempt, for which the pending job had room.
LEMMA ClaimJobStep ==
  ASSUME QueueInv, NEW r \in Runners, NEW read \in runner[r].jobs, ClaimJob(r, read)
  PROVE  QueueInv'
  <1>1. /\ UNCHANGED <<note, delivered, faults>> /\ runner[r].at = "jobs"
        /\ IF job[read.id].status = "PENDING"
           THEN /\ job' = [job EXCEPT ![read.id].status = "RUNNING", ![read.id].attempts = @ + 1,
                                      ![read.id].stale = FALSE]
                /\ runner' = [runner EXCEPT ![r].at = "job", ![r].job = read,
                                            ![r].jobs = @ \ {read}]
           ELSE /\ runner' = [runner EXCEPT ![r].jobs = @ \ {read}]
                /\ UNCHANGED job
    BY DEF ClaimJob
  <1>2. RowsOK /\ JobsOK /\ NotesOK /\ More /\ runner[r].job = Nothing /\ runner[r].note = Nothing
        /\ RowOK(runner[r])
    BY <1>1, MoreOrSame DEF QueueInv, RowsOK, RowOK
  <1>3. read \in JobReads /\ read.id \in Jobs /\ read.attempts \in Nat /\ read # Nothing
    BY <1>2, Rows, RowsRead, NothingAssumption
  <1>4. CASE job[read.id].status = "PENDING"
    <2>1. PICK j \in Jobs : j = read.id
      BY <1>3
    <2>2. PICK row : row = Row("job", runner[r].jobs \ {read}, read, runner[r].notes, runner[r].note)
      OBVIOUS
    <2>3. Moves(r, row)
      BY <1>1, <1>2, <1>4, <2>2 DEF Row, Moves, RowsOK, QueueTypeOK, RunnerRows
    <2>4. RowOK(row)
      <3>1. \A x \in runner[r].jobs \ {read} : x.id # read.id
        BY <1>2 DEF RowOK
      <3> QED
        BY <1>1, <1>2, <1>3, <2>2, <3>1, Rows DEF Row, RowOK, RunnerRows, Points
    <2>5. /\ row.jobs = runner[r].jobs \ {read} /\ row.job = read /\ row.note = runner[r].note
          /\ row.notes = runner[r].notes /\ row.note = Nothing
      BY <1>2, <2>2 DEF Row
    <2>6. /\ job'[j].status = "RUNNING" /\ job'[j].stale = FALSE
          /\ job'[j].attempts = job[j].attempts + 1
          /\ \A k \in Jobs : k # j => job'[k] = job[k]
      BY <1>1, <1>2, <1>4, <2>1, Fields DEF JobRows
    <2>7. RowsOK'
      <3>1. job' \in [Jobs -> JobRows]
        BY <1>1, <1>2, <1>4, <2>1, Fields DEF JobRows
      <3> QED
        BY <1>1, <1>2, <2>3, <2>4, <3>1, MoveKeepsRows, Fields
    <2>8. NotesOK'
      BY <1>1, <1>2, <2>3, <2>5, MoveKeepsNotes DEF ReadsOn
    <2>9. \A s \in Runners, k \in Jobs : Holds(s, k)' <=> Holds(s, k) \/ (s = r /\ k = j)
      BY <1>2, <1>3, <2>1, <2>3, <2>5 DEF Holds, Moves
    <2>10. ASSUME NEW s \in Runners PROVE Reading(s)' = Reading(s)
      <3>1. CASE s = r
        BY <1>2, <1>3, <2>3, <2>5, <3>1 DEF Reading, Moves
      <3>2. CASE s # r
        BY <2>3, <3>2 DEF Reading, Moves
      <3> QED
        BY <3>1, <3>2
    <2>11. ASSUME NEW k \in Jobs PROVE TriesPaid(k)'
      <3>1. Early(k)' = Early(k) /\ Early(k) \subseteq Runners
        BY <2>10 DEF Early
      <3>2. CASE k = j
        <4>1. Returns(j) /\ ~Returns(j)'
          BY <1>4, <2>1, <2>6, <2>9 DEF Returns
        <4>2. PICK a \in Nat, c \in Nat, e \in Nat, n \in Nat :
                /\ a = job[j].attempts /\ c = Cardinality(Early(j)) /\ e = AllFaults
                /\ n = Cardinality(Runners) /\ c <= n
          BY <1>2, <3>1, <3>2, RunnerSets, Fields
        <4>3. Tries(j) = a + c + 1 /\ Tries(j)' = a + 1 + c
          BY <2>6, <3>1, <3>2, <4>1, <4>2 DEF Tries
        <4>4. AllFaults' = e /\ MaxAttempts \in Nat /\ MaxAttempts > 0
          BY <1>1, <4>2, LimitsAssumption DEF AllFaults
        <4>5. CASE a # 0
          <5>1. Tries(j) < MaxAttempts + e + n
            BY <1>2, <4>2, <4>5 DEF JobsOK, TriesPaid
          <5> QED
            BY <3>2, <4>2, <4>3, <4>4, <5>1 DEF TriesPaid
        <4>6. CASE a = 0 /\ c = 0
          <5>1. n > 0
            <6>1. {r} \in SUBSET Runners /\ IsFiniteSet({}) /\ Cardinality({}) = 0
              BY FS_EmptySet
            <6>2. Cardinality({}) < Cardinality({r}) /\ Cardinality({r}) <= n
                  /\ Cardinality({r}) \in Nat
              BY <4>2, <6>1, RunnerSets
            <6> QED
              BY <6>1, <6>2
          <5> QED
            BY <3>2, <4>2, <4>3, <4>4, <4>6, <5>1 DEF TriesPaid
        <4>7. CASE a = 0 /\ c # 0
          <5>1. PICK s \in Early(j) : TRUE
            BY <4>2, <4>7, FS_EmptySet
          <5>2. PICK x \in Reading(s) : JobRetries(x.attempts)
            BY <5>1 DEF Early
          <5>3. x.attempts \in Nat
            BY <1>2, <5>1, <5>2, RowsRead DEF Early
          <5>4. MaxAttempts > 1
            BY <4>4, <5>2, <5>3 DEF JobRetries
          <5> QED
            BY <3>2, <4>2, <4>3, <4>4, <4>7, <5>4 DEF TriesPaid
        <4> QED
          BY <4>2, <4>5, <4>6, <4>7
      <3>3. CASE k # j
        <4>1. Returns(k)' => Returns(k)
          BY <2>6, <2>9, <3>3 DEF Returns
        <4> QED
          BY <1>2, <2>6, <3>1, <3>3, <4>1, TriesKept, Fields DEF JobsOK
      <3> QED
        BY <3>2, <3>3
    <2>12. HoldersLease'
      BY <1>1, <1>2, <1>4, <2>1, <2>6, <2>9 DEF JobsOK, HoldersLease
    <2>13. ASSUME NEW s \in Runners PROVE JobsReadBefore(s)'
      <3>1. \A k \in Jobs : job[k].attempts \in Nat /\ job'[k].attempts \in Nat
                            /\ job[k].attempts <= job'[k].attempts
        BY <1>2, <2>6, Fields
      <3>2. JobsReadBefore(s) /\ JobsReadBefore(r)
        BY <1>2 DEF JobsOK
      <3>3. \A x \in runner[s].jobs : x.attempts <= job'[x.id].attempts
        BY <1>2, <3>1, <3>2, RowsRead DEF JobsReadBefore
      <3>4. runner[s].job # Nothing => runner[s].job.attempts < job'[runner[s].job.id].attempts
        BY <1>2, <3>1, <3>2, RowsRead DEF JobsReadBefore
      <3>5. read.attempts < job'[j].attempts
        BY <1>2, <1>3, <2>1, <2>6, <3>1, <3>2 DEF JobsReadBefore
      <3>6. CASE s = r
        BY <2>1, <2>3, <2>5, <3>3, <3>5, <3>6 DEF JobsReadBefore, Moves
      <3>7. CASE s # r
        BY <2>3, <3>3, <3>4, <3>7 DEF JobsReadBefore, Moves
      <3> QED
        BY <3>6, <3>7
    <2>14. \A k \in Jobs : /\ job'[k].status = "NONE" => job'[k].attempts = 0
                           /\ job'[k].status = "FAILED" => job'[k].attempts >= MaxAttempts
      BY <1>2, <2>6 DEF JobsOK
    <2>15. JobsOK'
      BY <2>11, <2>12, <2>13, <2>14 DEF JobsOK
    <2> QED
      BY <2>7, <2>8, <2>15 DEF QueueInv
  <1>5. CASE job[read.id].status # "PENDING"
    <2>1. PICK row : row = Row("jobs", runner[r].jobs \ {read}, runner[r].job,
                               runner[r].notes, runner[r].note)
      OBVIOUS
    <2>2. Moves(r, row)
      BY <1>1, <1>2, <1>5, <2>1 DEF Row, Moves, RowsOK, QueueTypeOK, RunnerRows
    <2>3. RowOK(row)
      BY <1>1, <1>2, <2>1, Rows DEF Row, RowOK, RunnerRows, Points
    <2>4. /\ row.jobs \subseteq runner[r].jobs /\ row.job = runner[r].job
          /\ row.note = runner[r].note /\ row.notes = runner[r].notes /\ row.note = Nothing
      BY <1>2, <2>1 DEF Row
    <2>5. RowsOK'
      BY <1>1, <1>2, <1>5, <2>2, <2>3, MoveKeepsRows, Fields
    <2>6. JobsOK' /\ NotesOK'
      BY <1>1, <1>2, <1>5, <2>2, <2>4, MoveKeepsJobs, MoveKeepsNotes DEF ReadsOn
    <2> QED
      BY <2>5, <2>6 DEF QueueInv
  <1> QED
    BY <1>4, <1>5

LEMMA FinishStep ==
  ASSUME QueueInv, NEW r \in Runners, Finish(r)
  PROVE  QueueInv'
  <1>1. /\ UNCHANGED <<note, delivered, faults>> /\ runner[r].at = "done"
        /\ job' = [job EXCEPT ![runner[r].job.id].status = "SUCCEEDED",
                              ![runner[r].job.id].stale = FALSE]
        /\ runner' = [runner EXCEPT ![r].at = "jobs", ![r].job = Nothing]
    BY DEF Finish, NextJob
  <1>2. RowsOK /\ JobsOK /\ NotesOK /\ More /\ runner[r].job # Nothing /\ runner[r].note = Nothing
    BY <1>1, MoreOrSame DEF QueueInv, RowsOK, RowOK
  <1>3. PICK j \in Jobs : j = runner[r].job.id
    BY <1>2, RowsRead
  <1>4. PICK row : row = Row("jobs", runner[r].jobs, Nothing, runner[r].notes, runner[r].note)
    OBVIOUS
  <1>5. Moves(r, row)
    BY <1>1, <1>2, <1>4 DEF Row, Moves, RowsOK, QueueTypeOK, RunnerRows
  <1>6. RowOK(row)
    BY <1>1, <1>2, <1>4, Rows DEF Row, RowOK, RunnerRows, Points
  <1>7. /\ row.jobs = runner[r].jobs /\ row.job = Nothing /\ row.note = runner[r].note
        /\ row.notes = runner[r].notes /\ row.note = Nothing
    BY <1>2, <1>4 DEF Row
  <1>8. /\ job'[j].status = "SUCCEEDED" /\ job'[j].attempts = job[j].attempts
        /\ \A k \in Jobs : k # j => job'[k] = job[k] /\ ~Holds(r, k)
        /\ Holds(r, j)
    BY <1>1, <1>2, <1>3, Fields DEF JobRows, Holds
  <1>9. job' \in [Jobs -> JobRows]
    <2>1. job[j] \in JobRows
      BY <1>2, Fields
    <2>2. PICK x \in JobRows : x = [job[j] EXCEPT !.status = "SUCCEEDED", !.stale = FALSE]
      BY <2>1 DEF JobRows, EndStates
    <2>3. job' = [job EXCEPT ![j] = x]
      BY <1>1, <1>3, <2>2
    <2> QED
      BY <1>2, <2>3, Fields
  <1>10. RowsOK'
    BY <1>1, <1>2, <1>5, <1>6, <1>9, MoveKeepsRows, Fields
  <1>11. NotesOK'
    BY <1>1, <1>2, <1>5, <1>7, MoveKeepsNotes DEF ReadsOn
  <1>12. JobsOK'
    <2>1. \A k \in Jobs : /\ job'[k].attempts = job[k].attempts
                          /\ job'[k].status = "NONE" => job[k].status = "NONE"
                          /\ job'[k].status = "FAILED" => job[k].attempts >= MaxAttempts
                          /\ ~Holds(r, k) => job'[k] = job[k]
                          /\ \/ ~Holds(r, k)
                             \/ job'[k].status \notin {"PENDING", "RUNNING"}
      BY <1>2, <1>8 DEF JobsOK
    <2> QED
      BY <1>2, <1>5, <1>7, <2>1, DropsJob
  <1> QED
    BY <1>10, <1>11, <1>12 DEF QueueInv

\* A runner that gives its job back read few attempts, and will not give it back again.
LEMMA FailStep ==
  ASSUME QueueInv, NEW r \in Runners, Fail(r)
  PROVE  QueueInv'
  <1>1. PICK status \in {"PENDING", "FAILED"}, due \in [Jobs -> BOOLEAN] :
          /\ status = "PENDING" <=> JobRetries(runner[r].job.attempts)
          /\ job' = [job EXCEPT ![runner[r].job.id].status = status,
                                ![runner[r].job.id].due = due[runner[r].job.id],
                                ![runner[r].job.id].stale = FALSE]
    <2>1. PICK retry \in BOOLEAN : retry <=> JobRetries(runner[r].job.attempts)
      OBVIOUS
    <2>2. PICK due \in [Jobs -> BOOLEAN] : due = [j \in Jobs |-> ~retry /\ job[j].due]
      BY <2>1
    <2>3. runner[r].job.id \in Jobs
      BY RowsRead DEF QueueInv, RowsOK, RowOK, Fail
    <2>4. job' = [job EXCEPT ![runner[r].job.id].status = IF retry THEN "PENDING" ELSE "FAILED",
                             ![runner[r].job.id].due = due[runner[r].job.id],
                             ![runner[r].job.id].stale = FALSE]
      BY <2>1, <2>2, <2>3 DEF Fail
    <2> QED
      BY <2>1, <2>2, <2>4
  <1>2. /\ UNCHANGED <<note, delivered, faults>> /\ runner[r].at = "failed"
        /\ runner' = [runner EXCEPT ![r].at = "jobs", ![r].job = Nothing]
    BY DEF Fail, NextJob
  <1>3. RowsOK /\ JobsOK /\ NotesOK /\ More /\ runner[r].job # Nothing /\ runner[r].note = Nothing
        /\ RowOK(runner[r])
    BY <1>2, MoreOrSame DEF QueueInv, RowsOK, RowOK
  <1>4. PICK j \in Jobs : j = runner[r].job.id
    BY <1>3, RowsRead
  <1>5. PICK row : row = Row("jobs", runner[r].jobs, Nothing, runner[r].notes, runner[r].note)
    OBVIOUS
  <1>6. Moves(r, row)
    BY <1>2, <1>3, <1>5 DEF Row, Moves, RowsOK, QueueTypeOK, RunnerRows
  <1>7. RowOK(row)
    BY <1>2, <1>3, <1>5, Rows DEF Row, RowOK, RunnerRows, Points
  <1>8. /\ row.jobs = runner[r].jobs /\ row.job = Nothing /\ row.note = runner[r].note
        /\ row.notes = runner[r].notes /\ row.note = Nothing
    BY <1>3, <1>5 DEF Row
  <1>9. /\ job'[j].status = status /\ job'[j].attempts = job[j].attempts
        /\ \A k \in Jobs : k # j => job'[k] = job[k] /\ ~Holds(r, k)
        /\ Holds(r, j)
    BY <1>1, <1>3, <1>4, Fields DEF JobRows, Holds
  <1>10. status = "FAILED" => job[j].attempts >= MaxAttempts
    <2>1. runner[r].job.attempts < job[j].attempts
      BY <1>3, <1>4 DEF JobsOK, JobsReadBefore
    <2>2. runner[r].job.attempts \in Nat /\ job[j].attempts \in Nat /\ MaxAttempts \in Nat
      BY <1>3, RowsRead, Fields, LimitsAssumption
    <2>3. status = "FAILED" => ~JobRetries(runner[r].job.attempts)
      BY <1>1
    <2> QED
      BY <2>1, <2>2, <2>3 DEF JobRetries
  <1>11. status = "PENDING" => r \in Early(j) /\ r \notin Early(j)'
    <2>1. status = "PENDING" => r \in Early(j)
      BY <1>1, <1>3, <1>4 DEF Early, Reading
    <2>2. \A x \in runner[r].jobs : x.id # j
      BY <1>3, <1>4 DEF RowOK
    <2>3. r \notin Early(j)'
      BY <1>6, <1>8, <2>2 DEF Early, Reading, Moves
    <2> QED
      BY <2>1, <2>3
  <1>12. job' \in [Jobs -> JobRows]
    <2>1. job[j] \in JobRows /\ due[j] \in BOOLEAN /\ status \in {"PENDING"} \cup EndStates
      BY <1>3, Fields DEF EndStates
    <2>2. PICK x \in JobRows : x = [job[j] EXCEPT !.status = status, !.due = due[j], !.stale = FALSE]
      BY <2>1 DEF JobRows
    <2>3. job' = [job EXCEPT ![j] = x]
      BY <1>1, <1>4, <2>2
    <2> QED
      BY <1>3, <2>3, Fields
  <1>13. RowsOK'
    BY <1>2, <1>3, <1>6, <1>7, <1>12, MoveKeepsRows, Fields
  <1>14. NotesOK'
    BY <1>2, <1>3, <1>6, <1>8, MoveKeepsNotes DEF ReadsOn
  <1>15. JobsOK'
    <2>1. \A k \in Jobs : /\ job'[k].attempts = job[k].attempts
                          /\ job'[k].status = "NONE" => job[k].status = "NONE"
                          /\ job'[k].status = "FAILED" => job[k].attempts >= MaxAttempts
                          /\ ~Holds(r, k) => job'[k] = job[k]
                          /\ \/ ~Holds(r, k)
                             \/ job'[k].status \notin {"PENDING", "RUNNING"}
                             \/ r \in Early(k) /\ r \notin Early(k)'
      BY <1>3, <1>9, <1>10, <1>11 DEF JobsOK
    <2> QED
      BY <1>3, <1>6, <1>8, <2>1, DropsJob
  <1> QED
    BY <1>13, <1>14, <1>15 DEF QueueInv

LEMMA RunEndsStep ==
  ASSUME QueueInv, NEW r \in Runners, RunEnds(r)
  PROVE  QueueInv'
  <1>1. /\ UNCHANGED <<job, note, delivered, faults>> /\ runner[r].at = "jobs"
        /\ runner' = [runner EXCEPT ![r] = NoRun]
    BY DEF RunEnds
  <1>2. RowsOK /\ JobsOK /\ NotesOK /\ More /\ runner[r].job = Nothing /\ runner[r].note = Nothing
    BY <1>1, MoreOrSame DEF QueueInv, RowsOK, RowOK
  <1>3. Moves(r, NoRun)
    BY <1>1, <1>2 DEF Moves, RowsOK, QueueTypeOK
  <1>4. /\ RowOK(NoRun) /\ NoRun.jobs = {} /\ NoRun.job = Nothing /\ NoRun.note = Nothing
        /\ NoRun.notes = {}
    BY DEF NoRun, RowOK, RunnerRows, Points
  <1>5. RowsOK'
    BY <1>1, <1>2, <1>3, <1>4, MoveKeepsRows, Fields
  <1>6. JobsOK' /\ NotesOK'
    BY <1>1, <1>2, <1>3, <1>4, MoveKeepsJobs, MoveKeepsNotes DEF ReadsOn
  <1> QED
    BY <1>5, <1>6 DEF QueueInv

LEMMA CrashStep ==
  ASSUME QueueInv, NEW r \in Runners, Crash(r)
  PROVE  QueueInv'
  <1>1. /\ UNCHANGED <<job, note, delivered>> /\ Fault("failure")
        /\ runner' = [runner EXCEPT ![r] = NoRun]
    BY DEF Crash
  <1>2. RowsOK /\ JobsOK /\ NotesOK /\ QueueTypeOK
    BY DEF QueueInv, RowsOK
  <1>3. More /\ AllFaults < AllFaults' /\ faults' \in [FaultKinds -> Nat]
    BY <1>1, <1>2, MoreOrSame, Fields DEF FaultKinds, More
  <1>4. Moves(r, NoRun)
    BY <1>1, <1>2 DEF Moves, RowsOK, QueueTypeOK
  <1>5. /\ RowOK(NoRun) /\ NoRun.jobs = {} /\ NoRun.job = Nothing /\ NoRun.note = Nothing
        /\ NoRun.notes = {}
    BY DEF NoRun, RowOK, RunnerRows, Points
  <1>6. RowsOK'
    BY <1>1, <1>2, <1>3, <1>4, <1>5, MoveKeepsRows, Fields
  <1>7. JobsOK'
    BY <1>1, <1>2, <1>3, <1>4, <1>5, DropsJob DEF JobsOK
  <1>8. NotesOK'
    BY <1>1, <1>2, <1>3, <1>4, <1>5, DropsNote DEF NotesOK
  <1> QED
    BY <1>6, <1>7, <1>8 DEF QueueInv

-----------------------------------------------------------------------------
LEMMA InitQueueInv == QueueInit => QueueInv
  <1> SUFFICES ASSUME QueueInit PROVE QueueInv
    OBVIOUS
  <1>1. \A r \in Runners : runner[r] = NoRun
    BY DEF QueueInit
  <1>2. /\ NoRun \in RunnerRows /\ RowOK(NoRun) /\ NoRun.jobs = {} /\ NoRun.job = Nothing
        /\ NoRun.note = Nothing /\ NoRun.notes = {}
    BY DEF NoRun, RowOK, RunnerRows, Points
  <1>3. RowsOK
    BY <1>1, <1>2 DEF QueueInit, RowsOK, QueueTypeOK, JobRows, NoteRows
  <1>4. /\ \A r \in Runners, j \in Jobs : ~Holds(r, j)
        /\ \A r \in Runners, n \in Notes : ~Sends(r, n)
    BY <1>1, <1>2 DEF Holds, Sends
  <1>5. JobsOK
    BY <1>1, <1>2, <1>4 DEF QueueInit, JobsOK, JobsReadBefore, TriesPaid, HoldersLease
  <1>6. \A n \in Notes : CopiesPaid(n)
    <2> TAKE n \in Notes
    <2>1. InHand(n) = {} /\ ~Claimable(n) /\ delivered[n] = 0
      BY <1>4 DEF QueueInit, InHand, Claimable
    <2> QED
      BY <1>3, <2>1, FS_EmptySet, Fields DEF CopiesPaid, Copies
  <1>7. NotesOK
    BY <1>1, <1>2, <1>4, <1>6 DEF QueueInit, NotesOK, NotesReadBefore
  <1> QED
    BY <1>3, <1>5, <1>7 DEF QueueInv

LEMMA QueueStep == QueueInv /\ [QueueNext]_queueVars => QueueInv'
  <1> SUFFICES ASSUME QueueInv, [QueueNext]_queueVars PROVE QueueInv'
    OBVIOUS
  <1>1. ASSUME NEW j \in Jobs, EnqueueJob(j) \/ LeaseExpires(j) \/ JobDue(j) PROVE QueueInv'
    BY <1>1, EnqueueJobStep, LeaseExpiresStep, JobDueStep
  <1>2. ASSUME NEW n \in Notes, NoteDue(n) PROVE QueueInv'
    BY <1>2, NoteDueStep
  <1>3. ASSUME NEW n \in Notes, NEW s \in {"PENDING", "SUPPRESSED"}, EnqueueNote(n, s)
        PROVE  QueueInv'
    BY <1>3, EnqueueNoteStep
  <1>4. ASSUME NEW r \in Runners, Run(r) PROVE QueueInv'
    BY <1>4, RecoverStep, SelectStep, SelectNotesStep, ClaimNoteStep, SendStep, MarkSentStep,
       MarkUnsentStep, NotesDoneStep, ClaimJobStep, WorkStep, FinishStep, FailStep, RunEndsStep
       DEF Run
  <1>5. ASSUME NEW r \in Runners, DeliveryFails(r) \/ Crash(r) PROVE QueueInv'
    BY <1>5, DeliveryFailsStep, CrashStep
  <1>6. CASE UNCHANGED queueVars
    <2>1. UNCHANGED <<job, note, delivered, runner, faults>>
      BY <1>6 DEF queueVars
    <2>2. RowsOK /\ JobsOK /\ NotesOK /\ More
      BY <2>1, MoreOrSame DEF QueueInv, RowsOK
    <2>3. RowsOK'
      BY <2>1, <2>2 DEF RowsOK, QueueTypeOK
    <2>4. JobsOK' /\ NotesOK'
      BY <2>1, <2>2, JobsSame, NotesSame DEF ReadsOn
    <2> QED
      BY <2>3, <2>4 DEF QueueInv
  <1> QED
    BY <1>1, <1>2, <1>3, <1>4, <1>5, <1>6 DEF QueueNext

\* The inductive invariant of the two queues holds in every reachable state.
THEOREM QueueInvariance == QueueSpec => []QueueInv
  BY InitQueueInv, QueueStep, PTL DEF QueueSpec

\* No two runs of runBackgroundJobs work on a job at once as long as no lease is overrun,
\* however many runs, crashes and failing statements there are (jobs.ts:17, jobs.ts:26).
THEOREM LeasesExclude == QueueSpec => []JobsExclusive
  <1>1. QueueInv => JobsExclusive
    BY DEF QueueInv, JobsOK, HoldersLease, JobsExclusive
  <1> QED
    BY <1>1, QueueInvariance, PTL

\* Telegram accepts a message at most once more than there were faults: crashes, lost
\* replies, failing statements and overrun leases (telegram.ts:21-34).
THEOREM CopiesCostFaults == QueueSpec => []DuplicatesAreFaults
  <1>1. QueueInv => DuplicatesAreFaults
    <2> SUFFICES ASSUME QueueInv, NEW n \in Notes PROVE delivered[n] <= 1 + AllFaults
      BY DEF DuplicatesAreFaults
    <2>1. RowsOK /\ delivered[n] \in Nat /\ AllFaults \in Nat
      BY Fields DEF QueueInv
    <2>2. Cardinality(InHand(n)) \in Nat
      BY RunnerSets DEF InHand
    <2>3. Copies(n) <= 1 + AllFaults
      BY DEF QueueInv, NotesOK, CopiesPaid
    <2> QED
      BY <2>1, <2>2, <2>3 DEF Copies
  <1> QED
    BY <1>1, QueueInvariance, PTL

\* Neither a job nor a message is given up before its last attempt, although both decide on
\* attempts read before the claim (jobs.ts:42, telegram.ts:32).
THEOREM NothingGivenUpEarly == QueueSpec => []GivesUpLate
  <1>1. QueueInv => GivesUpLate
    BY DEF QueueInv, JobsOK, NotesOK, GivesUpLate
  <1> QED
    BY <1>1, QueueInvariance, PTL

\* A job is tried fewer times than its maximum, the faults and the overlapping runs make
\* together (jobs.ts:26, jobs.ts:42).
THEOREM TriesEnd == QueueSpec => []AttemptsBounded
  <1>1. QueueInv => AttemptsBounded
    <2> SUFFICES ASSUME QueueInv, NEW j \in Jobs
                 PROVE  job[j].attempts < MaxAttempts + AllFaults + Cardinality(Runners)
      BY DEF AttemptsBounded
    <2>1. RowsOK /\ job[j].attempts \in Nat /\ AllFaults \in Nat
      BY Fields DEF QueueInv
    <2>2. Cardinality(Early(j)) \in Nat /\ Cardinality(Runners) \in Nat
      BY RunnerSets DEF Early
    <2>3. MaxAttempts \in Nat /\ MaxAttempts > 0
      BY LimitsAssumption
    <2>4. job[j].attempts = 0 \/ Tries(j) < MaxAttempts + AllFaults + Cardinality(Runners)
      BY DEF QueueInv, JobsOK, TriesPaid
    <2> QED
      BY <2>1, <2>2, <2>3, <2>4 DEF Tries
  <1> QED
    BY <1>1, QueueInvariance, PTL
=============================================================================
