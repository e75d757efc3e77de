------------------------------- MODULE Provider -------------------------------
(***************************************************************************)
(* The FUT adapter of one server process (src/lib/integrations/fut.ts):    *)
(* request() with its time limit, its retries and the circuit breaker all  *)
(* calls of the process share, and what HttpFutProvider makes of a reply.  *)
(*                                                                         *)
(* The clock is a countdown: cooling is what is left of the 30 seconds.     *)
(* Money is in minor units; a supplier's price per 100K coins is in         *)
(* thousandths of a dollar, the three decimals decimalToMinor looks at.    *)
(***************************************************************************)
EXTENDS Integers, Sequences, FiniteSets

CONSTANTS
  Slots,        \* calls that may be in flight at once
  MaxRetries,   \* futMaxRetries
  Cool,         \* the 30 seconds of an open circuit
  Offers,       \* lists of [price, stock] the provider may answer /buyConditionAPI with
  Amounts       \* quantities asked for, in thousands of coins

ASSUME RetriesAssumption == MaxRetries \in Nat /\ Cool \in Nat \ {0}
ASSUME AmountsAssumption == Amounts \subseteq Nat \ {0}
ASSUME OffersAssumption == Offers \subseteq Seq([price : Nat, stock : Nat])
ASSUME SlotsAssumption == IsFiniteSet(Slots)

VARIABLES
  failures,   \* circuitFailures
  cooling,    \* what is left until circuitOpenedAt is 30 seconds ago
  call,       \* the calls in flight: operation, where they are, attempt, times sent
  answer      \* the last quote: the offers, the amount and the cost

vars == <<failures, cooling, call, answer>>

\* Submission, stop, resume and correction pass retries = 0.
Mutations == {"create", "cancel", "resume", "correct"}
Reads == {"price", "status", "balance"}
Idle == [at |-> "idle", op |-> "price", attempt |-> 0, sent |-> 0]
NoAnswer == [offers |-> <<>>, amount |-> 1, cost |-> 0]
-----------------------------------------------------------------------------
(* Replies.                                                                *)

\* Variant: the digits after the cents are cut off.
DecimalCut(price) == price \div 10

\* decimalToMinor rounds at the third decimal.
DecimalToMinor(price) == price \div 10 + (IF price % 10 >= 5 THEN 1 ELSE 0)

\* Math.round of a quotient of naturals.
Rounded(n, d) == (2 * n + d) \div (2 * d)

Cost(price, amount) == Rounded(DecimalToMinor(price) * amount, 100)

\* The suppliers who have the stock and a price.
Able(offers, amount) ==
  {i \in DOMAIN offers : offers[i].stock >= amount /\ offers[i].price > 0}

\* The cheapest of them (sort is stable), on the price as it was answered.
Chosen(offers, amount) ==
  CHOOSE i \in Able(offers, amount) :
    \A j \in Able(offers, amount) :
      /\ offers[i].price <= offers[j].price
      /\ offers[i].price = offers[j].price => i <= j

\* What createOrder sends as maxPrice per 100K coins: the quotient of this by the amount.
MaxPriceTimesAmount(cost) == cost * 1000

-----------------------------------------------------------------------------
(* The circuit.                                                            *)

Open == failures >= 5 /\ cooling > 0

Init ==
  /\ failures = 0 /\ cooling = 0
  /\ call = [i \in Slots |-> Idle]
  /\ answer = NoAnswer

\* failure(): each one past the fourth opens the circuit anew.
Fails ==
  /\ failures' = failures + 1
  /\ cooling' = IF failures + 1 >= 5 THEN Cool ELSE cooling

Succeeds == failures' = 0 /\ UNCHANGED cooling

\* Variant: a call the circuit refuses moves circuitOpenedAt.
BeginCountsRefusals(i, op) ==
  /\ call[i].at = "idle"
  /\ IF Open
     THEN cooling' = Cool /\ UNCHANGED <<failures, call>>
     ELSE /\ failures' = IF failures >= 5 THEN 0 ELSE failures
          /\ call' = [call EXCEPT ![i] = [at |-> "sent", op |-> op, attempt |-> 0, sent |-> 1]]
          /\ UNCHANGED cooling
  /\ UNCHANGED answer

\* Variant: the circuit closes without forgetting the failures.
BeginRemembers(i, op) ==
  /\ call[i].at = "idle" /\ ~Open
  /\ call' = [call EXCEPT ![i] = [at |-> "sent", op |-> op, attempt |-> 0, sent |-> 1]]
  /\ UNCHANGED <<failures, cooling, answer>>

\* assertCircuit, once per call, and the first fetch.  A refused call changes nothing.
Begin(i, op) ==
  /\ call[i].at = "idle"
  /\ IF Open
     THEN UNCHANGED <<failures, cooling, call>>
     ELSE /\ failures' = IF failures >= 5 THEN 0 ELSE failures
          /\ call' = [call EXCEPT ![i] = [at |-> "sent", op |-> op, attempt |-> 0, sent |-> 1]]
          /\ UNCHANGED cooling
  /\ UNCHANGED answer

\* Variant: retries || futMaxRetries, which takes 0 for "not given".
RetriesOr(op) == MaxRetries

Retries(op) == IF op \in Mutations THEN 0 ELSE MaxRetries

Ends(i) == call' = [call EXCEPT ![i] = Idle]

\* A usable reply to getPrice.  No supplier who can deliver is an error of getPrice,
\* not of request: the circuit has already counted a success.
Quoted(i) ==
  /\ call[i].at = "sent" /\ call[i].op = "price"
  /\ \E offers \in Offers, amount \in Amounts :
       answer' = IF Able(offers, amount) = {} THEN answer
                 ELSE [offers |-> offers, amount |-> amount,
                       cost |-> Cost(offers[Chosen(offers, amount)].price, amount)]
  /\ Succeeds /\ Ends(i)

\* A reply to anything else; one that lacks a field throws past the circuit too.
Answered(i) ==
  /\ call[i].at = "sent" /\ call[i].op # "price"
  /\ Succeeds /\ Ends(i)
  /\ UNCHANGED answer

\* 401, 402, 403, 406, another 4xx, or JSON that does not parse: never retried.
Refused(i) ==
  /\ call[i].at = "sent"
  /\ Fails /\ Ends(i)
  /\ UNCHANGED answer

\* 408, 429, 5xx, the time limit of the AbortController, a broken connection: the
\* call waits and tries again, or fails for good at its last attempt.
Lost(i) ==
  /\ call[i].at = "sent"
  /\ IF call[i].attempt = Retries(call[i].op)
     THEN Fails /\ Ends(i)
     ELSE UNCHANGED <<failures, cooling>> /\ call' = [call EXCEPT ![i].at = "waiting"]
  /\ UNCHANGED answer

\* The next attempt does not ask the circuit.
Resend(i) ==
  /\ call[i].at = "waiting"
  /\ call' = [call EXCEPT ![i].at = "sent", ![i].attempt = @ + 1, ![i].sent = @ + 1]
  /\ UNCHANGED <<failures, cooling, answer>>

Tick ==
  /\ cooling > 0
  /\ cooling' = cooling - 1
  /\ UNCHANGED <<failures, call, answer>>

\* What ends a fetch: a reply, or the AbortController.
Ended(i) == Quoted(i) \/ Answered(i) \/ Refused(i) \/ Lost(i)

Next ==
  \/ \E i \in Slots :
       \/ \E op \in Reads \cup Mutations : Begin(i, op)
       \/ Ended(i) \/ Resend(i)
  \/ Tick

\* Time passes, every fetch ends by its time limit and every wait is a timer.
\* Nobody has to call the provider.
Fairness ==
  WF_vars(Tick) /\ \A i \in Slots : WF_vars(Ended(i)) /\ WF_vars(Resend(i))

Spec == Init /\ [][Next]_vars /\ Fairness

-----------------------------------------------------------------------------
\* docs/FUT_TRANSFER_CONTRACT.md:32: a mutation is sent once, a read at most once more
\* than there are retries.
SentAsAllowed ==
  \A i \in Slots :
    /\ call[i].at \in {"idle", "sent", "waiting"} /\ call[i].op \in Reads \cup Mutations
    /\ call[i].attempt \in 0..MaxRetries
    /\ call[i].sent <= 1 + (IF call[i].op \in Mutations THEN 0 ELSE MaxRetries)

\* The count of failures passes the threshold by the calls in flight at most.
FailuresBounded ==
  /\ failures \in Nat /\ failures + Cardinality({i \in Slots : call[i].at # "idle"})
                           <= 4 + Cardinality(Slots)
  /\ cooling \in 0..Cool

\* A quote is at most the rounding away from the best offer: half a cent per 100K
\* coins, and half a cent of the whole.  The maxPrice createOrder derives from it is
\* as far from the supplier's price, and may be below it.
QuoteIsBestOffer ==
  LET off(i) == MaxPriceTimesAmount(answer.cost)
                - answer.offers[i].price * answer.amount
      rounding == 5 * answer.amount + 500
  IN answer # NoAnswer =>
       /\ \A i \in Able(answer.offers, answer.amount) : off(i) <= rounding
       /\ \E i \in Able(answer.offers, answer.amount) : off(i) >= -rounding

\* An open circuit lets calls through again, however many it refuses meanwhile.
CircuitReopens == Open ~> ~Open
=============================================================================
