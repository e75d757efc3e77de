----------------------------- MODULE Automation -----------------------------
(***************************************************************************)
(* Controlled automation (src/lib/automation.ts) and the quote it shares    *)
(* with the owner's confirmation dialog, for ONE approved order: policy,    *)
(* quote and order are read at different awaits, the purchase comes last.   *)
(*                                                                         *)
(* A slot is a call in flight: an automated attempt, a confirmation by an  *)
(* administrator from the dialog of DashboardClient.tsx, a preparation or   *)
(* an emergency stop.  A submission settles in one step here: FutHandlers   *)
(* takes it apart.                                                         *)
(***************************************************************************)
EXTENDS Integers, Sequences, FiniteSets

CONSTANTS
  Slots,       \* calls that may be in flight at once
  Policies,    \* the automation policies owners send
  Prices,      \* what getPrice may answer
  Balances,    \* what getBalance may answer
  Sale,        \* the order: [gross, fee, coins, platform, source]
  Tolerance,   \* futPriceToleranceBps
  Life,        \* how long a quote is good for by its own account: 60 seconds
  MaxQuotes, MaxTime, MaxWrites, MaxMoves   \* bounds

\* What validation leaves of a policy: a mode and non-negative integers.
PolicyRows ==
  [mode : {"MANUAL", "LIMIT_BASED", "AUTOMATIC"}, kill : BOOLEAN, maxGross : Nat, maxCoins : Nat,
   maxAge : Nat, minMargin : Nat, minBalance : Nat, maxFailures : Nat,
   platforms : SUBSET {"PC", "PLAYSTATION", "XBOX"},
   sources : SUBSET {"PUBLIC_SUPPLIER", "OWNED_SENDERS"}]

ASSUME SlotsAssumption == IsFiniteSet(Slots)
ASSUME PoliciesAssumption == Policies \subseteq PolicyRows
ASSUME SaleAssumption == Sale.gross \in Nat \ {0} /\ Sale.fee \in Nat
ASSUME PricesAssumption == Prices \subseteq Nat /\ Balances \subseteq Nat

VARIABLES
  order,    \* status and version of the Order row
  quote,    \* the FutOrder row: submission state, cost, fetched at, which preparation, provider id
  events,   \* the FutApiEvent rows, latest first: has an errorCode
  policy,   \* the automation settings
  now,      \* the clock
  slot,     \* the calls in flight
  writes,   \* how often the policy was written (bounds the owners)
  moves,    \* how often people changed the order (bounds them)
  after     \* history: the attempts past their policy read when the policy was last
            \* written, and the automated submissions since

rows == <<order, quote, events>>
vars == <<rows, policy, now, slot, writes, moves, after>>

\* defaultAutomationPolicy.
DefaultPolicy ==
  [mode |-> "MANUAL", kill |-> TRUE, maxGross |-> 0, maxCoins |-> 200000, maxAge |-> 60,
   minMargin |-> 0, minBalance |-> 0, maxFailures |-> 1, platforms |-> {}, sources |-> {}]

Unsent == [status |-> "APPROVED", version |-> 1]
NoQuote == [state |-> "NONE", cost |-> 0, at |-> 0, id |-> 0, ref |-> FALSE]

\* What a call holds: the policy, order, quote and failures it read, the quote it was
\* evaluated with, and the changes people had made by then.
Free == [at |-> "idle", auto |-> FALSE, policy |-> DefaultPolicy, order |-> Unsent,
         quote |-> NoQuote, fails |-> 0, seen |-> 0, moves |-> 0]

Stopped(p) == p.mode = "MANUAL" \/ p.kill
InFlight == Cardinality({i \in Slots : slot[i].auto})
Goes(i, at) == slot' = [slot EXCEPT ![i].at = at]
Ends(i) == slot' = [slot EXCEPT ![i] = Free]
-----------------------------------------------------------------------------
(* The rules.                                                              *)

\* Leading events with an errorCode (findIndex, with -1 read as "all of them").
Failures == Cardinality({i \in DOMAIN events : \A j \in 1..i : events[j]})

Trunc(n, d) == IF n >= 0 THEN n \div d ELSE -((-n) \div d)

\* Variant: the marketplace fee is forgotten.
MarginBpsGross(cost) == Trunc((Sale.gross - cost) * 10000, Sale.gross)

MarginBps(cost) == Trunc((Sale.gross - Sale.fee - cost) * 10000, Sale.gross)

\* Variant: the kill switch is left to the mode.
ArmedByMode(p) == p.mode # "MANUAL"

Armed(p) == ~p.kill /\ p.mode # "MANUAL"

\* evaluateAutomation leaves no reason.  No code writes FutOrder.riskLevel, so its
\* rule never applies; a cooldown is a failure that was a rate limit; the order's
\* credentials are taken as stored, so the rule about them is always met.
Eligible(p, o, q, fails, balance) ==
  /\ Armed(p)
  /\ o.status = "APPROVED"
  /\ q.state = "PREPARED"
  /\ now - q.at <= p.maxAge /\ now - q.at < Life
  /\ p.maxGross > 0 /\ Sale.gross <= p.maxGross
  /\ Sale.coins <= p.maxCoins
  /\ Sale.platform \in p.platforms /\ Sale.source \in p.sources
  /\ fails < p.maxFailures
  /\ Sale.source = "PUBLIC_SUPPLIER" => balance - q.cost >= p.minBalance
  /\ MarginBps(q.cost) >= p.minMargin

\* What updateAutomationPolicy accepts (the acknowledgement is typed by the owner).
ValidPolicy(p) ==
  p.mode = "AUTOMATIC" /\ ~p.kill => p.maxGross > 0 /\ p.platforms # {} /\ p.sources # {}

PriceMoved(expected, current) ==
  LET gap == IF current > expected THEN current - expected ELSE expected - current
  IN expected > 0 /\ gap * 10000 > expected * Tolerance

Init ==
  /\ order = Unsent /\ quote = NoQuote /\ events = <<>>
  /\ policy \in {p \in Policies : ValidPolicy(p)}
  /\ now = 0 /\ writes = 0 /\ moves = 0
  /\ slot = [i \in Slots |-> Free]
  /\ after = [flying |-> 0, buys |-> 0]

-----------------------------------------------------------------------------
(* attemptAutomatedFutOrder, up to its call of confirmFutOrder.            *)

AttemptRead(i) ==
  /\ slot[i].at = "idle"
  /\ policy.mode # "MANUAL"
  /\ slot' = [slot EXCEPT ![i] = [Free EXCEPT !.at = "order", !.auto = TRUE, !.policy = policy]]
  /\ UNCHANGED <<rows, policy, now, writes, moves, after>>

OrderRead(i) ==
  /\ slot[i].at = "order"
  /\ slot' = [slot EXCEPT ![i] = [@ EXCEPT !.at = "evaluate", !.order = order, !.quote = quote,
                                          !.fails = Failures, !.moves = moves]]
  /\ UNCHANGED <<rows, policy, now, writes, moves, after>>

\* After getBalance, on what was read before it.
Evaluate(i) ==
  /\ slot[i].at = "evaluate"
  /\ \E balance \in Balances :
       IF Eligible(slot[i].policy, slot[i].order, slot[i].quote, slot[i].fails, balance)
       THEN slot' = [slot EXCEPT ![i] = [@ EXCEPT !.at = "confirm", !.seen = slot[i].quote.id,
                                                 !.quote = NoQuote, !.fails = 0]]
       ELSE Ends(i)
  /\ UNCHANGED <<rows, policy, now, writes, moves, after>>

-----------------------------------------------------------------------------
(* confirmFutOrder, for an attempt and for the dialog.                     *)

\* The dialog keeps the order the dashboard had loaded, and sends its version.
OpenDialog(i) ==
  /\ slot[i].at = "idle"
  /\ order.status = "APPROVED" /\ quote.state = "PREPARED"
  /\ slot' = [slot EXCEPT ![i] = [Free EXCEPT !.at = "confirm", !.order = order, !.moves = moves]]
  /\ UNCHANGED <<rows, policy, now, writes, moves, after>>

\* The quote that is bought is the one read here.
ConfirmRead(i) ==
  /\ slot[i].at = "confirm"
  /\ IF order = slot[i].order /\ order.status = "APPROVED" /\ quote.state = "PREPARED"
     THEN slot' = [slot EXCEPT ![i] = [@ EXCEPT !.at = "price", !.quote = quote]]
     ELSE Ends(i)
  /\ UNCHANGED <<rows, policy, now, writes, moves, after>>

PriceCheck(i) ==
  /\ slot[i].at = "price"
  /\ \E price \in Prices :
       IF PriceMoved(slot[i].quote.cost, price) THEN Ends(i) ELSE Goes(i, "reserve")
  /\ UNCHANGED <<rows, policy, now, writes, moves, after>>

\* Variant: the reservation asks for the status alone.
ReserveByStatus(i) ==
  /\ slot[i].at = "reserve"
  /\ IF order.status = "APPROVED"
     THEN Goes(i, "claim") /\ order' = [order EXCEPT !.version = @ + 1]
     ELSE Ends(i) /\ UNCHANGED order
  /\ UNCHANGED <<quote, events, policy, now, writes, moves, after>>

Reserve(i) ==
  /\ slot[i].at = "reserve"
  /\ IF order = slot[i].order
     THEN Goes(i, "claim") /\ order' = [order EXCEPT !.version = @ + 1]
     ELSE Ends(i) /\ UNCHANGED order
  /\ UNCHANGED <<quote, events, policy, now, writes, moves, after>>

Claim(i) ==
  /\ slot[i].at = "claim"
  /\ Goes(i, "submit")
  /\ quote' = [quote EXCEPT !.state = "CONFIRMING"]
  /\ UNCHANGED <<order, events, policy, now, writes, moves, after>>

\* createOrder answers, or fails, or nobody knows; the outcome is stored.
Submit(i) ==
  /\ slot[i].at = "submit"
  /\ \/ /\ quote' = [quote EXCEPT !.state = "SUBMITTED", !.ref = TRUE]
        /\ order' = [status |-> "SUBMITTED_TO_FUT", version |-> order.version + 1]
        /\ events' = <<FALSE>> \o events
     \/ /\ quote' = [quote EXCEPT !.state = "FAILED"]
        /\ order' = [status |-> "FAILED", version |-> order.version + 1]
        /\ events' = <<TRUE>> \o events
     \/ /\ quote' = [quote EXCEPT !.state = "UNKNOWN"]
        /\ events' = <<TRUE>> \o events
        /\ UNCHANGED order
  /\ after' = [after EXCEPT !.buys = @ + (IF slot[i].auto THEN 1 ELSE 0)]
  /\ Ends(i)
  /\ UNCHANGED <<policy, now, writes, moves>>

-----------------------------------------------------------------------------
(* What the others do meanwhile.                                           *)

\* prepareFutOrder: the order is read, then the price is asked for.
PrepareRead(i) ==
  /\ slot[i].at = "idle" /\ quote.id < MaxQuotes
  /\ order.status \in {"READY_FOR_REVIEW", "APPROVED"} /\ ~quote.ref
  /\ \E price \in Prices :
       slot' = [slot EXCEPT ![i] = [Free EXCEPT !.at = "prepare", !.quote.cost = price]]
  /\ UNCHANGED <<rows, policy, now, writes, moves, after>>

\* It writes the row by its id, whatever the row says by then, and logs a clean event.
PrepareWrite(i) ==
  /\ slot[i].at = "prepare"
  /\ quote' = [quote EXCEPT !.state = "PREPARED", !.cost = slot[i].quote.cost, !.at = now,
                            !.id = @ + 1]
  /\ events' = <<FALSE>> \o events
  /\ Ends(i)
  /\ UNCHANGED <<order, policy, now, writes, moves, after>>

\* The status table between the statuses told apart here: CANCELLED stands for all the others,
\* in which nothing is prepared or bought.
Transitions ==
  [READY_FOR_REVIEW |-> {"APPROVED", "CANCELLED"},
   APPROVED |-> {"SUBMITTED_TO_FUT", "CANCELLED"},
   SUBMITTED_TO_FUT |-> {"FAILED", "CANCELLED"},
   FAILED |-> {"READY_FOR_REVIEW", "CANCELLED"},
   CANCELLED |-> {"READY_FOR_REVIEW"}]

\* updateOrder keeps the status, and only the version tells what it edited; changeOrderStatus
\* follows the table.
ChangeOrder ==
  /\ moves < MaxMoves
  /\ \E next \in {order.status} \cup Transitions[order.status] :
       order' = [status |-> next, version |-> order.version + 1]
  /\ moves' = moves + 1
  /\ UNCHANGED <<quote, events, policy, now, slot, writes, after>>

\* updateAutomationPolicy: one transaction.
UpdatePolicy(p) ==
  /\ writes < MaxWrites /\ ValidPolicy(p)
  /\ policy' = p
  /\ writes' = writes + 1
  /\ after' = [flying |-> InFlight, buys |-> 0]
  /\ UNCHANGED <<rows, now, slot, moves>>

\* emergencyStopAutomation: read the policy, then write it back stopped.
StopRead(i) ==
  /\ slot[i].at = "idle" /\ writes < MaxWrites
  /\ slot' = [slot EXCEPT ![i] = [Free EXCEPT !.at = "stop", !.policy = policy]]
  /\ writes' = writes + 1
  /\ UNCHANGED <<rows, policy, now, moves, after>>

StopWrite(i) ==
  /\ slot[i].at = "stop"
  /\ policy' = [slot[i].policy EXCEPT !.mode = "MANUAL", !.kill = TRUE]
  /\ after' = [flying |-> InFlight, buys |-> 0]
  /\ Ends(i)
  /\ UNCHANGED <<rows, now, writes, moves>>

Tick ==
  /\ now < MaxTime
  /\ now' = now + 1
  /\ UNCHANGED <<rows, policy, slot, writes, moves, after>>

Next ==
  \/ \E i \in Slots :
       \/ AttemptRead(i) \/ OrderRead(i) \/ Evaluate(i) \/ OpenDialog(i)
       \/ ConfirmRead(i) \/ PriceCheck(i) \/ Reserve(i) \/ Claim(i) \/ Submit(i)
       \/ PrepareRead(i) \/ PrepareWrite(i) \/ StopRead(i) \/ StopWrite(i)
  \/ \E p \in Policies : UpdatePolicy(p)
  \/ ChangeOrder
  \/ Tick

Spec == Init /\ [][Next]_vars

-----------------------------------------------------------------------------
\* docs/SECURITY.md:30, the kill switch: while the policy is stopped no attempt buys
\* but the ones that had read the policy before it was, each once at most.
StopHolds == Stopped(policy) => after.buys <= after.flying

\* Past the reservation of confirmFutOrder.
Buying(i) == slot[i].at \in {"claim", "submit"}

\* What an attempt buys keeps the limits of the policy it read, to the minor unit,
\* unless the quote was prepared again between its evaluation and its purchase.
\* (With minMarginBps = 0 Math.trunc lets a loss below one basis point through.)
LimitsKept ==
  \A i \in Slots :
    LET p == slot[i].policy
        left == (Sale.gross - Sale.fee - slot[i].quote.cost) * 10000
    IN Buying(i) /\ slot[i].auto /\ slot[i].quote.id = slot[i].seen =>
         /\ Sale.gross <= p.maxGross
         /\ \/ left >= p.minMargin * Sale.gross
            \/ p.minMargin = 0 /\ left > -Sale.gross

\* A reservation goes through only if nobody changed the order since it was reviewed
\* or evaluated, though the quote may be another one.
ReservedAsReviewed ==
  [][\A i \in Slots :
       slot[i].at = "reserve" /\ slot'[i].at = "claim" => slot[i].moves = moves]_vars
=============================================================================
