------------------------------ MODULE OrderEntry ------------------------------
(***************************************************************************)
(* Entering an order: the form of the dashboard (submitCreate in           *)
(* app/dashboard/DashboardClient.tsx), createOrder with its reference      *)
(* counter, its fee snapshot and its duplicate warning                     *)
(* (src/lib/orders/service.ts), and the owner's change of the marketplace  *)
(* fee (updateMarketplaceFee in src/lib/admin-economy.ts).                 *)
(*                                                                         *)
(* Every form here asks for the same customer, platform, quantity and sale;*)
(* forms differ by their marketplace reference, {} being none.             *)
(***************************************************************************)
EXTENDS Integers, FiniteSets

CONSTANTS
  Users,       \* dashboards
  Slots,       \* createOrder requests in flight at once
  References,  \* marketplace references, normalized
  Fees,        \* rates the owner may set, in basis points
  Default,     \* the fallback of createOrder, 500
  Window,      \* 30 minutes
  YearLength,
  MaxTime, MaxForms, MaxOrders, MaxUpdates  \* bounds; forms of a dashboard

ASSUME EntryAssumption ==
  /\ Window \in Nat /\ YearLength \in Nat \ {0} /\ MaxTime \in Nat
  /\ Fees \subseteq 0..10000 /\ Default \in 0..10000

VARIABLES
  now,
  form,      \* the dashboards: which form, its reference, the request they wait for
  slot,      \* the requests
  order,     \* the committed Order rows
  next,      \* OrderReferenceCounter.nextValue of each year (no row: 1)
  policy,    \* MarketplaceFeePolicy rows
  owner      \* updateMarketplaceFee requests between their snapshot and their commit

vars == <<now, form, slot, order, next, policy, owner>>

Blank == [at |-> "blank", entry |-> 0, reference |-> {}, request |-> {}]
Idle == [at |-> "idle", entry |-> <<>>, reference |-> {}, warned |-> FALSE, overlapped |-> FALSE,
         began |-> 0, number |-> 0, fee |-> 0, fees |-> {}]
Year(t) == t \div YearLength
Years == {Year(t) : t \in 0..MaxTime}
ActiveFees(policies) == {p.fee : p \in {q \in policies : q.active}}

\* The policy a request of time t takes: the active one that came into effect last.
FeeAt(policies, t) ==
  LET active == {p \in policies : p.active /\ p.from <= t} IN
  IF active = {} THEN {Default}
  ELSE {p.fee : p \in {q \in active : \A r \in active : r.from <= q.from}}

Init ==
  /\ now = 0
  /\ form = [u \in Users |-> Blank]
  /\ slot = [i \in Slots |-> Idle]
  /\ order = {}
  /\ next = [y \in Years |-> 1]
  /\ policy = {[fee |-> Default, from |-> 0, active |-> TRUE]}
  /\ owner = {}

-----------------------------------------------------------------------------
(* The dashboard.                                                          *)

Edit(u, reference) ==
  /\ form[u].at = "blank"
  /\ form[u].entry < MaxForms
  /\ form' = [form EXCEPT ![u] = [at |-> "edit", entry |-> @.entry + 1, reference |-> reference,
                                 request |-> {}]]
  /\ UNCHANGED <<now, slot, order, next, policy, owner>>

\* submitCreate; the busy flag keeps the button disabled until run() ends.
SubmitCreate(u, i) ==
  /\ form[u].at = "edit" /\ slot[i].at = "idle"
  /\ Cardinality(order) + Cardinality({j \in Slots : slot[j].at # "idle"}) < MaxOrders
  /\ form' = [form EXCEPT ![u].at = "wait", ![u].request = {i}]
  /\ slot' = [slot EXCEPT ![i] = [Idle EXCEPT !.at = "warn", !.entry = <<u, form[u].entry>>,
                                             !.reference = form[u].reference]]
  /\ UNCHANGED <<now, order, next, policy, owner>>

\* The connection is lost; the request goes on.
GiveUp(u) ==
  /\ form[u].at = "wait"
  /\ form' = [form EXCEPT ![u].at = "edit", ![u].request = {}]
  /\ UNCHANGED <<now, slot, order, next, policy, owner>>

\* Credentials, notes and READY_FOR_REVIEW, one call after the other.  Only when all of them
\* succeed is the form emptied: after a failure it still holds an order that exists.
Setup(u) ==
  /\ form[u].at = "setup"
  /\ \/ form' = [form EXCEPT ![u] = [Blank EXCEPT !.entry = form[u].entry]]
     \/ form' = [form EXCEPT ![u].at = "edit"]
  /\ UNCHANGED <<now, slot, order, next, policy, owner>>

\* The reply of a request reaches the dashboard that waits for it.
Replied(i, then) ==
  form' = [u \in Users |-> IF i \in form[u].request
                           THEN [form[u] EXCEPT !.at = then, !.request = {}] ELSE form[u]]

-----------------------------------------------------------------------------
(* createOrder.                                                            *)

\* Variant: orders older than the window.
DuplicatesOlder == {o \in order : o.created < now - Window}
Duplicates == {o \in order : o.created >= now - Window}

\* The duplicate warning, read before the transaction.
Warn(i) ==
  /\ slot[i].at = "warn"
  /\ slot' = [slot EXCEPT
       ![i].at = "begin", ![i].warned = Duplicates # {},
       ![i].overlapped = \E j \in Slots \ {i} : slot[j].at # "idle" /\ slot[j].entry = slot[i].entry]
  /\ UNCHANGED <<now, form, order, next, policy, owner>>

\* The transaction takes its time, which gives the year and the policy.
Begin(i) ==
  /\ slot[i].at = "begin"
  /\ slot' = [slot EXCEPT ![i].at = "count", ![i].began = now, ![i].fees = ActiveFees(policy)]
  /\ UNCHANGED <<now, form, order, next, policy, owner>>

\* The upsert locks the counter row of that year until the transaction ends.
Count(i) ==
  /\ slot[i].at = "count"
  /\ \A j \in Slots : slot[j].at \in {"fee", "insert"} => Year(slot[j].began) # Year(slot[i].began)
  /\ slot' = [slot EXCEPT ![i].at = "fee", ![i].number = next[Year(slot[i].began)]]
  /\ UNCHANGED <<now, form, order, next, policy, owner>>

\* Variant: any policy there ever was, by date.
ReadFeeOfAny(i) ==
  /\ slot[i].at = "fee"
  /\ \E p \in policy : /\ p.from <= slot[i].began
                       /\ slot' = [slot EXCEPT ![i].at = "insert", ![i].fee = p.fee]
  /\ UNCHANGED <<now, form, order, next, policy, owner>>

\* READ COMMITTED: the policies of now, for the time the transaction took at its start.
ReadFee(i) ==
  /\ slot[i].at = "fee"
  /\ \E fee \in FeeAt(policy, slot[i].began) :
       slot' = [slot EXCEPT ![i].at = "insert", ![i].fee = fee]
  /\ UNCHANGED <<now, form, order, next, policy, owner>>

NewOrder(i) ==
  [year |-> Year(slot[i].began), number |-> slot[i].number, reference |-> slot[i].reference,
   entry |-> slot[i].entry, fee |-> slot[i].fee, fees |-> slot[i].fees, warned |-> slot[i].warned,
   overlapped |-> slot[i].overlapped, created |-> now]

\* Variant: the counter is not part of the transaction.
InsertCountsAnyway(i) ==
  /\ slot[i].at = "insert"
  /\ next' = [next EXCEPT ![Year(slot[i].began)] = slot[i].number + 1]
  /\ IF \E o \in order : o.reference \cap slot[i].reference # {}
     THEN Replied(i, "edit") /\ UNCHANGED order
     ELSE Replied(i, "setup") /\ order' = order \cup {NewOrder(i)}
  /\ slot' = [slot EXCEPT ![i] = Idle]
  /\ UNCHANGED <<now, policy, owner>>

\* The insert and the commit, or 409 and the rollback on the marketplace reference's index.
Insert(i) ==
  /\ slot[i].at = "insert"
  /\ IF \E o \in order : o.reference \cap slot[i].reference # {}
     THEN Replied(i, "edit") /\ UNCHANGED <<order, next>>
     ELSE /\ Replied(i, "setup")
          /\ order' = order \cup {NewOrder(i)}
          /\ next' = [next EXCEPT ![Year(slot[i].began)] = slot[i].number + 1]
  /\ slot' = [slot EXCEPT ![i] = Idle]
  /\ UNCHANGED <<now, policy, owner>>

\* A failed validation, or a request cut off: nothing of the transaction stays.
Fail(i) ==
  /\ slot[i].at # "idle"
  /\ Replied(i, "edit")
  /\ slot' = [slot EXCEPT ![i] = Idle]
  /\ UNCHANGED <<now, order, next, policy, owner>>

-----------------------------------------------------------------------------
(* updateMarketplaceFee.                                                   *)

\* The time it takes, and the active policies its updateMany sees.
FeeSnapshot(fee) ==
  /\ Cardinality(policy) + Cardinality(owner) <= MaxUpdates
  /\ owner' = owner \cup {[fee |-> fee, from |-> now, seen |-> {p \in policy : p.active}]}
  /\ UNCHANGED <<now, form, slot, order, next, policy>>

\* The rows it saw end and the new one begins.  A row another update created meanwhile is
\* not among them: two policies stay active.
FeeCommit(w) ==
  /\ policy' = {[p EXCEPT !.active = @ /\ p \notin w.seen] : p \in policy}
                 \cup {[fee |-> w.fee, from |-> w.from, active |-> TRUE]}
  /\ owner' = owner \ {w}
  /\ slot' = [i \in Slots |->
       IF slot[i].at \in {"count", "fee"}
       THEN [slot[i] EXCEPT !.fees = @ \cup ActiveFees(policy') \cup {Default}] ELSE slot[i]]
  /\ UNCHANGED <<now, form, order, next>>

Tick ==
  /\ now < MaxTime
  /\ now' = now + 1
  /\ UNCHANGED <<form, slot, order, next, policy, owner>>

Next ==
  \/ \E u \in Users :
       \/ \E reference \in {{}} \cup {{r} : r \in References} : Edit(u, reference)
       \/ \E i \in Slots : SubmitCreate(u, i)
       \/ GiveUp(u) \/ Setup(u)
  \/ \E i \in Slots : Warn(i) \/ Begin(i) \/ Count(i) \/ ReadFee(i) \/ Insert(i) \/ Fail(i)
  \/ \E fee \in Fees : FeeSnapshot(fee)
  \/ \E w \in owner : FeeCommit(w)
  \/ Tick

Spec == Init /\ [][Next]_vars

-----------------------------------------------------------------------------
\* docs/DOMAIN_MODEL.md:7.  The references of a year are numbered from one without a gap and
\* without a repetition, whatever is refused, cut off or submitted at once.
ReferencesGapFree ==
  \A y \in DOMAIN next :
    LET ofYear == {o \in order : o.year = y} IN
    /\ {o.number : o \in ofYear} = 1..(next[y] - 1)
    /\ Cardinality(ofYear) = next[y] - 1

\* An order keeps the rate of a policy that was active at some moment of its transaction, or
\* the launch fallback if the owner changed the rate during it: the old policy is then no
\* longer active and the new one not yet in effect at the transaction's time.
FeeInForce == \A o \in order : o.fee \in o.fees

\* A form that is submitted again because something failed makes a second order only without
\* a marketplace reference, and then with the warning, unless the first request was still on
\* its way or its order is older than the window.
NoSilentDuplicate ==
  \A o, p \in order :
    o # p /\ o.entry = p.entry =>
      /\ o.reference = {}
      /\ \/ o.warned \/ p.warned
         \/ o.overlapped \/ p.overlapped
         \/ o.created - p.created > Window \/ p.created - o.created > Window
=============================================================================
