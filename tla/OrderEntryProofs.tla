--------------------------- MODULE OrderEntryProofs ---------------------------
(***************************************************************************)
(* Proofs about OrderEntry for any number of dashboards, requests, orders   *)
(* and changes of the fee: numbering, the rate an order keeps, duplicates.  *)
(* The three say different things of the same requests, so the inductive    *)
(* invariant has a part for each and every step is followed through all.    *)
(***************************************************************************)
EXTENDS OrderEntry, FiniteSetTheorems, TLAPS

Entries == Users \X Nat
Requests == [at : {"idle", "warn", "begin", "count", "fee", "insert"}, entry : Entries \cup {<<>>},
             reference : SUBSET References, warned : BOOLEAN, overlapped : BOOLEAN,
             began : 0..MaxTime, number : Nat, fee : Nat, fees : SUBSET Nat]
Forms == [at : {"blank", "edit", "wait", "setup"}, entry : Nat, reference : SUBSET References,
          request : SUBSET Slots]
OrderRows == [year : Years, number : Nat, reference : SUBSET References, entry : Entries, fee : Nat,
              fees : SUBSET Nat, warned : BOOLEAN, overlapped : BOOLEAN, created : 0..MaxTime]
Policies == [fee : Nat, from : Nat, active : BOOLEAN]
Updates == [fee : Nat, from : Nat, seen : SUBSET Policies]

Typed ==
  /\ now \in 0..MaxTime
  /\ form \in [Users -> Forms] /\ slot \in [Slots -> Requests]
  /\ order \in SUBSET OrderRows /\ next \in [Years -> Nat \ {0}]
  /\ policy \in SUBSET Policies /\ owner \in SUBSET Updates

Busy(i) == slot[i].at # "idle"
Past(i) == slot[i].at \in {"begin", "count", "fee", "insert"}
Holds(i) == slot[i].at \in {"fee", "insert"}
OfYear(y) == {o \in order : o.year = y}

\* The orders of a year bear the numbers below its counter.
Numbered(y) ==
  /\ {o.number : o \in OfYear(y)} = 1..(next[y] - 1)
  /\ Cardinality(OfYear(y)) = next[y] - 1

\* Who took a number holds the counter row of its year, alone.
Numbering ==
  /\ IsFiniteSet(order)
  /\ \A y \in Years : Numbered(y)
  /\ \A i \in Slots : Holds(i) => slot[i].number = next[Year(slot[i].began)]
  /\ \A i, j \in Slots : Holds(i) /\ Holds(j) /\ i # j => Year(slot[i].began) # Year(slot[j].began)

\* There is an active policy in effect; a transaction before its read knows the rates of
\* all active ones, and the fallback once its own time may find none.
RatesKnown ==
  /\ \E p \in policy : p.active /\ p.from <= now
  /\ \A w \in owner : w.from <= now
  /\ \A i \in Slots : slot[i].at \in {"count", "fee"} =>
       /\ ActiveFees(policy) \subseteq slot[i].fees
       /\ Default \in slot[i].fees \/ \E p \in policy : p.active /\ p.from <= slot[i].began
  /\ \A i \in Slots : slot[i].at = "insert" => slot[i].fee \in slot[i].fees
  /\ FeeInForce

\* A form that was filled in belongs to a dashboard, and its latest one is what is on display.
Known(entry, reference) ==
  /\ entry \in Entries /\ entry[2] <= form[entry[1]].entry
  /\ form[entry[1]].at # "blank" /\ entry[2] = form[entry[1]].entry => reference = form[entry[1]].reference

\* Two requests of a form: the later one to look for duplicates met the other.
SlotTwins(i, j) ==
  i # j /\ Busy(i) /\ Busy(j) /\ slot[i].entry = slot[j].entry =>
    /\ slot[i].reference = slot[j].reference
    /\ Past(i) /\ Past(j) => slot[i].overlapped \/ slot[j].overlapped

\* A request and an order of one form.
OrderTwins(o, i) ==
  Busy(i) /\ slot[i].entry = o.entry =>
    /\ slot[i].reference = o.reference
    /\ Past(i) => slot[i].warned \/ slot[i].overlapped \/ o.overlapped \/ now - o.created > Window

Copies ==
  /\ \A u \in Users : form[u].at # "wait" => form[u].request = {}
  /\ \A i \in Slots : Busy(i) => Known(slot[i].entry, slot[i].reference)
  /\ \A o \in order : Known(o.entry, o.reference)
  /\ \A i, j \in Slots : SlotTwins(i, j)
  /\ \A o \in order, i \in Slots : OrderTwins(o, i)
  /\ NoSilentDuplicate

IInv == Typed /\ Numbering /\ RatesKnown /\ Copies

-----------------------------------------------------------------------------
LEMMA IdleTyped == Idle \in Requests /\ Idle.at = "idle"
  <1>1. MaxTime \in Nat
    BY EntryAssumption
  <1>2. 0 \in 0..MaxTime /\ {} \in SUBSET References /\ {} \in SUBSET Nat
    BY <1>1
  <1> QED
    BY <1>2 DEF Idle, Requests

LEMMA InitIInv == Init => IInv
  <1> SUFFICES ASSUME Init PROVE IInv
    OBVIOUS
  <1>1. Typed
    <2>1. Blank \in Forms
      BY DEF Blank, Forms
    <2>2. [fee |-> Default, from |-> 0, active |-> TRUE] \in Policies
      <3>1. Default \in Nat
        BY EntryAssumption
      <3> QED
        BY <3>1 DEF Policies
    <2>3. 0 \in 0..MaxTime
      BY EntryAssumption
    <2>4. form \in [Users -> Forms] /\ slot \in [Slots -> Requests]
      BY <2>1, IdleTyped DEF Init
    <2>5. next \in [Years -> Nat \ {0}]
      BY DEF Init
    <2>6. policy \in SUBSET Policies /\ owner \in SUBSET Updates /\ order \in SUBSET OrderRows
      BY <2>2 DEF Init
    <2> QED
      BY <2>3, <2>4, <2>5, <2>6 DEF Init, Typed
  <1>2. Numbering
    <2>1. \A y \in Years : OfYear(y) = {} /\ next[y] = 1
      BY DEF Init, OfYear
    <2>2. ASSUME NEW y \in Years PROVE Numbered(y)
      <3>1. next[y] - 1 = 0 /\ 1..0 = {} /\ {o.number : o \in OfYear(y)} = {}
        BY <2>1
      <3>2. Cardinality(OfYear(y)) = 0
        BY <2>1, FS_EmptySet
      <3> QED
        BY <3>1, <3>2 DEF Numbered
    <2> QED
      BY <2>2, FS_EmptySet DEF Init, Numbering, Holds, Idle
  <1>3. RatesKnown
    BY DEF Init, RatesKnown, FeeInForce, Idle
  <1>4. Copies
    BY DEF Init, Copies, Busy, SlotTwins, NoSilentDuplicate, Idle, Blank
  <1> QED
    BY <1>1, <1>2, <1>3, <1>4 DEF IInv

-----------------------------------------------------------------------------
(* What most steps leave alone.                                            *)

LEMMA NumberingKept ==
  ASSUME Numbering, UNCHANGED <<order, next>>,
         \A j \in Slots : Holds(j)' => Holds(j) /\ slot'[j].number = slot[j].number /\ slot'[j].began = slot[j].began
  PROVE  Numbering'
  BY DEF Numbering, Numbered, OfYear

LEMMA RatesKept ==
  ASSUME Typed, RatesKnown, UNCHANGED <<policy, order>>, now' \in Int, now' >= now,
         \A w \in owner' : w.from <= now',
         \A j \in Slots : slot'[j].at \in {"count", "fee"} =>
           slot[j].at \in {"count", "fee"} /\ slot'[j].fees = slot[j].fees /\ slot'[j].began = slot[j].began,
         \A j \in Slots : slot'[j].at = "insert" =>
           slot[j].at = "insert" /\ slot'[j].fee = slot[j].fee /\ slot'[j].fees = slot[j].fees
  PROVE  RatesKnown'
  <1>1. \E p \in policy : p.active /\ p.from <= now'
    BY DEF RatesKnown, Typed, Policies
  <1> QED
    BY <1>1 DEF RatesKnown, FeeInForce

FormsKept ==
  \A u \in Users :
    /\ form'[u].entry = form[u].entry
    /\ form'[u].at # "blank" => form[u].at # "blank" /\ form'[u].reference = form[u].reference
    /\ form'[u].at # "wait" => form'[u].request = {}

SlotsKept ==
  \A j \in Slots :
    Busy(j)' => /\ Busy(j) /\ slot'[j].entry = slot[j].entry /\ slot'[j].reference = slot[j].reference
                /\ slot'[j].warned = slot[j].warned /\ slot'[j].overlapped = slot[j].overlapped
                /\ Past(j)' => Past(j)

LEMMA KnownKept ==
  ASSUME FormsKept, NEW entry, NEW reference, Known(entry, reference)
  PROVE  Known(entry, reference)'
  <1>1. entry[1] \in Users
    BY DEF Known, Entries
  <1> QED
    BY <1>1 DEF Known, FormsKept

LEMMA CopiesKept ==
  ASSUME Typed, Copies, FormsKept, SlotsKept, UNCHANGED order, now' \in Int, now' >= now
  PROVE  Copies'
  <1>1. \A u \in Users : form'[u].at # "wait" => form'[u].request = {}
    BY DEF FormsKept
  <1>2. \A i \in Slots : Busy(i)' => Known(slot[i].entry, slot[i].reference)'
    BY KnownKept DEF Copies, SlotsKept
  <1>3. \A o \in order : Known(o.entry, o.reference)'
    BY KnownKept DEF Copies
  <1>4. \A i, j \in Slots : SlotTwins(i, j)'
    BY DEF Copies, SlotsKept, SlotTwins
  <1>5. ASSUME NEW o \in order, NEW i \in Slots PROVE OrderTwins(o, i)'
    <2>1. o.created \in Int /\ now \in Int /\ Window \in Int
      <3>1. o \in OrderRows
        BY DEF Typed
      <3>2. o.created \in 0..MaxTime
        BY <3>1 DEF OrderRows
      <3>3. now \in 0..MaxTime
        BY DEF Typed
      <3>4. MaxTime \in Nat /\ Window \in Nat
        BY EntryAssumption
      <3> QED
        BY <3>2, <3>3, <3>4
    <2> SUFFICES ASSUME Busy(i)', slot'[i].entry = o.entry
                 PROVE  /\ slot'[i].reference = o.reference
                        /\ Past(i)' => slot'[i].warned \/ slot'[i].overlapped \/ o.overlapped
                                        \/ now' - o.created > Window
      BY DEF OrderTwins
    <2>2. /\ Busy(i) /\ slot[i].entry = o.entry /\ slot'[i].reference = slot[i].reference
          /\ slot'[i].warned = slot[i].warned /\ slot'[i].overlapped = slot[i].overlapped
          /\ Past(i)' => Past(i)
      BY DEF SlotsKept
    <2>3. /\ slot[i].reference = o.reference
          /\ Past(i) => slot[i].warned \/ slot[i].overlapped \/ o.overlapped \/ now - o.created > Window
      BY <2>2 DEF Copies, OrderTwins
    <2>4. now - o.created > Window => now' - o.created > Window
      BY <2>1
    <2> QED
      BY <2>2, <2>3, <2>4
  <1>6. NoSilentDuplicate'
    BY DEF Copies, NoSilentDuplicate
  <1> QED
    BY <1>1, <1>2, <1>3, <1>4, <1>5, <1>6 DEF Copies

\* A step of the dashboards or of the owner that starts no request.
LEMMA FormsOnly ==
  ASSUME IInv, Typed', FormsKept, UNCHANGED <<slot, order, next, policy>>, now' >= now,
         \A w \in owner' : w.from <= now'
  PROVE  IInv'
  <1>1. now' \in Int
    BY EntryAssumption DEF Typed
  <1>2. Numbering'
    BY NumberingKept DEF IInv, Holds
  <1>3. RatesKnown'
    BY <1>1, RatesKept DEF IInv
  <1>4. SlotsKept
    BY DEF SlotsKept, Busy, Past
  <1>5. Copies'
    BY <1>1, <1>4, CopiesKept DEF IInv
  <1> QED
    BY <1>2, <1>3, <1>5 DEF IInv

LEMMA FormsStay == ASSUME IInv, UNCHANGED form PROVE FormsKept
  BY DEF IInv, Copies, FormsKept

LEMMA NowInt == IInv => now \in Int /\ now \in 0..MaxTime
  BY EntryAssumption DEF IInv, Typed

\* The next form is a new one: what is out there is of earlier ones.
LEMMA EditStep ==
  ASSUME IInv, NEW u \in Users, NEW reference \in SUBSET References, Edit(u, reference)
  PROVE  IInv'
  <1>1. /\ form[u].at = "blank" /\ UNCHANGED <<now, slot, order, next, policy, owner>>
        /\ form' = [form EXCEPT ![u] = [at |-> "edit", entry |-> form[u].entry + 1, reference |-> reference,
                                       request |-> {}]]
    BY DEF Edit
  <1>2. form \in [Users -> Forms] /\ form[u].entry \in Nat
    BY DEF IInv, Typed, Forms
  <1>3. Typed'
    <2>1. form' \in [Users -> Forms]
      BY <1>1, <1>2 DEF Forms
    <2> QED
      BY <1>1, <2>1 DEF IInv, Typed
  <1>4. Numbering'
    BY <1>1, NumberingKept DEF IInv, Holds
  <1>5. RatesKnown'
    BY <1>1 DEF IInv, RatesKnown, FeeInForce
  <1>6. /\ form'[u].entry = form[u].entry + 1 /\ form'[u].request = {}
        /\ \A v \in Users \ {u} : form'[v] = form[v]
    BY <1>1, <1>2
  <1>7. ASSUME NEW entry, NEW ref, Known(entry, ref) PROVE Known(entry, ref)'
    <2>1. entry[1] \in Users /\ entry[2] \in Nat /\ entry \in Entries
      BY <1>7 DEF Known, Entries
    <2>2. CASE entry[1] = u
      BY <1>2, <1>6, <1>7, <2>1, <2>2 DEF Known
    <2>3. CASE entry[1] # u
      BY <1>6, <1>7, <2>1, <2>3 DEF Known
    <2> QED
      BY <2>2, <2>3
  <1>8. Copies'
    <2>1. \A v \in Users : form'[v].at # "wait" => form'[v].request = {}
      BY <1>6 DEF IInv, Copies
    <2>2. \A i \in Slots : Busy(i)' => Known(slot[i].entry, slot[i].reference)'
      BY <1>1, <1>7 DEF IInv, Copies, Busy
    <2>3. \A o \in order : Known(o.entry, o.reference)'
      BY <1>7 DEF IInv, Copies
    <2>4. (\A i, j \in Slots : SlotTwins(i, j)') /\ (\A o \in order, i \in Slots : OrderTwins(o, i)')
      BY <1>1 DEF IInv, Copies, SlotTwins, OrderTwins, Busy, Past
    <2> QED
      BY <1>1, <2>1, <2>2, <2>3, <2>4 DEF IInv, Copies, NoSilentDuplicate
  <1> QED
    BY <1>3, <1>4, <1>5, <1>8 DEF IInv

LEMMA GiveUpStep ==
  ASSUME IInv, NEW u \in Users, GiveUp(u)
  PROVE  IInv'
  <1>1. /\ form[u].at = "wait" /\ UNCHANGED <<now, slot, order, next, policy, owner>>
        /\ form' = [form EXCEPT ![u].at = "edit", ![u].request = {}]
    BY DEF GiveUp
  <1>2. form \in [Users -> Forms] /\ form[u] \in Forms
    BY DEF IInv, Typed
  <1>3. form'[u] = [form[u] EXCEPT !.at = "edit", !.request = {}]
    BY <1>1, <1>2
  <1>4. /\ form'[u] \in Forms /\ form'[u].entry = form[u].entry /\ form'[u].request = {}
        /\ form'[u].reference = form[u].reference
    BY <1>2, <1>3 DEF Forms
  <1>5. DOMAIN form' = Users /\ form' = [v \in Users |-> form'[v]] /\ \A v \in Users \ {u} : form'[v] = form[v]
    BY <1>1, <1>2
  <1>6. form' \in [Users -> Forms]
    BY <1>2, <1>4, <1>5
  <1>7. Typed' /\ FormsKept
    BY <1>1, <1>4, <1>5, <1>6 DEF IInv, Typed, Copies, FormsKept
  <1> QED
    BY <1>1, <1>7, FormsOnly, NowInt DEF IInv, RatesKnown

LEMMA SetupStep ==
  ASSUME IInv, NEW u \in Users, Setup(u)
  PROVE  IInv'
  <1>1. /\ form[u].at = "setup" /\ UNCHANGED <<now, slot, order, next, policy, owner>>
        /\ \/ form' = [form EXCEPT ![u] = [Blank EXCEPT !.entry = form[u].entry]]
           \/ form' = [form EXCEPT ![u].at = "edit"]
    BY DEF Setup
  <1>2. form \in [Users -> Forms] /\ form[u] \in Forms /\ form[u].request = {}
    BY <1>1 DEF IInv, Typed, Copies
  <1>3. /\ form'[u] \in Forms /\ form'[u].entry = form[u].entry /\ form'[u].request = {}
        /\ form'[u].at # "blank" => form'[u].reference = form[u].reference
    <2>1. CASE form' = [form EXCEPT ![u] = [Blank EXCEPT !.entry = form[u].entry]]
      BY <1>2, <2>1 DEF Forms, Blank
    <2>2. CASE form' = [form EXCEPT ![u].at = "edit"]
      BY <1>2, <2>2 DEF Forms
    <2> QED
      BY <1>1, <2>1, <2>2
  <1>4. DOMAIN form' = Users /\ form' = [v \in Users |-> form'[v]] /\ \A v \in Users \ {u} : form'[v] = form[v]
    BY <1>1, <1>2
  <1>5. form' \in [Users -> Forms]
    BY <1>2, <1>3, <1>4
  <1>6. Typed' /\ FormsKept
    BY <1>1, <1>3, <1>4, <1>5 DEF IInv, Typed, Copies, FormsKept
  <1> QED
    BY <1>1, <1>6, FormsOnly, NowInt DEF IInv, RatesKnown

LEMMA SnapshotStep ==
  ASSUME IInv, NEW fee \in Fees, FeeSnapshot(fee)
  PROVE  IInv'
  <1>1. /\ owner' = owner \cup {[fee |-> fee, from |-> now, seen |-> {p \in policy : p.active}]}
        /\ UNCHANGED <<now, form, slot, order, next, policy>>
    BY DEF FeeSnapshot
  <1>2. now \in Nat /\ fee \in Nat /\ {p \in policy : p.active} \in SUBSET Policies
    <2>1. now \in 0..MaxTime /\ policy \in SUBSET Policies
      BY DEF IInv, Typed
    <2>2. now \in Nat
      BY <2>1, EntryAssumption
    <2>3. fee \in Nat
      BY EntryAssumption
    <2>4. {p \in policy : p.active} \in SUBSET Policies
      BY <2>1
    <2> QED
      BY <2>2, <2>3, <2>4
  <1>3. Typed'
    BY <1>1, <1>2 DEF IInv, Typed, Updates
  <1>4. \A w \in owner' : w.from <= now'
    BY <1>1, <1>2 DEF IInv, RatesKnown
  <1> QED
    BY <1>1, <1>3, <1>4, <1>2, FormsStay, FormsOnly

LEMMA TickStep ==
  ASSUME IInv, Tick
  PROVE  IInv'
  <1>1. now < MaxTime /\ now' = now + 1 /\ UNCHANGED <<form, slot, order, next, policy, owner>>
    BY DEF Tick
  <1>2. now \in 0..MaxTime /\ MaxTime \in Nat /\ \A w \in owner : w.from \in Nat /\ w.from <= now
    <2>1. now \in 0..MaxTime /\ owner \in SUBSET Updates
      BY DEF IInv, Typed
    <2>2. MaxTime \in Nat
      BY EntryAssumption
    <2>3. \A w \in owner : w.from \in Nat
      BY <2>1 DEF Updates
    <2>4. \A w \in owner : w.from <= now
      BY DEF IInv, RatesKnown
    <2> QED
      BY <2>1, <2>2, <2>3, <2>4
  <1>3. Typed' /\ (\A w \in owner' : w.from <= now') /\ now' >= now
    BY <1>1, <1>2 DEF IInv, Typed
  <1> QED
    BY <1>1, <1>3, FormsStay, FormsOnly

-----------------------------------------------------------------------------
(* Requests.                                                               *)

Only(i) == slot' \in [Slots -> Requests] /\ \A j \in Slots \ {i} : slot'[j] = slot[j]

LEMMA OnlyOne ==
  ASSUME Typed, NEW i \in Slots, NEW new \in Requests, slot' = [slot EXCEPT ![i] = new]
  PROVE  Only(i) /\ slot'[i] = new
  BY DEF Typed, Only

LEMMA EndsOne ==
  ASSUME Typed, NEW i \in Slots, slot' = [slot EXCEPT ![i] = Idle]
  PROVE  Only(i) /\ slot'[i] = Idle /\ slot'[i].at = "idle"
  BY IdleTyped, OnlyOne

\* A reply moves the dashboard that waits for it, and no other.
LEMMA RepliedForms ==
  ASSUME IInv, NEW i \in Slots, NEW then \in {"edit", "setup"}, Replied(i, then)
  PROVE  FormsKept /\ form' \in [Users -> Forms]
  <1>1. ASSUME NEW u \in Users
        PROVE  /\ form'[u] \in Forms /\ form'[u].entry = form[u].entry
               /\ form'[u].at # "blank" => form[u].at # "blank" /\ form'[u].reference = form[u].reference
               /\ form'[u].at # "wait" => form'[u].request = {}
    <2>1. form[u] \in Forms /\ (form[u].at # "wait" => form[u].request = {})
      BY DEF IInv, Typed, Copies
    <2>2. CASE i \in form[u].request
      <3>1. form[u].at = "wait" /\ form'[u] = [form[u] EXCEPT !.at = then, !.request = {}]
        BY <2>1, <2>2 DEF Replied
      <3> QED
        BY <2>1, <3>1 DEF Forms
    <2>3. CASE i \notin form[u].request
      <3>1. form'[u] = form[u]
        BY <2>3 DEF Replied
      <3> QED
        BY <2>1, <3>1
    <2> QED
      BY <2>2, <2>3
  <1>2. form' = [u \in Users |-> form'[u]]
    BY DEF Replied
  <1> QED
    BY <1>1, <1>2 DEF FormsKept

\* A request that goes on for the same form, or ends.
LEMMA GoesOn ==
  ASSUME IInv, NEW i \in Slots, Only(i), FormsKept, form' \in [Users -> Forms],
         UNCHANGED <<now, order, next, policy, owner>>,
         Busy(i)' => /\ Busy(i) /\ slot'[i].entry = slot[i].entry /\ slot'[i].reference = slot[i].reference
                     /\ slot'[i].warned = slot[i].warned /\ slot'[i].overlapped = slot[i].overlapped
                     /\ Past(i)' => Past(i)
  PROVE  Typed' /\ Copies'
  <1>1. Typed'
    BY DEF IInv, Typed, Only
  <1>2. SlotsKept
    BY DEF SlotsKept, Only, Busy, Past
  <1> QED
    BY <1>1, <1>2, CopiesKept, NowInt DEF IInv

\* A request gone, or before its counter, says nothing about numbers or rates.
LEMMA HoldsNothing ==
  ASSUME IInv, NEW i \in Slots, Only(i), UNCHANGED <<now, order, next, policy, owner>>,
         slot'[i].at \in {"idle", "warn", "begin"}
  PROVE  Numbering' /\ RatesKnown'
  <1>1. Numbering'
    BY NumberingKept DEF IInv, Only, Holds
  <1>2. RatesKnown'
    <2>1. \A j \in Slots : slot'[j].at \in {"count", "fee", "insert"} => slot'[j] = slot[j]
      BY DEF Only
    <2>2. now' \in Int /\ now' >= now /\ \A w \in owner' : w.from <= now'
      BY NowInt DEF IInv, RatesKnown
    <2> QED
      BY <2>1, <2>2, RatesKept DEF IInv
  <1> QED
    BY <1>1, <1>2

LEMMA FailStep ==
  ASSUME IInv, NEW i \in Slots, Fail(i)
  PROVE  IInv'
  <1>1. /\ Replied(i, "edit") /\ slot' = [slot EXCEPT ![i] = Idle]
        /\ UNCHANGED <<now, order, next, policy, owner>>
    BY DEF Fail
  <1>2. Only(i) /\ slot'[i].at = "idle"
    BY <1>1, EndsOne DEF IInv
  <1>3. FormsKept /\ form' \in [Users -> Forms]
    BY <1>1, RepliedForms
  <1>4. Typed' /\ Copies'
    BY <1>1, <1>2, <1>3, GoesOn DEF Busy
  <1> QED
    BY <1>1, <1>2, <1>4, HoldsNothing DEF IInv

LEMMA BeginStep ==
  ASSUME IInv, NEW i \in Slots, Begin(i)
  PROVE  IInv'
  <1>1. /\ slot[i].at = "begin" /\ UNCHANGED <<now, form, order, next, policy, owner>>
        /\ slot' = [slot EXCEPT ![i].at = "count", ![i].began = now, ![i].fees = ActiveFees(policy)]
    BY DEF Begin
  <1>2. slot \in [Slots -> Requests] /\ slot[i] \in Requests /\ now \in 0..MaxTime
    BY DEF IInv, Typed
  <1>3. ActiveFees(policy) \in SUBSET Nat
    BY DEF IInv, Typed, Policies, ActiveFees
  <1> DEFINE fees == ActiveFees(policy)
             new == [slot[i] EXCEPT !.at = "count", !.began = now, !.fees = fees]
  <1> HIDE DEF fees
  <1>4. /\ new \in Requests /\ new.at = "count" /\ new.began = now /\ new.fees = fees
        /\ new.entry = slot[i].entry /\ new.reference = slot[i].reference
        /\ new.warned = slot[i].warned /\ new.overlapped = slot[i].overlapped
    BY <1>2, <1>3 DEF Requests, fees
  <1>5. slot'[i] = new /\ \A j \in Slots \ {i} : slot'[j] = slot[j]
    BY <1>1, <1>2 DEF fees
  <1> HIDE DEF new
  <1>6. Only(i)
    <2>1. DOMAIN slot' = Slots /\ slot' = [j \in Slots |-> slot'[j]]
      BY <1>1, <1>2
    <2> QED
      BY <1>2, <1>4, <1>5, <2>1 DEF Only
  <1>7. Typed' /\ Copies'
    <2>1. FormsKept /\ form' \in [Users -> Forms]
      BY <1>1, FormsStay DEF IInv, Typed
    <2>2. Busy(i) /\ Past(i)
      BY <1>1 DEF Busy, Past
    <2> QED
      BY <1>1, <1>4, <1>5, <1>6, <2>1, <2>2, GoesOn
  <1>8. Numbering'
    BY <1>1, <1>4, <1>5, NumberingKept DEF IInv, Holds
  <1>9. RatesKnown'
    <2>1. \A j \in Slots \ {i} : slot'[j] = slot[j]
      BY <1>5
    <2>2. /\ ActiveFees(policy) \subseteq slot'[i].fees /\ slot'[i].at = "count"
          /\ \E p \in policy : p.active /\ p.from <= slot'[i].began
      BY <1>4, <1>5 DEF IInv, RatesKnown, fees
    <2> QED
      BY <1>1, <2>1, <2>2 DEF IInv, RatesKnown, FeeInForce
  <1> QED
    BY <1>7, <1>8, <1>9 DEF IInv

LEMMA CountStep ==
  ASSUME IInv, NEW i \in Slots, Count(i)
  PROVE  IInv'
  <1> DEFINE number == next[Year(slot[i].began)]
  <1>1. /\ slot[i].at = "count" /\ UNCHANGED <<now, form, order, next, policy, owner>>
        /\ slot' = [slot EXCEPT ![i].at = "fee", ![i].number = number]
        /\ \A j \in Slots : Holds(j) => Year(slot[j].began) # Year(slot[i].began)
    BY DEF Count, Holds
  <1>2. slot \in [Slots -> Requests] /\ slot[i] \in Requests
    BY DEF IInv, Typed
  <1>3. number \in Nat
    <2>1. Year(slot[i].began) \in Years
      BY <1>2 DEF Requests, Years
    <2> QED
      BY <2>1 DEF IInv, Typed
  <1> HIDE DEF number
  <1> DEFINE new == [slot[i] EXCEPT !.at = "fee", !.number = number]
  <1>4. /\ new \in Requests /\ new.at = "fee" /\ new.began = slot[i].began /\ new.fees = slot[i].fees
        /\ new.number = number /\ new.entry = slot[i].entry /\ new.reference = slot[i].reference
        /\ new.warned = slot[i].warned /\ new.overlapped = slot[i].overlapped
    BY <1>2, <1>3 DEF Requests
  <1>5. slot'[i] = new /\ \A j \in Slots \ {i} : slot'[j] = slot[j]
    BY <1>1, <1>2
  <1> HIDE DEF new
  <1>6. Only(i)
    <2>1. DOMAIN slot' = Slots /\ slot' = [j \in Slots |-> slot'[j]]
      BY <1>1, <1>2
    <2> QED
      BY <1>2, <1>4, <1>5, <2>1 DEF Only
  <1>7. Typed' /\ Copies'
    <2>1. FormsKept /\ form' \in [Users -> Forms]
      BY <1>1, FormsStay DEF IInv, Typed
    <2>2. Busy(i) /\ Past(i)
      BY <1>1 DEF Busy, Past
    <2> QED
      BY <1>1, <1>4, <1>5, <1>6, <2>1, <2>2, GoesOn
  <1>8. Numbering'
    <2>1. IsFiniteSet(order)' /\ \A y \in Years : Numbered(y)'
      BY <1>1 DEF IInv, Numbering, Numbered, OfYear
    <2>2. ASSUME NEW j \in Slots, Holds(j)' PROVE slot'[j].number = next'[Year(slot'[j].began)]
      BY <1>1, <1>4, <1>5, <2>2 DEF IInv, Numbering, Holds, number
    <2>3. ASSUME NEW j \in Slots, NEW k \in Slots, Holds(j)', Holds(k)', j # k
          PROVE  Year(slot'[j].began) # Year(slot'[k].began)
      <3>1. \A l \in Slots : slot'[l].began = slot[l].began
        BY <1>4, <1>5
      <3>2. \A l \in Slots \ {i} : Holds(l)' => Holds(l)
        BY <1>5 DEF Holds
      <3>3. CASE j = i \/ k = i
        BY <1>1, <2>3, <3>1, <3>2, <3>3
      <3>4. CASE j # i /\ k # i
        BY <2>3, <3>1, <3>2, <3>4 DEF IInv, Numbering
      <3> QED
        BY <3>3, <3>4
    <2> QED
      BY <2>1, <2>2, <2>3 DEF Numbering
  <1>9. RatesKnown'
    <2>1. now' \in Int /\ now' >= now /\ \A w \in owner' : w.from <= now'
      BY <1>1, NowInt DEF IInv, RatesKnown
    <2> QED
      BY <1>1, <1>4, <1>5, <2>1, RatesKept DEF IInv
  <1> QED
    BY <1>7, <1>8, <1>9 DEF IInv

LEMMA ReadFeeStep ==
  ASSUME IInv, NEW i \in Slots, ReadFee(i)
  PROVE  IInv'
  <1>1. /\ slot[i].at = "fee" /\ UNCHANGED <<now, form, order, next, policy, owner>>
    BY DEF ReadFee
  <1>2. PICK fee \in FeeAt(policy, slot[i].began) : slot' = [slot EXCEPT ![i].at = "insert", ![i].fee = fee]
    BY DEF ReadFee
  <1>3. slot \in [Slots -> Requests] /\ slot[i] \in Requests
    BY DEF IInv, Typed
  <1>4. fee \in slot[i].fees
    <2> DEFINE active == {p \in policy : p.active /\ p.from <= slot[i].began}
    <2>1. CASE active = {}
      <3>1. fee = Default
        BY <1>2, <2>1 DEF FeeAt
      <3> QED
        BY <1>1, <2>1, <3>1 DEF IInv, RatesKnown
    <2>2. CASE active # {}
      <3>1. PICK p \in active : fee = p.fee
        BY <1>2, <2>2 DEF FeeAt
      <3>2. fee \in ActiveFees(policy)
        BY <3>1 DEF ActiveFees
      <3> QED
        BY <1>1, <3>2 DEF IInv, RatesKnown
    <2> QED
      BY <2>1, <2>2
  <1>5. fee \in Nat
    BY <1>3, <1>4 DEF Requests
  <1> DEFINE new == [slot[i] EXCEPT !.at = "insert", !.fee = fee]
  <1>6. /\ new \in Requests /\ new.at = "insert" /\ new.began = slot[i].began /\ new.fees = slot[i].fees
        /\ new.number = slot[i].number /\ new.entry = slot[i].entry /\ new.reference = slot[i].reference
        /\ new.warned = slot[i].warned /\ new.overlapped = slot[i].overlapped /\ new.fee = fee
    BY <1>3, <1>5 DEF Requests
  <1>7. slot'[i] = new /\ \A j \in Slots \ {i} : slot'[j] = slot[j]
    BY <1>2, <1>3
  <1> HIDE DEF new
  <1>8. Only(i)
    <2>1. DOMAIN slot' = Slots /\ slot' = [j \in Slots |-> slot'[j]]
      BY <1>2, <1>3
    <2> QED
      BY <1>3, <1>6, <1>7, <2>1 DEF Only
  <1>9. Typed' /\ Copies'
    <2>1. FormsKept /\ form' \in [Users -> Forms]
      BY <1>1, FormsStay DEF IInv, Typed
    <2>2. Busy(i) /\ Past(i)
      BY <1>1 DEF Busy, Past
    <2> QED
      BY <1>1, <1>6, <1>7, <1>8, <2>1, <2>2, GoesOn
  <1>10. Numbering'
    BY <1>1, <1>6, <1>7, NumberingKept DEF IInv, Holds
  <1>11. RatesKnown'
    <2>1. \A j \in Slots \ {i} : slot'[j] = slot[j]
      BY <1>7
    <2>2. slot'[i].at = "insert" /\ slot'[i].fee \in slot'[i].fees
      BY <1>4, <1>6, <1>7
    <2> QED
      BY <1>1, <2>1, <2>2 DEF IInv, RatesKnown, FeeInForce
  <1> QED
    BY <1>9, <1>10, <1>11 DEF IInv

\* A request takes its form as it is on display.
LEMMA SubmitStep ==
  ASSUME IInv, NEW u \in Users, NEW i \in Slots, SubmitCreate(u, i)
  PROVE  IInv'
  <1> DEFINE entry == <<u, form[u].entry>>
             new == [Idle EXCEPT !.at = "warn", !.entry = entry, !.reference = form[u].reference]
  <1>1. /\ form[u].at = "edit" /\ slot[i].at = "idle" /\ UNCHANGED <<now, order, next, policy, owner>>
        /\ form' = [form EXCEPT ![u].at = "wait", ![u].request = {i}]
        /\ slot' = [slot EXCEPT ![i] = new]
    BY DEF SubmitCreate
  <1>2. form \in [Users -> Forms] /\ form[u] \in Forms
    BY DEF IInv, Typed
  <1>3. entry \in Entries /\ entry[1] = u /\ entry[2] = form[u].entry
    BY <1>2 DEF Forms, Entries
  <1> HIDE DEF entry
  <1>4. new \in Requests /\ new.at = "warn" /\ new.entry = entry /\ new.reference = form[u].reference
    BY <1>2, <1>3, IdleTyped DEF Idle, Requests, Forms
  <1> HIDE DEF new
  <1>5. Only(i) /\ slot'[i] = new
    BY <1>1, <1>4, OnlyOne DEF IInv
  <1>6. form'[u] = [form[u] EXCEPT !.at = "wait", !.request = {i}]
    BY <1>1, <1>2
  <1>7. /\ form'[u] \in Forms /\ form'[u].entry = form[u].entry /\ form'[u].at = "wait"
        /\ form'[u].reference = form[u].reference
    <2>1. {i} \in SUBSET Slots
      OBVIOUS
    <2> DEFINE mine == {i}
    <2> HIDE DEF mine
    <2>2. form'[u] = [form[u] EXCEPT !.at = "wait", !.request = mine] /\ mine \in SUBSET Slots
      BY <1>6, <2>1 DEF mine
    <2> QED
      BY <1>2, <2>2 DEF Forms
  <1>8. DOMAIN form' = Users /\ form' = [v \in Users |-> form'[v]] /\ \A v \in Users \ {u} : form'[v] = form[v]
    BY <1>1, <1>2
  <1>9. FormsKept /\ form' \in [Users -> Forms]
    BY <1>1, <1>2, <1>7, <1>8 DEF IInv, Copies, FormsKept
  <1>10. Typed'
    BY <1>1, <1>5, <1>9 DEF IInv, Typed, Only
  <1>11. Numbering' /\ RatesKnown'
    BY <1>1, <1>4, <1>5, HoldsNothing
  <1>12. \A ref : Known(entry, ref) => ref = form[u].reference
    BY <1>1, <1>3 DEF Known
  <1>13. Copies'
    <2>1. \A v \in Users : form'[v].at # "wait" => form'[v].request = {}
      BY <1>9 DEF FormsKept
    <2>2. ASSUME NEW j \in Slots, Busy(j)' PROVE Known(slot[j].entry, slot[j].reference)'
      <3>1. CASE j = i
        BY <1>2, <1>3, <1>4, <1>5, <1>7, <3>1 DEF Known, Forms
      <3>2. CASE j # i
        <4>1. slot'[j] = slot[j] /\ Known(slot[j].entry, slot[j].reference)
          BY <1>5, <2>2, <3>2 DEF IInv, Copies, Busy, Only
        <4>2. Known(slot'[j].entry, slot'[j].reference)
          BY <4>1
        <4> QED
          BY <1>9, <4>1, KnownKept
      <3> QED
        BY <3>1, <3>2
    <2>3. \A o \in order : Known(o.entry, o.reference)'
      BY <1>9, KnownKept DEF IInv, Copies
    <2>4. ASSUME NEW j \in Slots \ {i}, Busy(j), slot[j].entry = entry PROVE slot[j].reference = form[u].reference
      BY <1>12, <2>4 DEF IInv, Copies
    <2>5. ASSUME NEW j \in Slots, NEW k \in Slots PROVE SlotTwins(j, k)'
      BY <1>4, <1>5, <2>4 DEF IInv, Copies, SlotTwins, Busy, Past, Only
    <2>6. ASSUME NEW o \in order, NEW j \in Slots PROVE OrderTwins(o, j)'
      BY <1>1, <1>4, <1>5, <1>12 DEF IInv, Copies, OrderTwins, Busy, Past, Only
    <2> QED
      BY <1>1, <2>1, <2>2, <2>3, <2>5, <2>6 DEF IInv, Copies, NoSilentDuplicate
  <1> QED
    BY <1>10, <1>11, <1>13 DEF IInv

\* The warning sees the orders of the window, and the history the requests of the same form.
LEMMA WarnStep ==
  ASSUME IInv, NEW i \in Slots, Warn(i)
  PROVE  IInv'
  <1> DEFINE warned == Duplicates # {}
             overlapped == \E j \in Slots \ {i} : slot[j].at # "idle" /\ slot[j].entry = slot[i].entry
             new == [slot[i] EXCEPT !.at = "begin", !.warned = warned, !.overlapped = overlapped]
  <1>1. /\ slot[i].at = "warn" /\ UNCHANGED <<now, form, order, next, policy, owner>>
        /\ slot' = [slot EXCEPT ![i].at = "begin", ![i].warned = warned, ![i].overlapped = overlapped]
    BY DEF Warn
  <1>2. slot \in [Slots -> Requests] /\ slot[i] \in Requests
    BY DEF IInv, Typed
  <1>3. warned \in BOOLEAN /\ overlapped \in BOOLEAN
    OBVIOUS
  <1> HIDE DEF warned, overlapped
  <1>4. /\ new \in Requests /\ new.at = "begin" /\ new.warned = warned /\ new.overlapped = overlapped
        /\ new.entry = slot[i].entry /\ new.reference = slot[i].reference
    BY <1>2, <1>3 DEF Requests
  <1>5. slot'[i] = new /\ \A j \in Slots \ {i} : slot'[j] = slot[j]
    BY <1>1, <1>2
  <1> HIDE DEF new
  <1>6. Only(i)
    <2>1. DOMAIN slot' = Slots /\ slot' = [j \in Slots |-> slot'[j]]
      BY <1>1, <1>2
    <2> QED
      BY <1>2, <1>4, <1>5, <2>1 DEF Only
  <1>7. Typed'
    BY <1>1, <1>6 DEF IInv, Typed, Only
  <1>8. Numbering' /\ RatesKnown'
    BY <1>1, <1>4, <1>5, <1>6, HoldsNothing
  <1>9. Copies'
    <2>1. \A u \in Users : form'[u].at # "wait" => form'[u].request = {}
      BY <1>1 DEF IInv, Copies
    <2>2. \A j \in Slots : /\ Busy(j)' => Busy(j)
                           /\ slot'[j].entry = slot[j].entry /\ slot'[j].reference = slot[j].reference
      BY <1>1, <1>4, <1>5 DEF Busy
    <2>3. ASSUME NEW j \in Slots, Busy(j)' PROVE Known(slot[j].entry, slot[j].reference)'
      <3>1. FormsKept
        BY <1>1, FormsStay
      <3>2. Known(slot'[j].entry, slot'[j].reference)
        BY <2>2, <2>3 DEF IInv, Copies
      <3> QED
        BY <3>1, <3>2, KnownKept
    <2>4. \A o \in order : Known(o.entry, o.reference)'
      BY <1>1 DEF IInv, Copies, Known
    <2>5. ASSUME NEW j \in Slots, NEW k \in Slots PROVE SlotTwins(j, k)'
      <3> SUFFICES ASSUME j # k, Busy(j)', Busy(k)', slot[j].entry = slot[k].entry
                   PROVE  /\ slot'[j].reference = slot'[k].reference
                          /\ Past(j)' /\ Past(k)' => slot'[j].overlapped \/ slot'[k].overlapped
        BY <2>2 DEF SlotTwins
      <3>1. slot[j].reference = slot[k].reference /\ (Past(j) /\ Past(k) => slot[j].overlapped \/ slot[k].overlapped)
        BY <2>2 DEF IInv, Copies, SlotTwins
      <3>2. CASE j = i \/ k = i
        <4>1. overlapped
          BY <2>2, <3>2 DEF overlapped, Busy
        <4> QED
          BY <1>4, <1>5, <2>2, <3>1, <3>2, <4>1
      <3>3. CASE j # i /\ k # i
        BY <1>5, <3>1, <3>3 DEF Past
      <3> QED
        BY <3>2, <3>3
    <2>6. ASSUME NEW o \in order, NEW j \in Slots PROVE OrderTwins(o, j)'
      <3>1. CASE j = i
        <4> SUFFICES ASSUME slot[i].entry = o.entry
                     PROVE  /\ slot[i].reference = o.reference
                            /\ warned \/ overlapped \/ o.overlapped \/ now - o.created > Window
          BY <1>1, <1>4, <1>5, <3>1 DEF OrderTwins
        <4>1. slot[i].reference = o.reference
          BY <1>1 DEF IInv, Copies, OrderTwins, Busy
        <4>2. o.created \in Int /\ now \in Int /\ Window \in Int
          <5>1. o \in OrderRows
            BY DEF IInv, Typed
          <5>2. o.created \in 0..MaxTime
            BY <5>1 DEF OrderRows
          <5>3. now \in Int
            BY NowInt
          <5> QED
            BY <5>2, <5>3, EntryAssumption
        <4>3. warned \/ now - o.created > Window
          BY <4>2 DEF warned, Duplicates
        <4> QED
          BY <4>1, <4>3
      <3>2. CASE j # i
        BY <1>1, <1>5, <3>2 DEF IInv, Copies, OrderTwins, Busy, Past
      <3> QED
        BY <3>1, <3>2
    <2> QED
      BY <1>1, <2>1, <2>3, <2>4, <2>5, <2>6 DEF IInv, Copies, NoSilentDuplicate
  <1> QED
    BY <1>7, <1>8, <1>9 DEF IInv

LEMMA CommitStep ==
  ASSUME IInv, NEW w \in owner, FeeCommit(w)
  PROVE  IInv'
  <1> DEFINE new == [fee |-> w.fee, from |-> w.from, active |-> TRUE]
             ended(p) == [p EXCEPT !.active = p.active /\ p \notin w.seen]
  <1>1. /\ policy' = {ended(p) : p \in policy} \cup {new} /\ owner' = owner \ {w}
        /\ UNCHANGED <<now, form, order, next>>
        /\ slot' = [i \in Slots |->
             IF slot[i].at \in {"count", "fee"}
             THEN [slot[i] EXCEPT !.fees = slot[i].fees \cup ActiveFees(policy') \cup {Default}] ELSE slot[i]]
    BY DEF FeeCommit
  <1>2. w \in Updates /\ w.from <= now
    BY DEF IInv, Typed, RatesKnown
  <1>3. new \in Policies /\ new.active /\ new.from = w.from
    BY <1>2 DEF Updates, Policies
  <1>4. \A p \in Policies : ended(p) \in Policies
    BY DEF Policies
  <1> HIDE DEF new, ended
  <1>5. policy' \in SUBSET Policies /\ new \in policy'
    BY <1>1, <1>3, <1>4 DEF IInv, Typed
  <1>6. ActiveFees(policy') \in SUBSET Nat /\ Default \in Nat
    BY <1>5, EntryAssumption DEF ActiveFees, Policies
  <1>7. ASSUME NEW i \in Slots
        PROVE  /\ slot'[i] \in Requests
               /\ slot'[i].at = slot[i].at /\ slot'[i].entry = slot[i].entry /\ slot'[i].reference = slot[i].reference
               /\ slot'[i].warned = slot[i].warned /\ slot'[i].overlapped = slot[i].overlapped
               /\ slot'[i].number = slot[i].number /\ slot'[i].began = slot[i].began /\ slot'[i].fee = slot[i].fee
               /\ slot[i].at \in {"count", "fee"} => ActiveFees(policy') \subseteq slot'[i].fees /\ Default \in slot'[i].fees
               /\ slot[i].at \notin {"count", "fee"} => slot'[i].fees = slot[i].fees
    <2> DEFINE fees == slot[i].fees \cup ActiveFees(policy') \cup {Default}
    <2>1. slot[i] \in Requests
      BY DEF IInv, Typed
    <2>2. fees \in SUBSET Nat /\ ActiveFees(policy') \subseteq fees /\ Default \in fees
      BY <1>6, <2>1 DEF Requests
    <2>3. slot'[i] = IF slot[i].at \in {"count", "fee"} THEN [slot[i] EXCEPT !.fees = fees] ELSE slot[i]
      BY <1>1
    <2> HIDE DEF fees
    <2> QED
      BY <2>1, <2>2, <2>3 DEF Requests
  <1>8. Typed'
    <2>1. slot' \in [Slots -> Requests]
      BY <1>1, <1>7
    <2>2. owner' \in SUBSET Updates
      BY <1>1 DEF IInv, Typed
    <2> QED
      BY <1>1, <1>5, <2>1, <2>2 DEF IInv, Typed
  <1>9. Numbering'
    BY <1>1, <1>7, NumberingKept DEF IInv, Holds
  <1>10. RatesKnown'
    <2>1. \E p \in policy' : p.active /\ p.from <= now'
      BY <1>1, <1>2, <1>3, <1>5
    <2> QED
      BY <1>1, <1>7, <2>1 DEF IInv, RatesKnown, FeeInForce
  <1>11. Copies'
    <2>1. SlotsKept
      BY <1>7 DEF SlotsKept, Busy, Past
    <2> QED
      BY <1>1, <2>1, FormsStay, CopiesKept, NowInt DEF IInv
  <1> QED
    BY <1>8, <1>9, <1>10, <1>11 DEF IInv

-----------------------------------------------------------------------------
(* The insert.                                                             *)

LEMMA RefusedStep ==
  ASSUME IInv, NEW i \in Slots, Insert(i), \E o \in order : o.reference \cap slot[i].reference # {}
  PROVE  IInv'
  <1>1. /\ Replied(i, "edit") /\ slot' = [slot EXCEPT ![i] = Idle]
        /\ UNCHANGED <<now, order, next, policy, owner>>
    BY DEF Insert
  <1>2. Only(i) /\ slot'[i].at = "idle"
    BY <1>1, EndsOne DEF IInv
  <1>3. FormsKept /\ form' \in [Users -> Forms]
    BY <1>1, RepliedForms
  <1>4. Typed' /\ Copies'
    BY <1>1, <1>2, <1>3, GoesOn DEF Busy
  <1> QED
    BY <1>1, <1>2, <1>4, HoldsNothing DEF IInv

\* The number is the counter's, so it is none of the year's; the copy of an order bears no
\* reference, for the index would have refused it.
LEMMA InsertedStep ==
  ASSUME IInv, NEW i \in Slots, Insert(i), ~\E o \in order : o.reference \cap slot[i].reference # {}
  PROVE  IInv'
  <1> DEFINE new == NewOrder(i)
  <1>1. /\ slot[i].at = "insert" /\ Replied(i, "setup") /\ order' = order \cup {new}
        /\ next' = [next EXCEPT ![Year(slot[i].began)] = slot[i].number + 1]
        /\ slot' = [slot EXCEPT ![i] = Idle] /\ UNCHANGED <<now, policy, owner>>
    BY DEF Insert
  <1>2. slot[i] \in Requests /\ Busy(i) /\ Past(i) /\ Holds(i)
    BY <1>1 DEF IInv, Typed, Busy, Past, Holds
  <1>3. PICK y \in Years : y = Year(slot[i].began)
    BY <1>2 DEF Requests, Years
  <1>4. Known(slot[i].entry, slot[i].reference) /\ slot[i].entry \in Entries
    BY <1>2 DEF IInv, Copies, Known
  <1>5. /\ new \in OrderRows /\ new.year = y /\ new.number = slot[i].number /\ new.reference = slot[i].reference
        /\ new.entry = slot[i].entry /\ new.fee = slot[i].fee /\ new.fees = slot[i].fees
        /\ new.warned = slot[i].warned /\ new.overlapped = slot[i].overlapped /\ new.created = now
    BY <1>2, <1>3, <1>4, NowInt DEF NewOrder, OrderRows, Requests
  <1> HIDE DEF new
  <1>6. Only(i) /\ slot'[i].at = "idle"
    BY <1>1, EndsOne DEF IInv
  <1>7. FormsKept /\ form' \in [Users -> Forms]
    BY <1>1, RepliedForms
  <1>8. /\ slot[i].number = next[y] /\ next[y] \in Nat \ {0} /\ next'[y] = next[y] + 1
        /\ next' \in [Years -> Nat \ {0}] /\ \A z \in Years \ {y} : next'[z] = next[z]
    <2>1. slot[i].number = next[y]
      BY <1>2, <1>3 DEF IInv, Numbering
    <2> QED
      BY <1>1, <1>3, <2>1 DEF IInv, Typed
  <1>9. Typed'
    BY <1>1, <1>5, <1>6, <1>7, <1>8 DEF IInv, Typed, Only
  <1>10. Numbering'
    <2>1. IsFiniteSet(order')
      BY <1>1, FS_AddElement DEF IInv, Numbering
    <2>2. ASSUME NEW z \in Years \ {y} PROVE Numbered(z)'
      <3>1. OfYear(z)' = OfYear(z)
        BY <1>1, <1>5, <2>2 DEF OfYear
      <3> QED
        BY <1>8, <3>1 DEF IInv, Numbering, Numbered
    <2>3. Numbered(y)'
      <3>1. {o.number : o \in OfYear(y)} = 1..(next[y] - 1) /\ Cardinality(OfYear(y)) = next[y] - 1
        BY <1>3 DEF IInv, Numbering, Numbered
      <3>2. OfYear(y)' = OfYear(y) \cup {new}
        BY <1>1, <1>5 DEF OfYear
      <3>3. new \notin OfYear(y)
        <4>1. next[y] \notin 1..(next[y] - 1)
          BY <1>8
        <4> QED
          BY <1>5, <1>8, <3>1, <4>1
      <3>4. IsFiniteSet(OfYear(y))
        BY FS_Subset DEF IInv, Numbering, OfYear
      <3>5. Cardinality(OfYear(y)') = next[y]
        <4> DEFINE orders == OfYear(y)
        <4>1. IsFiniteSet(orders) /\ new \notin orders /\ Cardinality(orders) = next[y] - 1
          BY <3>1, <3>3, <3>4
        <4> HIDE DEF orders
        <4>2. Cardinality(orders \cup {new}) = Cardinality(orders) + 1
          BY <4>1, FS_AddElement
        <4>3. OfYear(y)' = orders \cup {new}
          BY <3>2 DEF orders
        <4> QED
          BY <1>8, <4>1, <4>2, <4>3
      <3>6. {o.number : o \in OfYear(y)'} = {o.number : o \in OfYear(y)} \cup {next[y]}
        BY <1>5, <1>8, <3>2
      <3>7. (1..(next[y] - 1)) \cup {next[y]} = 1..next[y] /\ next'[y] - 1 = next[y]
        BY <1>8
      <3> QED
        BY <3>1, <3>5, <3>6, <3>7 DEF Numbered
    <2>4. ASSUME NEW j \in Slots, Holds(j)' PROVE slot'[j].number = next'[Year(slot'[j].began)]
      <3>1. j # i /\ slot'[j] = slot[j] /\ Holds(j)
        BY <1>6, <2>4 DEF Only, Holds
      <3>2. Year(slot[j].began) # y /\ slot[j].number = next[Year(slot[j].began)]
        BY <1>2, <1>3, <3>1 DEF IInv, Numbering
      <3>3. Year(slot[j].began) \in Years
        BY DEF IInv, Typed, Requests, Years
      <3> QED
        BY <1>8, <3>1, <3>2, <3>3
    <2>5. ASSUME NEW j \in Slots, NEW k \in Slots, Holds(j)', Holds(k)', j # k
          PROVE  Year(slot'[j].began) # Year(slot'[k].began)
      <3>1. slot'[j] = slot[j] /\ slot'[k] = slot[k] /\ Holds(j) /\ Holds(k)
        BY <1>6, <2>5 DEF Only, Holds
      <3> QED
        BY <2>5, <3>1 DEF IInv, Numbering
    <2>6. \A z \in Years : Numbered(z)'
      BY <2>2, <2>3
    <2> QED
      BY <2>1, <2>4, <2>5, <2>6 DEF Numbering
  <1>11. RatesKnown'
    <2>1. \A j \in Slots : slot'[j].at # "idle" => slot'[j] = slot[j]
      BY <1>6 DEF Only
    <2>2. \A o \in order' : o.fee \in o.fees
      BY <1>1, <1>5 DEF IInv, RatesKnown, FeeInForce
    <2> QED
      BY <1>1, <2>1, <2>2 DEF IInv, RatesKnown, FeeInForce
  <1>12. Copies'
    <2>1. \A u \in Users : form'[u].at # "wait" => form'[u].request = {}
      BY <1>7 DEF FormsKept
    <2>2. ASSUME NEW j \in Slots, Busy(j)' PROVE j # i /\ slot'[j] = slot[j] /\ Busy(j)
      BY <1>6, <2>2 DEF Only, Busy
    <2>3. ASSUME NEW j \in Slots, Busy(j)' PROVE Known(slot[j].entry, slot[j].reference)'
      <3>1. Known(slot'[j].entry, slot'[j].reference)
        BY <2>2, <2>3 DEF IInv, Copies
      <3> QED
        BY <1>7, <3>1, KnownKept
    <2>4. ASSUME NEW o \in order' PROVE Known(o.entry, o.reference)'
      BY <1>1, <1>4, <1>5, <1>7, KnownKept DEF IInv, Copies
    <2>5. \A j, k \in Slots : SlotTwins(j, k)'
      BY <2>2 DEF IInv, Copies, SlotTwins, Past
    <2>6. ASSUME NEW o \in order', NEW j \in Slots PROVE OrderTwins(o, j)'
      <3> SUFFICES ASSUME Busy(j)', slot'[j].entry = o.entry
                   PROVE  /\ slot'[j].reference = o.reference
                          /\ Past(j)' => slot'[j].warned \/ slot'[j].overlapped \/ o.overlapped
                                          \/ now - o.created > Window
        BY <1>1 DEF OrderTwins
      <3>1. CASE o \in order
        BY <2>2, <3>1 DEF IInv, Copies, OrderTwins, Past
      <3>2. CASE o = new
        <4>1. SlotTwins(i, j) /\ j # i /\ Busy(j) /\ slot'[j] = slot[j]
          BY <2>2 DEF IInv, Copies
        <4> QED
          BY <1>2, <1>5, <3>2, <4>1 DEF SlotTwins, Past
      <3> QED
        BY <1>1, <3>1, <3>2
    <2>7. ASSUME NEW o \in order, o.entry = new.entry
          PROVE  o.reference = {} /\ new.reference = {}
                 /\ (new.warned \/ new.overlapped \/ o.overlapped \/ new.created - o.created > Window)
      <3>1. slot[i].reference = o.reference
            /\ (slot[i].warned \/ slot[i].overlapped \/ o.overlapped \/ now - o.created > Window)
        BY <1>2, <1>5, <2>7 DEF IInv, Copies, OrderTwins
      <3>2. o.reference \cap slot[i].reference = {}
        OBVIOUS
      <3> QED
        BY <1>5, <3>1, <3>2
    <2>8. ASSUME NEW o \in order', NEW p \in order', o # p, o.entry = p.entry
          PROVE  /\ o.reference = {}
                 /\ \/ o.warned \/ p.warned \/ o.overlapped \/ p.overlapped
                    \/ o.created - p.created > Window \/ p.created - o.created > Window
      <3>1. CASE o \in order /\ p \in order
        BY <2>8, <3>1 DEF IInv, Copies, NoSilentDuplicate
      <3>2. CASE o = new /\ p \in order
        BY <2>7, <2>8, <3>2
      <3>3. CASE o \in order /\ p = new
        BY <2>7, <2>8, <3>3
      <3> QED
        BY <1>1, <2>8, <3>1, <3>2, <3>3
    <2>9. NoSilentDuplicate'
      BY <2>8 DEF NoSilentDuplicate
    <2> QED
      BY <2>1, <2>3, <2>4, <2>5, <2>6, <2>9 DEF Copies
  <1> QED
    BY <1>9, <1>10, <1>11, <1>12 DEF IInv

-----------------------------------------------------------------------------
LEMMA NextIInv == IInv /\ [Next]_vars => IInv'
  <1> SUFFICES ASSUME IInv, [Next]_vars PROVE IInv'
    OBVIOUS
  <1>1. ASSUME NEW u \in Users, NEW reference \in {{}} \cup {{r} : r \in References}, Edit(u, reference)
        PROVE  IInv'
    <2>1. reference \in SUBSET References
      OBVIOUS
    <2> QED
      BY <1>1, <2>1, EditStep
  <1>2. ASSUME NEW u \in Users, NEW i \in Slots, SubmitCreate(u, i) PROVE IInv'
    BY <1>2, SubmitStep
  <1>3. ASSUME NEW u \in Users, GiveUp(u) \/ Setup(u) PROVE IInv'
    BY <1>3, GiveUpStep, SetupStep
  <1>4. ASSUME NEW i \in Slots, Warn(i) \/ Begin(i) \/ Count(i) \/ ReadFee(i) \/ Insert(i) \/ Fail(i)
        PROVE  IInv'
    BY <1>4, WarnStep, BeginStep, CountStep, ReadFeeStep, RefusedStep, InsertedStep, FailStep
  <1>5. ASSUME NEW fee \in Fees, FeeSnapshot(fee) PROVE IInv'
    BY <1>5, SnapshotStep
  <1>6. ASSUME NEW w \in owner, FeeCommit(w) PROVE IInv'
    BY <1>6, CommitStep
  <1>7. CASE Tick
    BY <1>7, TickStep
  <1>8. CASE UNCHANGED vars
    <2>1. /\ UNCHANGED <<now, form, slot, order, next, policy, owner>>
      BY <1>8 DEF vars
    <2>2. Typed' /\ (\A w \in owner' : w.from <= now') /\ now' >= now
      BY <2>1, NowInt DEF IInv, Typed, RatesKnown
    <2> QED
      BY <2>1, <2>2, FormsStay, FormsOnly
  <1> QED
    BY <1>1, <1>2, <1>3, <1>4, <1>5, <1>6, <1>7, <1>8 DEF Next

\* The inductive invariant holds in every reachable state.
THEOREM EntryInvariance == Spec => []IInv
  BY InitIInv, NextIInv, PTL DEF Spec

\* createOrder numbers the orders of a year from one, without a gap or a repetition.
THEOREM NumbersGapFree == Spec => []ReferencesGapFree
  <1>1. IInv => ReferencesGapFree
    BY DEF IInv, Typed, Numbering, Numbered, OfYear, ReferencesGapFree
  <1> QED
    BY <1>1, EntryInvariance, PTL

\* An order keeps a rate that was active during its transaction, or the fallback if the
\* owner changed the rate meanwhile.
THEOREM FeesInForce == Spec => []FeeInForce
  <1>1. IInv => FeeInForce
    BY DEF IInv, RatesKnown
  <1> QED
    BY <1>1, EntryInvariance, PTL

\* A form submitted again makes a second order only without a marketplace reference, and
\* then with a warning, or while the first request is on its way, or after the window.
THEOREM DuplicatesAreSeen == Spec => []NoSilentDuplicate
  <1>1. IInv => NoSilentDuplicate
    BY DEF IInv, Copies
  <1> QED
    BY <1>1, EntryInvariance, PTL
=============================================================================
