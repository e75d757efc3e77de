---------------------------- MODULE ShiftsProofs -----------------------------
(***************************************************************************)
(* Proofs about Shifts for any number of requests, shifts and events: what  *)
(* an undisturbed event repairs, how many shifts are open, who opens a     *)
(* closed one again, and how near the minutes are.                         *)
(***************************************************************************)
EXTENDS Shifts, FiniteSetTheorems, WellFoundedInduction, TLAPS

Types == Worker \cup Corrections \cup {"CLOCK_IN", "none"}
Entries == [type : Types, time : Nat, correction : BOOLEAN]
Totals == {NoTotals} \cup {Split(events) : events \in Seq(Entries)}
ShiftRows == [status : {"none", "OPEN", "CLOSED"}, events : Seq(Entries), totals : Totals]
Requests == [at : {"idle", "create", "add", "update"}, shift : SUBSET Rows, seen : Seq(Entries),
             type : Types, correction : BOOLEAN, open : BOOLEAN, crossed : BOOLEAN]

TypeOK ==
  /\ now \in Nat /\ overlaps \in Nat /\ reopened \in Nat
  /\ shift \in [Rows -> ShiftRows] /\ slot \in [Slots -> Requests]

\* A request that is past its read is about one shift that exists; one about to write the
\* totals saw its own event last.
SlotOK(i) ==
  /\ slot[i].at \in {"idle", "create"} => slot[i].shift = {}
  /\ slot[i].at \in {"add", "update"} =>
       /\ \E s \in Rows : slot[i].shift = {s} /\ shift[s].status # "none"
       /\ slot[i].correction \/ slot[i].open
  /\ slot[i].at = "update" =>
       /\ slot[i].seen # <<>>
       /\ LET last == slot[i].seen[Len(slot[i].seen)]
          IN last.type = slot[i].type /\ last.correction = slot[i].correction

\* Nobody else is at the shift of a request that was not crossed, and it has seen it all.
Alone(i) ==
  ~slot[i].crossed =>
    \A s \in slot[i].shift : /\ \A j \in Slots : s \in slot[j].shift => j = i
                             /\ slot[i].seen = shift[s].events

Repaired(s) ==
  /\ shift[s].totals = Split(shift[s].events)
  /\ shift[s].status = "CLOSED" <=>
       LET last == Last(shift[s].events) IN last.type = "CLOCK_OUT" /\ ~last.correction

\* A clean shift is right, and nobody is about to write older totals over it.
CleanOK(s) ==
  s \in clean => s \in Rows /\ Repaired(s) /\ \A i \in Slots : s \in slot[i].shift => slot[i].at # "update"

\* Who is about to create a shift counts as one that has.
OpenOnes ==
  \/ overlaps = Cardinality(Rows)
  \/ Cardinality(Open) + Cardinality(At("create")) <= 1 + overlaps + reopened

SlotsOK == \A i \in Slots : SlotOK(i) /\ Alone(i)
CleanAll == \A s \in clean : CleanOK(s)
IInv == TypeOK /\ SlotsOK /\ CleanAll /\ OpenOnes

-----------------------------------------------------------------------------
(* The totals of a shift, one event at a time.                             *)

\* FoldLeft is a recursive function on sets of positions, and what is one is a fact of each
\* sequence: there is one for the events of a shift because there is one for fewer events.
Start == [connected |-> 0, breaks |-> 0, gaps |-> 0, state |-> "off", last |-> -1]
Acc(events) == FoldLeft(Added, Start, events)
Accumulates(it, events) ==
  it = [s \in SUBSET DOMAIN events |->
          IF s = {} THEN Start ELSE Added(it[s \ {Max(s)}], events[Max(s)])]
Determined(events) ==
  \E it : Accumulates(it, events) /\ \A f : Accumulates(f, events) => f = it

LEMMA AccIs ==
  ASSUME NEW events, NEW it, Accumulates(it, events), \A f : Accumulates(f, events) => f = it
  PROVE  Acc(events) = it[DOMAIN events]
  <1> DEFINE chosen == CHOOSE f : f = [s \in SUBSET DOMAIN events |->
                         IF s = {} THEN Start ELSE Added(f[s \ {Max(s)}], events[Max(s)])]
  <1>1. chosen = [s \in SUBSET DOMAIN events |->
                    IF s = {} THEN Start ELSE Added(chosen[s \ {Max(s)}], events[Max(s)])]
    BY DEF Accumulates
  <1>2. Accumulates(chosen, events)
    BY <1>1 DEF Accumulates
  <1>3. chosen = it
    BY <1>2
  <1> QED
    BY <1>3 DEF Acc, FoldLeft, MapThenFoldSet

\* A set of positions has a last one.
LEMMA Greatest ==
  ASSUME NEW n \in Nat, NEW s \in SUBSET (1..n), s # {}
  PROVE  \E x \in s : \A y \in s : y <= x
  <1> DEFINE T == {n - y : y \in s}
  <1>1. T \subseteq Nat /\ T # {}
    OBVIOUS
  <1>2. PICK t \in T : \A u \in T : ~ (<<u, t>> \in OpToRel(<, Nat))
    BY <1>1, NatLessThanWellFounded, WFMin
  <1>3. \A u \in T : ~(u < t)
    BY <1>1, <1>2 DEF OpToRel
  <1>4. PICK x \in s : t = n - x
    OBVIOUS
  <1>5. ASSUME NEW y \in s PROVE y <= x
    <2>1. x \in Int /\ y \in Int /\ n - y \in T
      OBVIOUS
    <2> HIDE DEF T
    <2>2. ~(n - y < n - x)
      BY <1>3, <1>4, <2>1
    <2> QED
      BY <2>1, <2>2
  <1> QED
    BY <1>5

LEMMA MaxIs ==
  /\ \A n \in Nat : \A s \in SUBSET (1..n) : s # {} => Max(s) \in s /\ \A y \in s : y <= Max(s)
  /\ \A n \in Nat : \A s \in SUBSET (1..n + 1) : n + 1 \in s => Max(s) = n + 1
  <1>1. ASSUME NEW n \in Nat, NEW s \in SUBSET (1..n), s # {}
        PROVE  Max(s) \in s /\ \A y \in s : y <= Max(s)
    <2>1. PICK x \in s : \A y \in s : x >= y
      <3>1. PICK x \in s : \A y \in s : y <= x
        BY <1>1, Greatest
      <3>2. \A y \in s : y \in Int
        OBVIOUS
      <3> QED
        BY <3>1, <3>2
    <2>2. Max(s) \in s /\ \A y \in s : Max(s) >= y
      BY <2>1 DEF Max
    <2>3. \A y \in s : y \in Int
      OBVIOUS
    <2> QED
      BY <2>2, <2>3
  <1>2. ASSUME NEW n \in Nat, NEW s \in SUBSET (1..n + 1), n + 1 \in s
        PROVE  Max(s) = n + 1
    <2>1. PICK m \in Nat : m = n + 1
      OBVIOUS
    <2>2. s \in SUBSET (1..m) /\ s # {} /\ m \in s
      BY <1>2, <2>1
    <2>3. Max(s) \in s /\ m <= Max(s)
      BY <1>1, <2>2
    <2>4. PICK x \in 1..m : x = Max(s)
      BY <2>2, <2>3
    <2> QED
      BY <2>1, <2>3, <2>4
  <1> QED
    BY <1>1, <1>2

LEMMA AppendFolds ==
  ASSUME NEW events \in Seq(Entries), NEW e \in Entries, Determined(events)
  PROVE  Determined(Append(events, e)) /\ Acc(Append(events, e)) = Added(Acc(events), e)
  <1>1. PICK n \in Nat : n = Len(events)
    OBVIOUS
  <1>2. PICK more : more = Append(events, e)
    OBVIOUS
  <1>3. /\ DOMAIN events = 1..n /\ DOMAIN more = 1..n + 1 /\ more[n + 1] = e
        /\ \A k \in 1..n : more[k] = events[k]
    BY <1>1, <1>2
  <1>4. PICK it : Accumulates(it, events) /\ \A f : Accumulates(f, events) => f = it
    BY DEF Determined
  <1>5. /\ it = [s \in SUBSET (1..n) |-> it[s]]
        /\ it[{}] = Start
        /\ \A s \in SUBSET (1..n) : s # {} => it[s] = Added(it[s \ {Max(s)}], events[Max(s)])
    BY <1>3, <1>4 DEF Accumulates
  <1> DEFINE next == [s \in SUBSET (1..n + 1) |->
                        IF n + 1 \in s THEN Added(it[s \ {n + 1}], e) ELSE it[s]]
             Step(f, s) == IF s = {} THEN Start ELSE Added(f[s \ {Max(s)}], more[Max(s)])
  <1>6. \A s \in SUBSET (1..n + 1) : (n + 1 \in s => s \ {n + 1} \in SUBSET (1..n))
                                   /\ (n + 1 \notin s => s \in SUBSET (1..n))
    OBVIOUS
  <1>7. ASSUME NEW s \in SUBSET (1..n + 1) PROVE next[s] = Step(next, s)
    <2>1. CASE n + 1 \in s
      <3>1. Max(s) = n + 1
        BY <2>1, MaxIs
      <3>2. s \ {n + 1} \in SUBSET (1..n + 1) /\ n + 1 \notin s \ {n + 1}
        OBVIOUS
      <3>3. next[s \ {n + 1}] = it[s \ {n + 1}]
        BY <3>2
      <3> QED
        BY <1>3, <2>1, <3>1, <3>3
    <2>2. CASE n + 1 \notin s /\ s # {}
      <3>1. s \in SUBSET (1..n)
        BY <1>6, <2>2
      <3>2. PICK m \in 1..n : m = Max(s)
        BY <2>2, <3>1, MaxIs
      <3>3. it[s] = Added(it[s \ {m}], events[m])
        BY <1>5, <2>2, <3>1, <3>2
      <3>4. next[s \ {m}] = it[s \ {m}] /\ next[s] = it[s]
        BY <2>2
      <3> QED
        BY <1>3, <2>2, <3>2, <3>3, <3>4
    <2>3. CASE s = {}
      BY <1>5, <2>3
    <2> QED
      BY <2>1, <2>2, <2>3
  <1>8. Accumulates(next, more)
    <2>1. next = [s \in SUBSET (1..n + 1) |-> next[s]]
      OBVIOUS
    <2> HIDE DEF next
    <2>2. next = [s \in SUBSET (1..n + 1) |-> Step(next, s)]
      BY <1>7, <2>1
    <2> QED
      BY <1>3, <2>2 DEF Accumulates
  <1>9. ASSUME NEW f, Accumulates(f, more) PROVE f = next
    <2>1. \A s \in SUBSET (1..n + 1) : f[s] = Step(f, s)
      BY <1>3, <1>9 DEF Accumulates
    <2>2. f = [s \in SUBSET (1..n + 1) |-> f[s]]
      BY <1>3, <1>9 DEF Accumulates
    <2> DEFINE front == [s \in SUBSET (1..n) |-> f[s]]
    <2>3. ASSUME NEW s \in SUBSET (1..n), s # {}
          PROVE  front[s] = Added(front[s \ {Max(s)}], events[Max(s)])
      <3>1. PICK m \in 1..n : m = Max(s)
        BY <2>3, MaxIs
      <3>2. s \in SUBSET (1..n + 1)
        OBVIOUS
      <3>3. f[s] = Added(f[s \ {m}], more[m])
        BY <2>1, <2>3, <3>1, <3>2
      <3>4. front[s \ {m}] = f[s \ {m}] /\ front[s] = f[s]
        OBVIOUS
      <3> QED
        BY <1>3, <3>1, <3>3, <3>4
    <2>4. front[{}] = Start
      <3>1. {} \in SUBSET (1..n + 1) /\ {} \in SUBSET (1..n)
        OBVIOUS
      <3> QED
        BY <2>1, <3>1
    <2>5. front = it
      <3>1. front = [s \in SUBSET (1..n) |-> front[s]]
        OBVIOUS
      <3> HIDE DEF front
      <3>2. front = [s \in SUBSET (1..n) |->
                       IF s = {} THEN Start ELSE Added(front[s \ {Max(s)}], events[Max(s)])]
        BY <2>3, <2>4, <3>1
      <3> QED
        BY <1>3, <1>4, <3>2 DEF Accumulates
    <2>6. ASSUME NEW s \in SUBSET (1..n + 1) PROVE f[s] = next[s]
      <3>1. CASE n + 1 \in s
        <4>1. Max(s) = n + 1 /\ s # {}
          BY <3>1, MaxIs
        <4>2. f[s] = Added(f[s \ {n + 1}], e)
          BY <1>3, <2>1, <4>1
        <4>3. f[s \ {n + 1}] = front[s \ {n + 1}]
          BY <1>6, <3>1
        <4> QED
          BY <2>5, <3>1, <4>2, <4>3
      <3>2. CASE n + 1 \notin s
        <4>1. s \in SUBSET (1..n)
          BY <1>6, <3>2
        <4>2. front[s] = f[s]
          BY <4>1
        <4> QED
          BY <2>5, <3>2, <4>2
      <3> QED
        BY <3>1, <3>2
    <2> QED
      BY <2>2, <2>6
  <1>10. Determined(more)
    BY <1>8, <1>9 DEF Determined
  <1>11. Acc(more) = next[1..n + 1]
    <2> HIDE DEF next
    <2> QED
      BY <1>3, <1>8, <1>9, AccIs
  <1>12. Acc(events) = it[1..n]
    BY <1>3, <1>4, AccIs
  <1>13. next[1..n + 1] = Added(it[1..n], e)
    <2>1. 1..n + 1 \in SUBSET (1..n + 1) /\ n + 1 \in 1..n + 1 /\ (1..n + 1) \ {n + 1} = 1..n
      OBVIOUS
    <2> QED
      BY <2>1
  <1> QED
    BY <1>2, <1>10, <1>11, <1>12, <1>13

LEMMA EmptyFolds == Determined(<<>>) /\ Acc(<<>>) = Start
  <1> DEFINE it == [s \in SUBSET {} |-> Start]
  <1>1. DOMAIN <<>> = {} /\ it = [s \in SUBSET {} |-> it[s]] /\ \A s \in SUBSET {} : s = {}
    OBVIOUS
  <1>2. Accumulates(it, <<>>)
    BY <1>1 DEF Accumulates
  <1>3. ASSUME NEW f, Accumulates(f, <<>>) PROVE f = it
    BY <1>1, <1>3 DEF Accumulates
  <1>4. it[{}] = Start
    OBVIOUS
  <1> HIDE DEF it
  <1> QED
    BY <1>1, <1>2, <1>3, <1>4, AccIs DEF Determined

LEMMA FirstFolds ==
  ASSUME NEW e \in Entries
  PROVE  Determined(<<e>>) /\ Acc(<<e>>) = Added(Start, e)
  <1>1. PICK one : one = <<e>>
    OBVIOUS
  <1>2. one = Append(<<>>, e) /\ <<>> \in Seq(Entries)
    BY <1>1
  <1> QED
    BY <1>1, <1>2, EmptyFolds, AppendFolds

\* A clock-in alone counts no minutes: the totals a shift is created with are right.
LEMMA FirstSplit ==
  ASSUME NEW e \in Entries
  PROVE  Split(<<e>>) = NoTotals
  <1>1. Start.last < 0 /\ Start.connected = 0 /\ Start.breaks = 0 /\ Start.gaps = 0 /\ Start.state = "off"
    BY DEF Start
  <1>2. Acc(<<e>>) = [connected |-> 0, breaks |-> 0, gaps |-> 0, state |-> StateAfter("off", e.type),
                      last |-> e.time]
    BY <1>1, FirstFolds DEF Added
  <1>3. Split(<<e>>) = [connected |-> Acc(<<e>>).connected, breaks |-> Acc(<<e>>).breaks,
                        gaps |-> Acc(<<e>>).gaps]
    BY DEF Split, Acc, Start
  <1> QED
    BY <1>2, <1>3 DEF NoTotals

-----------------------------------------------------------------------------
LEMMA Counts ==
  /\ \A S \in SUBSET Slots : IsFiniteSet(S) /\ Cardinality(S) \in Nat
  /\ \A S \in SUBSET Rows : IsFiniteSet(S) /\ Cardinality(S) \in Nat /\ Cardinality(S) <= Cardinality(Rows)
  /\ Cardinality(Rows) \in Nat
  /\ \A S \in SUBSET Slots : \A T \in SUBSET S : Cardinality(T) <= Cardinality(S)
  /\ \A S \in SUBSET Rows : \A T \in SUBSET S : Cardinality(T) <= Cardinality(S)
  <1>1. \A S \in SUBSET Slots : IsFiniteSet(S)
    BY SetsAssumption, FS_Subset
  <1>2. \A S \in SUBSET Rows : IsFiniteSet(S) /\ Cardinality(S) <= Cardinality(Rows)
    BY SetsAssumption, FS_Subset
  <1> QED
    BY <1>1, <1>2, SetsAssumption, FS_Subset, FS_CardinalityType

LEMMA Subsets == /\ Open \in SUBSET Rows /\ Open' \in SUBSET Rows
                 /\ At("create") \in SUBSET Slots /\ At("create")' \in SUBSET Slots
  BY DEF Open, At

LEMMA IdleTyped == Idle \in Requests
  BY DEF Idle, Requests, Types

LEMMA InitIInv == Init => IInv
  <1> SUFFICES ASSUME Init PROVE IInv
    OBVIOUS
  <1>1. NoShift \in ShiftRows
    BY DEF NoShift, ShiftRows, Totals
  <1>2. TypeOK
    BY <1>1, IdleTyped DEF Init, TypeOK
  <1>3. SlotsOK
    BY DEF Init, SlotsOK, SlotOK, Alone, Idle
  <1>4. CleanAll
    BY DEF Init, CleanAll
  <1>5. Open = {} /\ At("create") = {}
    BY DEF Init, Open, At, NoShift, Idle
  <1> QED
    BY <1>2, <1>3, <1>4, <1>5, FS_EmptySet DEF Init, IInv, OpenOnes

-----------------------------------------------------------------------------
\* A step that opens no shift and starts no clock-in keeps the count.
LEMMA NoneOpened ==
  ASSUME IInv, Open' \subseteq Open, At("create")' \subseteq At("create"), UNCHANGED overlaps,
         reopened' \in Nat, reopened' >= reopened
  PROVE  OpenOnes'
  <1>1. /\ Cardinality(Open') <= Cardinality(Open) /\ Cardinality(Open') \in Nat /\ Cardinality(Open) \in Nat
        /\ Cardinality(At("create")') <= Cardinality(At("create"))
        /\ Cardinality(At("create")') \in Nat /\ Cardinality(At("create")) \in Nat
    BY Counts, Subsets
  <1> QED
    BY <1>1 DEF IInv, TypeOK, OpenOnes

LEMMA ClockInReadStep ==
  ASSUME IInv, NEW i \in Slots, ClockInRead(i)
  PROVE  IInv'
  <1>1. /\ slot[i].at = "idle" /\ Open = {} /\ overlaps' = Overlaps /\ UNCHANGED <<now, shift, clean, reopened>>
        /\ slot' = [slot EXCEPT ![i].at = "create"]
    BY DEF ClockInRead
  <1>2. slot \in [Slots -> Requests] /\ slot[i] \in Requests
    BY DEF IInv, TypeOK
  <1>3. /\ slot' \in [Slots -> Requests] /\ slot'[i] = [slot[i] EXCEPT !.at = "create"]
        /\ \A j \in Slots \ {i} : slot'[j] = slot[j]
    BY <1>1, <1>2 DEF Requests
  <1>4. /\ slot'[i].at = "create" /\ slot'[i].shift = {}
    BY <1>1, <1>2, <1>3 DEF IInv, SlotsOK, SlotOK, Requests
  <1>5. Cardinality(Rows) \in Nat /\ Overlaps \in Nat
    BY Counts DEF IInv, TypeOK, Overlaps
  <1>6. TypeOK'
    BY <1>1, <1>3, <1>5 DEF IInv, TypeOK
  <1>7. SlotsOK'
    <2>1. ASSUME NEW j \in Slots PROVE SlotOK(j)'
      BY <1>1, <1>3, <1>4 DEF IInv, SlotsOK, SlotOK
    <2>2. ASSUME NEW j \in Slots PROVE Alone(j)'
      BY <1>1, <1>3, <1>4 DEF IInv, SlotsOK, Alone
    <2> QED
      BY <2>1, <2>2 DEF SlotsOK
  <1>8. CleanAll'
    BY <1>1, <1>3, <1>4 DEF IInv, CleanAll, CleanOK, Repaired
  <1>9. OpenOnes'
    <2>1. Cardinality(Open') = 0
      BY <1>1, FS_EmptySet DEF Open
    <2>2. At("create")' = At("create") \cup {i} /\ i \notin At("create")
      BY <1>1, <1>3, <1>4 DEF At
    <2>3. Cardinality(At("create")') = Cardinality(At("create")) + 1 /\ Cardinality(At("create")) \in Nat
      BY <2>2, Subsets, Counts, FS_AddElement
    <2>4. CASE At("create") = {}
      BY <1>1, <2>1, <2>3, <2>4, FS_EmptySet DEF IInv, TypeOK, OpenOnes, Overlaps
    <2>5. CASE At("create") # {} /\ overlaps # Cardinality(Rows)
      <3>1. overlaps' = overlaps + 1 /\ reopened' = reopened /\ Cardinality(Open) = 0
        BY <1>1, <2>5, FS_EmptySet DEF Overlaps
      <3> QED
        BY <2>1, <2>3, <2>5, <3>1 DEF IInv, TypeOK, OpenOnes
    <2>6. CASE overlaps = Cardinality(Rows)
      BY <1>1, <2>6 DEF OpenOnes, Overlaps
    <2> QED
      BY <2>4, <2>5, <2>6
  <1> QED
    BY <1>6, <1>7, <1>8, <1>9 DEF IInv

LEMMA CrashStep ==
  ASSUME IInv, NEW i \in Slots, Crash(i)
  PROVE  IInv'
  <1>1. UNCHANGED <<now, shift, clean, overlaps, reopened>> /\ slot' = [slot EXCEPT ![i] = Idle]
    BY DEF Crash
  <1>2. slot' \in [Slots -> Requests] /\ slot'[i] = Idle /\ \A j \in Slots \ {i} : slot'[j] = slot[j]
    BY <1>1, IdleTyped DEF IInv, TypeOK
  <1>3. TypeOK'
    BY <1>1, <1>2 DEF IInv, TypeOK
  <1>4. SlotsOK'
    <2>1. ASSUME NEW j \in Slots PROVE SlotOK(j)'
      BY <1>1, <1>2 DEF IInv, SlotsOK, SlotOK, Idle
    <2>2. ASSUME NEW j \in Slots PROVE Alone(j)'
      BY <1>1, <1>2 DEF IInv, SlotsOK, Alone, Idle
    <2> QED
      BY <2>1, <2>2 DEF SlotsOK
  <1>5. CleanAll'
    BY <1>1, <1>2 DEF IInv, CleanAll, CleanOK, Repaired, Idle
  <1>6. Open' \subseteq Open /\ At("create")' \subseteq At("create")
    BY <1>1, <1>2 DEF Open, At, Idle
  <1> QED
    BY <1>1, <1>3, <1>4, <1>5, <1>6, NoneOpened DEF IInv, TypeOK

\* Nobody is at a shift that does not exist yet.
LEMMA CreateStep ==
  ASSUME IInv, NEW i \in Slots, NEW s \in Rows, ClockInCreate(i, s)
  PROVE  IInv'
  <1> DEFINE first == [type |-> "CLOCK_IN", time |-> now, correction |-> FALSE]
             row == [status |-> "OPEN", totals |-> NoTotals, events |-> <<first>>]
  <1>1. /\ slot[i].at = "create" /\ shift[s].status = "none" /\ UNCHANGED <<now, overlaps, reopened>>
        /\ shift' = [shift EXCEPT ![s] = row] /\ slot' = [slot EXCEPT ![i] = Idle] /\ clean' = clean \cup {s}
    BY DEF ClockInCreate
  <1>2. first \in Entries /\ <<first>> \in Seq(Entries) /\ Last(<<first>>) = first
    BY DEF IInv, TypeOK, Entries, Types, Last
  <1>3. row \in ShiftRows
    BY <1>2 DEF ShiftRows, Totals
  <1>4. row.status = "OPEN" /\ row.totals = Split(row.events) /\ row.events = <<first>>
    <2>1. Split(<<first>>) = NoTotals
      BY <1>2, FirstSplit
    <2> QED
      BY <2>1
  <1>5. first.type # "CLOCK_OUT"
    OBVIOUS
  <1> HIDE DEF row
  <1>6. slot' \in [Slots -> Requests] /\ slot'[i] = Idle /\ \A j \in Slots \ {i} : slot'[j] = slot[j]
    BY <1>1, IdleTyped DEF IInv, TypeOK
  <1>7. shift' \in [Rows -> ShiftRows] /\ shift'[s] = row /\ \A r \in Rows \ {s} : shift'[r] = shift[r]
    BY <1>1, <1>3 DEF IInv, TypeOK
  <1>8. TypeOK'
    BY <1>1, <1>6, <1>7 DEF IInv, TypeOK
  <1>9. \A j \in Slots : s \notin slot[j].shift /\ s \notin slot'[j].shift
    BY <1>1, <1>6 DEF IInv, TypeOK, Requests, SlotsOK, SlotOK, Idle
  <1>10. SlotsOK'
    <2>1. ASSUME NEW j \in Slots PROVE SlotOK(j)'
      BY <1>6, <1>7, <1>9 DEF IInv, SlotsOK, SlotOK, Idle
    <2>2. ASSUME NEW j \in Slots PROVE Alone(j)'
      <3>1. slot'[j].shift \subseteq Rows \ {s}
        BY <1>6, <1>9 DEF Requests
      <3> QED
        BY <1>6, <1>7, <3>1 DEF IInv, SlotsOK, Alone, Idle
    <2> QED
      BY <2>1, <2>2 DEF SlotsOK
  <1>11. CleanAll'
    <2>1. CleanOK(s)'
      BY <1>2, <1>4, <1>5, <1>7, <1>9 DEF CleanOK, Repaired
    <2>2. ASSUME NEW r \in clean \ {s} PROVE CleanOK(r)'
      BY <1>1, <1>6, <1>7 DEF IInv, CleanAll, CleanOK, Repaired, Idle
    <2> QED
      BY <1>1, <2>1, <2>2 DEF CleanAll
  <1>12. OpenOnes'
    <2>1. Open' = Open \cup {s} /\ s \notin Open
      BY <1>1, <1>4, <1>7 DEF Open
    <2>2. At("create")' = At("create") \ {i} /\ i \in At("create")
      BY <1>1, <1>6 DEF At, Idle
    <2>3. Cardinality(Open') = Cardinality(Open) + 1 /\ Cardinality(Open) \in Nat
      BY <2>1, Subsets, Counts, FS_AddElement
    <2>4. Cardinality(At("create")') = Cardinality(At("create")) - 1 /\ Cardinality(At("create")) \in Nat
      BY <2>2, Subsets, Counts, FS_RemoveElement
    <2> QED
      BY <1>1, <2>3, <2>4 DEF IInv, TypeOK, OpenOnes
  <1> QED
    BY <1>8, <1>10, <1>11, <1>12 DEF IInv

-----------------------------------------------------------------------------
\* A request that reads while nobody is at the shift is alone there; any other one marks
\* those it meets.
LEMMA ReadStep ==
  ASSUME IInv, NEW i \in Slots, NEW s \in Rows, NEW type \in Types, NEW correction \in BOOLEAN,
         Read(i, s, type, correction), shift[s].status # "none",
         correction \/ shift[s].status = "OPEN"
  PROVE  IInv'
  <1> DEFINE new == [at |-> "add", shift |-> {s}, seen |-> shift[s].events, type |-> type,
                     correction |-> correction, open |-> shift[s].status = "OPEN",
                     crossed |-> On(s) # {}]
  <1>1. /\ slot[i].at = "idle" /\ UNCHANGED <<now, shift, clean, overlaps, reopened>>
        /\ slot' = [j \in Slots |-> IF j = i THEN new
                                    ELSE IF j \in On(s) THEN [slot[j] EXCEPT !.crossed = TRUE] ELSE slot[j]]
    BY DEF Read
  <1>2. new \in Requests /\ new.at = "add" /\ new.shift = {s} /\ new.seen = shift[s].events
        /\ (new.correction \/ new.open) /\ (~new.crossed => On(s) = {})
    BY DEF IInv, TypeOK, ShiftRows, Requests
  <1> HIDE DEF new
  <1>3. slot'[i] = new
    BY <1>1
  <1>4. ASSUME NEW j \in Slots \ {i}
        PROVE  /\ slot'[j] \in Requests
               /\ slot'[j].at = slot[j].at /\ slot'[j].shift = slot[j].shift /\ slot'[j].seen = slot[j].seen
               /\ slot'[j].type = slot[j].type /\ slot'[j].correction = slot[j].correction
               /\ slot'[j].open = slot[j].open
               /\ ~slot'[j].crossed => ~slot[j].crossed /\ s \notin slot[j].shift
    <2>1. slot[j] \in Requests
      BY DEF IInv, TypeOK
    <2>2. slot'[j] = IF j \in On(s) THEN [slot[j] EXCEPT !.crossed = TRUE] ELSE slot[j]
      BY <1>1
    <2>3. j \in On(s) <=> s \in slot[j].shift
      BY DEF On
    <2> QED
      BY <2>1, <2>2, <2>3 DEF Requests
  <1>5. slot[i].shift = {}
    BY <1>1 DEF IInv, SlotsOK, SlotOK
  <1>6. slot' \in [Slots -> Requests]
    <2>1. \A j \in Slots : slot'[j] \in Requests
      BY <1>2, <1>3, <1>4
    <2> QED
      BY <1>1, <2>1
  <1>7. TypeOK'
    BY <1>1, <1>6 DEF IInv, TypeOK
  <1>8. ASSUME NEW j \in Slots PROVE SlotOK(j)'
    <2>1. CASE j = i
      BY <1>1, <1>2, <1>3, <2>1 DEF SlotOK
    <2>2. CASE j # i
      BY <1>1, <1>4, <2>2 DEF IInv, SlotsOK, SlotOK
    <2> QED
      BY <2>1, <2>2
  <1>9. ASSUME NEW j \in Slots PROVE Alone(j)'
    <2>1. CASE j = i
      <3> SUFFICES ASSUME On(s) = {} PROVE \A k \in Slots \ {i} : s \notin slot'[k].shift
        BY <1>1, <1>2, <1>3, <2>1 DEF Alone
      <3> QED
        BY <1>4 DEF On
    <2>2. CASE j # i
      <3> SUFFICES ASSUME ~slot'[j].crossed, NEW r \in slot'[j].shift
                   PROVE  /\ \A k \in Slots : r \in slot'[k].shift => k = j
                          /\ slot'[j].seen = shift'[r].events
        BY DEF Alone
      <3>1. ~slot[j].crossed /\ s \notin slot[j].shift /\ r \in slot[j].shift /\ slot'[j].seen = slot[j].seen
        BY <1>4, <2>2
      <3>2. /\ \A k \in Slots : r \in slot[k].shift => k = j
            /\ slot[j].seen = shift[r].events
        BY <3>1 DEF IInv, SlotsOK, Alone
      <3> QED
        BY <1>1, <1>2, <1>3, <1>4, <3>1, <3>2
    <2> QED
      BY <2>1, <2>2
  <1>10. CleanAll'
    <2> SUFFICES ASSUME NEW r \in clean PROVE CleanOK(r)'
      BY <1>1 DEF CleanAll
    <2>1. /\ r \in Rows /\ Repaired(r) /\ \A j \in Slots : r \in slot[j].shift => slot[j].at # "update"
      BY DEF IInv, CleanAll, CleanOK
    <2>2. ASSUME NEW j \in Slots, r \in slot'[j].shift PROVE slot'[j].at # "update"
      BY <1>2, <1>3, <1>4, <2>1, <2>2
    <2> QED
      BY <1>1, <2>1, <2>2 DEF CleanOK, Repaired
  <1>11. Open' \subseteq Open /\ At("create")' \subseteq At("create")
    BY <1>1, <1>2, <1>3, <1>4 DEF Open, At
  <1> QED
    BY <1>1, <1>7, <1>8, <1>9, <1>10, <1>11, NoneOpened DEF IInv, TypeOK, SlotsOK

LEMMA AddStep ==
  ASSUME IInv, NEW i \in Slots, EventAdd(i)
  PROVE  IInv'
  <1> DEFINE event == [type |-> slot[i].type, time |-> now, correction |-> slot[i].correction]
  <1>1. PICK s \in slot[i].shift :
          /\ shift' = [shift EXCEPT ![s].events = Append(@, event)]
          /\ slot' = [slot EXCEPT ![i].at = "update", ![i].seen = Append(@, event)]
          /\ clean' = clean \ {s}
    BY DEF EventAdd
  <1>2. slot[i].at = "add" /\ UNCHANGED <<now, overlaps, reopened>>
    BY DEF EventAdd
  <1>3. /\ slot[i] \in Requests /\ s \in Rows /\ shift[s] \in ShiftRows /\ slot[i].shift = {s}
        /\ shift[s].status # "none"
    BY <1>2 DEF IInv, TypeOK, SlotsOK, SlotOK, Requests
  <1>4. event \in Entries /\ event.type = slot[i].type /\ event.correction = slot[i].correction
    BY <1>3 DEF IInv, TypeOK, Entries, Requests
  <1> HIDE DEF event
  <1> DEFINE longer == Append(slot[i].seen, event)
             new == [slot[i] EXCEPT !.at = "update", !.seen = longer]
             row == [shift[s] EXCEPT !.events = Append(shift[s].events, event)]
  <1>5. /\ shift'[s] = row /\ \A r \in Rows \ {s} : shift'[r] = shift[r]
        /\ slot'[i] = new /\ \A j \in Slots \ {i} : slot'[j] = slot[j]
    BY <1>1, <1>3 DEF IInv, TypeOK
  <1>6. /\ row \in ShiftRows /\ row.status = shift[s].status /\ row.totals = shift[s].totals
        /\ row.events = Append(shift[s].events, event)
    <2>1. shift[s].events \in Seq(Entries)
      BY <1>3 DEF ShiftRows
    <2>2. Append(shift[s].events, event) \in Seq(Entries)
      BY <1>4, <2>1
    <2>3. PICK all \in Seq(Entries) : all = Append(shift[s].events, event)
      BY <2>2, Zenon
    <2>4. row = [shift[s] EXCEPT !.events = all]
      BY <2>3
    <2> HIDE DEF row
    <2> QED
      BY <1>3, <2>3, <2>4 DEF ShiftRows
  <1>7. /\ new \in Requests /\ new.at = "update" /\ new.shift = {s} /\ new.seen = longer
        /\ new.type = slot[i].type /\ new.correction = slot[i].correction /\ new.open = slot[i].open
        /\ new.crossed = slot[i].crossed
    <2>1. longer \in Seq(Entries)
      BY <1>3, <1>4 DEF Requests
    <2> HIDE DEF longer
    <2> QED
      BY <1>3, <2>1 DEF Requests
  <1>8. longer # <<>> /\ longer[Len(longer)] = event
    <2>1. slot[i].seen \in Seq(Entries)
      BY <1>3 DEF Requests
    <2> QED
      BY <1>4, <2>1
  <1> HIDE DEF new, row
  <1>9. TypeOK'
    <2>1. shift' \in [Rows -> ShiftRows]
      BY <1>1, <1>5, <1>6 DEF IInv, TypeOK
    <2>2. slot' \in [Slots -> Requests]
      BY <1>1, <1>5, <1>7 DEF IInv, TypeOK
    <2> QED
      BY <1>2, <2>1, <2>2 DEF IInv, TypeOK
  <1>10. ASSUME NEW j \in Slots PROVE SlotOK(j)'
    <2>1. CASE j = i
      <3>1. slot[i].correction \/ slot[i].open
        BY <1>2 DEF IInv, SlotsOK, SlotOK
      <3> QED
        BY <1>3, <1>4, <1>5, <1>6, <1>7, <1>8, <2>1, <3>1 DEF SlotOK
    <2>2. CASE j # i
      <3>1. \A r \in Rows : shift'[r].status = shift[r].status
        BY <1>5, <1>6
      <3> QED
        BY <1>5, <2>2, <3>1 DEF IInv, SlotsOK, SlotOK
    <2> QED
      BY <2>1, <2>2
  <1>11. ASSUME NEW j \in Slots PROVE Alone(j)'
    <2> SUFFICES ASSUME ~slot'[j].crossed, NEW r \in slot'[j].shift
                 PROVE  /\ \A k \in Slots : r \in slot'[k].shift => k = j
                        /\ slot'[j].seen = shift'[r].events
      BY DEF Alone
    <2>1. ~slot[j].crossed /\ r \in slot[j].shift
      BY <1>3, <1>5, <1>7
    <2>2. (\A k \in Slots : r \in slot[k].shift => k = j) /\ slot[j].seen = shift[r].events /\ r \in Rows
      BY <2>1 DEF IInv, TypeOK, Requests, SlotsOK, Alone
    <2>3. \A k \in Slots : slot'[k].shift = slot[k].shift
      BY <1>3, <1>5, <1>7
    <2>4. slot'[j].seen = shift'[r].events
      <3>1. CASE r = s
        <4>1. j = i
          BY <1>3, <2>2, <3>1
        <4> QED
          BY <1>5, <1>6, <1>7, <2>2, <3>1, <4>1
      <3>2. CASE r # s
        <4>1. j # i
          BY <1>3, <2>1, <3>2
        <4> QED
          BY <1>5, <2>2, <3>2, <4>1
      <3> QED
        BY <3>1, <3>2
    <2> QED
      BY <2>2, <2>3, <2>4
  <1>12. CleanAll'
    <2> SUFFICES ASSUME NEW r \in clean \ {s} PROVE CleanOK(r)'
      BY <1>1 DEF CleanAll
    <2>1. /\ r \in Rows /\ Repaired(r) /\ \A j \in Slots : r \in slot[j].shift => slot[j].at # "update"
      BY DEF IInv, CleanAll, CleanOK
    <2>2. shift'[r] = shift[r]
      BY <1>5, <2>1
    <2>3. \A j \in Slots : r \in slot'[j].shift => slot'[j].at # "update"
      BY <1>5, <1>7, <2>1
    <2> QED
      BY <2>1, <2>2, <2>3 DEF CleanOK, Repaired
  <1>13. Open' \subseteq Open /\ At("create")' \subseteq At("create")
    BY <1>5, <1>6, <1>7 DEF Open, At
  <1> QED
    BY <1>2, <1>9, <1>10, <1>11, <1>12, <1>13, NoneOpened DEF IInv, TypeOK, SlotsOK

\* Totals are written over a clean shift by nobody, and make one clean only if they are of
\* all its events.
LEMMA UpdateStep ==
  ASSUME IInv, NEW i \in Slots, EventUpdate(i)
  PROVE  IInv'
  <1> DEFINE closes == slot[i].type = "CLOCK_OUT" /\ ~slot[i].correction
             status == IF closes THEN "CLOSED" ELSE "OPEN"
             totals == Split(slot[i].seen)
  <1>1. PICK s \in slot[i].shift :
          /\ shift' = [shift EXCEPT ![s].status = status, ![s].totals = totals]
          /\ clean' = IF slot[i].crossed THEN clean ELSE clean \cup {s}
          /\ reopened' = IF shift[s].status = "CLOSED" /\ ~closes THEN reopened + 1 ELSE reopened
    BY DEF EventUpdate
  <1>2. slot[i].at = "update" /\ UNCHANGED <<now, overlaps>> /\ slot' = [slot EXCEPT ![i] = Idle]
    BY DEF EventUpdate
  <1>3. /\ slot[i] \in Requests /\ s \in Rows /\ shift[s] \in ShiftRows /\ slot[i].shift = {s}
        /\ shift[s].status \in {"OPEN", "CLOSED"}
    BY <1>2 DEF IInv, TypeOK, SlotsOK, SlotOK, Requests, ShiftRows
  <1>4. status \in {"OPEN", "CLOSED"} /\ totals \in Totals /\ (status = "OPEN" <=> ~closes)
    BY <1>3 DEF Requests, Totals
  <1> HIDE DEF status, totals
  <1> DEFINE row == [status |-> status, events |-> shift[s].events, totals |-> totals]
  <1>5. row \in ShiftRows /\ row.status = status /\ row.events = shift[s].events /\ row.totals = totals
    BY <1>3, <1>4 DEF ShiftRows
  <1>6. shift'[s] = row /\ (\A r \in Rows \ {s} : shift'[r] = shift[r]) /\ shift' \in [Rows -> ShiftRows]
    <2>1. shift \in [Rows -> ShiftRows]
      BY DEF IInv, TypeOK
    <2>2. shift'[s] = [[shift[s] EXCEPT !.status = status] EXCEPT !.totals = totals]
      BY <1>1, <1>3, <2>1
    <2>3. shift'[s] = row
      BY <1>3, <2>2 DEF ShiftRows
    <2>4. \A r \in Rows \ {s} : shift'[r] = shift[r]
      BY <1>1, <1>3, <2>1
    <2>5. DOMAIN shift' = Rows /\ shift' = [r \in Rows |-> shift'[r]]
      BY <1>1, <2>1
    <2>6. \A r \in Rows : shift'[r] \in ShiftRows
      BY <1>5, <2>1, <2>3, <2>4
    <2> QED
      BY <2>3, <2>4, <2>5, <2>6
  <1> HIDE DEF row
  <1>7. slot' \in [Slots -> Requests] /\ slot'[i] = Idle /\ \A j \in Slots \ {i} : slot'[j] = slot[j]
    BY <1>2, IdleTyped DEF IInv, TypeOK
  <1>8. reopened' \in Nat /\ reopened' >= reopened /\ (status = "OPEN" /\ shift[s].status = "CLOSED" => reopened' = reopened + 1)
    BY <1>1, <1>4 DEF IInv, TypeOK
  <1>9. TypeOK'
    BY <1>2, <1>6, <1>7, <1>8 DEF IInv, TypeOK
  <1>10. ASSUME NEW j \in Slots PROVE SlotOK(j)'
    <2>1. CASE j = i
      BY <1>7, <2>1 DEF SlotOK, Idle
    <2>2. CASE j # i
      <3>1. \A r \in Rows : shift[r].status # "none" => shift'[r].status # "none"
        BY <1>4, <1>5, <1>6
      <3> QED
        BY <1>7, <2>2, <3>1 DEF IInv, SlotsOK, SlotOK
    <2> QED
      BY <2>1, <2>2
  <1>11. ASSUME NEW j \in Slots PROVE Alone(j)'
    <2>1. CASE j = i
      BY <1>7, <2>1 DEF Alone, Idle
    <2>2. CASE j # i
      <3>1. slot'[j] = slot[j] /\ slot[j].shift \subseteq Rows
        BY <1>7, <2>2 DEF IInv, TypeOK, Requests
      <3>2. \A r \in Rows : shift'[r].events = shift[r].events
        BY <1>5, <1>6
      <3>3. \A k \in Slots : slot'[k].shift \subseteq slot[k].shift
        BY <1>7 DEF Idle
      <3> QED
        BY <3>1, <3>2, <3>3 DEF IInv, SlotsOK, Alone
    <2> QED
      BY <2>1, <2>2
  <1>12. CleanAll'
    <2>1. s \notin clean
      BY <1>2, <1>3 DEF IInv, CleanAll, CleanOK
    <2>2. ASSUME NEW r \in clean PROVE CleanOK(r)'
      <3>1. /\ r \in Rows /\ Repaired(r) /\ \A j \in Slots : r \in slot[j].shift => slot[j].at # "update"
        BY DEF IInv, CleanAll, CleanOK
      <3>2. shift'[r] = shift[r]
        BY <1>6, <2>1, <3>1
      <3>3. \A j \in Slots : r \in slot'[j].shift => slot'[j].at # "update"
        BY <1>7, <3>1 DEF Idle
      <3> QED
        BY <3>1, <3>2, <3>3 DEF CleanOK, Repaired
    <2>3. ASSUME ~slot[i].crossed PROVE CleanOK(s)'
      <3>1. (\A j \in Slots : s \in slot[j].shift => j = i) /\ slot[i].seen = shift[s].events
        BY <1>3, <2>3 DEF IInv, SlotsOK, Alone
      <3>2. \A j \in Slots : s \notin slot'[j].shift
        BY <1>7, <3>1 DEF Idle
      <3>3. shift'[s].totals = Split(shift'[s].events) /\ shift'[s].events = slot[i].seen
        BY <1>5, <1>6, <3>1 DEF totals
      <3>4. Last(slot[i].seen).type = slot[i].type /\ Last(slot[i].seen).correction = slot[i].correction
        BY <1>2 DEF IInv, SlotsOK, SlotOK, Last
      <3>5. shift'[s].status = "CLOSED" <=> closes
        BY <1>5, <1>6 DEF status
      <3> QED
        BY <1>3, <3>2, <3>3, <3>4, <3>5 DEF CleanOK, Repaired
    <2> QED
      BY <1>1, <2>2, <2>3 DEF CleanAll
  <1>13. OpenOnes'
    <2>1. At("create")' = At("create")
      BY <1>2, <1>7 DEF At, Idle
    <2>2. CASE status = "OPEN" /\ shift[s].status = "CLOSED"
      <3>1. Open' = Open \cup {s} /\ s \notin Open
        BY <1>3, <1>5, <1>6, <2>2 DEF Open
      <3>2. Cardinality(Open') = Cardinality(Open) + 1 /\ Cardinality(Open) \in Nat /\ Cardinality(At("create")) \in Nat
        BY <3>1, Subsets, Counts, FS_AddElement
      <3> QED
        BY <1>2, <1>8, <2>1, <2>2, <3>2 DEF IInv, TypeOK, OpenOnes
    <2>3. CASE ~(status = "OPEN" /\ shift[s].status = "CLOSED")
      <3>1. Open' \subseteq Open
        BY <1>3, <1>4, <1>5, <1>6, <2>3 DEF Open
      <3> QED
        BY <1>2, <1>8, <2>1, <3>1, NoneOpened
    <2> QED
      BY <2>2, <2>3
  <1> QED
    BY <1>9, <1>10, <1>11, <1>12, <1>13 DEF IInv, SlotsOK

-----------------------------------------------------------------------------
LEMMA NextIInv == IInv /\ [Next]_vars => IInv'
  <1> SUFFICES ASSUME IInv, [Next]_vars PROVE IInv'
    OBVIOUS
  <1>1. ASSUME NEW i \in Slots, ClockInRead(i) \/ EventAdd(i) \/ EventUpdate(i) \/ Crash(i) PROVE IInv'
    BY <1>1, ClockInReadStep, AddStep, UpdateStep, CrashStep
  <1>2. ASSUME NEW i \in Slots, NEW s \in Rows, ClockInCreate(i, s) PROVE IInv'
    BY <1>2, CreateStep
  <1>3. ASSUME NEW i \in Slots, NEW s \in Rows, NEW type \in Corrections, CorrectRead(i, s, type) PROVE IInv'
    BY <1>3, ReadStep DEF CorrectRead, Types
  <1>4. ASSUME NEW i \in Slots, NEW type \in Worker, EventRead(i, type) PROVE IInv'
    <2>1. PICK s \in Open : Read(i, s, type, FALSE)
      BY <1>4 DEF EventRead
    <2> QED
      BY <2>1, ReadStep DEF Open, Types
  <1>5. ASSUME NEW quarters \in Pauses, Advance(quarters) PROVE IInv'
    <2>1. now' = now + quarters /\ quarters \in Nat /\ UNCHANGED <<shift, slot, clean, overlaps, reopened>>
      BY <1>5, SetsAssumption DEF Advance
    <2> QED
      BY <2>1 DEF IInv, TypeOK, SlotsOK, SlotOK, Alone, CleanAll, CleanOK, Repaired, OpenOnes, Open, At
  <1>6. CASE UNCHANGED vars
    BY <1>6 DEF vars, IInv, TypeOK, SlotsOK, SlotOK, Alone, CleanAll, CleanOK, Repaired, OpenOnes, Open, At
  <1> QED
    BY <1>1, <1>2, <1>3, <1>4, <1>5, <1>6 DEF Next

\* The inductive invariant holds in every reachable state.
THEOREM ShiftsInvariance == Spec => []IInv
  BY InitIInv, NextIInv, PTL DEF Spec

\* After an event that no other request crossed, appendEvent has left the totals of all the
\* shift's events, and the shift closed exactly if that was the worker's clock-out.
THEOREM EventsRepair == Spec => []UndisturbedEventRepairs
  <1>1. IInv => UndisturbedEventRepairs
    BY DEF IInv, CleanAll, CleanOK, Repaired, UndisturbedEventRepairs
  <1> QED
    BY <1>1, ShiftsInvariance, PTL

\* clockIn leaves a worker one open shift, but for clock-ins that overlapped and shifts
\* that were opened again.
THEOREM OpenShiftsBounded == Spec => []OneOpenShift
  <1>1. IInv => OneOpenShift
    <2>1. /\ Cardinality(Open) \in Nat /\ Cardinality(Open) <= Cardinality(Rows) /\ Cardinality(Rows) \in Nat
          /\ Cardinality(At("create")) \in Nat
      BY Counts, Subsets
    <2> QED
      BY <2>1 DEF IInv, TypeOK, OpenOnes, OneOpenShift
  <1> QED
    BY <1>1, ShiftsInvariance, PTL

\* Only an administrator's correction, or a request that had read the shift while it was
\* open, makes appendEvent write OPEN over CLOSED.
LEMMA ReopenStep ==
  ASSUME IInv, [Next]_vars, NEW s \in Rows, shift[s].status = "CLOSED", shift'[s].status = "OPEN"
  PROVE  \E i \in On(s) : slot[i].at = "update" /\ (slot[i].correction \/ slot[i].open)
  <1>1. ASSUME NEW i \in Slots, EventUpdate(i)
        PROVE  \E j \in On(s) : slot[j].at = "update" /\ (slot[j].correction \/ slot[j].open)
    <2>1. slot[i].at = "update" /\ (slot[i].correction \/ slot[i].open)
      BY <1>1 DEF EventUpdate, IInv, SlotsOK, SlotOK
    <2>2. s \in slot[i].shift
      <3> SUFFICES ASSUME s \notin slot[i].shift PROVE FALSE
        OBVIOUS
      <3>1. shift'[s] = shift[s]
        BY <1>1 DEF EventUpdate, IInv, TypeOK
      <3> QED
        BY <3>1
    <2> QED
      BY <2>1, <2>2 DEF On
  <1>2. ASSUME NEW i \in Slots, EventAdd(i) PROVE FALSE
    <2>1. PICK r \in slot[i].shift : \E event : shift' = [shift EXCEPT ![r].events = Append(@, event)]
      BY <1>2 DEF EventAdd
    <2>2. shift'[s].status = shift[s].status
      BY <2>1 DEF IInv, TypeOK, ShiftRows
    <2> QED
      BY <2>2
  <1>3. ASSUME NEW i \in Slots, NEW r \in Rows, ClockInCreate(i, r) PROVE FALSE
    <2>1. r # s /\ shift'[s] = shift[s]
      BY <1>3 DEF ClockInCreate, IInv, TypeOK
    <2> QED
      BY <2>1
  <1>4. CASE UNCHANGED shift
    BY <1>4
  <1> QED
    BY <1>1, <1>2, <1>3, <1>4 DEF Next, vars, ClockInRead, Crash, CorrectRead, EventRead, Read, Advance

\* A closed shift is opened again by a correction, or by a worker's event whose request had
\* read it open (appendEvent writes by id).
THEOREM WhoReopens == Spec => ReopenedByWhom
  <1> DEFINE Rightly == \A s \in Rows : shift[s].status = "CLOSED" /\ shift'[s].status = "OPEN" =>
                          \E i \in On(s) : slot[i].at = "update" /\ (slot[i].correction \/ slot[i].open)
  <1>1. IInv /\ [Next]_vars => [Rightly]_vars
    BY ReopenStep
  <1> QED
    BY <1>1, ShiftsInvariance, PTL DEF Spec, ReopenedByWhom

-----------------------------------------------------------------------------
(* What the worker did at a moment, when an event is added.                *)

Kinds == Worker \cup Corrections \cup {"CLOCK_IN"}
Moves(events, q) == {k \in DOMAIN events : events[k].type # "HEARTBEAT" /\ events[k].time <= q}
Latest(moves) == CHOOSE k \in moves : \A m \in moves : m <= k

LEMMA LatestIs ==
  /\ \A n \in Nat : \A s \in SUBSET (1..n) : s # {} => Latest(s) \in s
  /\ \A n \in Nat : \A s \in SUBSET (1..n + 1) : n + 1 \in s => Latest(s) = n + 1
  <1>1. ASSUME NEW n \in Nat, NEW s \in SUBSET (1..n), s # {}
        PROVE  Latest(s) \in s /\ \A y \in s : y <= Latest(s)
    BY <1>1, Greatest DEF Latest
  <1>2. ASSUME NEW n \in Nat, NEW s \in SUBSET (1..n + 1), n + 1 \in s
        PROVE  Latest(s) = n + 1
    <2>1. PICK m \in Nat : m = n + 1
      OBVIOUS
    <2>2. s \in SUBSET (1..m) /\ s # {} /\ m \in s
      BY <1>2, <2>1
    <2>3. Latest(s) \in s /\ m <= Latest(s)
      BY <1>1, <2>2
    <2>4. PICK x \in 1..m : x = Latest(s)
      BY <2>2, <2>3
    <2> QED
      BY <2>1, <2>3, <2>4
  <1> QED
    BY <1>1, <1>2

LEMMA StateAtMoves ==
  ASSUME NEW events, NEW q
  PROVE  StateAt(events, q) = IF Moves(events, q) = {} THEN "off"
                              ELSE StateAfter("off", events[Latest(Moves(events, q))].type)
  BY DEF StateAt, Moves, Latest

\* The same moves, whose entries are the same, are the same state.
LEMMA SameState ==
  ASSUME NEW n \in Nat, NEW events, NEW more, NEW q, NEW r, Moves(events, q) = Moves(more, r),
         Moves(events, q) \in SUBSET (1..n), \A k \in 1..n : events[k] = more[k]
  PROVE  StateAt(events, q) = StateAt(more, r)
  <1>1. Moves(events, q) # {} => Latest(Moves(events, q)) \in 1..n
    BY LatestIs
  <1> QED
    BY <1>1, StateAtMoves

LEMMA Appended ==
  ASSUME NEW events \in Seq(Entries), NEW e \in Entries
  PROVE  \E n \in Nat :
           /\ n = Len(events) /\ Len(Append(events, e)) = n + 1
           /\ DOMAIN events = 1..n /\ DOMAIN Append(events, e) = 1..n + 1
           /\ Append(events, e)[n + 1] = e
           /\ \A k \in 1..n : Append(events, e)[k] = events[k] /\ events[k] \in Entries
           /\ \A k \in 1..n : events[k].time \in Nat
  <1>1. \A k \in DOMAIN events : events[k] \in Entries
    OBVIOUS
  <1>2. \A k \in DOMAIN events : events[k].time \in Nat
    BY <1>1 DEF Entries
  <1>3. PICK n \in Nat : n = Len(events)
    OBVIOUS
  <1>4. /\ DOMAIN events = 1..n /\ Len(Append(events, e)) = n + 1
        /\ DOMAIN Append(events, e) = 1..n + 1 /\ Append(events, e)[n + 1] = e
        /\ \A k \in 1..n : Append(events, e)[k] = events[k]
    BY <1>3
  <1> QED
    BY <1>1, <1>2, <1>3, <1>4

LEMMA StateBefore ==
  ASSUME NEW events \in Seq(Entries), NEW e \in Entries, NEW q \in Nat
  PROVE  q < e.time => StateAt(Append(events, e), q) = StateAt(events, q)
  <1>1. PICK more : more = Append(events, e)
    OBVIOUS
  <1>2. PICK n \in Nat : /\ DOMAIN events = 1..n /\ DOMAIN more = 1..n + 1
                         /\ more[n + 1] = e /\ \A k \in 1..n : more[k] = events[k]
    BY <1>1, Appended
  <1>3. \A k \in 1..n + 1 : k \in 1..n \/ k = n + 1
    OBVIOUS
  <1>4. q < e.time => ~(e.time <= q)
    BY DEF Entries
  <1>5. q < e.time => Moves(more, q) = Moves(events, q)
    BY <1>2, <1>3, <1>4 DEF Moves
  <1>6. Moves(events, q) \in SUBSET (1..n)
    BY <1>2 DEF Moves
  <1>7. Moves(more, q) = Moves(events, q) => StateAt(events, q) = StateAt(more, q)
    BY <1>2, <1>6, SameState
  <1> QED
    BY <1>1, <1>5, <1>7

LEMMA StateSince ==
  ASSUME NEW events \in Seq(Entries), NEW t \in Nat, NEW q \in Nat, t <= q,
         \A k \in DOMAIN events : events[k].time <= t
  PROVE  StateAt(events, q) = StateAt(events, t)
  <1>1. PICK n \in Nat : DOMAIN events = 1..n /\ \A k \in 1..n : events[k] \in Entries
    OBVIOUS
  <1>2. \A k \in 1..n : events[k].time \in Nat /\ events[k].time <= t
    BY <1>1 DEF Entries
  <1>3. Moves(events, q) = Moves(events, t)
    BY <1>1, <1>2 DEF Moves
  <1>4. Moves(events, q) \in SUBSET (1..n)
    BY <1>1 DEF Moves
  <1> QED
    BY <1>3, <1>4, SameState

LEMMA StateNow ==
  ASSUME NEW events \in Seq(Entries), NEW e \in Entries, e.type \in Kinds,
         \A k \in DOMAIN events : events[k].time <= e.time
  PROVE  StateAt(Append(events, e), e.time) = StateAfter(StateAt(events, e.time), e.type)
  <1>1. PICK more : more = Append(events, e)
    OBVIOUS
  <1>2. PICK n \in Nat : /\ DOMAIN events = 1..n /\ DOMAIN more = 1..n + 1
                         /\ more[n + 1] = e /\ \A k \in 1..n : more[k] = events[k]
    BY <1>1, Appended
  <1>3. \A k \in 1..n + 1 : k \in 1..n \/ k = n + 1
    OBVIOUS
  <1>4. e.time \in Nat
    BY DEF Entries
  <1>5. Moves(events, e.time) \in SUBSET (1..n) /\ Moves(more, e.time) \in SUBSET (1..n + 1)
    BY <1>2 DEF Moves
  <1>6. CASE e.type = "HEARTBEAT"
    <2>1. Moves(more, e.time) = Moves(events, e.time)
      BY <1>2, <1>3, <1>6 DEF Moves
    <2>2. StateAt(more, e.time) = StateAt(events, e.time)
      BY <1>2, <1>5, <2>1, SameState
    <2> QED
      BY <1>1, <1>6, <2>2 DEF StateAfter
  <1>7. CASE e.type # "HEARTBEAT"
    <2>1. n + 1 \in Moves(more, e.time)
      BY <1>2, <1>4, <1>7 DEF Moves
    <2>2. Latest(Moves(more, e.time)) = n + 1
      BY <1>5, <2>1, LatestIs
    <2>3. StateAt(more, e.time) = StateAfter("off", e.type)
      BY <1>2, <2>1, <2>2, StateAtMoves
    <2>4. e.type \in {"CLOCK_IN", "CLOCK_OUT", "BREAK_START", "BREAK_END", "RECONNECT", "DISCONNECT"}
      BY <1>7, TypesAssumption DEF Kinds
    <2>5. StateAfter("off", e.type) = StateAfter(StateAt(events, e.time), e.type)
      BY <2>4 DEF StateAfter
    <2> QED
      BY <1>1, <2>3, <2>5
  <1> QED
    BY <1>6, <1>7

-----------------------------------------------------------------------------
(* The minutes of events that are added one at a time.                     *)

\* The quarters MinutesNear counts, once the clock is past the last event.
Worth(events, state) ==
  {q \in events[1].time .. Last(events).time - 1 : StateAt(events, q) = state}
Near(minutes, events, state) ==
  /\ 4 * minutes <= Cardinality(Worth(events, state)) + 2 * (Len(events) - 1)
  /\ 4 * minutes >= Cardinality(Worth(events, state)) - 2 * (Len(events) - 1)

\* Events in their order, and totals that are near after every one of them.
Ordered(events) ==
  \A k \in DOMAIN events : events[k].type \in Kinds /\ events[k].time <= Last(events).time
Tracked(events) ==
  /\ Acc(events).last = Last(events).time /\ Acc(events).state = StateAt(events, Last(events).time)
  /\ Acc(events).connected \in Nat /\ Near(Acc(events).connected, events, "connected")
  /\ Acc(events).breaks \in Nat /\ Near(Acc(events).breaks, events, "break")
Measured(events) == Determined(events) /\ Ordered(events) /\ Tracked(events)

LEMMA Between ==
  ASSUME NEW a \in Nat, NEW b \in Nat, a <= b
  PROVE  IsFiniteSet(a .. b - 1) /\ Cardinality(a .. b - 1) = b - a
  <1>1. PICK c \in Int : c = b - 1
    OBVIOUS
  <1>2. IsFiniteSet(a .. c) /\ Cardinality(a .. c) = IF a > c THEN 0 ELSE c - a + 1
    BY FS_Interval
  <1> QED
    BY <1>1, <1>2

LEMMA WorthCount ==
  ASSUME NEW events \in Seq(Entries), events # <<>>, NEW state
  PROVE  IsFiniteSet(Worth(events, state)) /\ Cardinality(Worth(events, state)) \in Nat
  <1>1. events[1] \in Entries /\ Last(events) \in Entries
    BY DEF Last
  <1>2. PICK a \in Nat, b \in Nat : a = events[1].time /\ b = Last(events).time
    BY <1>1 DEF Entries
  <1>3. IsFiniteSet(a .. b - 1)
    BY FS_Interval
  <1>4. Worth(events, state) \subseteq a .. b - 1
    BY <1>2 DEF Worth
  <1> QED
    BY <1>3, <1>4, FS_Subset, FS_CardinalityType

\* The time since the last event is spent as that event left the worker.
LEMMA WorthGrows ==
  ASSUME NEW events \in Seq(Entries), events # <<>>, NEW e \in Entries, NEW state, Ordered(events),
         Last(events).time <= e.time
  PROVE  Cardinality(Worth(Append(events, e), state)) =
           Cardinality(Worth(events, state)) +
             (IF StateAt(events, Last(events).time) = state THEN e.time - Last(events).time ELSE 0)
  <1>1. PICK more : more = Append(events, e)
    OBVIOUS
  <1>2. PICK n \in Nat : /\ DOMAIN events = 1..n /\ n = Len(events) /\ Len(more) = n + 1 /\ more[n + 1] = e
                         /\ \A k \in 1..n : more[k] = events[k] /\ events[k].time \in Nat
    BY <1>1, Appended
  <1>3. 1 \in 1..n /\ n \in 1..n
    BY <1>2
  <1>4. PICK a \in Nat, b \in Nat, t \in Nat :
          a = events[1].time /\ b = events[n].time /\ t = e.time
    BY <1>2, <1>3 DEF Entries
  <1>5. /\ Last(events).time = b /\ Last(more).time = t /\ more[1].time = a /\ events[1].time = a
    BY <1>2, <1>3, <1>4 DEF Last
  <1>6. a <= b /\ b <= t
    BY <1>2, <1>3, <1>4, <1>5 DEF Ordered
  <1>7. \A q \in 0 .. t - 1 : StateAt(more, q) = StateAt(events, q)
    BY <1>1, <1>4, StateBefore
  <1>8. \A q \in b .. t - 1 : StateAt(events, q) = StateAt(events, b)
    BY <1>4, <1>5, StateSince DEF Ordered
  <1>9. PICK old : old = Worth(events, state)
    OBVIOUS
  <1>10. PICK new : new = IF StateAt(events, b) = state THEN b .. t - 1 ELSE {}
    OBVIOUS
  <1>11. Worth(more, state) = old \cup new
    <2>1. Worth(more, state) = {q \in a .. t - 1 : StateAt(events, q) = state}
      BY <1>4, <1>5, <1>7 DEF Worth
    <2>2. old = {q \in a .. b - 1 : StateAt(events, q) = state}
      BY <1>5, <1>9 DEF Worth
    <2>3. new = {q \in b .. t - 1 : StateAt(events, q) = state}
      BY <1>8, <1>10
    <2>4. \A q \in a .. t - 1 : q \in a .. b - 1 \/ q \in b .. t - 1
      OBVIOUS
    <2>5. (a .. b - 1) \subseteq (a .. t - 1) /\ (b .. t - 1) \subseteq (a .. t - 1)
      BY <1>6
    <2> QED
      BY <2>1, <2>2, <2>3, <2>4, <2>5
  <1>12. old \cap new = {}
    <2>1. old \subseteq a .. b - 1 /\ new \subseteq b .. t - 1
      BY <1>5, <1>9, <1>10 DEF Worth
    <2>2. (a .. b - 1) \cap (b .. t - 1) = {}
      OBVIOUS
    <2> QED
      BY <2>1, <2>2
  <1>13. IsFiniteSet(old) /\ Cardinality(old) \in Nat
    BY <1>9, WorthCount
  <1>14. IsFiniteSet(new) /\ Cardinality(new) = IF StateAt(events, b) = state THEN t - b ELSE 0
    BY <1>6, <1>10, Between, FS_EmptySet
  <1>15. Cardinality(old \cup new) = Cardinality(old) + Cardinality(new)
    <2>1. Cardinality(old \cup new) = Cardinality(old) + Cardinality(new) - Cardinality(old \cap new)
      BY <1>13, <1>14, FS_Union
    <2>2. Cardinality(new) \in Nat /\ Cardinality(old \cap new) = 0
      BY <1>12, <1>14, FS_CardinalityType, FS_EmptySet
    <2> QED
      BY <1>13, <2>1, <2>2
  <1> QED
    BY <1>1, <1>4, <1>5, <1>9, <1>11, <1>14, <1>15

\* Math.round is off by two quarters at most.
LEMMA RoundedNear ==
  ASSUME NEW d \in Nat
  PROVE  Rounded(d) \in Nat /\ 4 * Rounded(d) <= d + 2 /\ 4 * Rounded(d) >= d - 2
  BY DEF Rounded

\* One more event adds two quarters to what its rounding may cost.
LEMMA NearGrows ==
  ASSUME NEW events \in Seq(Entries), events # <<>>, NEW e \in Entries, NEW state, Ordered(events),
         Last(events).time <= e.time, NEW minutes \in Nat, Near(minutes, events, state),
         NEW added, added = IF StateAt(events, Last(events).time) = state
                            THEN Rounded(e.time - Last(events).time) ELSE 0
  PROVE  minutes + added \in Nat /\ Near(minutes + added, Append(events, e), state)
  <1>1. PICK n \in Nat : n = Len(events) /\ Len(Append(events, e)) = n + 1 /\ n >= 1
    BY Appended
  <1>2. Last(events) \in Entries
    BY DEF Last
  <1>3. PICK d \in Nat : d = e.time - Last(events).time
    BY <1>2 DEF Entries
  <1>4. PICK old \in Nat : old = Cardinality(Worth(events, state))
    BY WorthCount
  <1>5. PICK new : new = Cardinality(Worth(Append(events, e), state))
    OBVIOUS
  <1>6. new = old + (IF StateAt(events, Last(events).time) = state THEN d ELSE 0)
    BY <1>3, <1>4, <1>5, WorthGrows
  <1>7. 4 * minutes <= old + 2 * (n - 1) /\ 4 * minutes >= old - 2 * (n - 1)
    BY <1>1, <1>4 DEF Near
  <1>8. CASE StateAt(events, Last(events).time) = state
    <2>1. added = Rounded(d) /\ new = old + d
      BY <1>3, <1>6, <1>8
    <2>2. PICK m \in Nat : m = added /\ 4 * m <= d + 2 /\ 4 * m >= d - 2
      BY <2>1, RoundedNear
    <2>3. /\ 4 * (minutes + m) <= new + 2 * ((n + 1) - 1)
          /\ 4 * (minutes + m) >= new - 2 * ((n + 1) - 1)
      BY <1>7, <2>1, <2>2
    <2>4. minutes + m \in Nat /\ minutes + m = minutes + added
      BY <2>2
    <2>5. Near(minutes + m, Append(events, e), state)
      BY <1>1, <1>5, <2>3 DEF Near
    <2> QED
      BY <2>4, <2>5
  <1>9. CASE StateAt(events, Last(events).time) # state
    <2>1. added = 0 /\ new = old
      BY <1>6, <1>9
    <2>2. /\ 4 * minutes <= new + 2 * ((n + 1) - 1)
          /\ 4 * minutes >= new - 2 * ((n + 1) - 1)
      BY <1>1, <1>7, <2>1
    <2>3. minutes + added = minutes
      BY <2>1
    <2> QED
      BY <1>1, <1>5, <2>2, <2>3 DEF Near
  <1> QED
    BY <1>8, <1>9

LEMMA AddedFields ==
  ASSUME NEW acc, NEW e
  PROVE  LET minutes == IF acc.last < 0 THEN 0 ELSE Rounded(e.time - acc.last)
         IN  /\ Added(acc, e).connected = acc.connected + (IF acc.state = "connected" THEN minutes ELSE 0)
             /\ Added(acc, e).breaks = acc.breaks + (IF acc.state = "break" THEN minutes ELSE 0)
             /\ Added(acc, e).state = StateAfter(acc.state, e.type)
             /\ Added(acc, e).last = e.time
  BY DEF Added

LEMMA MeasuredFirst ==
  ASSUME NEW e \in Entries, e.type \in Kinds
  PROVE  Measured(<<e>>)
  <1>1. PICK one : one = <<e>>
    OBVIOUS
  <1>2. /\ one = Append(<<>>, e) /\ <<>> \in Seq(Entries) /\ one \in Seq(Entries)
        /\ DOMAIN one = {1} /\ Len(one) = 1 /\ one[1] = e /\ Last(one) = e
    BY <1>1 DEF Last
  <1>3. Determined(one) /\ Acc(one) = Added(Start, e)
    BY <1>1, FirstFolds
  <1>4. Start.last < 0 /\ Start.connected = 0 /\ Start.breaks = 0 /\ Start.state = "off"
    BY DEF Start
  <1>5. /\ Acc(one).connected = 0 /\ Acc(one).breaks = 0
        /\ Acc(one).state = StateAfter("off", e.type) /\ Acc(one).last = e.time
    BY <1>3, <1>4, AddedFields
  <1>6. PICK t \in Nat : t = e.time
    BY DEF Entries
  <1>7. Ordered(one)
    BY <1>2, <1>6 DEF Ordered
  <1>8. StateAt(one, t) = StateAfter("off", e.type)
    <2>1. Moves(<<>>, t) = {}
      BY DEF Moves
    <2>2. StateAt(<<>>, t) = "off"
      BY <2>1, StateAtMoves
    <2>3. \A k \in DOMAIN <<>> : <<>>[k].time <= e.time
      OBVIOUS
    <2> QED
      BY <1>2, <1>6, <2>2, <2>3, StateNow
  <1>9. \A state : Worth(one, state) = {}
    BY <1>2, <1>6 DEF Worth
  <1>10. \A state : Near(0, one, state)
    BY <1>2, <1>9, FS_EmptySet DEF Near
  <1>11. Tracked(one)
    BY <1>2, <1>5, <1>6, <1>8, <1>10 DEF Tracked
  <1> QED
    BY <1>1, <1>3, <1>7, <1>11 DEF Measured

LEMMA MeasuredMore ==
  ASSUME NEW events \in Seq(Entries), events # <<>>, NEW e \in Entries, e.type \in Kinds,
         Last(events).time <= e.time, Measured(events)
  PROVE  Measured(Append(events, e))
  <1>1. PICK more : more = Append(events, e)
    OBVIOUS
  <1>2. PICK n \in Nat : /\ DOMAIN events = 1..n /\ DOMAIN more = 1..n + 1 /\ Len(more) = n + 1
                         /\ more[n + 1] = e /\ \A k \in 1..n : more[k] = events[k]
    <2>1. PICK n \in Nat : n = Len(events)
      OBVIOUS
    <2>2. /\ DOMAIN events = 1..n /\ DOMAIN Append(events, e) = 1..n + 1
          /\ Len(Append(events, e)) = n + 1 /\ Append(events, e)[n + 1] = e
          /\ \A k \in 1..n : Append(events, e)[k] = events[k]
      BY <2>1
    <2> QED
      BY <1>1, <2>2
  <1>3. PICK acc : acc = Acc(events)
    OBVIOUS
  <1>4. Last(events) \in Entries
    BY DEF Last
  <1>5. PICK last \in Nat, t \in Nat : last = Last(events).time /\ t = e.time
    BY <1>4 DEF Entries
  <1>6. /\ acc.last = last /\ acc.connected \in Nat /\ acc.breaks \in Nat
        /\ acc.state = StateAt(events, last)
        /\ Near(acc.connected, events, "connected") /\ Near(acc.breaks, events, "break")
    BY <1>3, <1>5 DEF Measured, Tracked
  <1>7. Ordered(events) /\ Determined(events)
    BY DEF Measured
  <1>8. Determined(more) /\ Acc(more) = Added(acc, e)
    BY <1>1, <1>3, <1>7, AppendFolds
  <1>9. PICK working, resting :
          /\ working = IF StateAt(events, last) = "connected" THEN Rounded(t - last) ELSE 0
          /\ resting = IF StateAt(events, last) = "break" THEN Rounded(t - last) ELSE 0
    OBVIOUS
  <1>10. /\ Acc(more).connected = acc.connected + working
         /\ Acc(more).breaks = acc.breaks + resting
         /\ Acc(more).state = StateAfter(acc.state, e.type) /\ Acc(more).last = t
    <2>1. ~(last < 0)
      OBVIOUS
    <2> QED
      BY <1>5, <1>6, <1>8, <1>9, <2>1, AddedFields
  <1>11. acc.connected + working \in Nat /\ Near(acc.connected + working, more, "connected")
    BY <1>1, <1>5, <1>6, <1>7, <1>9, NearGrows
  <1>12. acc.breaks + resting \in Nat /\ Near(acc.breaks + resting, more, "break")
    BY <1>1, <1>5, <1>6, <1>7, <1>9, NearGrows
  <1>13. Last(more) = e
    BY <1>2 DEF Last
  <1>14. \A k \in 1..n : events[k].type \in Kinds /\ events[k].time <= t
    <2>1. \A k \in 1..n : events[k] \in Entries
      BY <1>2
    <2>2. \A k \in 1..n : events[k].time \in Nat
      BY <2>1 DEF Entries
    <2>3. last <= t
      BY <1>5
    <2>4. \A k \in 1..n : events[k].type \in Kinds /\ events[k].time <= last
      BY <1>2, <1>5, <1>7 DEF Ordered
    <2> QED
      BY <2>2, <2>3, <2>4
  <1>15. Ordered(more)
    <2>1. \A k \in 1..n + 1 : k \in 1..n \/ k = n + 1
      OBVIOUS
    <2> QED
      BY <1>2, <1>5, <1>13, <1>14, <2>1 DEF Ordered
  <1>16. StateAt(more, t) = StateAfter(acc.state, e.type)
    <2>1. StateAt(events, t) = acc.state
      BY <1>2, <1>5, <1>6, <1>7, StateSince DEF Ordered
    <2>2. StateAt(more, t) = StateAfter(StateAt(events, t), e.type)
      BY <1>1, <1>2, <1>5, <1>14, StateNow
    <2> QED
      BY <2>1, <2>2
  <1>17. Tracked(more)
    BY <1>5, <1>10, <1>11, <1>12, <1>13, <1>16 DEF Tracked
  <1> QED
    BY <1>1, <1>8, <1>15, <1>17 DEF Measured

\* Measured events keep the promise of MinutesNear, whatever the clock says.
LEMMA MeasuredIsNear ==
  ASSUME NEW events \in Seq(Entries), events # <<>>, Measured(events), NEW t \in Nat,
         Last(events).time <= t
  PROVE  LET Quarters(state) == Cardinality({q \in 0..(t - 1) :
                                  /\ events[1].time <= q /\ q < Last(events).time
                                  /\ StateAt(events, q) = state})
             Close(minutes, state) ==
               /\ 4 * minutes <= Quarters(state) + 2 * (Len(events) - 1)
               /\ 4 * minutes >= Quarters(state) - 2 * (Len(events) - 1)
         IN  Close(Split(events).connected, "connected") /\ Close(Split(events).breaks, "break")
  <1>1. events[1] \in Entries /\ Last(events) \in Entries
    BY DEF Last
  <1>2. PICK a \in Nat, b \in Nat : a = events[1].time /\ b = Last(events).time
    BY <1>1 DEF Entries
  <1>3. ASSUME NEW state
        PROVE  {q \in 0..(t - 1) : /\ events[1].time <= q /\ q < Last(events).time
                                   /\ StateAt(events, q) = state} = Worth(events, state)
    <2>1. \A q : q \in 0..(t - 1) /\ a <= q /\ q < b <=> q \in a .. b - 1
      BY <1>2
    <2> QED
      BY <1>2, <2>1 DEF Worth
  <1>4. Split(events).connected = Acc(events).connected /\ Split(events).breaks = Acc(events).breaks
    BY DEF Split, Acc, Start
  <1> QED
    BY <1>3, <1>4 DEF Measured, Tracked, Near

-----------------------------------------------------------------------------
(* The minutes of every shift.                                             *)

\* A shift that was created has events; they are measured, and none is ahead of the clock;
\* a request adds only events of the kinds it may.
MinutesInv ==
  /\ IInv
  /\ \A s \in Rows : shift[s].status # "none" => shift[s].events # <<>>
  /\ \A s \in Rows : shift[s].events # <<>> =>
       Measured(shift[s].events) /\ Last(shift[s].events).time <= now
  /\ \A i \in Slots : slot[i].at = "add" => slot[i].type \in Kinds

\* Steps that add no event.
LEMMA EventsStay ==
  ASSUME MinutesInv, IInv', now' \in Nat, now <= now',
         \A s \in Rows : /\ shift'[s].events = shift[s].events
                         /\ shift'[s].status # "none" => shift[s].events # <<>>,
         \A i \in Slots : slot'[i].at = "add" => slot'[i].type \in Kinds
  PROVE  MinutesInv'
  <1>1. ASSUME NEW s \in Rows, shift'[s].events # <<>>
        PROVE  Measured(shift'[s].events) /\ Last(shift'[s].events).time <= now'
    <2>1. PICK events \in Seq(Entries) : events = shift[s].events /\ events = shift'[s].events
      BY DEF MinutesInv, IInv, TypeOK, ShiftRows
    <2>2. events # <<>> /\ Measured(events) /\ Last(events).time <= now
      BY <1>1, <2>1 DEF MinutesInv
    <2>3. Last(events).time \in Nat /\ now \in Nat
      <3>1. Last(events) \in Entries
        BY <2>2 DEF Last
      <3> QED
        BY <3>1 DEF Entries, MinutesInv, IInv, TypeOK
    <2>4. Last(events).time <= now'
      BY <2>2, <2>3
    <2> QED
      BY <2>1, <2>2, <2>4
  <1> QED
    BY <1>1 DEF MinutesInv, Measured, Determined, Accumulates, Ordered, Tracked, Near, Worth, Acc

LEMMA MinutesStep == MinutesInv /\ [Next]_vars => MinutesInv'
  <1> SUFFICES ASSUME MinutesInv, [Next]_vars PROVE MinutesInv'
    OBVIOUS
  <1>1. IInv /\ IInv' /\ TypeOK /\ now \in Nat
    BY NextIInv DEF MinutesInv, IInv, TypeOK
  <1>2. /\ \A s \in Rows : shift[s].status # "none" => shift[s].events # <<>>
        /\ \A i \in Slots : slot[i].at = "add" => slot[i].type \in Kinds
    BY DEF MinutesInv
  <1>3. ASSUME NEW i \in Slots, ClockInRead(i) \/ Crash(i) PROVE MinutesInv'
    <2>1. UNCHANGED <<now, shift>> /\ \A j \in Slots : slot'[j].at = "add" => slot'[j] = slot[j]
      BY <1>1, <1>3 DEF ClockInRead, Crash, Idle, TypeOK, Requests
    <2> QED
      BY <1>1, <1>2, <2>1, EventsStay
  <1>4. ASSUME NEW i \in Slots, NEW s \in Rows, ClockInCreate(i, s) PROVE MinutesInv'
    <2>1. PICK e : e = [type |-> "CLOCK_IN", time |-> now, correction |-> FALSE]
      OBVIOUS
    <2>2. Measured(<<e>>) /\ Last(<<e>>).time = now /\ <<e>> # <<>>
      <3>1. e \in Entries /\ e.type \in Kinds /\ e.time = now
        BY <1>1, <2>1 DEF Entries, Types, Kinds
      <3> QED
        BY <3>1, MeasuredFirst DEF Last
    <2>3. /\ now' = now /\ shift'[s].events = <<e>>
          /\ \A r \in Rows : r # s => shift'[r] = shift[r]
          /\ \A j \in Slots : slot'[j].at = "add" => slot'[j] = slot[j]
      BY <1>1, <1>4, <2>1 DEF ClockInCreate, Idle, TypeOK
    <2>4. \A r \in Rows : /\ shift'[r].status # "none" => shift'[r].events # <<>>
                          /\ shift'[r].events # <<>> =>
                               Measured(shift'[r].events) /\ Last(shift'[r].events).time <= now'
      BY <1>1, <2>2, <2>3 DEF MinutesInv
    <2> QED
      BY <1>1, <1>2, <2>3, <2>4 DEF MinutesInv
  <1>5. ASSUME NEW i \in Slots, NEW s \in Rows, NEW type \in Kinds, NEW correction, Read(i, s, type, correction)
        PROVE  MinutesInv'
    <2>1. UNCHANGED <<now, shift>>
      BY <1>5 DEF Read
    <2>2. \A j \in Slots : slot'[j].at = "add" => slot'[j].type \in Kinds
      BY <1>1, <1>2, <1>5 DEF Read, TypeOK, Requests
    <2> QED
      BY <1>1, <1>2, <2>1, <2>2, EventsStay
  <1>6. ASSUME NEW i \in Slots, EventAdd(i) PROVE MinutesInv'
    <2>1. PICK s \in Rows : slot[i].shift = {s} /\ shift[s].status # "none"
      BY <1>1, <1>6 DEF EventAdd, IInv, SlotsOK, SlotOK
    <2>2. PICK e : e = [type |-> slot[i].type, time |-> now, correction |-> slot[i].correction]
      OBVIOUS
    <2>3. e \in Entries /\ e.type \in Kinds /\ e.time = now
      BY <1>1, <1>2, <1>6, <2>2 DEF EventAdd, Entries, TypeOK, Requests
    <2>4. /\ now' = now /\ slot[i].at = "add"
          /\ shift' = [shift EXCEPT ![s].events = Append(@, e)]
          /\ slot' = [slot EXCEPT ![i].at = "update", ![i].seen = Append(@, e)]
      BY <1>6, <2>1, <2>2 DEF EventAdd
    <2>5. PICK events \in Seq(Entries) : events = shift[s].events
      BY <1>1 DEF TypeOK, ShiftRows
    <2>6. /\ shift'[s].events = Append(events, e)
          /\ \A r \in Rows : r # s => shift'[r] = shift[r]
      BY <1>1, <2>4, <2>5 DEF TypeOK, ShiftRows
    <2>7. events # <<>> /\ Measured(events) /\ Last(events).time <= e.time
      BY <2>1, <2>3, <2>5 DEF MinutesInv
    <2>8. Measured(Append(events, e))
      BY <2>3, <2>7, MeasuredMore
    <2>9. Append(events, e) # <<>> /\ Last(Append(events, e)).time = now
      <3>1. PICK n \in Nat : Len(Append(events, e)) = n + 1 /\ Append(events, e)[n + 1] = e
        BY <2>3, Appended
      <3> QED
        BY <2>3, <3>1 DEF Last
    <2>10. \A j \in Slots : slot'[j].at = "add" => slot'[j] = slot[j]
      BY <1>1, <2>4 DEF TypeOK, Requests
    <2>11. \A r \in Rows : /\ shift'[r].status # "none" => shift'[r].events # <<>>
                           /\ shift'[r].events # <<>> =>
                                Measured(shift'[r].events) /\ Last(shift'[r].events).time <= now'
      <3> TAKE r \in Rows
      <3>1. now' = now
        BY <2>4
      <3>2. CASE r = s
        <4>1. PICK more : more = Append(events, e)
          OBVIOUS
        <4>2. more # <<>> /\ Measured(more) /\ Last(more).time = now
          BY <2>8, <2>9, <4>1
        <4>3. shift'[r].events = more
          BY <2>6, <3>2, <4>1
        <4> QED
          BY <1>1, <3>1, <4>2, <4>3
      <3>3. CASE r # s
        <4>1. shift'[r] = shift[r]
          BY <2>6, <3>3
        <4>2. /\ shift[r].status # "none" => shift[r].events # <<>>
              /\ shift[r].events # <<>> =>
                   Measured(shift[r].events) /\ Last(shift[r].events).time <= now
          BY DEF MinutesInv
        <4> QED
          BY <3>1, <4>1, <4>2
      <3> QED
        BY <3>2, <3>3
    <2> QED
      BY <1>1, <1>2, <2>10, <2>11 DEF MinutesInv
  <1>7. ASSUME NEW i \in Slots, EventUpdate(i) PROVE MinutesInv'
    <2>1. PICK s \in Rows : slot[i].shift = {s} /\ shift[s].status # "none"
      BY <1>1, <1>7 DEF EventUpdate, IInv, SlotsOK, SlotOK
    <2>2. PICK status, totals : shift' = [shift EXCEPT ![s].status = status, ![s].totals = totals]
      <3>1. PICK status : status = IF slot[i].type = "CLOCK_OUT" /\ ~slot[i].correction THEN "CLOSED" ELSE "OPEN"
        OBVIOUS
      <3>2. PICK totals : totals = Split(slot[i].seen)
        OBVIOUS
      <3>3. shift' = [shift EXCEPT ![s].status = status, ![s].totals = totals]
        BY <1>7, <2>1, <3>1, <3>2 DEF EventUpdate
      <3> QED
        BY <3>3
    <2>3. \A r \in Rows : /\ shift'[r].events = shift[r].events
                          /\ shift'[r].status # "none" => shift[r].status # "none"
      BY <1>1, <2>1, <2>2 DEF TypeOK, ShiftRows
    <2>4. now' = now /\ \A j \in Slots : slot'[j].at = "add" => slot'[j] = slot[j]
      BY <1>1, <1>7 DEF EventUpdate, Idle, TypeOK
    <2> QED
      BY <1>1, <1>2, <2>3, <2>4, EventsStay
  <1>8. ASSUME NEW quarters \in Pauses, Advance(quarters) PROVE MinutesInv'
    <2>1. now' = now + quarters /\ quarters \in Nat /\ UNCHANGED <<shift, slot>>
      BY <1>8, SetsAssumption DEF Advance
    <2> QED
      BY <1>1, <1>2, <2>1, EventsStay
  <1>9. CASE UNCHANGED vars
    BY <1>1, <1>2, <1>9, EventsStay DEF vars
  <1>10. Worker \subseteq Kinds /\ Corrections \subseteq Kinds
    BY DEF Kinds
  <1>11. ASSUME NEW i \in Slots, NEW s \in Rows, NEW type \in Corrections, CorrectRead(i, s, type) PROVE MinutesInv'
    BY <1>5, <1>10, <1>11 DEF CorrectRead
  <1>12. ASSUME NEW i \in Slots, NEW type \in Worker, EventRead(i, type) PROVE MinutesInv'
    BY <1>5, <1>10, <1>12 DEF EventRead, Open
  <1> QED
    BY <1>3, <1>4, <1>6, <1>7, <1>8, <1>9, <1>11, <1>12 DEF Next

LEMMA MinutesInvIsNear == MinutesInv => MinutesNear
  <1> SUFFICES ASSUME MinutesInv PROVE MinutesNear
    OBVIOUS
  <1>1. ASSUME NEW s \in Rows, shift[s].events # <<>>
        PROVE  /\ shift[s].events \in Seq(Entries) /\ Measured(shift[s].events)
               /\ Last(shift[s].events).time <= now /\ now \in Nat
    BY <1>1 DEF MinutesInv, IInv, TypeOK, ShiftRows
  <1> QED
    BY <1>1, MeasuredIsNear DEF MinutesNear

\* The totals splitShiftMinutes computes for a shift are off by half a minute an event at most
\* from what the worker was doing, whatever events come at whatever times (domain.ts:99-120).
THEOREM MinutesStayNear == Spec => []MinutesNear
  <1>1. Init => MinutesInv
    BY InitIInv DEF Init, MinutesInv, NoShift, Idle
  <1> QED
    BY <1>1, MinutesStep, MinutesInvIsNear, PTL DEF Spec
=============================================================================
