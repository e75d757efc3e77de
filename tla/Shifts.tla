-------------------------------- MODULE Shifts --------------------------------
(***************************************************************************)
(* Shifts of ONE worker (src/lib/shifts.ts) and the minutes they count     *)
(* (splitShiftMinutes in src/lib/domain.ts).  A request reads the shift    *)
(* with its events, adds an event, and writes back totals computed from    *)
(* what it read: three statements and no transaction, so requests of two   *)
(* tabs, and an administrator's corrections, interleave.                   *)
(*                                                                         *)
(* Time is in quarters of a minute.  appendEvent reads the clock before it *)
(* inserts the event; the two are one step here, so requests that cross    *)
(* insert their events in the order of their times.                        *)
(***************************************************************************)
EXTENDS Integers, Sequences, FiniteSets, Folds, SequencesExt

CONSTANTS
  Slots,       \* requests in flight at once
  Rows,        \* rows of Shift there is room for (bound)
  Worker,      \* event types the worker's routes are called with
  Corrections, \* event types corrections are recorded with
  Pauses,      \* how long the clock may jump
  MaxTime, MaxEvents, MaxCorrections  \* bounds; events of all shifts together

ASSUME TypesAssumption ==
  /\ Worker \subseteq {"CLOCK_OUT", "BREAK_START", "BREAK_END", "HEARTBEAT", "DISCONNECT"}
  /\ Corrections \subseteq
       {"CLOCK_IN", "CLOCK_OUT", "BREAK_START", "BREAK_END", "RECONNECT", "DISCONNECT"}
ASSUME SetsAssumption == IsFiniteSet(Slots) /\ IsFiniteSet(Rows) /\ Pauses \subseteq Nat

VARIABLES
  now,
  shift,     \* the Shift rows with their ShiftEvents and totals
  slot,      \* the requests
  clean,     \* history: shifts last written by a request that nothing crossed
  overlaps,  \* history: clock-ins that read while another one was creating its shift
  reopened   \* history: shifts set from CLOSED to OPEN

vars == <<now, shift, slot, clean, overlaps, reopened>>

NoTotals == [connected |-> 0, breaks |-> 0, gaps |-> 0]
NoShift == [status |-> "none", events |-> <<>>, totals |-> NoTotals]
Idle == [at |-> "idle", shift |-> {}, seen |-> <<>>, type |-> "none", correction |-> FALSE,
         open |-> FALSE, crossed |-> FALSE]
Open == {s \in Rows : shift[s].status = "OPEN"}
On(s) == {i \in Slots : s \in slot[i].shift}
Events == {p \in Rows \X (1..MaxEvents) : p[2] <= Len(shift[p[1]].events)}
At(place) == {i \in Slots : slot[i].at = place}

Init ==
  /\ now = 0
  /\ shift = [s \in Rows |-> NoShift]
  /\ slot = [i \in Slots |-> Idle]
  /\ clean = {} /\ overlaps = 0 /\ reopened = 0

-----------------------------------------------------------------------------
(* splitShiftMinutes.                                                      *)

\* Variant: whole minutes only.
RoundedDown(quarters) == quarters \div 4
\* Math.round of quarters / 4.
Rounded(quarters) == (quarters + 2) \div 4

StateAfter(state, type) ==
  CASE type \in {"CLOCK_IN", "RECONNECT", "BREAK_END"} -> "connected"
    [] type = "BREAK_START" -> "break"
    [] type \in {"DISCONNECT", "CLOCK_OUT"} -> "off"
    [] OTHER -> state

Added(acc, event) ==
  LET minutes == IF acc.last < 0 THEN 0 ELSE Rounded(event.time - acc.last) IN
  [connected |-> acc.connected + (IF acc.state = "connected" THEN minutes ELSE 0),
   breaks |-> acc.breaks + (IF acc.state = "break" THEN minutes ELSE 0),
   gaps |-> acc.gaps + (IF acc.state = "off" /\ minutes > 2 THEN minutes ELSE 0),
   state |-> StateAfter(acc.state, event.type),
   last |-> event.time]

\* Events are in the order of their times here, as the clock that stamps them is.
Split(events) ==
  LET end == FoldLeft(Added, [connected |-> 0, breaks |-> 0, gaps |-> 0, state |-> "off", last |-> -1],
                      events) IN
  [connected |-> end.connected, breaks |-> end.breaks, gaps |-> end.gaps]

-----------------------------------------------------------------------------
(* Clocking in.                                                            *)

\* Counts from the number of rows on are not told apart.
Overlaps == IF At("create") = {} \/ overlaps = Cardinality(Rows) THEN overlaps ELSE overlaps + 1

\* Variant: nobody looks for an open shift.
ClockInReadNothing(i) ==
  /\ slot[i].at = "idle"
  /\ slot' = [slot EXCEPT ![i].at = "create"]
  /\ overlaps' = Overlaps
  /\ UNCHANGED <<now, shift, clean, reopened>>

\* clockIn's openShift: with one open there is nothing to do.
ClockInRead(i) ==
  /\ slot[i].at = "idle"
  /\ Open = {}
  /\ slot' = [slot EXCEPT ![i].at = "create"]
  /\ overlaps' = Overlaps
  /\ UNCHANGED <<now, shift, clean, reopened>>

\* The shift and its first event are one insert.
ClockInCreate(i, s) ==
  /\ slot[i].at = "create"
  /\ shift[s].status = "none"
  /\ shift' = [shift EXCEPT ![s] = [status |-> "OPEN", totals |-> NoTotals,
                 events |-> <<[type |-> "CLOCK_IN", time |-> now, correction |-> FALSE]>>]]
  /\ slot' = [slot EXCEPT ![i] = Idle]
  /\ clean' = clean \cup {s}
  /\ UNCHANGED <<now, overlaps, reopened>>

-----------------------------------------------------------------------------
(* appendEvent.                                                            *)

\* Its first statement, for an event of this type on this shift.
Read(i, s, type, correction) ==
  /\ slot[i].at = "idle"
  /\ Cardinality(Events) + Cardinality({j \in Slots : slot[j].at = "add"}) < MaxEvents
  /\ slot' = [j \in Slots |->
       IF j = i THEN [at |-> "add", shift |-> {s}, seen |-> shift[s].events, type |-> type,
                      correction |-> correction, open |-> shift[s].status = "OPEN",
                      crossed |-> On(s) # {}]
       ELSE IF j \in On(s) THEN [slot[j] EXCEPT !.crossed = TRUE] ELSE slot[j]]
  /\ UNCHANGED <<now, shift, clean, overlaps, reopened>>

\* Variant: any of the worker's shifts.
EventReadOfAny(i, type) ==
  \E s \in {r \in Rows : shift[r].status # "none"} : Read(i, s, type, FALSE)

\* startBreak, endBreak, heartbeat, disconnect, clockOut: findFirst takes an open shift, any one.
EventRead(i, type) == \E s \in Open : Read(i, s, type, FALSE)

\* correctShift: the administrator names the shift, open or not.
CorrectRead(i, s, type) ==
  /\ shift[s].status # "none"
  /\ Cardinality({k \in Slots : slot[k].correction}) +
     Cardinality({e \in Events : shift[e[1]].events[e[2]].correction}) < MaxCorrections
  /\ Read(i, s, type, TRUE)

\* The clock is read and the event inserted.
EventAdd(i) ==
  /\ slot[i].at = "add"
  /\ \E s \in slot[i].shift :
       LET event == [type |-> slot[i].type, time |-> now, correction |-> slot[i].correction] IN
       /\ shift' = [shift EXCEPT ![s].events = Append(@, event)]
       /\ slot' = [slot EXCEPT ![i].at = "update", ![i].seen = Append(@, event)]
       /\ clean' = clean \ {s}
  /\ UNCHANGED <<now, overlaps, reopened>>

\* Variant: the totals of the events that were read.
EventUpdateOfRead(i) ==
  /\ slot[i].at = "update"
  /\ \E s \in slot[i].shift :
       LET closes == slot[i].type = "CLOCK_OUT" /\ ~slot[i].correction IN
       /\ shift' = [shift EXCEPT ![s].status = IF closes THEN "CLOSED" ELSE "OPEN",
                                 ![s].totals = Split(Front(slot[i].seen))]
       /\ clean' = IF slot[i].crossed THEN clean ELSE clean \cup {s}
       /\ reopened' = IF shift[s].status = "CLOSED" /\ ~closes THEN reopened + 1 ELSE reopened
  /\ slot' = [slot EXCEPT ![i] = Idle]
  /\ UNCHANGED <<now, overlaps>>

\* Status and totals.  A correction writes OPEN, even one recorded as a CLOCK_OUT: it is
\* its type, ADMIN_CORRECTION, that is compared.
EventUpdate(i) ==
  /\ slot[i].at = "update"
  /\ \E s \in slot[i].shift :
       LET closes == slot[i].type = "CLOCK_OUT" /\ ~slot[i].correction IN
       /\ shift' = [shift EXCEPT ![s].status = IF closes THEN "CLOSED" ELSE "OPEN",
                                 ![s].totals = Split(slot[i].seen)]
       /\ clean' = IF slot[i].crossed THEN clean ELSE clean \cup {s}
       /\ reopened' = IF shift[s].status = "CLOSED" /\ ~closes THEN reopened + 1 ELSE reopened
  /\ slot' = [slot EXCEPT ![i] = Idle]
  /\ UNCHANGED <<now, overlaps>>

\* A request is cut off between two of its statements.
Crash(i) ==
  /\ slot[i].at # "idle"
  /\ slot' = [slot EXCEPT ![i] = Idle]
  /\ UNCHANGED <<now, shift, clean, overlaps, reopened>>

Advance(quarters) ==
  /\ now + quarters <= MaxTime
  /\ now' = now + quarters
  /\ UNCHANGED <<shift, slot, clean, overlaps, reopened>>

Next ==
  \/ \E i \in Slots :
       \/ ClockInRead(i) \/ EventAdd(i) \/ EventUpdate(i) \/ Crash(i)
       \/ \E s \in Rows : ClockInCreate(i, s) \/ \E type \in Corrections : CorrectRead(i, s, type)
       \/ \E type \in Worker : EventRead(i, type)
  \/ \E quarters \in Pauses : Advance(quarters)

Spec == Init /\ [][Next]_vars

-----------------------------------------------------------------------------
\* One event that no other request crosses sets a shift right, whatever lost writes it had
\* before: the totals are those of all its events, and the shift is closed exactly if that
\* event was the worker's clock-out.
UndisturbedEventRepairs ==
  \A s \in clean :
    /\ shift[s].totals = Split(shift[s].events)
    /\ shift[s].status = "CLOSED" <=> 
         LET last == Last(shift[s].events) IN last.type = "CLOCK_OUT" /\ ~last.correction

\* A worker has one open shift, but for clock-ins that overlapped and shifts that were
\* opened again.
OneOpenShift == Cardinality(Open) <= 1 + overlaps + reopened

\* A closed shift is opened again only by a correction, or by a request that had read it
\* while it was open.
ReopenedByWhom ==
  [][\A s \in Rows :
       shift[s].status = "CLOSED" /\ shift'[s].status = "OPEN" =>
         \E i \in On(s) : slot[i].at = "update" /\ (slot[i].correction \/ slot[i].open)]_vars

\* What the worker did at each quarter of a minute, from the events alone.
StateAt(events, q) ==
  LET moves == {e \in DOMAIN events : events[e].type # "HEARTBEAT" /\ events[e].time <= q} IN
  IF moves = {} THEN "off"
  ELSE StateAfter("off", events[CHOOSE e \in moves : \A f \in moves : f <= e].type)

\* The minutes of a shift are off by half a minute an event at most, from what the worker
\* was doing at each moment; docs/PHASES.md:21 makes them KPI inputs.
MinutesNear ==
  \A s \in Rows :
    LET events == shift[s].events
        Quarters(state) == Cardinality({q \in 0..(now - 1) :
                             /\ events[1].time <= q /\ q < Last(events).time
                             /\ StateAt(events, q) = state})
        Near(minutes, state) ==
          /\ 4 * minutes <= Quarters(state) + 2 * (Len(events) - 1)
          /\ 4 * minutes >= Quarters(state) - 2 * (Len(events) - 1)
    IN events # <<>> => /\ Near(Split(events).connected, "connected")
                        /\ Near(Split(events).breaks, "break")
=============================================================================
