----------------------------- MODULE AccessProofs -----------------------------
(***************************************************************************)
(* Proofs about Access for any number of requests, sessions, logins and     *)
(* revocations, any limit and any window: who still acts for a disabled     *)
(* account, which sessions survive a revocation, and how many logins the    *)
(* shared limit lets through.                                               *)
(***************************************************************************)
EXTENDS Access, FiniteSetTheorems, TLAPS

SessionRows == [made : BOOLEAN, revoked : BOOLEAN, expires : Nat, epoch : Nat]
Requests == [at : {"idle", "user", "create", "act"}, session : SUBSET Sessions, epoch : Nat]

TypeOK ==
  /\ now \in Nat /\ active \in BOOLEAN
  /\ session \in [Sessions -> SessionRows] /\ slot \in [Slots -> Requests]
  /\ epoch \in Nat /\ inside \in Nat /\ straddling \in Nat

OldSessions == {s \in Sessions : Usable(s) /\ session[s].epoch < epoch}
OldLogins == {i \in Slots : slot[i].at = "create" /\ slot[i].epoch < epoch}

\* An old session is one an old login made: together they are never more than the logins
\* the last revocation missed.
OldOnesBounded == Cardinality(OldSessions) + Cardinality(OldLogins) <= straddling

IInv == TypeOK /\ DisablingHolds /\ OldOnesBounded

-----------------------------------------------------------------------------
LEMMA Counts ==
  /\ \A S \in SUBSET Slots : IsFiniteSet(S) /\ Cardinality(S) \in Nat
  /\ \A S \in SUBSET Sessions : IsFiniteSet(S) /\ Cardinality(S) \in Nat
  /\ \A S \in SUBSET Slots : \A T \in SUBSET S : Cardinality(T) <= Cardinality(S)
  /\ \A S \in SUBSET Sessions : \A T \in SUBSET S : Cardinality(T) <= Cardinality(S)
  <1>1. \A S \in SUBSET Slots : IsFiniteSet(S)
    BY SetsAssumption, FS_Subset
  <1>2. \A S \in SUBSET Sessions : IsFiniteSet(S)
    BY SetsAssumption, FS_Subset
  <1> QED
    BY <1>1, <1>2, FS_Subset, FS_CardinalityType

LEMMA Subsets == /\ \A place : At(place) \in SUBSET Slots
                 /\ OldSessions \in SUBSET Sessions /\ OldLogins \in SUBSET Slots
                 /\ OldSessions' \in SUBSET Sessions /\ OldLogins' \in SUBSET Slots
                 /\ At("act")' \in SUBSET Slots
  BY DEF At, OldSessions, OldLogins

LEMMA InitIInv == Init => IInv
  <1> SUFFICES ASSUME Init PROVE IInv
    OBVIOUS
  <1>1. TypeOK
    BY DEF Init, TypeOK, SessionRows, Requests, NoSession, Idle
  <1>2. DisablingHolds
    BY DEF Init, DisablingHolds
  <1>3. OldSessions = {} /\ OldLogins = {}
    BY DEF Init, OldSessions, OldLogins, Usable, NoSession, Idle
  <1> QED
    BY <1>1, <1>2, <1>3, FS_EmptySet DEF Init, IInv, OldOnesBounded

-----------------------------------------------------------------------------
\* A step that lets nobody past a check keeps both counts.
LEMMA NobodyEnters ==
  ASSUME IInv, TypeOK', UNCHANGED <<active, epoch, inside, straddling>>,
         At("act")' \subseteq At("act"), OldLogins' \subseteq OldLogins, OldSessions' \subseteq OldSessions
  PROVE  IInv'
  <1>1. /\ Cardinality(At("act")') <= Cardinality(At("act"))
        /\ Cardinality(At("act")') \in Nat /\ Cardinality(At("act")) \in Nat
    BY Counts, Subsets
  <1>2. /\ Cardinality(OldLogins') <= Cardinality(OldLogins)
        /\ Cardinality(OldLogins') \in Nat /\ Cardinality(OldLogins) \in Nat
    BY Counts, Subsets
  <1>3. /\ Cardinality(OldSessions') <= Cardinality(OldSessions)
        /\ Cardinality(OldSessions') \in Nat /\ Cardinality(OldSessions) \in Nat
    BY Counts, Subsets
  <1>4. DisablingHolds'
    BY <1>1 DEF IInv, TypeOK, DisablingHolds
  <1>5. OldOnesBounded'
    BY <1>2, <1>3 DEF IInv, TypeOK, OldOnesBounded
  <1> QED
    BY <1>4, <1>5 DEF IInv

LEMMA LoginStep ==
  ASSUME IInv, NEW i \in Slots, Login(i)
  PROVE  IInv'
  <1>1. /\ slot[i].at = "idle" /\ UNCHANGED <<now, active, session, epoch, inside, straddling>>
        /\ \/ slot' = slot
           \/ slot' = [slot EXCEPT ![i] = [at |-> "user", session |-> slot[i].session, epoch |-> slot[i].epoch]]
    BY DEF Login, IInv, TypeOK, Requests
  <1>2. TypeOK'
    BY <1>1 DEF IInv, TypeOK, Requests
  <1>3. At("act")' \subseteq At("act") /\ OldLogins' \subseteq OldLogins
    BY <1>1 DEF IInv, TypeOK, At, OldLogins
  <1>4. OldSessions' = OldSessions
    BY <1>1 DEF OldSessions, Usable
  <1> QED
    BY <1>1, <1>2, <1>3, <1>4, NobodyEnters

LEMMA UserReadStep ==
  ASSUME IInv, NEW i \in Slots, UserRead(i)
  PROVE  IInv'
  <1>1. /\ UNCHANGED <<now, active, session, epoch, inside, straddling>>
        /\ \/ slot' = [slot EXCEPT ![i] = [at |-> "create", session |-> slot[i].session, epoch |-> epoch]]
           \/ slot' = [slot EXCEPT ![i] = Idle]
    BY DEF UserRead, Ends, IInv, TypeOK, Requests
  <1>2. TypeOK'
    BY <1>1 DEF IInv, TypeOK, Requests, Idle
  <1>3. At("act")' \subseteq At("act") /\ OldLogins' \subseteq OldLogins
    BY <1>1 DEF IInv, TypeOK, Idle, At, OldLogins
  <1>4. OldSessions' = OldSessions
    BY <1>1 DEF OldSessions, Usable
  <1> QED
    BY <1>1, <1>2, <1>3, <1>4, NobodyEnters

LEMMA ActStep ==
  ASSUME IInv, NEW i \in Slots, Act(i)
  PROVE  IInv'
  <1>1. /\ UNCHANGED <<now, active, epoch, inside, straddling>> /\ slot' = [slot EXCEPT ![i] = Idle]
    BY DEF Act, Ends
  <1>2. /\ session' \in [Sessions -> SessionRows]
        /\ \A s \in Sessions : /\ session'[s].made = session[s].made /\ session'[s].epoch = session[s].epoch
                               /\ session'[s].expires = session[s].expires
                               /\ session[s].revoked => session'[s].revoked
    <2>1. CASE session' = session
      BY <2>1 DEF IInv, TypeOK
    <2>2. CASE session' = [s \in Sessions |->
                            IF s \in slot[i].session THEN [session[s] EXCEPT !.revoked = TRUE] ELSE session[s]]
      <3>1. ASSUME NEW s \in Sessions
            PROVE  /\ session'[s] \in SessionRows /\ session'[s].made = session[s].made
                   /\ session'[s].epoch = session[s].epoch /\ session'[s].expires = session[s].expires
                   /\ session[s].revoked => session'[s].revoked
        <4>1. session[s] \in SessionRows
          BY DEF IInv, TypeOK
        <4>2. session'[s] = [session[s] EXCEPT !.revoked = TRUE] \/ session'[s] = session[s]
          BY <2>2
        <4> QED
          BY <4>1, <4>2 DEF SessionRows
      <3> QED
        BY <2>2, <3>1
    <2> QED
      BY <2>1, <2>2 DEF Act
  <1>3. TypeOK'
    BY <1>1, <1>2 DEF IInv, TypeOK, Requests, Idle
  <1>4. At("act")' \subseteq At("act") /\ OldLogins' \subseteq OldLogins
    BY <1>1 DEF IInv, TypeOK, Idle, At, OldLogins
  <1>5. OldSessions' \subseteq OldSessions
    BY <1>1, <1>2 DEF OldSessions, Usable
  <1> QED
    BY <1>1, <1>3, <1>4, <1>5, NobodyEnters

LEMMA TickStep ==
  ASSUME IInv, Tick
  PROVE  IInv'
  <1>1. now' = now + 1 /\ UNCHANGED <<active, session, slot, epoch, inside, straddling>>
    BY DEF Tick
  <1>2. TypeOK'
    BY <1>1 DEF IInv, TypeOK
  <1>3. At("act")' = At("act") /\ OldLogins' = OldLogins
    BY <1>1 DEF At, OldLogins
  <1>4. OldSessions' \subseteq OldSessions
    BY <1>1 DEF IInv, TypeOK, SessionRows, OldSessions, Usable
  <1> QED
    BY <1>1, <1>2, <1>3, <1>4, NobodyEnters

\* A request passes its check only while the account is active.
LEMMA RequestStep ==
  ASSUME IInv, NEW i \in Slots, NEW s \in Sessions, Request(i, s)
  PROVE  IInv'
  <1>1. /\ slot[i].at = "idle" /\ active /\ UNCHANGED <<now, active, session, epoch, inside, straddling>>
        /\ slot' = [slot EXCEPT ![i] = [at |-> "act", session |-> {s}, epoch |-> slot[i].epoch]]
    <2>1. slot \in [Slots -> Requests] /\ slot[i] \in Requests
      BY DEF IInv, TypeOK
    <2>2. slot' = [slot EXCEPT ![i].at = "act", ![i].session = {s}]
      BY DEF Request
    <2>3. ASSUME NEW j \in Slots \ {i} PROVE slot'[j] = slot[j]
      BY <2>1, <2>2
    <2>4. slot'[i] = [at |-> "act", session |-> {s}, epoch |-> slot[i].epoch]
      <3>1. slot'[i] = [slot[i] EXCEPT !.at = "act", !.session = {s}]
        BY <2>1, <2>2
      <3> QED
        BY <2>1, <3>1 DEF Requests
    <2>5. slot' \in [Slots -> Requests]
      BY <2>1, <2>2 DEF Requests
    <2> QED
      BY <2>1, <2>3, <2>4, <2>5 DEF Request
  <1>2. TypeOK'
    BY <1>1 DEF IInv, TypeOK, Requests
  <1>3. OldLogins' = OldLogins
    BY <1>1 DEF IInv, TypeOK, Requests, OldLogins
  <1>4. OldSessions' = OldSessions
    BY <1>1 DEF OldSessions, Usable
  <1> QED
    BY <1>1, <1>2, <1>3, <1>4 DEF IInv, DisablingHolds, OldOnesBounded

\* An old login that ends makes at most one old session.
LEMMA CreateStep ==
  ASSUME IInv, NEW i \in Slots, CreateSession(i)
  PROVE  IInv'
  <1>1. PICK s \in Sessions :
          /\ ~session[s].made
          /\ session' = [session EXCEPT ![s] = [made |-> TRUE, revoked |-> FALSE,
                                                expires |-> now + Lifetime, epoch |-> slot[i].epoch]]
    BY DEF CreateSession
  <1>2. /\ slot[i].at = "create" /\ slot' = [slot EXCEPT ![i] = Idle]
        /\ UNCHANGED <<now, active, epoch, inside, straddling>>
    BY DEF CreateSession, Ends
  <1>3. TypeOK'
    <2>1. slot[i].epoch \in Nat /\ now + Lifetime \in Nat
      BY LimitAssumption DEF IInv, TypeOK, Requests
    <2> QED
      BY <1>1, <1>2, <2>1 DEF IInv, TypeOK, SessionRows, Requests, Idle
  <1>4. At("act")' = At("act") /\ OldLogins' = OldLogins \ {i}
    BY <1>2 DEF IInv, TypeOK, Idle, At, OldLogins
  <1>5. DisablingHolds'
    BY <1>2, <1>4 DEF IInv, DisablingHolds
  <1>6. OldOnesBounded'
    <2>1. CASE slot[i].epoch < epoch
      <3>1. i \in OldLogins
        BY <1>2, <2>1 DEF OldLogins
      <3>2. OldSessions' \subseteq OldSessions \cup {s} /\ s \notin OldSessions
        BY <1>1, <1>2 DEF IInv, TypeOK, OldSessions, Usable
      <3>3. Cardinality(OldLogins') = Cardinality(OldLogins) - 1 /\ Cardinality(OldLogins) \in Nat
        BY <1>4, <3>1, Subsets, Counts, FS_RemoveElement
      <3>4. /\ Cardinality(OldSessions \cup {s}) = Cardinality(OldSessions) + 1
            /\ Cardinality(OldSessions) \in Nat
        BY <3>2, Subsets, Counts, FS_AddElement
      <3>5. Cardinality(OldSessions') <= Cardinality(OldSessions \cup {s}) /\ Cardinality(OldSessions') \in Nat
        BY <3>2, Subsets, Counts
      <3> QED
        BY <1>2, <3>3, <3>4, <3>5 DEF IInv, TypeOK, OldOnesBounded
    <2>2. CASE ~(slot[i].epoch < epoch)
      <3>1. OldLogins' = OldLogins
        BY <1>4, <2>2 DEF OldLogins
      <3>2. OldSessions' = OldSessions
        BY <1>1, <1>2, <2>2 DEF IInv, TypeOK, OldSessions, Usable
      <3> QED
        BY <1>2, <3>1, <3>2 DEF IInv, OldOnesBounded
    <2> QED
      BY <2>1, <2>2
  <1> QED
    BY <1>3, <1>5, <1>6 DEF IInv

LEMMA UpdateStep ==
  ASSUME IInv, NEW status \in BOOLEAN, UpdateWorker(status)
  PROVE  IInv'
  <1>1. /\ active' = status /\ UNCHANGED <<now, session, slot, epoch, straddling>>
        /\ inside' = IF status THEN inside ELSE Cardinality(At("act"))
    BY DEF UpdateWorker
  <1>2. Cardinality(At("act")) \in Nat
    BY Counts, Subsets
  <1>3. TypeOK'
    BY <1>1, <1>2 DEF IInv, TypeOK
  <1>4. At("act")' = At("act") /\ OldLogins' = OldLogins /\ OldSessions' = OldSessions
    BY <1>1 DEF At, OldLogins, OldSessions, Usable
  <1>5. DisablingHolds'
    BY <1>1, <1>2, <1>4 DEF DisablingHolds
  <1> QED
    BY <1>1, <1>3, <1>4, <1>5 DEF IInv, OldOnesBounded

LEMMA RevokeStep ==
  ASSUME IInv, RevokeWorkerSessions
  PROVE  IInv'
  <1>1. /\ session' = [s \in Sessions |-> [session[s] EXCEPT !.revoked = @ \/ session[s].made]]
        /\ straddling' = Cardinality(At("create")) /\ epoch' = epoch + 1
        /\ UNCHANGED <<now, active, slot, inside>>
    BY DEF RevokeWorkerSessions
  <1>2. ASSUME NEW s \in Sessions
        PROVE  session'[s] \in SessionRows /\ (session'[s].made => session'[s].revoked)
    <2>1. session[s] \in SessionRows
      BY DEF IInv, TypeOK
    <2>2. session'[s] = [session[s] EXCEPT !.revoked = session[s].revoked \/ session[s].made]
      BY <1>1
    <2> QED
      BY <2>1, <2>2 DEF SessionRows
  <1>3. Cardinality(At("create")) \in Nat
    BY Counts, Subsets
  <1>4. TypeOK'
    <2>1. session' \in [Sessions -> SessionRows]
      BY <1>1, <1>2
    <2> QED
      BY <1>1, <1>3, <2>1 DEF IInv, TypeOK
  <1>5. At("act")' = At("act")
    BY <1>1 DEF At
  <1>6. OldSessions' = {}
    BY <1>2 DEF OldSessions, Usable
  <1>7. OldLogins' \in SUBSET At("create")
    BY <1>1 DEF OldLogins, At
  <1>8. Cardinality(OldLogins') <= Cardinality(At("create")) /\ Cardinality(OldLogins') \in Nat
    BY <1>7, Counts, Subsets
  <1>9. OldOnesBounded'
    BY <1>1, <1>3, <1>6, <1>8, FS_EmptySet DEF OldOnesBounded
  <1> QED
    BY <1>1, <1>4, <1>5, <1>9 DEF IInv, DisablingHolds

-----------------------------------------------------------------------------
LEMMA NextIInv == IInv /\ [Next]_vars => IInv'
  <1> SUFFICES ASSUME IInv, [Next]_vars PROVE IInv'
    OBVIOUS
  <1>1. ASSUME NEW i \in Slots, Login(i) \/ UserRead(i) \/ CreateSession(i) \/ Act(i) PROVE IInv'
    BY <1>1, LoginStep, UserReadStep, CreateStep, ActStep
  <1>2. ASSUME NEW i \in Slots, NEW s \in Sessions, Request(i, s) PROVE IInv'
    BY <1>2, RequestStep
  <1>3. ASSUME NEW status \in BOOLEAN, UpdateWorker(status) PROVE IInv'
    BY <1>3, UpdateStep
  <1>4. CASE RevokeWorkerSessions
    BY <1>4, RevokeStep
  <1>5. CASE Tick
    BY <1>5, TickStep
  <1>6. CASE DeleteExpiredBuckets \/ UNCHANGED vars
    BY <1>6 DEF DeleteExpiredBuckets, vars, IInv, TypeOK, DisablingHolds, At, OldOnesBounded, OldLogins, OldSessions, Usable
  <1> QED
    BY <1>1, <1>2, <1>3, <1>4, <1>5, <1>6 DEF Next

\* The inductive invariant holds in every reachable state.
THEOREM AccessInvariance == Spec => []IInv
  BY InitIInv, NextIInv, PTL DEF Spec

\* While an account is disabled nobody acts with it but the requests that had passed
\* their session check when updateWorker disabled it.
THEOREM DisabledAccountsAreOut == Spec => []DisablingHolds
  <1>1. IInv => DisablingHolds
    BY DEF IInv
  <1> QED
    BY <1>1, AccessInvariance, PTL

\* After revokeWorkerSessions no more sessions of earlier logins are alive than there
\* were logins between their password check and their session at that moment.
THEOREM RevokedSessionsAreDead == Spec => []RevocationHolds
  <1>1. IInv => RevocationHolds
    <2> SUFFICES ASSUME IInv PROVE Cardinality(OldSessions) <= straddling
      BY DEF RevocationHolds, OldSessions
    <2>1. Cardinality(OldSessions) \in Nat /\ Cardinality(OldLogins) \in Nat
      BY Counts, Subsets
    <2> QED
      BY <2>1 DEF IInv, TypeOK, OldOnesBounded
  <1> QED
    BY <1>1, AccessInvariance, PTL

-----------------------------------------------------------------------------
(* The login limit.                                                        *)

Admissions == [nth : Nat, at : Nat, number : 1..Limit, until : Nat]
Admission(number, until) ==
  [nth |-> Cardinality(admitted) + 1, at |-> now, number |-> number, until |-> until]

\* The bucket in force (expires > now) is the last one, numbers its logins without a gap,
\* and any two buckets begin a window apart.  A login falls in the window of its bucket.
BucketsApart ==
  \A a, b \in admitted : a.until < b.until => a.until + Window <= b.until
Numbered ==
  \A a, b \in admitted : a.until = b.until /\ a.number = b.number => a = b
InWindow ==
  \A a \in admitted : a.at <= now /\ a.at < a.until /\ a.until <= a.at + Window
Expired == bucket.expires <= now => \A a \in admitted : a.until <= now
InForce ==
  bucket.expires > now =>
    /\ bucket.expires <= now + Window
    /\ \A a \in admitted :
         /\ a.until <= bucket.expires
         /\ a.until # bucket.expires => a.until + Window <= bucket.expires
         /\ a.until = bucket.expires => a.number <= bucket.count
    /\ \A n \in 1..Limit : n <= bucket.count =>
         \E a \in admitted : a.until = bucket.expires /\ a.number = n

LimitTypes ==
  /\ now \in Nat /\ bucket \in [count : Nat, expires : Nat]
  /\ admitted \subseteq Admissions /\ IsFiniteSet(admitted)

LimitInv ==
  LimitTypes /\ BucketsApart /\ Numbered /\ InWindow /\ Expired /\ InForce

LEMMA LimitFields ==
  ASSUME LimitTypes, NEW a \in admitted
  PROVE  /\ a.at \in Nat /\ a.until \in Nat /\ a.number \in Nat
         /\ 1 <= a.number /\ a.number <= Limit
         /\ now \in Nat /\ bucket.count \in Nat /\ bucket.expires \in Nat
         /\ Limit \in Nat /\ Window \in Nat /\ Window >= 1
  BY LimitAssumption DEF LimitTypes, Admissions

LEMMA LimitInit == Init => LimitInv
  BY FS_EmptySet DEF Init, LimitInv, LimitTypes, BucketsApart, Numbered, InWindow, Expired, InForce

\* A login that is denied, or a bucket that is dropped.
LEMMA LimitSame ==
  ASSUME LimitInv, UNCHANGED <<now, bucket, admitted>>
  PROVE  LimitInv'
  BY DEF LimitInv, LimitTypes, BucketsApart, Numbered, InWindow, Expired, InForce

LEMMA TickKeepsLimit ==
  ASSUME LimitInv, Tick
  PROVE  LimitInv'
  <1>1. now' = now + 1 /\ UNCHANGED <<bucket, admitted>>
    BY DEF Tick
  <1>2. LimitTypes' /\ BucketsApart' /\ Numbered'
    BY <1>1 DEF LimitInv, LimitTypes, BucketsApart, Numbered
  <1>3. \A a \in admitted : a.at \in Nat /\ a.until \in Nat
    BY LimitFields DEF LimitInv
  <1>4. now \in Nat /\ bucket.expires \in Nat /\ Window \in Nat
    BY LimitAssumption DEF LimitInv, LimitTypes
  <1>5. InWindow'
    BY <1>1, <1>3, <1>4 DEF LimitInv, InWindow
  <1>6. Expired'
    BY <1>1, <1>3, <1>4 DEF LimitInv, Expired, InForce
  <1>7. InForce'
    BY <1>1, <1>3, <1>4 DEF LimitInv, InForce
  <1> QED
    BY <1>2, <1>5, <1>6, <1>7 DEF LimitInv

LEMMA DeleteKeepsLimit ==
  ASSUME LimitInv, DeleteExpiredBuckets
  PROVE  LimitInv'
  <1>1. /\ bucket' = [count |-> 0, expires |-> 0] /\ UNCHANGED <<now, admitted>>
        /\ bucket.expires <= now
    BY DEF DeleteExpiredBuckets
  <1> QED
    BY <1>1 DEF LimitInv, LimitTypes, BucketsApart, Numbered, InWindow, Expired, InForce

\* What a login makes of the bucket: the first of a new one, or the next of the old one.
LEMMA LoginBucket ==
  ASSUME LimitInv, NEW i \in Slots, Login(i)
  PROVE  /\ now' = now
         /\ \/ /\ bucket.expires <= now /\ bucket'.count = 1
               /\ bucket'.expires = now + Window
            \/ /\ bucket.expires > now /\ bucket'.expires = bucket.expires
               /\ bucket'.count = bucket.count + 1
               /\ bucket'.count <= Limit
            \/ /\ bucket.expires > now /\ bucket'.expires = bucket.expires
               /\ bucket.count >= Limit
               /\ bucket'.count = Limit + 1
         /\ bucket' \in [count : Nat, expires : Nat]
         /\ admitted' = IF bucket'.count <= Limit
                        THEN admitted \cup {Admission(bucket'.count, bucket'.expires)}
                        ELSE admitted
  <1>1. bucket' = [Counted EXCEPT !.count = IF @ > Limit THEN Limit + 1 ELSE @]
    BY DEF Login
  <1>2. bucket \in [count : Nat, expires : Nat] /\ now \in Nat /\ Limit \in Nat \ {0} /\ Window \in Nat
    BY LimitAssumption DEF LimitInv, LimitTypes
  <1>3. now' = now
        /\ admitted' = IF bucket'.count <= Limit
                       THEN admitted \cup {Admission(bucket'.count, bucket'.expires)}
                       ELSE admitted
    BY DEF Login, Admission
  <1>4. CASE bucket.expires <= now
    <2>1. Counted = [count |-> 1, expires |-> now + Window]
      BY <1>4 DEF Counted
    <2>2. bucket' = [count |-> 1, expires |-> now + Window]
      BY <1>1, <1>2, <2>1
    <2>3. /\ bucket'.count = 1 /\ bucket'.expires = now + Window
          /\ bucket' \in [count : Nat, expires : Nat]
      BY <1>2, <2>2
    <2> QED
      BY <1>3, <1>4, <2>3
  <1>5. CASE ~(bucket.expires <= now)
    <2>1. Counted = [count |-> bucket.count + 1, expires |-> bucket.expires]
      BY <1>5 DEF Counted
    <2>2. bucket' = [count |-> IF bucket.count + 1 > Limit THEN Limit + 1 ELSE bucket.count + 1,
                     expires |-> bucket.expires]
      BY <1>1, <2>1
    <2>3. /\ bucket'.count = IF bucket.count + 1 > Limit THEN Limit + 1 ELSE bucket.count + 1
          /\ bucket'.expires = bucket.expires
          /\ bucket' \in [count : Nat, expires : Nat]
      BY <1>2, <2>2
    <2>4. /\ bucket.expires > now
          /\ \/ bucket'.count = bucket.count + 1 /\ bucket'.count <= Limit
             \/ bucket.count >= Limit /\ bucket'.count = Limit + 1
      BY <1>2, <1>5, <2>3
    <2> QED
      BY <1>3, <2>3, <2>4
  <1> QED
    BY <1>4, <1>5

LEMMA LoginKeepsLimit ==
  ASSUME LimitInv, NEW i \in Slots, Login(i)
  PROVE  LimitInv'
  <1>t. /\ now \in Nat /\ bucket \in [count : Nat, expires : Nat] /\ LimitTypes
        /\ bucket' \in [count : Nat, expires : Nat]
        /\ Limit \in Nat \ {0} /\ Window \in Nat \ {0} /\ now' = now
    BY LoginBucket, LimitAssumption DEF LimitInv, LimitTypes
  <1>f. \A a \in admitted : /\ a.at \in Nat /\ a.until \in Nat /\ a.number \in Nat
                            /\ 1 <= a.number /\ a.number <= Limit
    BY <1>t, LimitFields
  <1>inv. BucketsApart /\ Numbered /\ InWindow /\ Expired /\ InForce
    BY DEF LimitInv
  <1>1. CASE bucket'.count > Limit
    <2>1. bucket.expires > now /\ bucket'.expires = bucket.expires /\ bucket.count >= Limit
          /\ bucket'.count = Limit + 1 /\ admitted' = admitted
      BY <1>1, <1>t, LoginBucket
    <2>2. LimitTypes' /\ BucketsApart' /\ Numbered' /\ InWindow' /\ Expired'
      BY <1>t, <1>inv, <2>1 DEF LimitTypes, BucketsApart, Numbered, InWindow, Expired
    <2>3. InForce'
      <3>1. \A a \in admitted : a.until = bucket.expires => a.number <= bucket'.count
        BY <1>t, <1>f, <2>1
      <3>2. \A n \in 1..Limit : n <= bucket.count
        BY <1>t, <2>1
      <3> QED
        BY <1>t, <1>inv, <2>1, <3>1, <3>2 DEF InForce
    <2> QED
      BY <2>2, <2>3 DEF LimitInv
  <1>2. CASE ~(bucket'.count > Limit)
    <2>1. PICK c \in Nat, u \in Nat : c = bucket'.count /\ u = bucket'.expires
      BY <1>t
    <2>2. PICK x : x = Admission(c, u)
      OBVIOUS
    <2>3. admitted' = admitted \cup {x} /\ x.at = now /\ x.number = c /\ x.until = u
          /\ 1 <= c /\ c <= Limit
      BY <1>2, <1>t, <2>1, <2>2, LoginBucket DEF Admission
    <2>4. \/ bucket.expires <= now /\ c = 1 /\ u = now + Window
          \/ bucket.expires > now /\ u = bucket.expires /\ c = bucket.count + 1
      BY <1>2, <1>t, <2>1, LoginBucket
    <2>5. u > now /\ u <= now + Window
      BY <1>t, <1>inv, <2>4 DEF InForce
    \* The new admission against the old ones.
    <2>6. ASSUME NEW a \in admitted
          PROVE  /\ a.until <= u
                 /\ a.until # u => a.until + Window <= u
                 /\ a.until = u => a.number < c
      <3>1. CASE bucket.expires <= now
        <4>1. a.until <= now
          BY <1>inv, <3>1 DEF Expired
        <4> QED
          BY <1>t, <1>f, <2>4, <3>1, <4>1
      <3>2. CASE bucket.expires > now
        BY <1>t, <1>f, <1>inv, <2>4, <3>2 DEF InForce
      <3> QED
        BY <1>t, <3>1, <3>2
    <2>7. LimitTypes'
      <3>1. x \in Admissions
        BY <1>t, <2>1, <2>2, <2>3, FS_CardinalityType DEF LimitTypes, Admission, Admissions
      <3>2. IsFiniteSet(admitted \cup {x})
        BY <1>t, FS_AddElement DEF LimitTypes
      <3> QED
        BY <1>t, <2>3, <3>1, <3>2 DEF LimitTypes
    <2>8. BucketsApart'
      BY <1>t, <1>f, <1>inv, <2>1, <2>3, <2>6 DEF BucketsApart
    <2>9. Numbered'
      <3> SUFFICES ASSUME NEW a \in admitted', NEW b \in admitted',
                          a.until = b.until, a.number = b.number
                   PROVE  a = b
        BY DEF Numbered
      <3>1. CASE a \in admitted /\ b \in admitted
        BY <1>inv, <3>1 DEF Numbered
      <3>2. CASE a = x /\ b = x
        BY <3>2
      <3>3. CASE a = x /\ b \in admitted
        BY <1>f, <2>1, <2>3, <2>6, <3>3
      <3>4. CASE b = x /\ a \in admitted
        BY <1>f, <2>1, <2>3, <2>6, <3>4
      <3> QED
        BY <2>3, <3>1, <3>2, <3>3, <3>4
    <2>10. InWindow'
      BY <1>t, <1>inv, <2>1, <2>3, <2>5 DEF InWindow
    <2>11. Expired'
      BY <1>t, <2>1, <2>5 DEF Expired
    <2>12. InForce'
      <3>1. \A a \in admitted' : /\ a.until <= u
                                 /\ a.until # u => a.until + Window <= u
                                 /\ a.until = u => a.number <= c
        BY <1>f, <2>1, <2>3, <2>6
      <3>2. ASSUME NEW n \in 1..Limit, n <= c
            PROVE  \E a \in admitted' : a.until = u /\ a.number = n
        <4>1. CASE n = c
          BY <2>3, <4>1
        <4>2. CASE n # c
          <5>1. bucket.expires > now /\ u = bucket.expires /\ n <= bucket.count
            BY <1>t, <2>1, <2>4, <3>2, <4>2
          <5>2. PICK a \in admitted : a.until = u /\ a.number = n
            BY <1>inv, <5>1 DEF InForce
          <5> QED
            BY <2>3, <5>2
        <4> QED
          BY <4>1, <4>2
      <3> QED
        BY <1>t, <2>1, <2>5, <3>1, <3>2 DEF InForce
    <2> QED
      BY <2>7, <2>8, <2>9, <2>10, <2>11, <2>12 DEF LimitInv
  <1> QED
    BY <1>1, <1>2

LEMMA LimitStep == LimitInv /\ [Next]_vars => LimitInv'
  <1> SUFFICES ASSUME LimitInv, [Next]_vars PROVE LimitInv'
    OBVIOUS
  <1>1. CASE \E i \in Slots : Login(i)
    BY <1>1, LoginKeepsLimit
  <1>2. CASE Tick
    BY <1>2, TickKeepsLimit
  <1>3. CASE DeleteExpiredBuckets
    BY <1>3, DeleteKeepsLimit
  <1>4. CASE UNCHANGED <<now, bucket, admitted>>
    BY <1>4, LimitSame
  <1> QED
    BY <1>1, <1>2, <1>3, <1>4
       DEF Next, vars, UserRead, CreateSession, Act, Request, UpdateWorker, RevokeWorkerSessions

\* In a stretch as long as the window logins of two buckets at most are let through, each
\* under a number of its own.
LEMMA TwiceTheLimit ==
  ASSUME LimitInv, NEW t \in Nat
  PROVE  AdmittedIn(t, t + Window - 1) <= 2 * Limit
  <1> DEFINE S == {a \in admitted : t <= a.at /\ a.at <= t + Window - 1}
  <1>t. Limit \in Nat \ {0} /\ Window \in Nat \ {0}
    BY LimitAssumption
  <1>1. \A a \in S : /\ a \in admitted /\ a.until \in Nat /\ a.number \in Nat
                     /\ 1 <= a.number /\ a.number <= Limit
                     /\ t < a.until /\ a.until < t + 2 * Window
    BY <1>t, LimitFields DEF LimitInv, InWindow
  <1>2. \A a, b \in S : /\ a.until < b.until => a.until + Window <= b.until
                        /\ a.until = b.until /\ a.number = b.number => a = b
    BY <1>1 DEF LimitInv, BucketsApart, Numbered
  <1> HIDE DEF S
  <1>3. CASE S = {}
    BY <1>t, <1>3, FS_EmptySet DEF AdmittedIn, S
  <1>4. CASE S # {}
    <2>1. PICK first \in S : TRUE
      BY <1>4
    <2>2. PICK u \in Nat : u = first.until
      BY <1>1
    <2>3. \A a, b \in S : a.until # u /\ b.until # u => a.until = b.until
      BY <1>t, <1>1, <1>2, <2>1, <2>2
    <2> DEFINE f == [a \in S |-> IF a.until = u THEN a.number ELSE a.number + Limit]
    <2>4. f \in [S -> 1 .. 2 * Limit]
      BY <1>t, <1>1
    <2>5. ASSUME NEW a \in S, NEW b \in S, f[a] = f[b] PROVE a = b
      <3>1. a.until = b.until /\ a.number = b.number
        BY <1>t, <1>1, <2>3, <2>5
      <3> QED
        BY <1>2, <3>1
    <2>6. f \in Injection(S, 1 .. 2 * Limit)
      BY <2>4, <2>5 DEF Injection, IsInjective
    <2> HIDE DEF f
    <2>7. IsFiniteSet(1 .. 2 * Limit) /\ Cardinality(1 .. 2 * Limit) = 2 * Limit
      BY <1>t, FS_Interval
    <2>8. Cardinality(S) <= Cardinality(1 .. 2 * Limit)
      BY <2>6, <2>7, FS_Injection
    <2> QED
      BY <2>7, <2>8 DEF AdmittedIn, S
  <1> QED
    BY <1>3, <1>4

\* Whoever is denied shares a bucket whose numbers are all taken.
LEMMA DeniedForCause ==
  ASSUME LimitInv, bucket.expires > now, bucket.count > Limit
  PROVE  AdmittedIn(bucket.expires - Window, now) >= Limit
  <1> DEFINE S == {a \in admitted : bucket.expires - Window <= a.at /\ a.at <= now}
  <1>t. /\ Limit \in Nat \ {0} /\ Window \in Nat \ {0} /\ now \in Nat
        /\ bucket.count \in Nat /\ bucket.expires \in Nat
    BY LimitAssumption DEF LimitInv, LimitTypes
  <1>1. \A n \in 1..Limit : \E a \in S : a.number = n
    <2> TAKE n \in 1..Limit
    <2>1. n <= bucket.count
      BY <1>t
    <2>2. PICK a \in admitted : a.until = bucket.expires /\ a.number = n
      BY <2>1 DEF LimitInv, InForce
    <2>3. a.at \in Nat /\ a.at <= now /\ a.until <= a.at + Window
      BY <2>2, LimitFields DEF LimitInv, InWindow
    <2> QED
      BY <1>t, <2>2, <2>3
  <1>2. IsFiniteSet(S)
    BY FS_Subset DEF LimitInv, LimitTypes
  <1> HIDE DEF S
  <1> DEFINE g == [n \in 1..Limit |-> CHOOSE a \in S : a.number = n]
  <1>3. \A n \in 1..Limit : g[n] \in S /\ g[n].number = n
    BY <1>1
  <1>4. g \in Injection(1..Limit, S)
    <2>1. g \in [1..Limit -> S]
      BY <1>3
    <2>2. \A m, n \in 1..Limit : g[m] = g[n] => m = n
      <3> HIDE DEF g
      <3> QED
        BY <1>3
    <2> QED
      BY <2>1, <2>2 DEF Injection, IsInjective
  <1> HIDE DEF g
  <1>5. Cardinality(1..Limit) <= Cardinality(S)
    BY <1>2, <1>4, FS_Injection
  <1>6. Cardinality(1..Limit) = Limit
    BY <1>t, FS_Interval
  <1>7. Cardinality(S) \in Nat
    BY <1>2, FS_CardinalityType
  <1> QED
    BY <1>t, <1>5, <1>6, <1>7 DEF AdmittedIn, S

\* checkSharedRateLimit lets at most twice the limit of logins through in any stretch as
\* long as its window (src/lib/security/rate-limit.ts, docs/SECURITY.md:29), and denies
\* nobody before the limit is used up, for any limit, window and number of requests.
THEOREM LoginsAreLimited == Spec => []LoginsLimited
  <1>1. LimitInv => LoginsLimited
    <2> SUFFICES ASSUME LimitInv PROVE LoginsLimited
      OBVIOUS
    <2>1. \A t \in 1..MaxTime : t \in Nat
      OBVIOUS
    <2> QED
      BY <2>1, TwiceTheLimit, DeniedForCause DEF LoginsLimited
  <1> QED
    BY <1>1, LimitInit, LimitStep, PTL DEF Spec
=============================================================================
