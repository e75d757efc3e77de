-------------------------------- MODULE Access --------------------------------
(***************************************************************************)
(* Signing in and being signed in, for ONE worker account: the shared      *)
(* login limit (src/lib/security/rate-limit.ts), the login route, sessions *)
(* (src/lib/auth/session.ts), and the two ways an owner shuts somebody out  *)
(* (src/lib/admin.ts): disabling the account, and revoking its sessions.   *)
(*                                                                         *)
(* A slot is an HTTP request in flight.  Cookies, CSRF tokens and passwords *)
(* are abstract: a request carries a session, a password is right or wrong.*)
(* checkSharedRateLimit reads the clock before its one SQL statement; the  *)
(* two are one step here, so the milliseconds between them, in which other *)
(* requests may reach the bucket first, are left out of its 15 minutes.    *)
(***************************************************************************)
EXTENDS Integers, FiniteSets

CONSTANTS
  Slots,      \* requests in flight at once
  Sessions,   \* rows of Session there is room for (bound)
  Limit,      \* 10 logins
  Window,     \* 15 minutes
  Lifetime,   \* sessionTtlDays
  MaxTime, MaxEpoch   \* bounds

ASSUME SetsAssumption == IsFiniteSet(Slots) /\ IsFiniteSet(Sessions)
ASSUME LimitAssumption == Limit \in Nat \ {0} /\ Window \in Nat \ {0} /\ Lifetime \in Nat \ {0}

VARIABLES
  now,
  bucket,     \* the RateLimitBucket row: count and expiry (no row: expired at 0)
  admitted,   \* history: the logins the limit let through (the nth, when, as which of their bucket)
  active,     \* User.status = ACTIVE
  session,    \* the Session rows: made, revoked, expiry, and their login's epoch
  slot,       \* the requests: where they are, their session, the epoch they read in
  epoch,      \* how often the sessions were revoked
  inside,     \* history: requests past the session check when the account was last disabled
  straddling  \* history: logins past their user read when the sessions were last revoked

vars == <<now, bucket, admitted, active, session, slot, epoch, inside, straddling>>

NoSession == [made |-> FALSE, revoked |-> FALSE, expires |-> 0, epoch |-> 0]
Idle == [at |-> "idle", session |-> {}, epoch |-> 0]
At(place) == {i \in Slots : slot[i].at = place}
Usable(s) == session[s].made /\ ~session[s].revoked /\ session[s].expires > now
Ends(i) == slot' = [slot EXCEPT ![i] = Idle]

Init ==
  /\ now = 1
  /\ bucket = [count |-> 0, expires |-> 0]
  /\ admitted = {}
  /\ active = TRUE
  /\ session = [s \in Sessions |-> NoSession]
  /\ slot = [i \in Slots |-> Idle]
  /\ epoch = 0 /\ inside = 0 /\ straddling = 0

-----------------------------------------------------------------------------
(* POST /api/auth/login.                                                   *)

\* Variant: the count starts again, the expiry does not.
CountedForgetful ==
  IF bucket.expires <= now
  THEN [count |-> 1, expires |-> IF bucket.expires = 0 THEN now + Window ELSE bucket.expires]
  ELSE [count |-> bucket.count + 1, expires |-> bucket.expires]

\* The INSERT ... ON CONFLICT DO UPDATE of checkSharedRateLimit.  A denied login counts.
Counted ==
  IF bucket.expires <= now
  THEN [count |-> 1, expires |-> now + Window]
  ELSE [count |-> bucket.count + 1, expires |-> bucket.expires]

\* Counts past Limit + 1 deny just the same and are not told apart.
Login(i) ==
  /\ slot[i].at = "idle"
  /\ bucket' = [Counted EXCEPT !.count = IF @ > Limit THEN Limit + 1 ELSE @]
  /\ IF bucket'.count <= Limit
     THEN /\ slot' = [slot EXCEPT ![i].at = "user"]
          /\ admitted' = admitted \cup {[nth |-> Cardinality(admitted) + 1, at |-> now,
                                        number |-> bucket'.count, until |-> bucket'.expires]}
     ELSE UNCHANGED <<slot, admitted>>
  /\ UNCHANGED <<now, active, session, epoch, inside, straddling>>

\* The account is read; status, password and code are judged on that row, and
\* verifyPassword takes its time before the session is created.
UserRead(i) ==
  /\ slot[i].at = "user"
  /\ \/ active /\ slot' = [slot EXCEPT ![i].at = "create", ![i].epoch = epoch]
     \/ Ends(i)
  /\ UNCHANGED <<now, bucket, admitted, active, session, epoch, inside, straddling>>

CreateSession(i) ==
  /\ slot[i].at = "create"
  /\ \E s \in Sessions :
       /\ ~session[s].made
       /\ session' = [session EXCEPT ![s] = [made |-> TRUE, revoked |-> FALSE,
                                            expires |-> now + Lifetime, epoch |-> slot[i].epoch]]
  /\ Ends(i)
  /\ UNCHANGED <<now, bucket, admitted, active, epoch, inside, straddling>>

\* deleteExpiredRateLimitBuckets, from the cron.
DeleteExpiredBuckets ==
  /\ bucket.expires <= now
  /\ bucket' = [count |-> 0, expires |-> 0]
  /\ UNCHANGED <<now, admitted, active, session, slot, epoch, inside, straddling>>

-----------------------------------------------------------------------------
(* Requests of somebody who is signed in.                                  *)

\* Variant: the account's status is what the login checked.
RequestOfSession(i, s) ==
  /\ slot[i].at = "idle"
  /\ Usable(s)
  /\ slot' = [slot EXCEPT ![i].at = "act", ![i].session = {s}]
  /\ UNCHANGED <<now, bucket, admitted, active, session, epoch, inside, straddling>>

\* getSession and assertActive, once, at the start of a request.
Request(i, s) ==
  /\ slot[i].at = "idle"
  /\ Usable(s) /\ active
  /\ slot' = [slot EXCEPT ![i].at = "act", ![i].session = {s}]
  /\ UNCHANGED <<now, bucket, admitted, active, session, epoch, inside, straddling>>

\* The rest of its handler; POST /api/auth/logout revokes the session it came with.
Act(i) ==
  /\ slot[i].at = "act"
  /\ Ends(i)
  /\ \/ UNCHANGED session
     \/ session' = [s \in Sessions |->
                     IF s \in slot[i].session THEN [session[s] EXCEPT !.revoked = TRUE] ELSE session[s]]
  /\ UNCHANGED <<now, bucket, admitted, active, epoch, inside, straddling>>

-----------------------------------------------------------------------------
(* The owner.                                                              *)

\* updateWorker: the status alone; the sessions stay.
UpdateWorker(status) ==
  /\ active' = status
  /\ inside' = IF status THEN inside ELSE Cardinality(At("act"))
  /\ UNCHANGED <<now, bucket, admitted, session, slot, epoch, straddling>>

\* Variant: revokes one session.
RevokeOneSession ==
  /\ epoch < MaxEpoch
  /\ \E one \in Sessions :
       session' = [session EXCEPT ![one].revoked = @ \/ session[one].made]
  /\ epoch' = epoch + 1
  /\ straddling' = Cardinality(At("create"))
  /\ UNCHANGED <<now, bucket, admitted, active, slot, inside>>

\* revokeWorkerSessions: one updateMany.
RevokeWorkerSessions ==
  /\ epoch < MaxEpoch
  /\ session' = [s \in Sessions |-> [session[s] EXCEPT !.revoked = @ \/ session[s].made]]
  /\ epoch' = epoch + 1
  /\ straddling' = Cardinality(At("create"))
  /\ UNCHANGED <<now, bucket, admitted, active, slot, inside>>

Tick ==
  /\ now < MaxTime
  /\ now' = now + 1
  /\ UNCHANGED <<bucket, admitted, active, session, slot, epoch, inside, straddling>>

Next ==
  \/ \E i \in Slots :
       \/ Login(i) \/ UserRead(i) \/ CreateSession(i) \/ Act(i)
       \/ \E s \in Sessions : Request(i, s)
  \/ \E status \in BOOLEAN : UpdateWorker(status)
  \/ RevokeWorkerSessions \/ DeleteExpiredBuckets \/ Tick

Spec == Init /\ [][Next]_vars

-----------------------------------------------------------------------------
AdmittedIn(from, to) == Cardinality({a \in admitted : from <= a.at /\ a.at <= to})

\* docs/SECURITY.md:29.  No stretch as long as the window lets more than twice the limit
\* through; and nobody is denied who has not used up the limit since the window began.
LoginsLimited ==
  /\ \A t \in 1..MaxTime : AdmittedIn(t, t + Window - 1) <= 2 * Limit
  /\ bucket.expires > now /\ bucket.count > Limit => AdmittedIn(bucket.expires - Window, now) >= Limit

\* While an account is disabled nobody acts with it but the requests that were past
\* their session check when it was.
DisablingHolds == ~active => Cardinality(At("act")) <= inside

\* After a revocation the sessions of earlier logins are dead, but for those of the
\* logins that were between their password check and their session at that moment.
RevocationHolds ==
  Cardinality({s \in Sessions : Usable(s) /\ session[s].epoch < epoch}) <= straddling
=============================================================================
