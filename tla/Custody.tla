-------------------------------- MODULE Custody --------------------------------
(***************************************************************************)
(* Who can read what was encrypted: customer credentials and the owner's   *)
(* second factor under versioned keys (src/lib/crypto/secrets.ts), the     *)
(* rotation of the credentials (src/lib/security/credential-maintenance.ts)*)
(* and the procedure of docs/SECURITY.md:43 that retires a key.            *)
(*                                                                         *)
(* A deployment fixes the environment of the requests that start under it;  *)
(* a request in flight keeps the one it started with.  A ciphertext is the  *)
(* version of its key and a number for what it hides; 0 is "erased".       *)
(***************************************************************************)
EXTENDS Integers, FiniteSets

CONSTANTS
  Slots,    \* requests in flight at once
  Orders,   \* orders with credentials
  MaxVersion, MaxSaves, MaxSecrets   \* bounds

ASSUME BoundsAssumption == MaxVersion \in Nat \ {0} /\ MaxSaves \in Nat /\ MaxSecrets \in Nat \ {0}

VARIABLES
  env,       \* the current deployment: active key version, configured keys
  reported,  \* the retention report showed no legacy rows under this deployment
  cred,      \* the CustomerCredential rows: key version and content
  last,      \* history: what was last saved or erased
  saves,     \* how many contents there have been
  late,      \* history: a save under an old key landed after the report, or its retirement
  secret,    \* the owner's second factor: key version, which secret, enabled
  proved,    \* history: the secrets an owner has shown a code of
  overlap,   \* history: a setup ran while a request to enable was in flight
  slot       \* the requests: step, environment, order, rows or secret read

custody == <<cred, last, saves, late>>
factor == <<secret, proved, overlap>>
vars == <<env, reported, custody, factor, slot>>

Erased == [key |-> 0, content |-> 0]
FirstEnv == [active |-> 1, keys |-> {1}]
Idle == [at |-> "idle", env |-> FirstEnv, rows |-> [o \in {} |-> Erased], id |-> 0]

Readable(cipher, e) == cipher.key \in e.keys
Legacy(e) == {o \in Orders : cred[o].key \notin {0, e.active}}
Ends(i) == slot' = [slot EXCEPT ![i] = Idle]
Starts(i, at, rows, id) ==
  /\ slot[i].at = "idle"
  /\ slot' = [slot EXCEPT ![i] = [at |-> at, env |-> env, rows |-> rows, id |-> id]]

Init ==
  /\ env = FirstEnv /\ reported = FALSE
  /\ cred = [o \in Orders |-> Erased] /\ last = cred
  /\ saves = 0 /\ late = FALSE
  /\ secret = [key |-> 0, id |-> 0, enabled |-> FALSE]
  /\ proved = {} /\ overlap = FALSE
  /\ slot = [i \in Slots |-> Idle]

-----------------------------------------------------------------------------
(* Customer credentials.                                                   *)

\* addCredentials, up to its upsert.
SaveStart(i, o) ==
  /\ saves < MaxSaves
  /\ Starts(i, "save", [p \in {o} |-> cred[p]], 0)
  /\ UNCHANGED <<env, reported, custody, factor>>

\* encryptCredentialSet under the active key of the request's deployment.
SaveWrite(i) ==
  /\ slot[i].at = "save" /\ saves < MaxSaves
  /\ \E o \in DOMAIN slot[i].rows :
       LET cipher == [key |-> slot[i].env.active, content |-> saves + 1]
       IN cred' = [cred EXCEPT ![o] = cipher] /\ last' = [last EXCEPT ![o] = cipher]
  /\ saves' = saves + 1
  /\ late' = (late \/ (reported /\ slot[i].env.active # env.active)
                   \/ slot[i].env.active \notin env.keys)
  /\ Ends(i)
  /\ UNCHANGED <<env, reported, factor>>

\* deleteCredentialsNow and deleteExpiredCredentials.
Erase(o) ==
  /\ cred[o] # Erased
  /\ cred' = [cred EXCEPT ![o] = Erased] /\ last' = [last EXCEPT ![o] = Erased]
  /\ UNCHANGED <<env, reported, saves, late, factor, slot>>

\* rotateCredentialEncryption reads a batch of rows under other keys, whole.
RotateRead(i) ==
  /\ Legacy(env) # {}
  /\ Starts(i, "rotate", [o \in Legacy(env) |-> cred[o]], 0)
  /\ UNCHANGED <<env, reported, custody, factor>>

Done(i, o) ==
  LET rest == DOMAIN slot[i].rows \ {o}
  IN IF rest = {} THEN Ends(i)
     ELSE slot' = [slot EXCEPT ![i].rows = [p \in rest |-> slot[i].rows[p]]]

\* Variant: the update asks for the row alone.
RotateRowAnyway(i, o) ==
  /\ slot[i].at = "rotate" /\ o \in DOMAIN slot[i].rows
  /\ IF Readable(slot[i].rows[o], slot[i].env)
     THEN cred' = [cred EXCEPT ![o] = [key |-> slot[i].env.active, content |-> slot[i].rows[o].content]]
     ELSE UNCHANGED cred
  /\ Done(i, o)
  /\ UNCHANGED <<env, reported, last, saves, late, factor>>

\* One row of the loop: decrypted as it was read, encrypted again, written if its key
\* version is still the one read and it was not erased.  A row that fails is counted.
RotateRow(i, o) ==
  /\ slot[i].at = "rotate" /\ o \in DOMAIN slot[i].rows
  /\ IF Readable(slot[i].rows[o], slot[i].env) /\ cred[o].key = slot[i].rows[o].key
     THEN cred' = [cred EXCEPT ![o] = [key |-> slot[i].env.active, content |-> slot[i].rows[o].content]]
     ELSE UNCHANGED cred
  /\ Done(i, o)
  /\ UNCHANGED <<env, reported, last, saves, late, factor>>

-----------------------------------------------------------------------------
(* The owner's second factor.                                              *)

\* Variant: a new secret stays enabled.
SetupEnabled ==
  /\ secret.id < MaxSecrets
  /\ secret' = [key |-> env.active, id |-> secret.id + 1, enabled |-> secret.enabled]
  /\ overlap' = (overlap \/ \E i \in Slots : slot[i].at = "enable")
  /\ UNCHANGED <<env, reported, custody, proved, slot>>

\* POST /api/auth/2fa/setup.
Setup ==
  /\ secret.id < MaxSecrets
  /\ secret' = [key |-> env.active, id |-> secret.id + 1, enabled |-> FALSE]
  /\ overlap' = (overlap \/ \E i \in Slots : slot[i].at = "enable")
  /\ UNCHANGED <<env, reported, custody, proved, slot>>

\* POST /api/auth/2fa/enable: the code is verified against the secret read here ...
EnableRead(i) ==
  /\ secret.id > 0 /\ Readable(secret, env)
  /\ Starts(i, "enable", Idle.rows, secret.id)
  /\ UNCHANGED <<env, reported, custody, factor>>

\* ... and whatever secret the row holds by now is enabled.
EnableWrite(i) ==
  /\ slot[i].at = "enable"
  /\ secret' = [secret EXCEPT !.enabled = TRUE]
  /\ proved' = proved \cup {slot[i].id}
  /\ Ends(i)
  /\ UNCHANGED <<env, reported, custody, overlap>>

-----------------------------------------------------------------------------
(* docs/SECURITY.md:43.                                                    *)

Deploy ==
  /\ env.active < MaxVersion
  /\ env' = [active |-> env.active + 1, keys |-> env.keys \cup {env.active + 1}]
  /\ reported' = FALSE
  /\ UNCHANGED <<custody, factor, slot>>

\* Variant: the report counts the rows under the active key.
ReportActive ==
  /\ env.active > 1 /\ {o \in Orders : cred[o].key = env.active} = {}
  /\ reported' = TRUE
  /\ UNCHANGED <<env, custody, factor, slot>>

\* credentialRetentionReport: legacyKeyVersions is zero.
Report ==
  /\ env.active > 1 /\ Legacy(env) = {}
  /\ reported' = TRUE
  /\ UNCHANGED <<env, custody, factor, slot>>

\* The old keys leave CREDENTIAL_ENCRYPTION_KEYS.
Retire ==
  /\ reported
  /\ env' = [env EXCEPT !.keys = {env.active}]
  /\ UNCHANGED <<reported, custody, factor, slot>>

Next ==
  \/ \E i \in Slots, o \in Orders : SaveStart(i, o) \/ RotateRow(i, o)
  \/ \E i \in Slots : SaveWrite(i) \/ RotateRead(i) \/ EnableRead(i) \/ EnableWrite(i)
  \/ \E o \in Orders : Erase(o)
  \/ Setup \/ Deploy \/ Report \/ Retire

Spec == Init /\ [][Next]_vars

-----------------------------------------------------------------------------
\* Credentials stay readable through a retirement, unless a request of an earlier
\* deployment saved them after the report that cleared its key.
RetirementKeepsCredentials ==
  \A o \in Orders : cred[o].key # 0 /\ ~late => Readable(cred[o], env)

\* A rotation puts back what it read over a later save only if that save was made under
\* an outdated key itself, and never over an erasure.
RotationKeepsSaves ==
  \A o \in Orders : cred[o].content # last[o].content => last[o].key \notin {0, env.active}

\* A second factor is enabled only after a code of that very secret was shown, unless a
\* setup overtook the request that enabled it.
EnabledIsProved == secret.enabled => secret.id \in proved \/ overlap

\* docs/SECURITY.md:43: the old key may go once the report shows no legacy rows.
OwnerCanSignIn == secret.enabled => Readable(secret, env)
=============================================================================
