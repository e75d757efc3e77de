---------------------------- MODULE CustodyProofs ----------------------------
(***************************************************************************)
(* Proofs about Custody for any number of requests, orders, keys, saves and *)
(* setups: what stays readable when a key is retired, what a rotation may   *)
(* overwrite, and what an enabled second factor has proved.                *)
(***************************************************************************)
EXTENDS Custody, TLAPS

Ciphers == [key : Nat, content : Nat]
Envs == [active : Nat \ {0}, keys : SUBSET Nat]
Batches == UNION {[D -> Ciphers] : D \in SUBSET Orders}

TypeOK ==
  /\ env \in Envs /\ reported \in BOOLEAN
  /\ cred \in [Orders -> Ciphers] /\ last \in [Orders -> Ciphers]
  /\ saves \in Nat /\ late \in BOOLEAN
  /\ secret \in [key : Nat, id : Nat, enabled : BOOLEAN]
  /\ overlap \in BOOLEAN
  /\ slot \in [Slots -> [at : {"idle", "save", "rotate", "enable"}, env : Envs,
                         rows : Batches, id : Nat]]

\* The configured keys are the active one and some before it, without a gap.
KeysOK ==
  /\ env.active \in env.keys
  /\ \A k \in env.keys : k <= env.active
  /\ \A k \in env.keys, j \in Nat : k <= j /\ j <= env.active => j \in env.keys

\* A request runs under the present deployment or an earlier one; a rotation holds rows
\* under keys older than its own.
SlotOK(i) ==
  /\ slot[i].env.active <= env.active
  /\ slot[i].at = "rotate" =>
       \A o \in DOMAIN slot[i].rows :
         slot[i].rows[o].key # 0 /\ slot[i].rows[o].key < slot[i].env.active
  /\ slot[i].at = "enable" => slot[i].id = secret.id \/ overlap

\* Unless a save came late, every row is under a configured key, and after the report
\* under the active one.
Held(o) == ~late /\ cred[o].key # 0 => cred[o].key \in env.keys /\ (reported => cred[o].key = env.active)

\* A rotation only ever moves a row to a newer key than the save it holds.
Newer(o) ==
  /\ cred[o].key <= env.active
  /\ IF last[o].key = 0 THEN cred[o] = last[o] ELSE last[o].key <= cred[o].key
  /\ cred[o].content # last[o].content => last[o].key # env.active

IInv ==
  /\ TypeOK /\ KeysOK
  /\ \A i \in Slots : SlotOK(i)
  /\ \A o \in Orders : Held(o) /\ Newer(o)
  /\ EnabledIsProved

-----------------------------------------------------------------------------
LEMMA InitIInv == Init => IInv
  <1> SUFFICES ASSUME Init PROVE IInv
    OBVIOUS
  <1>1. FirstEnv \in Envs /\ Idle.rows \in Batches
    <2>1. [o \in {} |-> Erased] \in [{} -> Ciphers]
      BY DEF Erased, Ciphers
    <2> QED
      BY <2>1 DEF FirstEnv, Envs, Idle, Batches
  <1>2. TypeOK
    BY <1>1 DEF Init, TypeOK, Idle, Erased, Ciphers
  <1>3. KeysOK
    BY DEF Init, KeysOK, FirstEnv
  <1>4. \A i \in Slots : SlotOK(i)
    BY DEF Init, SlotOK, Idle, FirstEnv
  <1>5. \A o \in Orders : Held(o) /\ Newer(o)
    BY DEF Init, Held, Newer, Erased, FirstEnv
  <1>6. EnabledIsProved
    BY DEF Init, EnabledIsProved
  <1> QED
    BY <1>2, <1>3, <1>4, <1>5, <1>6 DEF IInv

-----------------------------------------------------------------------------
(* Requests that only begin or end.                                        *)

LEMMA StartsStep ==
  ASSUME IInv, NEW i \in Slots, NEW at \in {"save", "rotate", "enable"}, NEW rows \in Batches, NEW id \in Nat,
         Starts(i, at, rows, id), UNCHANGED <<env, reported, custody, factor>>,
         at = "rotate" => \A o \in DOMAIN rows : rows[o].key # 0 /\ rows[o].key < env.active,
         at = "enable" => id = secret.id
  PROVE  IInv'
  <1>1. slot' = [slot EXCEPT ![i] = [at |-> at, env |-> env, rows |-> rows, id |-> id]]
    BY DEF Starts
  <1>2. TypeOK'
    BY <1>1 DEF IInv, TypeOK, custody, factor
  <1>3. ASSUME NEW j \in Slots PROVE SlotOK(j)'
    <2>1. CASE j = i
      BY <1>1, <2>1 DEF IInv, TypeOK, Envs, SlotOK, factor
    <2>2. CASE j # i
      BY <1>1, <2>2 DEF IInv, TypeOK, SlotOK, factor
    <2> QED
      BY <2>1, <2>2
  <1> QED
    BY <1>2, <1>3 DEF IInv, KeysOK, Held, Newer, EnabledIsProved, custody, factor

\* A slot that was reset says nothing.
LEMMA EndsSlots ==
  ASSUME IInv, NEW i \in Slots, Ends(i)
  PROVE  /\ slot' \in [Slots -> [at : {"idle", "save", "rotate", "enable"}, env : Envs,
                                 rows : Batches, id : Nat]]
         /\ slot'[i] = Idle /\ \A j \in Slots \ {i} : slot'[j] = slot[j]
  <1>1. FirstEnv \in Envs
    BY DEF FirstEnv, Envs
  <1>2. [o \in {} |-> Erased] \in Batches
    <2>1. [o \in {} |-> Erased] \in [{} -> Ciphers]
      BY DEF Erased, Ciphers
    <2> QED
      BY <2>1 DEF Batches
  <1> DEFINE none == [o \in {} |-> Erased]
  <1>3. none \in Batches /\ Idle = [at |-> "idle", env |-> FirstEnv, rows |-> none, id |-> 0]
    BY <1>2 DEF Idle
  <1> HIDE DEF none
  <1>4. Idle \in [at : {"idle", "save", "rotate", "enable"}, env : Envs, rows : Batches, id : Nat]
    BY <1>1, <1>3
  <1> QED
    BY <1>4 DEF IInv, TypeOK, Ends

LEMMA IdleOK ==
  ASSUME IInv, NEW i \in Slots, slot'[i] = Idle, env'.active \in Nat \ {0}
  PROVE  SlotOK(i)'
  BY DEF SlotOK, Idle, FirstEnv

-----------------------------------------------------------------------------
(* Credentials.                                                            *)

LEMMA SaveStep ==
  ASSUME IInv, NEW i \in Slots, SaveWrite(i)
  PROVE  IInv'
  <1>1. PICK o \in DOMAIN slot[i].rows :
          /\ cred' = [cred EXCEPT ![o] = [key |-> slot[i].env.active, content |-> saves + 1]]
          /\ last' = [last EXCEPT ![o] = [key |-> slot[i].env.active, content |-> saves + 1]]
    BY DEF SaveWrite
  <1>2. /\ saves' = saves + 1 /\ UNCHANGED <<env, reported, factor>> /\ Ends(i)
        /\ late' = (late \/ (reported /\ slot[i].env.active # env.active)
                         \/ slot[i].env.active \notin env.keys)
    BY DEF SaveWrite
  <1>3. slot[i].env.active \in Nat \ {0} /\ slot[i].env.active <= env.active
    BY DEF IInv, TypeOK, Envs, SlotOK
  <1>4. TypeOK'
    <2>1. [key |-> slot[i].env.active, content |-> saves + 1] \in Ciphers /\ saves + 1 \in Nat
      BY <1>3 DEF IInv, TypeOK, Ciphers
    <2>2. cred' \in [Orders -> Ciphers] /\ last' \in [Orders -> Ciphers]
      BY <1>1, <2>1 DEF IInv, TypeOK
    <2> QED
      BY <1>2, <2>1, <2>2, EndsSlots DEF IInv, TypeOK, factor
  <1>5. ASSUME NEW j \in Slots PROVE SlotOK(j)'
    BY <1>2, EndsSlots, IdleOK DEF IInv, SlotOK, TypeOK, Envs, factor
  <1>6. ASSUME NEW p \in Orders PROVE Held(p)' /\ Newer(p)'
    <2>1. CASE p = o
      <3>1. cred'[p] = last'[p] /\ cred'[p].key = slot[i].env.active
        BY <1>1, <2>1 DEF IInv, TypeOK
      <3>2. env' = env /\ reported' = reported
        BY <1>2
      <3>3. ~late' => slot[i].env.active \in env.keys /\ (reported => slot[i].env.active = env.active)
        BY <1>2
      <3> QED
        BY <1>3, <3>1, <3>2, <3>3 DEF Held, Newer
    <2>2. CASE p # o
      <3>1. cred'[p] = cred[p] /\ last'[p] = last[p]
        BY <1>1, <2>2 DEF IInv, TypeOK
      <3> QED
        BY <1>2, <3>1 DEF IInv, Held, Newer
    <2> QED
      BY <2>1, <2>2
  <1> QED
    BY <1>2, <1>4, <1>5, <1>6 DEF IInv, KeysOK, EnabledIsProved, factor

LEMMA EraseStep ==
  ASSUME IInv, NEW o \in Orders, Erase(o)
  PROVE  IInv'
  <1>1. /\ cred' = [cred EXCEPT ![o] = Erased] /\ last' = [last EXCEPT ![o] = Erased]
        /\ UNCHANGED <<env, reported, saves, late, factor, slot>>
    BY DEF Erase
  <1>2. TypeOK'
    BY <1>1 DEF IInv, TypeOK, Erased, Ciphers, factor
  <1>3. ASSUME NEW p \in Orders PROVE Held(p)' /\ Newer(p)'
    BY <1>1 DEF IInv, TypeOK, Envs, Erased, Held, Newer
  <1> QED
    BY <1>1, <1>2, <1>3 DEF IInv, KeysOK, SlotOK, EnabledIsProved, factor

\* The rest of a batch is a batch.
LEMMA DoneSlots ==
  ASSUME IInv, NEW i \in Slots, NEW o, slot[i].at = "rotate", Done(i, o)
  PROVE  /\ slot' \in [Slots -> [at : {"idle", "save", "rotate", "enable"}, env : Envs,
                                 rows : Batches, id : Nat]]
         /\ \A j \in Slots \ {i} : slot'[j] = slot[j]
         /\ \/ slot'[i] = Idle
            \/ /\ slot'[i].at = "rotate" /\ slot'[i].env = slot[i].env
               /\ DOMAIN slot'[i].rows \subseteq DOMAIN slot[i].rows
               /\ \A p \in DOMAIN slot'[i].rows : slot'[i].rows[p] = slot[i].rows[p]
  <1> DEFINE rest == DOMAIN slot[i].rows \ {o}
             less == [p \in rest |-> slot[i].rows[p]]
  <1>1. CASE rest = {}
    BY <1>1, EndsSlots DEF Done
  <1>2. CASE rest # {}
    <2>1. slot' = [slot EXCEPT ![i].rows = less]
      BY <1>2 DEF Done
    <2>2. less \in Batches
      <3>0. slot[i].rows \in Batches
        BY DEF IInv, TypeOK
      <3>1. PICK D \in SUBSET Orders : slot[i].rows \in [D -> Ciphers]
        BY <3>0 DEF Batches
      <3>2. rest \subseteq D /\ rest \in SUBSET Orders
        <4>1. DOMAIN slot[i].rows = D
          BY <3>1
        <4>2. rest \subseteq D
          BY <4>1
        <4> QED
          BY <4>2
      <3>3. ASSUME NEW p \in rest PROVE slot[i].rows[p] \in Ciphers
        BY <3>1, <3>2
      <3>4. less \in [rest -> Ciphers]
        <4> HIDE DEF rest
        <4> QED
          BY <3>3
      <3> QED
        BY <3>2, <3>4 DEF Batches
    <2>3. slot[i] \in [at : {"idle", "save", "rotate", "enable"}, env : Envs, rows : Batches, id : Nat]
      BY DEF IInv, TypeOK
    <2> DEFINE mine == [at |-> slot[i].at, env |-> slot[i].env, rows |-> less, id |-> slot[i].id]
    <2>4. slot' = [slot EXCEPT ![i] = mine]
      <3> HIDE DEF less
      <3>1. [slot[i] EXCEPT !.rows = less] = mine
        BY <2>3
      <3> QED
        BY <2>1, <3>1
    <2>5. mine \in [at : {"idle", "save", "rotate", "enable"}, env : Envs, rows : Batches, id : Nat]
      <3> HIDE DEF less
      <3> QED
        BY <2>2, <2>3
    <2>6. mine.rows = less /\ mine.at = "rotate" /\ mine.env = slot[i].env
      OBVIOUS
    <2> HIDE DEF mine
    <2>7. slot' \in [Slots -> [at : {"idle", "save", "rotate", "enable"}, env : Envs,
                               rows : Batches, id : Nat]]
      BY <2>4, <2>5 DEF IInv, TypeOK
    <2>8. slot'[i] = mine
      BY <2>4 DEF IInv, TypeOK
    <2>9. \A j \in Slots \ {i} : slot'[j] = slot[j]
      BY <2>4 DEF IInv, TypeOK
    <2>10. slot'[i].rows = less /\ slot'[i].at = "rotate" /\ slot'[i].env = slot[i].env
      BY <2>8, <2>6
    <2> QED
      BY <2>7, <2>9, <2>10
  <1> QED
    BY <1>1, <1>2

LEMMA RotateStep ==
  ASSUME IInv, NEW i \in Slots, NEW o \in Orders, RotateRow(i, o)
  PROVE  IInv'
  <1> DEFINE seen == slot[i].rows[o]
             mine == slot[i].env
             writes == Readable(seen, mine) /\ cred[o].key = seen.key
  <1>1. /\ slot[i].at = "rotate" /\ o \in DOMAIN slot[i].rows /\ Done(i, o)
        /\ UNCHANGED <<env, reported, last, saves, late, factor>>
        /\ writes => cred' = [cred EXCEPT ![o] = [key |-> mine.active, content |-> seen.content]]
        /\ ~writes => cred' = cred
    BY DEF RotateRow
  <1>2. /\ mine.active \in Nat \ {0} /\ mine.active <= env.active /\ env.active \in Nat
        /\ seen \in Ciphers /\ seen.key # 0 /\ seen.key < mine.active
    <2>1. slot[i].rows \in Batches
      BY DEF IInv, TypeOK
    <2>2. PICK D \in SUBSET Orders : slot[i].rows \in [D -> Ciphers]
      BY <2>1 DEF Batches
    <2>3. seen \in Ciphers
      BY <1>1, <2>2
    <2> QED
      BY <1>1, <2>3 DEF IInv, TypeOK, SlotOK, Envs
  <1>3. TypeOK'
    BY <1>1, <1>2, DoneSlots DEF IInv, TypeOK, Ciphers, factor
  <1>4. ASSUME NEW j \in Slots PROVE SlotOK(j)'
    <2>1. CASE j = i
      <3>1. CASE slot'[i] = Idle
        BY <1>1, <2>1, <3>1, <1>2, IdleOK DEF IInv, TypeOK, Envs
      <3>2. CASE slot'[i] # Idle
        BY <1>1, <2>1, <3>2, DoneSlots DEF IInv, SlotOK, factor
      <3> QED
        BY <3>1, <3>2
    <2>2. CASE j # i
      BY <1>1, <2>2, DoneSlots DEF IInv, SlotOK, factor
    <2> QED
      BY <2>1, <2>2
  <1>5. ASSUME NEW p \in Orders PROVE Held(p)' /\ Newer(p)'
    <2>1. CASE p = o /\ writes
      <3>1. cred'[o] = [key |-> mine.active, content |-> seen.content]
        BY <1>1, <2>1 DEF IInv, TypeOK
      <3>2. cred[o].key = seen.key /\ cred[o].key # 0 /\ cred[o].key < mine.active
        BY <1>2, <2>1
      <3>3. Held(o)'
        <4> SUFFICES ASSUME ~late PROVE mine.active \in env.keys /\ (reported => mine.active = env.active)
          BY <1>1, <3>1 DEF Held
        <4>1. cred[o].key \in env.keys /\ (reported => cred[o].key = env.active)
          BY <3>2 DEF IInv, Held
        <4>2. ~reported
          BY <1>2, <3>2, <4>1
        <4>3. mine.active \in env.keys
          BY <1>2, <3>2, <4>1 DEF IInv, KeysOK, TypeOK, Envs
        <4> QED
          BY <4>2, <4>3
      <3>4. Newer(o)'
        <4>1. cred[o].key \in Nat /\ last[o].key \in Nat
          BY DEF IInv, TypeOK, Ciphers
        <4>2. last[o].key # 0 /\ last[o].key <= cred[o].key
          BY <3>2 DEF IInv, Newer
        <4>3. last[o].key < mine.active
          BY <1>2, <3>2, <4>1, <4>2
        <4> QED
          BY <1>1, <1>2, <3>1, <4>1, <4>2, <4>3 DEF Newer
      <3> QED
        BY <2>1, <3>3, <3>4
    <2>2. CASE ~(p = o /\ writes)
      <3>1. cred'[p] = cred[p]
        BY <1>1, <2>2 DEF IInv, TypeOK
      <3> QED
        BY <1>1, <3>1 DEF IInv, Held, Newer
    <2> QED
      BY <2>1, <2>2
  <1> QED
    BY <1>1, <1>3, <1>4, <1>5 DEF IInv, KeysOK, EnabledIsProved, factor

-----------------------------------------------------------------------------
(* The second factor and the keys.                                         *)

LEMMA SetupStep ==
  ASSUME IInv, Setup
  PROVE  IInv'
  <1>1. /\ secret' = [key |-> env.active, id |-> secret.id + 1, enabled |-> FALSE]
        /\ overlap' = (overlap \/ \E i \in Slots : slot[i].at = "enable")
        /\ UNCHANGED <<env, reported, custody, proved, slot>>
    BY DEF Setup
  <1>2. TypeOK'
    BY <1>1 DEF IInv, TypeOK, Envs, custody
  <1>3. \A i \in Slots : SlotOK(i)'
    BY <1>1 DEF IInv, SlotOK
  <1> QED
    BY <1>1, <1>2, <1>3 DEF IInv, KeysOK, Held, Newer, EnabledIsProved, custody

LEMMA EnableStep ==
  ASSUME IInv, NEW i \in Slots, EnableWrite(i)
  PROVE  IInv'
  <1>1. /\ slot[i].at = "enable" /\ Ends(i) /\ UNCHANGED <<env, reported, custody, overlap>>
        /\ secret' = [secret EXCEPT !.enabled = TRUE] /\ proved' = proved \cup {slot[i].id}
    BY DEF EnableWrite
  <1>2. secret'.id = secret.id
    BY <1>1 DEF IInv, TypeOK
  <1>3. TypeOK'
    BY <1>1, EndsSlots DEF IInv, TypeOK, custody
  <1>4. ASSUME NEW j \in Slots PROVE SlotOK(j)'
    BY <1>1, <1>2, EndsSlots, IdleOK DEF IInv, TypeOK, Envs, SlotOK
  <1>5. EnabledIsProved'
    BY <1>1, <1>2 DEF IInv, SlotOK, EnabledIsProved
  <1> QED
    BY <1>1, <1>3, <1>4, <1>5 DEF IInv, KeysOK, Held, Newer, custody

LEMMA DeployStep ==
  ASSUME IInv, Deploy
  PROVE  IInv'
  <1>1. /\ env' = [active |-> env.active + 1, keys |-> env.keys \cup {env.active + 1}]
        /\ reported' = FALSE /\ UNCHANGED <<custody, factor, slot>>
    BY DEF Deploy
  <1>2. env.active \in Nat \ {0} /\ env.keys \subseteq Nat
    BY DEF IInv, TypeOK, Envs
  <1>3. TypeOK'
    <2>1. env.active + 1 \in Nat \ {0} /\ env.keys \cup {env.active + 1} \in SUBSET Nat
      BY <1>2
    <2>2. env' \in Envs
      BY <1>1, <2>1 DEF Envs
    <2> QED
      BY <1>1, <2>2 DEF IInv, TypeOK, custody, factor
  <1>4. KeysOK'
    BY <1>1, <1>2 DEF IInv, KeysOK
  <1>5. ASSUME NEW i \in Slots PROVE SlotOK(i)'
    BY <1>1, <1>2 DEF IInv, TypeOK, Envs, SlotOK, factor
  <1>6. ASSUME NEW o \in Orders PROVE Held(o)' /\ Newer(o)'
    <2>1. cred[o].key \in Nat /\ last[o].key \in Nat /\ cred[o].key <= env.active
      BY DEF IInv, TypeOK, Ciphers, Newer
    <2>2. last[o].key <= env.active
      BY <1>2, <2>1 DEF IInv, Newer
    <2> QED
      BY <1>1, <1>2, <2>1, <2>2 DEF IInv, Held, Newer, custody
  <1> QED
    BY <1>1, <1>3, <1>4, <1>5, <1>6 DEF IInv, EnabledIsProved, factor

LEMMA ReportStep ==
  ASSUME IInv, Report
  PROVE  IInv'
  <1>1. /\ reported' = TRUE /\ UNCHANGED <<env, custody, factor, slot>>
        /\ \A o \in Orders : cred[o].key \in {0, env.active}
    BY DEF Report, Legacy
  <1> QED
    BY <1>1 DEF IInv, TypeOK, KeysOK, SlotOK, Held, Newer, EnabledIsProved, custody, factor

LEMMA RetireStep ==
  ASSUME IInv, Retire
  PROVE  IInv'
  <1>1. /\ reported /\ env' = [active |-> env.active, keys |-> {env.active}]
        /\ UNCHANGED <<reported, custody, factor, slot>>
    BY DEF Retire, IInv, TypeOK, Envs
  <1>2. TypeOK'
    BY <1>1 DEF IInv, TypeOK, Envs, custody, factor
  <1>3. KeysOK'
    <2>1. env.active \in Nat /\ env'.active = env.active /\ env'.keys = {env.active}
      BY <1>1 DEF IInv, TypeOK, Envs
    <2> QED
      BY <2>1 DEF KeysOK
  <1>4. \A o \in Orders : Held(o)' /\ Newer(o)'
    BY <1>1 DEF IInv, Held, Newer, custody
  <1> QED
    BY <1>1, <1>2, <1>3, <1>4 DEF IInv, SlotOK, EnabledIsProved, factor

-----------------------------------------------------------------------------
LEMMA NextIInv == IInv /\ [Next]_vars => IInv'
  <1> SUFFICES ASSUME IInv, [Next]_vars PROVE IInv'
    OBVIOUS
  <1>1. ASSUME NEW i \in Slots, NEW o \in Orders, SaveStart(i, o) PROVE IInv'
    <2>1. [p \in {o} |-> cred[p]] \in Batches
      <3>1. [p \in {o} |-> cred[p]] \in [{o} -> Ciphers] /\ {o} \in SUBSET Orders
        BY DEF IInv, TypeOK
      <3> QED
        BY <3>1 DEF Batches
    <2> QED
      BY <1>1, <2>1, StartsStep DEF SaveStart
  <1>2. ASSUME NEW i \in Slots, SaveWrite(i) PROVE IInv'
    BY <1>2, SaveStep
  <1>3. ASSUME NEW o \in Orders, Erase(o) PROVE IInv'
    BY <1>3, EraseStep
  <1>4. ASSUME NEW i \in Slots, RotateRead(i) PROVE IInv'
    <2> DEFINE batch == [o \in Legacy(env) |-> cred[o]]
    <2>1. Legacy(env) \in SUBSET Orders /\ batch \in [Legacy(env) -> Ciphers]
      BY DEF IInv, TypeOK, Legacy
    <2>2. batch \in Batches
      BY <2>1 DEF Batches
    <2>3. ASSUME NEW o \in DOMAIN batch PROVE batch[o].key # 0 /\ batch[o].key < env.active
      <3>1. o \in Orders /\ batch[o] = cred[o] /\ cred[o].key \notin {0, env.active}
        BY DEF Legacy
      <3>2. cred[o].key <= env.active /\ cred[o].key \in Nat /\ env.active \in Nat
        BY <3>1 DEF IInv, TypeOK, Ciphers, Envs, Newer
      <3> QED
        BY <3>1, <3>2
    <2>4. Starts(i, "rotate", batch, 0) /\ UNCHANGED <<env, reported, custody, factor>>
      BY <1>4 DEF RotateRead
    <2> HIDE DEF batch
    <2> QED
      BY <2>2, <2>3, <2>4, StartsStep
  <1>5. ASSUME NEW i \in Slots, NEW o \in Orders, RotateRow(i, o) PROVE IInv'
    BY <1>5, RotateStep
  <1>6. CASE Setup
    BY <1>6, SetupStep
  <1>7. ASSUME NEW i \in Slots, EnableRead(i) PROVE IInv'
    <2>1. [o \in {} |-> Erased] \in [{} -> Ciphers]
      BY DEF Erased, Ciphers
    <2>2. Idle.rows \in Batches
      BY <2>1 DEF Idle, Batches
    <2>3. secret.id \in Nat
      BY DEF IInv, TypeOK
    <2> QED
      BY <1>7, <2>2, <2>3, StartsStep DEF EnableRead
  <1>8. ASSUME NEW i \in Slots, EnableWrite(i) PROVE IInv'
    BY <1>8, EnableStep
  <1>9. CASE Deploy
    BY <1>9, DeployStep
  <1>10. CASE Report
    BY <1>10, ReportStep
  <1>11. CASE Retire
    BY <1>11, RetireStep
  <1>12. CASE UNCHANGED vars
    BY <1>12 DEF vars, custody, factor, IInv, TypeOK, KeysOK, SlotOK, Held, Newer, EnabledIsProved
  <1> QED
    BY <1>1, <1>2, <1>3, <1>4, <1>5, <1>6, <1>7, <1>8, <1>9, <1>10, <1>11, <1>12 DEF Next

\* The inductive invariant holds in every reachable state.
THEOREM CustodyInvariance == Spec => []IInv
  BY InitIInv, NextIInv, PTL DEF Spec

\* Credentials stay readable through a retirement (credentialRetentionReport,
\* docs/SECURITY.md:43), unless a request of an earlier deployment saved them late.
THEOREM RetiredKeysAreUnused == Spec => []RetirementKeepsCredentials
  <1>1. IInv => RetirementKeepsCredentials
    BY DEF IInv, Held, RetirementKeepsCredentials, Readable
  <1> QED
    BY <1>1, CustodyInvariance, PTL

\* A rotation never puts an older save back over one made under the active key, nor over
\* an erasure (rotateCredentialEncryption).
THEOREM RotationIsSafe == Spec => []RotationKeepsSaves
  <1>1. IInv => RotationKeepsSaves
    BY DEF IInv, Newer, RotationKeepsSaves
  <1> QED
    BY <1>1, CustodyInvariance, PTL

\* An enabled second factor was proved with a code of that secret, unless a setup overtook
\* the request that enabled it (2fa/setup, 2fa/enable).
THEOREM FactorIsProved == Spec => []EnabledIsProved
  <1>1. IInv => EnabledIsProved
    BY DEF IInv
  <1> QED
    BY <1>1, CustodyInvariance, PTL
=============================================================================
