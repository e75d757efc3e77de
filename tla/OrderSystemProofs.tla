-------------------------- MODULE OrderSystemProofs --------------------------
(***************************************************************************)
(* Proofs about OrderSystem for any number of requests and workers, every  *)
(* choice of operations and faults, and any bound on the version.          *)
(*                                                                         *)
(* The inductive invariant adds to the properties what each suspended      *)
(* request must know for its next write to keep them (RequestOK).  A step  *)
(* is then seen from two sides: what it does to the rows (RowStep) and to  *)
(* the slot of the request that takes it (SlotStep); Preserved puts the    *)
(* two together once for all actions.  The last part adds what holds when  *)
(* no two requests overlap (Serial).                                       *)
(***************************************************************************)
EXTENDS OrderSystem, TLAPS

RequestOK(r) ==
  /\ req[r].at = "update" => req[r].arg \in Assignees \cup {Keep}
  /\ req[r].at \in {"credsWrite", "retention"} => req[r].arg \in Dues
  /\ req[r].at = "statusWrite" =>
       /\ req[r].arg \in Statuses
       /\ CanTransition(req[r].status, req[r].arg)
       /\ req[r].arg = "COMPLETED" => HasEvidence
  /\ req[r].at = "complete" => proof /\ CanTransition(req[r].status, "COMPLETED")
  /\ req[r].at = "reconcile" => HasEvidence
  /\ req[r].at = "refund" => CanTransition(req[r].status, "REFUNDED")
  /\ req[r].at \in Versioned =>
       /\ req[r].actor \in Actors
       /\ req[r].version <= order.version
       /\ req[r].version = order.version =>
            req[r].status = order.status /\ MayWrite(req[r].actor)
  /\ req[r].at \in Confirming => req[r].version < order.version

Exclusive ==
  \A r, s \in Requests :
    req[r].at \in Confirming /\ req[s].at \in Confirming
      /\ req[s].version = req[r].version => r = s

IInv ==
  /\ TypeOK
  /\ CompletedHasEvidence
  /\ \A r \in Requests : RequestOK(r)
  /\ Exclusive

\* What every step does to the rows: the version never goes back, it moves with
\* the status and the assignee, and proof and cost are never lost.
RowStep ==
  /\ RowsOK'
  /\ order.version <= order'.version
  /\ order'.version = order.version =>
       order'.status = order.status /\ order'.assignee = order.assignee
  /\ proof => proof'
  /\ fut.cost => fut'.cost
  /\ CompletedHasEvidence'

\* What every step of request r does to the slots: the others keep theirs, and a
\* submission either goes on with its version or has just spent the current one.
SlotStep(r) ==
  /\ req' \in Slots
  /\ \A s \in Requests \ {r} : req'[s] = req[s]
  /\ RequestOK(r)'
  /\ req'[r].at \in Confirming =>
       \/ req[r].at \in Confirming /\ req'[r].version = req[r].version
       \/ req'[r].version = order.version

-----------------------------------------------------------------------------
LEMMA DomainFacts ==
  /\ Terminal \subseteq Statuses
  /\ ProviderStatuses \subseteq Statuses
  /\ Statuses \subseteq RequestArgs /\ Assignees \subseteq RequestArgs
  /\ Dues \subseteq RequestArgs
  /\ {Keep, "create", "modify"} \subseteq RequestArgs
  /\ NoWorker \in Assignees /\ Workers \subseteq Assignees
  /\ Admin \in Actors /\ Workers \subseteq Actors
  /\ Versioned \subseteq Points /\ Confirming \subseteq Points
  BY DEF Terminal, ProviderStatuses, Statuses, RequestArgs, Assignees, Actors,
         Versioned, Confirming, Points

LEMMA FreeOK ==
  Free \in [at : Points, actor : Actors \cup {Nobody}, status : Statuses,
            version : Nat, arg : RequestArgs]
  BY DEF Free, Points, Statuses, RequestArgs

\* A free slot, and one that remembers nothing of the order, is always in order.
LEMMA FreeRequestOK ==
  ASSUME NEW r, req[r] = Free
  PROVE  RequestOK(r) /\ req[r].at \notin Confirming
  BY DEF Free, RequestOK, Versioned, Confirming

LEMMA InitIInv == Init => IInv
  <1> SUFFICES ASSUME Init PROVE IInv
    OBVIOUS
  <1>1. order \in [status : Statuses, version : Nat, closed : BOOLEAN,
                   assignee : Assignees, reconciled : BOOLEAN]
    <2>1. CASE StartApproved
      <3>1. order \in [status : {"APPROVED"}, version : {3}, closed : {FALSE},
                       assignee : Workers, reconciled : {FALSE}]
        BY <2>1 DEF Init
      <3>2. QED
        BY <3>1, DomainFacts, 3 \in Nat DEF Statuses
    <2>2. CASE ~StartApproved
      <3>1. order \in [status : {"DRAFT"}, version : {1}, closed : {FALSE},
                       assignee : Assignees, reconciled : {FALSE}]
        BY <2>2 DEF Init
      <3>2. QED
        BY <3>1, 1 \in Nat DEF Statuses
    <2>3. QED
      BY <2>1, <2>2
  <1>2. order.status # "COMPLETED" /\ ~order.reconciled
    BY DEF Init
  <1>3. /\ fut \in [state : SubmissionStates, ref : BOOLEAN, cost : BOOLEAN]
        /\ cred \in [state : {"none", "active", "deleted"}, due : Dues]
        /\ proof \in BOOLEAN /\ refunds \in Nat /\ placed \in PlacedType
    BY DEF Init, SubmissionStates, Dues, PlacedType
  <1>4. req \in Slots
    BY FreeOK DEF Init, Slots
  <1>5. \A r \in Requests : req[r] = Free
    BY DEF Init
  <1>6. \A r \in Requests : RequestOK(r) /\ req[r].at \notin Confirming
    BY <1>5, FreeRequestOK
  <1>7. QED
    BY <1>1, <1>2, <1>3, <1>4, <1>6
       DEF IInv, TypeOK, RowsOK, CompletedHasEvidence, Exclusive

\* A request that is not the one taking the step keeps what it relies on.
LEMMA OthersOK ==
  ASSUME IInv, RowStep, NEW s \in Requests, req'[s] = req[s]
  PROVE  RequestOK(s)'
  <1>1. RequestOK(s)
    BY DEF IInv
  <1>2. HasEvidence => HasEvidence'
    BY DEF RowStep, HasEvidence
  <1>3. order.version \in Nat /\ order'.version \in Nat /\ req[s].version \in Nat
    BY DEF IInv, TypeOK, RowsOK, Slots, RowStep
  <1>4. req[s].version <= order.version =>
          /\ req[s].version <= order'.version
          /\ req[s].version = order'.version =>
               /\ req[s].version = order.version
               /\ order'.status = order.status
               /\ order'.assignee = order.assignee
    BY <1>3 DEF RowStep
  <1>5. req[s].version < order.version => req[s].version < order'.version
    BY <1>3 DEF RowStep
  <1>6. QED
    BY <1>1, <1>2, <1>4, <1>5 DEF RequestOK, RowStep, MayWrite

LEMMA Preserved ==
  ASSUME IInv, NEW r \in Requests, RowStep, SlotStep(r)
  PROVE  IInv'
  <1>1. \A s \in Requests : RequestOK(s)'
    BY OthersOK DEF SlotStep
  <1>2. Exclusive'
    <2> SUFFICES ASSUME NEW s \in Requests, NEW t \in Requests, s # t,
                        req'[s].at \in Confirming, req'[t].at \in Confirming,
                        req'[s].version = req'[t].version
                 PROVE  FALSE
      BY DEF Exclusive
    <2>1. \A q \in Requests : req[q].at \in Confirming => req[q].version < order.version
      BY DEF IInv, RequestOK
    <2>2. order.version \in Nat /\ \A q \in Requests : req[q].version \in Nat
      BY DEF IInv, TypeOK, RowsOK, Slots
    <2>3. CASE s # r /\ t # r
      BY <2>3 DEF SlotStep, IInv, Exclusive
    <2>4. CASE s = r
      BY <2>1, <2>2, <2>4 DEF SlotStep, IInv, Exclusive
    <2>5. CASE t = r
      BY <2>1, <2>2, <2>5 DEF SlotStep, IInv, Exclusive
    <2>6. QED
      BY <2>3, <2>4, <2>5
  <1>3. QED
    BY <1>1, <1>2 DEF IInv, RowStep, SlotStep, TypeOK

-----------------------------------------------------------------------------
(* Steps of the slots, by the building block that moves them.              *)

LEMMA RowsKept ==
  ASSUME IInv, UNCHANGED <<rows, placed>>
  PROVE  RowStep
  BY DEF IInv, TypeOK, RowStep, RowsOK, rows, CompletedHasEvidence, HasEvidence

LEMMA EndsStep ==
  ASSUME IInv, NEW r \in Requests, Ends(r)
  PROVE  SlotStep(r)
  <1>1. req' \in Slots /\ req'[r] = Free /\ \A s \in Requests \ {r} : req'[s] = req[s]
    BY FreeOK DEF IInv, TypeOK, Slots, Ends
  <1>2. RequestOK(r)' /\ req'[r].at \notin Confirming
    BY <1>1 DEF RequestOK, Free, Versioned, Confirming
  <1>3. QED
    BY <1>1, <1>2 DEF SlotStep

\* Points at which a request relies on nothing.
Easy == {"credsDelete", "expire", "proofWrite", "prepare", "sync", "correct"}

LEMMA WaitingStep ==
  ASSUME IInv, NEW r \in Requests, NEW p \in Easy \cup {"credsWrite", "retention", "reconcile"},
         NEW x \in RequestArgs, Waiting(r, p, x),
         p \in {"credsWrite", "retention"} => x \in Dues,
         p = "reconcile" => HasEvidence'
  PROVE  SlotStep(r)
  <1>1. p \in Points
    BY DEF Easy, Points
  <1>2. req' \in Slots /\ \A s \in Requests \ {r} : req'[s] = req[s]
    BY FreeOK, <1>1 DEF IInv, TypeOK, Slots, Waiting
  <1>3. req'[r] = [Free EXCEPT !.at = p, !.arg = x]
    BY DEF IInv, TypeOK, Slots, Waiting
  <1>4. req'[r].at = p /\ req'[r].arg = x
    BY <1>3 DEF Free
  <1>5. RequestOK(r)' /\ req'[r].at \notin Confirming
    BY <1>4 DEF RequestOK, Easy, Versioned, Confirming
  <1>6. QED
    BY <1>2, <1>5 DEF SlotStep

\* A request that starts at a versioned point has just read the order.
LEMMA HoldingStep ==
  ASSUME IInv, NEW r \in Requests, NEW p \in Versioned, NEW a \in Actors,
         NEW x \in RequestArgs, Holding(r, p, a, x), UNCHANGED rows, MayWrite(a),
         p = "update" => x \in Assignees \cup {Keep},
         p = "statusWrite" => /\ x \in Statuses /\ CanTransition(order.status, x)
                              /\ x = "COMPLETED" => HasEvidence,
         p = "complete" => proof /\ CanTransition(order.status, "COMPLETED"),
         p = "refund" => CanTransition(order.status, "REFUNDED")
  PROVE  SlotStep(r)
  <1>1. p \in Points /\ p \notin Confirming /\ p \notin {"credsWrite", "retention", "reconcile"}
    BY DEF Versioned, Points, Confirming
  <1>2. order.status \in Statuses /\ order.version \in Nat
    BY DEF IInv, TypeOK, RowsOK
  <1>3. req' \in Slots /\ \A s \in Requests \ {r} : req'[s] = req[s]
    BY <1>1, <1>2 DEF IInv, TypeOK, Slots, Holding
  <1>4. req'[r] = [at |-> p, actor |-> a, status |-> order.status,
                   version |-> order.version, arg |-> x]
    BY DEF IInv, TypeOK, Slots, Holding
  <1>5. /\ req'[r].at = p /\ req'[r].actor = a /\ req'[r].arg = x
        /\ req'[r].status = order.status /\ req'[r].version = order.version
    BY <1>4
  <1>6. order' = order /\ proof' = proof /\ fut' = fut
    BY DEF rows
  <1>7. RequestOK(r)'
    BY <1>1, <1>2, <1>5, <1>6 DEF RequestOK, MayWrite, HasEvidence
  <1>8. QED
    BY <1>1, <1>3, <1>5, <1>7 DEF SlotStep

\* A submission on its way keeps the version it has spent.
LEMMA MovesStep ==
  ASSUME IInv, NEW r \in Requests, NEW p \in Confirming, Moves(r, p), RowStep,
         req[r].at \in Confirming
  PROVE  SlotStep(r)
  <1>1. p \in Points
    BY DomainFacts
  <1>2. req' \in Slots /\ \A s \in Requests \ {r} : req'[s] = req[s]
    BY <1>1 DEF IInv, TypeOK, Slots, Moves
  <1>3. req'[r].at = p /\ req'[r].version = req[r].version
    BY DEF IInv, TypeOK, Slots, Moves
  <1>4. req[r].version < order.version /\ req[r].version \in Nat
        /\ order.version \in Nat /\ order'.version \in Nat
    BY DEF IInv, TypeOK, RowsOK, Slots, RowStep, RequestOK
  <1>5. req[r].version < order'.version
    BY <1>4 DEF RowStep
  <1>6. RequestOK(r)'
    BY <1>3, <1>5 DEF RequestOK, Confirming, Versioned
  <1>7. QED
    BY <1>2, <1>3, <1>6 DEF SlotStep

-----------------------------------------------------------------------------
(* Starting a handler: the rows stay, and the checks made on the row that  *)
(* was read are what the request relies on.                                *)

LEMMA StartStep ==
  ASSUME IInv, NEW r \in Requests, Start(r)
  PROVE  RowStep /\ SlotStep(r)
  <1> USE DomainFacts
  <1>1. ASSUME NEW a \in Actors, NEW w \in Assignees \cup {Keep}, UpdateRead(r, a, w)
        PROVE  RowStep /\ SlotStep(r)
    BY <1>1, RowsKept, HoldingStep DEF UpdateRead, Versioned
  <1>2. ASSUME NEW a \in Actors, NEW next \in Statuses, ChangeStatusRead(r, a, next)
        PROVE  RowStep /\ SlotStep(r)
    BY <1>2, RowsKept, HoldingStep DEF ChangeStatusRead, StatusAllowed, HasEvidence, Versioned
  <1>3. ASSUME NEW a \in Actors, AddCredentialsRead(r, a)
        PROVE  RowStep /\ SlotStep(r)
    <2>1. (IF order.closed THEN "week" ELSE "far") \in Dues
      BY DEF Dues
    <2>2. QED
      BY <1>3, <2>1, RowsKept, WaitingStep DEF AddCredentialsRead
  <1>4. ASSUME NEW a \in Actors, DeleteCredentialsRead(r, a)
        PROVE  RowStep /\ SlotStep(r)
    BY <1>4, RowsKept, WaitingStep DEF DeleteCredentialsRead, Easy
  <1>5. ASSUME NEW a \in Actors, ProofRead(r, a)
        PROVE  RowStep /\ SlotStep(r)
    BY <1>5, RowsKept, WaitingStep DEF ProofRead, Easy
  <1>6. ASSUME NEW a \in Actors, CompleteRead(r, a)
        PROVE  RowStep /\ SlotStep(r)
    <2>1. CanTransition(order.status, "COMPLETED")
      BY <1>6 DEF CompleteRead, CanTransition, Transitions
    <2>2. "COMPLETED" \in RequestArgs
      BY DEF Statuses
    <2>3. QED
      BY <1>6, <2>1, <2>2, RowsKept, HoldingStep DEF CompleteRead, Versioned
  <1>7. ASSUME NEW a \in Actors, ReconcileRead(r, a)
        PROVE  RowStep /\ SlotStep(r)
    <2>1. HasEvidence'
      BY <1>7 DEF IInv, ReconcileRead, rows, CompletedHasEvidence, HasEvidence
    <2>2. QED
      BY <1>7, <2>1, RowsKept, WaitingStep DEF ReconcileRead
  <1>8. ASSUME NEW a \in Actors, RefundRead(r, a)
        PROVE  RowStep /\ SlotStep(r)
    <2>1. MayWrite(a)
      BY <1>8 DEF RefundRead, MayWrite, CanWriteOrder, CanAccessOrder
    <2>2. "REFUNDED" \in RequestArgs
      BY DEF Statuses
    <2>3. QED
      BY <1>8, <2>1, <2>2, RowsKept, HoldingStep DEF RefundRead, Versioned
  <1>9. ASSUME NEW a \in Actors, PrepareRead(r, a)
        PROVE  RowStep /\ SlotStep(r)
    BY <1>9, RowsKept, WaitingStep DEF PrepareRead, Easy
  <1>10. ASSUME NEW a \in Actors, ConfirmRead(r, a)
         PROVE  RowStep /\ SlotStep(r)
    BY <1>10, RowsKept, HoldingStep DEF ConfirmRead, Versioned
  <1>11. ASSUME NEW a \in Actors, SyncRead(r, a)
         PROVE  RowStep /\ SlotStep(r)
    <2>1. RowStep
      BY <1>11, RowsKept DEF SyncRead
    <2>2. req' = [req EXCEPT ![r] = [Free EXCEPT !.at = "sync", !.actor = a,
                                                 !.status = order.status]]
      BY <1>11 DEF SyncRead
    <2>3. order.status \in Statuses /\ "sync" \in Points
      BY DEF IInv, TypeOK, RowsOK, Points
    <2>4. req' \in Slots /\ \A s \in Requests \ {r} : req'[s] = req[s]
      BY <2>2, <2>3, FreeOK DEF IInv, TypeOK, Slots
    <2>5. req'[r].at = "sync"
      BY <2>2 DEF IInv, TypeOK, Slots, Free
    <2>6. RequestOK(r)' /\ req'[r].at \notin Confirming
      BY <2>5 DEF RequestOK, Versioned, Confirming
    <2>7. QED
      BY <2>1, <2>4, <2>6 DEF SlotStep
  <1>12. ASSUME NEW a \in Actors, CorrectRead(r, a)
         PROVE  RowStep /\ SlotStep(r)
    BY <1>12, RowsKept, WaitingStep DEF CorrectRead, Easy
  <1>13. ASSUME NEW a \in Actors, CancelRead(r, a)
         PROVE  RowStep /\ SlotStep(r)
    <2>1. MayWrite(a)
      BY <1>13 DEF CancelRead, MayWrite, CanWriteOrder, CanAccessOrder
    <2>2. "CANCELLED" \in RequestArgs
      BY DEF Statuses
    <2>3. QED
      BY <1>13, <2>1, <2>2, RowsKept, HoldingStep DEF CancelRead, Versioned
  <1>14. ASSUME ExpireRead(r)
         PROVE  RowStep /\ SlotStep(r)
    BY <1>14, RowsKept, WaitingStep DEF ExpireRead, Easy
  <1>15. QED
    BY <1>1, <1>2, <1>3, <1>4, <1>5, <1>6, <1>7, <1>8, <1>9, <1>10, <1>11, <1>12,
       <1>13, <1>14 DEF Start

-----------------------------------------------------------------------------
(* The writes.                                                             *)

\* Every row but the order keeps its type and loses nothing: what is left to show
\* of a step is what it does to the order.
LEMMA OtherRowsKept ==
  ASSUME IInv, UNCHANGED <<order, fut, proof>>,
         cred' \in [state : {"none", "active", "deleted"}, due : Dues],
         refunds' \in Nat, placed' \in PlacedType
  PROVE  RowStep
  BY DEF IInv, TypeOK, RowStep, RowsOK, CompletedHasEvidence, HasEvidence

\* The rows of a well typed state, by name.
LEMMA TypesOfRows ==
  ASSUME IInv
  PROVE  /\ cred \in [state : {"none", "active", "deleted"}, due : Dues]
         /\ refunds \in Nat /\ placed \in PlacedType
  BY DEF IInv, TypeOK, RowsOK

LEMMA PlacedKept ==
  ASSUME IInv, Unrecorded \/ UNCHANGED placed
  PROVE  placed' \in PlacedType
  <1>1. placed \in PlacedType
    BY TypesOfRows
  <1>2. QED
    BY <1>1 DEF Unrecorded, PlacedType

LEMMA DueInType ==
  ASSUME IInv, NEW d \in Dues
  PROVE  DueIn(d) \in [state : {"none", "active", "deleted"}, due : Dues]
  BY DEF IInv, TypeOK, RowsOK, DueIn

\* A new status, one version later, with the evidence it needs.
LEMMA StatusStep ==
  ASSUME IInv, NEW s \in Statuses, NEW c \in BOOLEAN, order' = WithStatus(order, s, c),
         fut' \in [state : SubmissionStates, ref : BOOLEAN, cost : BOOLEAN],
         cred' \in [state : {"none", "active", "deleted"}, due : Dues],
         refunds' \in Nat, placed' \in PlacedType, proof' = proof,
         fut.cost => fut'.cost,
         s = "COMPLETED" => HasEvidence'
  PROVE  RowStep
  <1>1. order \in [status : Statuses, version : Nat, closed : BOOLEAN,
                   assignee : Assignees, reconciled : BOOLEAN]
    BY DEF IInv, TypeOK, RowsOK
  <1>2. order' = [order EXCEPT !.status = s, !.version = order.version + 1, !.closed = c]
    BY DEF WithStatus
  <1>3. /\ order' \in [status : Statuses, version : Nat, closed : BOOLEAN,
                       assignee : Assignees, reconciled : BOOLEAN]
        /\ order'.status = s /\ order'.version = order.version + 1
        /\ order'.reconciled = order.reconciled
    <2>1. order.version + 1 \in Nat
      BY <1>1
    <2>2. QED
      BY <1>1, <1>2, <2>1
  <1>4. RowsOK'
    <2>1. proof' \in BOOLEAN
      BY DEF IInv, TypeOK, RowsOK
    <2>2. QED
      BY <1>3, <2>1 DEF RowsOK
  <1>5. order.version <= order'.version /\ order'.version # order.version
    BY <1>1, <1>3
  <1>6. CompletedHasEvidence'
    BY <1>3 DEF IInv, CompletedHasEvidence, HasEvidence
  <1>7. QED
    BY <1>4, <1>5, <1>6 DEF RowStep

LEMMA ContinueStep ==
  ASSUME IInv, NEW r \in Requests, Continue(r)
  PROVE  RowStep /\ SlotStep(r)
  <1> USE DomainFacts
  <1>t. /\ order \in [status : Statuses, version : Nat, closed : BOOLEAN,
                      assignee : Assignees, reconciled : BOOLEAN]
        /\ fut \in [state : SubmissionStates, ref : BOOLEAN, cost : BOOLEAN]
        /\ cred \in [state : {"none", "active", "deleted"}, due : Dues]
        /\ proof \in BOOLEAN /\ refunds \in Nat /\ placed \in PlacedType
        /\ req[r].version \in Nat /\ order.version \in Nat
    BY DEF IInv, TypeOK, RowsOK, Slots
  <1>r. RequestOK(r)
    BY DEF IInv
  <1>w. DueIn("week") \in [state : {"none", "active", "deleted"}, due : Dues]
    BY DueInType DEF Dues
  <1>1. ASSUME UpdateWrite(r) PROVE RowStep /\ SlotStep(r)
    <2>1. CASE Current(r)
      <3>1. Assigned(r) \in Assignees
        BY <1>1, <1>t, <1>r DEF UpdateWrite, RequestOK, Assigned
      <3>2. order' = [order EXCEPT !.assignee = Assigned(r), !.version = order.version + 1]
        BY <1>1, <2>1 DEF UpdateWrite
      <3>3. /\ order' \in [status : Statuses, version : Nat, closed : BOOLEAN,
                           assignee : Assignees, reconciled : BOOLEAN]
            /\ order'.status = order.status /\ order'.version = order.version + 1
            /\ order'.reconciled = order.reconciled
        <4>1. order.version + 1 \in Nat
          BY <1>t
        <4>2. QED
          BY <1>t, <3>1, <3>2, <4>1
      <3>4. order.version <= order'.version /\ order'.version # order.version
        BY <1>t, <3>3
      <3>5. RowStep
        BY <1>1, <3>3, <3>4
           DEF UpdateWrite, IInv, TypeOK, RowsOK, RowStep, CompletedHasEvidence, HasEvidence
      <3>6. QED
        BY <1>1, <3>5, EndsStep DEF UpdateWrite
    <2>2. CASE ~Current(r)
      BY <1>1, <2>2, RowsKept, EndsStep DEF UpdateWrite, rows
    <2>3. QED
      BY <2>1, <2>2
  <1>2. ASSUME AddCredentialsWrite(r) PROVE RowStep /\ SlotStep(r)
    <2>1. req[r].arg \in Dues
      BY <1>2, <1>r DEF AddCredentialsWrite, RequestOK
    <2>2. RowStep
      BY <1>2, <1>t, <2>1, OtherRowsKept DEF AddCredentialsWrite
    <2>3. QED
      BY <1>2, <2>2, EndsStep DEF AddCredentialsWrite
  <1>3. ASSUME EraseCredentials(r) PROVE RowStep /\ SlotStep(r)
    <2>1. "none" \in Dues
      BY DEF Dues
    <2>2. RowStep
      BY <1>3, <1>t, <2>1, OtherRowsKept DEF EraseCredentials
    <2>3. QED
      BY <1>3, <2>2, EndsStep DEF EraseCredentials
  <1>4. ASSUME ProofWrite(r) PROVE RowStep /\ SlotStep(r)
    <2>1. RowStep
      BY <1>4, <1>t DEF ProofWrite, IInv, TypeOK, RowsOK, RowStep, CompletedHasEvidence, HasEvidence
    <2>2. QED
      BY <1>4, <2>1, EndsStep DEF ProofWrite
  <1>5. ASSUME StatusWrite(r) PROVE RowStep /\ SlotStep(r)
    <2>1. CASE Current(r)
      <3>1. req[r].arg \in Statuses /\ (req[r].arg = "COMPLETED" => HasEvidence)
        BY <1>5, <1>r DEF StatusWrite, RequestOK
      <3>2. /\ order' = WithStatus(order, req[r].arg, req[r].arg \in Terminal)
            /\ Waiting(r, "retention", IF req[r].arg \in Terminal THEN "week" ELSE "far")
            /\ UNCHANGED <<fut, cred, proof, refunds, placed>>
        BY <1>5, <2>1 DEF StatusWrite
      <3>3. HasEvidence => HasEvidence'
        BY <3>2 DEF HasEvidence
      <3>4. (req[r].arg \in Terminal) \in BOOLEAN
        OBVIOUS
      <3>5. RowStep
        BY <1>t, <3>1, <3>2, <3>3, <3>4, StatusStep
      <3>6. (IF req[r].arg \in Terminal THEN "week" ELSE "far") \in Dues
        BY DEF Dues
      <3>7. SlotStep(r)
        BY <3>2, <3>6, WaitingStep
      <3>8. QED
        BY <3>5, <3>7
    <2>2. CASE ~Current(r)
      BY <1>5, <2>2, RowsKept, EndsStep DEF StatusWrite, rows
    <2>3. QED
      BY <2>1, <2>2
  <1>6. ASSUME RetentionWrite(r) PROVE RowStep /\ SlotStep(r)
    <2>1. req[r].arg \in Dues
      BY <1>6, <1>r DEF RetentionWrite, RequestOK
    <2>2. RowStep
      BY <1>6, <1>t, <2>1, DueInType, OtherRowsKept DEF RetentionWrite
    <2>3. QED
      BY <1>6, <2>2, EndsStep DEF RetentionWrite
  <1>7. ASSUME CompleteWrite(r) PROVE RowStep /\ SlotStep(r)
    <2>1. CASE Current(r)
      <3>1. /\ order' = WithStatus(order, "COMPLETED", TRUE)
            /\ fut' = [fut EXCEPT !.state = "COMPLETED", !.cost = TRUE]
            /\ cred' = DueIn("week")
            /\ UNCHANGED <<proof, refunds, placed>>
        BY <1>7, <2>1 DEF CompleteWrite
      <3>2. /\ fut' \in [state : SubmissionStates, ref : BOOLEAN, cost : BOOLEAN]
            /\ fut'.cost
        BY <1>t, <3>1 DEF SubmissionStates
      <3>3. proof
        BY <1>7, <1>r DEF CompleteWrite, RequestOK
      <3>4. "COMPLETED" \in Statuses
        BY DEF Statuses
      <3>5. HasEvidence'
        BY <3>1, <3>2, <3>3 DEF HasEvidence
      <3>6. RowStep
        BY <1>t, <1>w, <3>1, <3>2, <3>4, <3>5, StatusStep
      <3>7. QED
        BY <1>7, <3>6, EndsStep DEF CompleteWrite
    <2>2. CASE ~Current(r)
      BY <1>7, <2>2, RowsKept, EndsStep DEF CompleteWrite, rows
    <2>3. QED
      BY <2>1, <2>2
  <1>8. ASSUME ReconcileWrite(r) PROVE RowStep /\ SlotStep(r)
    <2>1. HasEvidence
      BY <1>8, <1>r DEF ReconcileWrite, RequestOK
    <2>2. /\ order' = [order EXCEPT !.reconciled = TRUE]
          /\ UNCHANGED <<fut, cred, proof, refunds, placed>>
      BY <1>8 DEF ReconcileWrite
    <2>3. /\ order' \in [status : Statuses, version : Nat, closed : BOOLEAN,
                         assignee : Assignees, reconciled : BOOLEAN]
          /\ order'.status = order.status /\ order'.version = order.version
          /\ order'.assignee = order.assignee
      BY <1>t, <2>2
    <2>4. order.version <= order'.version
      BY <1>t, <2>3
    <2>5. RowStep
      BY <2>1, <2>2, <2>3, <2>4
         DEF IInv, TypeOK, RowsOK, RowStep, CompletedHasEvidence, HasEvidence
    <2>6. QED
      BY <1>8, <2>5, EndsStep DEF ReconcileWrite
  <1>9. ASSUME RefundWrite(r) PROVE RowStep /\ SlotStep(r)
    <2>1. CASE Current(r) /\ order.status = req[r].status
      <3>1. /\ order' = WithStatus(order, "REFUNDED", TRUE)
            /\ refunds' = refunds + 1 /\ cred' = DueIn("week")
            /\ UNCHANGED <<fut, proof, placed>>
        BY <1>9, <2>1 DEF RefundWrite
      <3>2. "REFUNDED" \in Statuses /\ refunds' \in Nat
        BY <1>t, <3>1 DEF Statuses
      <3>3. RowStep
        BY <1>t, <1>w, <3>1, <3>2, StatusStep
      <3>4. QED
        BY <1>9, <3>3, EndsStep DEF RefundWrite
    <2>2. CASE ~(Current(r) /\ order.status = req[r].status)
      BY <1>9, <2>2, RowsKept, EndsStep DEF RefundWrite, rows
    <2>3. QED
      BY <2>1, <2>2
  <1>10. ASSUME PrepareWrite(r) PROVE RowStep /\ SlotStep(r)
    <2>1. /\ fut' \in [state : SubmissionStates, ref : BOOLEAN, cost : BOOLEAN]
          /\ fut'.cost = fut.cost
      BY <1>10, <1>t DEF PrepareWrite, SubmissionStates
    <2>2. RowStep
      BY <1>10, <1>t, <2>1
         DEF PrepareWrite, IInv, TypeOK, RowsOK, RowStep, CompletedHasEvidence, HasEvidence
    <2>3. QED
      BY <1>10, <2>2, EndsStep DEF PrepareWrite
  <1>11. ASSUME Reserve(r) PROVE RowStep /\ SlotStep(r)
    <2>1. CASE Current(r) /\ order.status = "APPROVED"
      <3>1. /\ order' = [order EXCEPT !.version = order.version + 1] /\ Moves(r, "claim")
            /\ UNCHANGED <<fut, cred, proof, refunds, placed>>
        BY <1>11, <2>1 DEF Reserve
      <3>2. /\ order' \in [status : Statuses, version : Nat, closed : BOOLEAN,
                           assignee : Assignees, reconciled : BOOLEAN]
            /\ order'.status = order.status /\ order'.version = order.version + 1
            /\ order'.reconciled = order.reconciled
        BY <1>t, <3>1
      <3>3. order.version <= order'.version /\ order'.version # order.version
            /\ order.version < order'.version
        BY <1>t, <3>2
      <3>4. RowStep
        BY <3>1, <3>2, <3>3
           DEF IInv, TypeOK, RowsOK, RowStep, CompletedHasEvidence, HasEvidence
      <3>5. "claim" \in Points
        BY DEF Points
      <3>6. req' \in Slots /\ \A s \in Requests \ {r} : req'[s] = req[s]
        BY <3>1, <3>5 DEF IInv, TypeOK, Slots, Moves
      <3>7. req'[r].at = "claim" /\ req'[r].version = req[r].version
        BY <3>1 DEF IInv, TypeOK, Slots, Moves
      <3>8. req'[r].version = order.version
        BY <2>1, <3>7 DEF Current
      <3>9. RequestOK(r)'
        BY <3>3, <3>7, <3>8 DEF RequestOK, Versioned
      <3>10. QED
        BY <3>4, <3>6, <3>8, <3>9 DEF SlotStep
    <2>2. CASE ~(Current(r) /\ order.status = "APPROVED")
      BY <1>11, <2>2, RowsKept, EndsStep DEF Reserve, rows
    <2>3. QED
      BY <2>1, <2>2
  <1>12. ASSUME Claim(r) PROVE RowStep /\ SlotStep(r)
    <2>1. /\ fut' \in [state : SubmissionStates, ref : BOOLEAN, cost : BOOLEAN]
          /\ fut'.cost = fut.cost
      BY <1>12, <1>t DEF Claim, SubmissionStates
    <2>2. RowStep
      BY <1>12, <1>t, <2>1
         DEF Claim, IInv, TypeOK, RowsOK, RowStep, CompletedHasEvidence, HasEvidence
    <2>3. QED
      BY <1>12, <2>2, MovesStep DEF Claim, Confirming
  <1>13. ASSUME Submit(r) PROVE RowStep /\ SlotStep(r)
    <2>1. UNCHANGED rows
      BY <1>13 DEF Submit
    <2>p. placed' \in PlacedType
      <3>1. /\ [placed EXCEPT !.accepted = placed.accepted + 1] \in PlacedType
            /\ [placed EXCEPT !.accepted = placed.accepted + 1,
                              !.unrecorded = placed.unrecorded + 1] \in PlacedType
        <4>1. placed \in PlacedType
          BY <1>t
        <4>2. placed.accepted + 1 \in Nat /\ placed.unrecorded + 1 \in Nat
          BY <4>1 DEF PlacedType
        <4>3. QED
          BY <4>1, <4>2 DEF PlacedType
      <3>2. QED
        BY <1>13, <1>t, <3>1 DEF Submit
    <2>2. RowStep
      BY <1>t, <2>1, <2>p, OtherRowsKept DEF rows
    <2>3. Moves(r, "accepted") \/ Moves(r, "unknown") \/ Moves(r, "failed")
      BY <1>13 DEF Submit
    <2>4. QED
      BY <1>13, <2>2, <2>3, MovesStep DEF Submit, Confirming
  <1>14. ASSUME SettleAccepted(r) PROVE RowStep /\ SlotStep(r)
    <2>1. CASE /\ fut' = [state |-> "SUBMITTED", ref |-> TRUE, cost |-> TRUE]
               /\ order' = WithStatus(order, "SUBMITTED_TO_FUT", order.closed)
               /\ Ends(r) /\ UNCHANGED placed
      <3>1. /\ fut' \in [state : SubmissionStates, ref : BOOLEAN, cost : BOOLEAN]
            /\ fut'.cost
        BY <2>1 DEF SubmissionStates
      <3>2. "SUBMITTED_TO_FUT" \in Statuses /\ order.closed \in BOOLEAN
        BY <1>t DEF Statuses
      <3>3. UNCHANGED <<cred, proof, refunds, placed>>
        BY <1>14, <2>1 DEF SettleAccepted
      <3>4. RowStep
        BY <1>t, <2>1, <3>1, <3>2, <3>3, StatusStep
      <3>5. QED
        BY <2>1, <3>4, EndsStep
    <2>2. CASE Moves(r, "failed") /\ Unrecorded /\ UNCHANGED <<order, fut>>
      <3>1. UNCHANGED rows /\ req[r].at \in Confirming /\ placed' \in PlacedType
        BY <1>14, <2>2, PlacedKept DEF SettleAccepted, rows, Confirming
      <3>2. RowStep
        BY <1>t, <3>1, OtherRowsKept DEF rows
      <3>3. QED
        BY <2>2, <3>1, <3>2, MovesStep DEF Confirming
    <2>3. QED
      BY <1>14, <2>1, <2>2 DEF SettleAccepted
  <1>15. ASSUME SettleUnknown(r) PROVE RowStep /\ SlotStep(r)
    <2>1. /\ fut' \in [state : SubmissionStates, ref : BOOLEAN, cost : BOOLEAN]
          /\ fut'.cost = fut.cost
      BY <1>15, <1>t DEF SettleUnknown, SubmissionStates
    <2>2. RowStep
      BY <1>15, <1>t, <2>1
         DEF SettleUnknown, IInv, TypeOK, RowsOK, RowStep, CompletedHasEvidence, HasEvidence
    <2>3. QED
      BY <1>15, <2>2, EndsStep DEF SettleUnknown
  <1>16. ASSUME SettleFailed(r) PROVE RowStep /\ SlotStep(r)
    <2>1. /\ fut' \in [state : SubmissionStates, ref : BOOLEAN, cost : BOOLEAN]
          /\ fut'.cost = fut.cost
      BY <1>16, <1>t DEF SettleFailed, SubmissionStates
    <2>2. /\ order' = WithStatus(order, "FAILED", TRUE) /\ cred' = DueIn("week")
          /\ UNCHANGED <<proof, refunds, placed>> /\ Ends(r)
      BY <1>16 DEF SettleFailed
    <2>3. "FAILED" \in Statuses
      BY DEF Statuses
    <2>4. RowStep
      BY <1>t, <1>w, <2>1, <2>2, <2>3, StatusStep
    <2>5. QED
      BY <2>2, <2>4, EndsStep
  <1>17. ASSUME NEW mapped \in ProviderStatuses, NEW ref \in BOOLEAN, NEW cost \in BOOLEAN,
                SyncWrite(r, mapped, ref, cost)
         PROVE  RowStep /\ SlotStep(r)
    <2> DEFINE next == SyncedStatus(mapped)
               moves == SyncMoves(req[r].status, next)
               closes == moves /\ next \in Terminal
    <2>1. next \in Statuses /\ next # "COMPLETED"
      BY DEF SyncedStatus, ProviderStatuses, Statuses
    <2>2. SyncedState(mapped) \in SubmissionStates
      BY DEF SyncedState, ProviderStatuses, SubmissionStates
    <2>3. fut' = [state |-> SyncedState(mapped), ref |-> fut.ref \/ ref,
                  cost |-> fut.cost \/ cost]
      BY <1>17 DEF SyncWrite
    <2>4. /\ fut' \in [state : SubmissionStates, ref : BOOLEAN, cost : BOOLEAN]
          /\ fut.cost => fut'.cost
      <3>1. (fut.ref \/ ref) \in BOOLEAN /\ (fut.cost \/ cost) \in BOOLEAN
        OBVIOUS
      <3>2. QED
        BY <2>2, <2>3, <3>1
    <2>5. /\ order' = IF moves THEN WithStatus(order, next, SyncedClosed(closes)) ELSE order
          /\ cred' = IF closes THEN DueIn("week") ELSE cred
          /\ UNCHANGED <<proof, refunds, placed>> /\ Ends(r)
      BY <1>17 DEF SyncWrite
    <2>6. SyncedClosed(closes) \in BOOLEAN
      BY DEF SyncedClosed
    <2>7. cred' \in [state : {"none", "active", "deleted"}, due : Dues]
      BY <1>t, <1>w, <2>5
    <2>8. RowStep
      <3>1. CASE moves
        <4>1. order' = WithStatus(order, next, SyncedClosed(closes))
          BY <2>5, <3>1
        <4> HIDE DEF next, moves, closes
        <4>2. QED
          BY <1>t, <2>1, <2>4, <2>5, <2>6, <2>7, <4>1, StatusStep
      <3>2. CASE ~moves
        <4>1. order' = order
          BY <2>5, <3>2
        <4> HIDE DEF next, moves, closes
        <4>2. QED
          BY <1>t, <2>4, <2>5, <2>7, <4>1
             DEF IInv, TypeOK, RowsOK, RowStep, CompletedHasEvidence, HasEvidence
      <3>3. QED
        BY <3>1, <3>2
    <2>9. QED
      BY <2>5, <2>8, EndsStep
  <1>18. ASSUME CorrectWrite(r) PROVE RowStep /\ SlotStep(r)
    <2>1. /\ fut' \in [state : SubmissionStates, ref : BOOLEAN, cost : BOOLEAN]
          /\ fut'.cost = fut.cost
      BY <1>18, <1>t DEF CorrectWrite, SubmissionStates
    <2>2. /\ order' = WithStatus(order, "PROCESSING", order.closed)
          /\ UNCHANGED <<cred, proof, refunds, placed>> /\ Ends(r)
      BY <1>18 DEF CorrectWrite
    <2>3. "PROCESSING" \in Statuses /\ order.closed \in BOOLEAN
      BY <1>t DEF Statuses
    <2>4. RowStep
      BY <1>t, <2>1, <2>2, <2>3, StatusStep
    <2>5. QED
      BY <2>2, <2>4, EndsStep
  <1>19. ASSUME CancelFutWrite(r) PROVE RowStep /\ SlotStep(r)
    <2>1. /\ fut' \in [state : SubmissionStates, ref : BOOLEAN, cost : BOOLEAN]
          /\ fut'.cost = fut.cost
      BY <1>19, <1>t DEF CancelFutWrite, SubmissionStates
    <2>2. UNCHANGED <<order, cred, proof, refunds, placed>> /\ Moves(r, "cancelStatus")
          /\ req[r].at = "cancelFut"
      BY <1>19 DEF CancelFutWrite
    <2>3. RowStep
      BY <1>t, <2>1, <2>2
         DEF IInv, TypeOK, RowsOK, RowStep, CompletedHasEvidence, HasEvidence
    <2>4. "cancelStatus" \in Points
      BY DEF Points
    <2>5. req' \in Slots /\ \A s \in Requests \ {r} : req'[s] = req[s]
      BY <2>2, <2>4 DEF IInv, TypeOK, Slots, Moves
    <2>6. /\ req'[r].at = "cancelStatus" /\ req'[r].version = req[r].version
          /\ req'[r].status = req[r].status /\ req'[r].actor = req[r].actor
      BY <2>2 DEF IInv, TypeOK, Slots, Moves
    <2>7. RequestOK(r)' /\ req'[r].at \notin Confirming
      BY <1>r, <2>2, <2>6 DEF RequestOK, Versioned, Confirming, MayWrite
    <2>8. QED
      BY <2>3, <2>5, <2>7 DEF SlotStep
  <1>20. ASSUME CancelStatus(r) PROVE RowStep /\ SlotStep(r)
    <2>1. UNCHANGED <<rows, placed>>
      BY <1>20 DEF CancelStatus
    <2>2. CASE Current(r) /\ CanTransition(order.status, "CANCELLED")
      <3>1. req[r].actor \in Actors /\ MayWrite(req[r].actor)
        BY <1>20, <1>r, <2>2 DEF CancelStatus, RequestOK, Versioned, Current
      <3>2. "CANCELLED" \in Statuses
        BY DEF Statuses
      <3>3. Holding(r, "statusWrite", req[r].actor, "CANCELLED")
        BY <1>20, <2>2 DEF CancelStatus
      <3>4. QED
        BY <2>1, <2>2, <3>1, <3>2, <3>3, RowsKept, HoldingStep DEF Versioned
    <2>3. CASE ~(Current(r) /\ CanTransition(order.status, "CANCELLED"))
      BY <1>20, <2>1, <2>3, RowsKept, EndsStep DEF CancelStatus
    <2>4. QED
      BY <2>2, <2>3
  <1>21. ASSUME CallFails(r) PROVE RowStep /\ SlotStep(r)
    BY <1>21, RowsKept, EndsStep DEF CallFails
  <1>22. QED
    BY <1>1, <1>2, <1>3, <1>4, <1>5, <1>6, <1>7, <1>8, <1>9, <1>10, <1>11, <1>12, <1>13,
       <1>14, <1>15, <1>16, <1>17, <1>18, <1>19, <1>20, <1>21 DEF Continue

\* A step of the system is a step of one request.
LEMMA NextStep ==
  ASSUME IInv, NEW r \in Requests, Start(r) \/ Continue(r) \/ Crash(r)
  PROVE  RowStep /\ SlotStep(r)
  <1>1. CASE Crash(r)
    <2>1. placed' \in PlacedType /\ UNCHANGED rows
      BY <1>1, PlacedKept DEF Crash
    <2>2. RowStep
      BY <2>1, OtherRowsKept, TypesOfRows DEF rows
    <2>3. QED
      BY <1>1, <2>2, EndsStep DEF Crash
  <1>2. QED
    BY <1>1, StartStep, ContinueStep

LEMMA StutterStep ==
  ASSUME IInv, UNCHANGED vars
  PROVE  IInv'
  BY DEF IInv, vars, TypeOK, RowsOK, Slots, CompletedHasEvidence, HasEvidence, RequestOK,
         Exclusive, MayWrite

\* What every request in flight may rely on holds in every reachable state: the
\* handlers of src/lib/orders/service.ts and src/lib/ledger.ts write what they
\* decided on a row read earlier, and this is how much of it is still true.
THEOREM Invariance == Spec => []IInv
  <1>1. IInv /\ [Next]_vars => IInv'
    BY NextStep, Preserved, StutterStep DEF Next
  <1>2. QED
    BY <1>1, InitIInv, PTL DEF Spec

-----------------------------------------------------------------------------
(* The properties.                                                         *)

\* The rows and the requests in flight keep their types, whatever the handlers write.
THEOREM TypeCorrect == Spec => []TypeOK
  <1>1. IInv => TypeOK
    BY DEF IInv
  <1>2. QED
    BY <1>1, Invariance, PTL

\* Every write of status or assignee moves Order.version, so that a version that
\* still matches (updateMany ... where version) vouches for the row that was read.
THEOREM SnapshotsAreCoherent == Spec => []SnapshotCoherent
  <1>1. IInv => SnapshotCoherent
    BY DEF IInv, RequestOK, SnapshotCoherent, Current
  <1>2. QED
    BY <1>1, Invariance, PTL

\* confirmFutOrder sends one submission to the provider per reviewed version.
THEOREM ReservationsAreExclusive == Spec => []ReservationExclusive
  <1>1. IInv => ReservationExclusive
    BY DEF IInv, RequestOK, Exclusive, ReservationExclusive
  <1>2. QED
    BY <1>1, Invariance, PTL

\* No interleaving of changeOrderStatus, completeOrderManually, the provider's
\* answers and reconcileOrder completes an order without proof and actual cost.
THEOREM CompletionNeedsEvidence == Spec => []CompletedHasEvidence
  <1>1. IInv => CompletedHasEvidence
    BY DEF IInv
  <1>2. QED
    BY <1>1, Invariance, PTL

\* What a versioned write does to the order: the move its request decided on, still
\* allowed by the table, by an actor who still may.
LEMMA VersionedWrite ==
  ASSUME IInv, NEW r \in Requests,
         StatusWrite(r) \/ CompleteWrite(r) \/ RefundWrite(r),
         order' # order
  PROVE  /\ MayWrite(req[r].actor)
         /\ \E s \in Statuses :
              /\ CanTransition(order.status, s)
              /\ order' = WithStatus(order, s, s \in Terminal)
  <1>1. RequestOK(r) /\ order.version = req[r].version
    BY DEF IInv, StatusWrite, CompleteWrite, RefundWrite, Current
  <1>2. MayWrite(req[r].actor) /\ req[r].status = order.status
    BY <1>1 DEF RequestOK, Versioned, StatusWrite, CompleteWrite, RefundWrite
  <1>3. CASE StatusWrite(r)
    BY <1>1, <1>2, <1>3 DEF StatusWrite, RequestOK
  <1>4. CASE CompleteWrite(r)
    <2>1. CanTransition(order.status, "COMPLETED") /\ order' = WithStatus(order, "COMPLETED", TRUE)
      BY <1>1, <1>2, <1>4 DEF CompleteWrite, RequestOK
    <2>2. "COMPLETED" \in Statuses /\ "COMPLETED" \in Terminal
      BY DEF Statuses, Terminal
    <2>3. QED
      BY <1>2, <2>1, <2>2
  <1>5. CASE RefundWrite(r)
    <2>1. CanTransition(order.status, "REFUNDED") /\ order' = WithStatus(order, "REFUNDED", TRUE)
      BY <1>1, <1>2, <1>5 DEF RefundWrite, RequestOK
    <2>2. "REFUNDED" \in Statuses /\ "REFUNDED" \in Terminal
      BY DEF Statuses, Terminal
    <2>3. QED
      BY <1>2, <2>1, <2>2
  <1>6. QED
    BY <1>3, <1>4, <1>5

LEMMA WithStatusFields ==
  ASSUME IInv, NEW s, NEW c
  PROVE  /\ WithStatus(order, s, c).status = s
         /\ WithStatus(order, s, c).version = order.version + 1
         /\ WithStatus(order, s, c).closed = c
  BY DEF IInv, TypeOK, RowsOK, WithStatus

\* changeOrderStatus, completeOrderManually and applyRefund check the table and the
\* access on a row that may be stale, and still never write against either.
THEOREM GuardedWritesFollowTable == Spec => GuardedWritesAreCurrent
  <1> DEFINE Guarded ==
               \A r \in Requests :
                 req[r].at \in {"statusWrite", "complete", "refund"} /\ order' # order
                   /\ req'[r] # req[r] =>
                   /\ CanTransition(order.status, order'.status)
                   /\ MayWrite(req[r].actor)
  <1>1. ASSUME IInv, Next PROVE Guarded
    <2> SUFFICES ASSUME NEW r \in Requests,
                        req[r].at \in {"statusWrite", "complete", "refund"},
                        order' # order, req'[r] # req[r]
                 PROVE  CanTransition(order.status, order'.status) /\ MayWrite(req[r].actor)
      OBVIOUS
    <2>1. PICK q \in Requests : Start(q) \/ Continue(q) \/ Crash(q)
      BY <1>1 DEF Next
    <2>2. q = r
      BY <1>1, <2>1, NextStep DEF SlotStep
    <2>3. ~Start(r) /\ ~Crash(r)
      BY DEF Start, Crash, rows, Starts, UpdateRead, ChangeStatusRead, AddCredentialsRead,
             DeleteCredentialsRead, ExpireRead, ProofRead, CompleteRead, ReconcileRead,
             RefundRead, PrepareRead, ConfirmRead, SyncRead, CorrectRead, CancelRead
    <2>4. StatusWrite(r) \/ CompleteWrite(r) \/ RefundWrite(r)
      BY <2>1, <2>2, <2>3
         DEF Continue, UpdateWrite, AddCredentialsWrite, EraseCredentials, ProofWrite,
             RetentionWrite, ReconcileWrite, PrepareWrite, Reserve, Claim, Submit,
             SettleAccepted, SettleUnknown, SettleFailed, SyncWrite, CorrectWrite,
             CancelFutWrite, CancelStatus, CallFails
    <2>5. QED
      BY <1>1, <2>4, VersionedWrite, WithStatusFields
  <1>2. IInv /\ [Next]_vars => [Guarded]_vars
    BY <1>1
  <1>3. QED
    BY <1>2, Invariance, PTL DEF Spec, GuardedWritesAreCurrent

-----------------------------------------------------------------------------
(* The refinement of OrderLifecycle.                                       *)

\* Where a request is after each of the building blocks that move it.
LEMMA SlotAfter ==
  ASSUME IInv, NEW r \in Requests
  PROVE  /\ Ends(r) => req'[r].at = "idle"
         /\ \A p, x : Waiting(r, p, x) => req'[r].at = p /\ req'[r].arg = x
         /\ \A p, a, x : Holding(r, p, a, x) =>
              req'[r].at = p /\ req'[r].arg = x /\ req'[r].status = order.status
         /\ \A p : Moves(r, p) => req'[r].at = p
  <1>1. req = [s \in Requests |-> req[s]]
    BY DEF IInv, TypeOK, Slots
  <1>2. Ends(r) => req'[r].at = "idle"
    BY <1>1 DEF Ends, Free
  <1>3. ASSUME NEW p, NEW x, Waiting(r, p, x) PROVE req'[r].at = p /\ req'[r].arg = x
    <2>1. req'[r] = [Free EXCEPT !.at = p, !.arg = x]
      BY <1>1, <1>3 DEF Waiting
    <2>2. QED
      BY <2>1 DEF Free
  <1>4. ASSUME NEW p, NEW a, NEW x, Holding(r, p, a, x)
        PROVE  req'[r].at = p /\ req'[r].arg = x /\ req'[r].status = order.status
    <2>1. req'[r] = [at |-> p, actor |-> a, status |-> order.status,
                     version |-> order.version, arg |-> x]
      BY <1>1, <1>4 DEF Holding
    <2>2. QED
      BY <2>1
  <1>5. ASSUME NEW p, Moves(r, p) PROVE req'[r].at = p
    BY <1>5 DEF Moves, IInv, TypeOK, Slots
  <1>6. QED
    BY <1>2, <1>3, <1>4, <1>5

LEMMA SlotAsks ==
  ASSUME NEW r \in Requests
  PROVE  /\ r \in Asked <=> MayMoveById(req[r])
         /\ r \in Asked' <=> MayMoveById(req'[r])
  BY DEF Asked, MayMoveById

\* A step of one request adds it to those asked or takes it out.
LEMMA AskedStep ==
  ASSUME NEW r \in Requests, SlotStep(r)
  PROVE  /\ r \in Asked' => Asked' = Asked \cup {r}
         /\ r \notin Asked' => Asked' = Asked \ {r}
  <1>1. \A s \in Requests \ {r} : req'[s] = req[s]
    BY DEF SlotStep
  <1>2. \A s \in Requests \ {r} : s \in Asked' <=> s \in Asked
    BY <1>1, SlotAsks
  <1>3. Asked \subseteq Requests /\ Asked' \subseteq Requests
    BY DEF Asked
  <1>4. QED
    BY <1>2, <1>3

LifecycleStep ==
  \/ Lifecycle!LifecycleNext
  \/ UNCHANGED <<order.status, order.version, order.closed, Asked>>

\* A step that moves no order, and asks nobody who had not been asked.
LEMMA QuietStep ==
  ASSUME NEW r \in Requests, SlotStep(r),
         UNCHANGED <<order.status, order.version, order.closed>>,
         r \in Asked' => r \in Asked
  PROVE  LifecycleStep
  <1>1. CASE r \in Asked'
    <2>1. Asked' = Asked
      BY <1>1, AskedStep
    <2>2. QED
      BY <2>1 DEF LifecycleStep
  <1>2. CASE r \notin Asked'
    <2>1. Lifecycle!Drop(r)
      BY <1>2, AskedStep DEF Lifecycle!Drop
    <2>2. QED
      BY <2>1 DEF Lifecycle!LifecycleNext, LifecycleStep
  <1>3. QED
    BY <1>1, <1>2

\* A write by the provider's word (or by what became of the call to it).
LEMMA ProviderWrite ==
  ASSUME IInv, NEW r \in Requests, SlotStep(r), r \in Asked, r \notin Asked',
         NEW s \in (ProviderStatuses \ {"COMPLETED"}) \cup {"FAILED"}, NEW c,
         order' = WithStatus(order, s, c),
         c = (order.closed \/ s \in Terminal)
  PROVE  LifecycleStep
  <1>1. Asked' = Asked \ {r}
    BY AskedStep
  <1>2. Lifecycle!ProviderMove(r)
    BY <1>1, WithStatusFields DEF Lifecycle!ProviderMove, Lifecycle!Terminal, Terminal,
       Lifecycle!ProviderStatuses, ProviderStatuses
  <1>3. QED
    BY <1>2 DEF Lifecycle!LifecycleNext, LifecycleStep

\* A request that starts writes no row, and waits for the provider to move the order
\* only if the order is open.
LEMMA StartAsks ==
  ASSUME IInv, NEW r \in Requests, Start(r)
  PROVE  LifecycleStep
  <1>1. order' = order /\ SlotStep(r)
    BY StartStep DEF Start, rows, UpdateRead, ChangeStatusRead, AddCredentialsRead,
         DeleteCredentialsRead, ExpireRead, ProofRead, CompleteRead, ReconcileRead,
         RefundRead, PrepareRead, ConfirmRead, SyncRead, CorrectRead, CancelRead
  <1>2. CASE r \notin Asked'
    BY <1>1, <1>2, QuietStep
  <1>3. CASE r \in Asked'
    <2>1. order.status \notin Terminal
      <3>1. ASSUME NEW a \in Actors, SyncRead(r, a) PROVE order.status \notin Terminal
        <4>1. req'[r] = [Free EXCEPT !.at = "sync", !.actor = a, !.status = order.status]
          BY <3>1 DEF SyncRead, IInv, TypeOK, Slots
        <4>2. req'[r].at = "sync" /\ req'[r].status = order.status
          BY <4>1 DEF Free
        <4>3. QED
          BY <1>3, <4>2, SlotAsks DEF MayMoveById, Confirming
      <3>2. ASSUME NEW a \in Actors, ConfirmRead(r, a) \/ CorrectRead(r, a)
            PROVE  order.status \notin Terminal
        BY <3>2 DEF ConfirmRead, CorrectRead, Terminal
      <3>3. ASSUME NEW a \in Actors,
                   \/ \E w \in Assignees \cup {Keep} : UpdateRead(r, a, w)
                   \/ \E next \in Statuses : ChangeStatusRead(r, a, next)
                   \/ DeleteCredentialsRead(r, a) \/ ProofRead(r, a) \/ CompleteRead(r, a)
                   \/ ReconcileRead(r, a) \/ CancelRead(r, a) \/ ExpireRead(r)
                   \/ AddCredentialsRead(r, a) \/ RefundRead(r, a) \/ PrepareRead(r, a)
            PROVE  FALSE
        <4>1. req'[r].at \in {"update", "statusWrite", "credsDelete", "proofWrite", "complete",
                              "reconcile", "cancelFut", "expire", "credsWrite", "refund",
                              "prepare"}
          BY <3>3, SlotAfter
             DEF UpdateRead, ChangeStatusRead, DeleteCredentialsRead, ProofRead, CompleteRead,
                 ReconcileRead, CancelRead, ExpireRead, AddCredentialsRead, RefundRead,
                 PrepareRead
        <4>2. QED
          BY <1>3, <4>1, SlotAsks DEF MayMoveById, Confirming
      <3>4. CASE ExpireRead(r)
        <4>1. req'[r].at = "expire"
          BY <3>4, SlotAfter DEF ExpireRead
        <4>2. QED
          BY <1>3, <4>1, SlotAsks DEF MayMoveById, Confirming
      <3>5. QED
        BY <3>1, <3>2, <3>3, <3>4 DEF Start
    <2>2. Lifecycle!Ask(r)
      BY <1>1, <1>3, <2>1, AskedStep DEF Lifecycle!Ask, Lifecycle!Terminal, Terminal
    <2>3. QED
      BY <2>2 DEF Lifecycle!LifecycleNext, LifecycleStep
  <1>4. QED
    BY <1>2, <1>3

LEMMA ContinueMoves ==
  ASSUME IInv, NEW r \in Requests, Continue(r)
  PROVE  LifecycleStep
  <1>t. /\ order \in [status : Statuses, version : Nat, closed : BOOLEAN,
                      assignee : Assignees, reconciled : BOOLEAN]
        /\ order.closed \in BOOLEAN
    BY DEF IInv, TypeOK, RowsOK
  <1>s. SlotStep(r)
    BY ContinueStep
  <1>ends. ASSUME Ends(r) PROVE r \notin Asked'
    <2>1. req'[r].at = "idle"
      BY <1>ends, SlotAfter
    <2>2. QED
      BY <2>1, SlotAsks DEF MayMoveById, Confirming
  <1>1. CASE order' = order /\ Ends(r)
    BY <1>1, <1>s, <1>ends, QuietStep
  <1>2. CASE StatusWrite(r) \/ CompleteWrite(r) \/ RefundWrite(r)
    <2>1. r \notin Asked /\ r \notin Asked'
      <3>1. req[r].at \in {"statusWrite", "complete", "refund"}
        BY <1>2 DEF StatusWrite, CompleteWrite, RefundWrite
      <3>2. req'[r].at \in {"idle", "retention"}
        BY <1>2, SlotAfter DEF StatusWrite, CompleteWrite, RefundWrite
      <3>3. QED
        BY <3>1, <3>2, SlotAsks DEF MayMoveById, Confirming
    <2>2. Asked' = Asked
      BY <1>s, <2>1, AskedStep
    <2>3. CASE order' # order
      <3>1. PICK s \in Statuses : /\ CanTransition(order.status, s)
                                  /\ order' = WithStatus(order, s, s \in Terminal)
        BY <1>2, <2>3, VersionedWrite
      <3>2. Lifecycle!UserMove
        BY <2>2, <3>1, WithStatusFields
           DEF Lifecycle!UserMove, Lifecycle!CanTransition, CanTransition,
               Lifecycle!Transitions, Transitions, Lifecycle!Statuses, Statuses,
               Lifecycle!Terminal, Terminal
      <3>3. QED
        BY <3>2 DEF Lifecycle!LifecycleNext, LifecycleStep
    <2>4. CASE order' = order
      BY <2>2, <2>4 DEF LifecycleStep
    <2>5. QED
      BY <2>3, <2>4
  <1>3. CASE UpdateWrite(r) \/ Reserve(r)
    <2>1. CASE order' = order /\ Ends(r)
      BY <1>1, <2>1
    <2>2. CASE ~(order' = order /\ Ends(r))
      <3>1. \/ /\ UpdateWrite(r) /\ Ends(r)
               /\ order' = [order EXCEPT !.assignee = Assigned(r), !.version = order.version + 1]
            \/ /\ Reserve(r) /\ Moves(r, "claim")
               /\ order' = [order EXCEPT !.version = order.version + 1]
        BY <1>3, <2>2 DEF UpdateWrite, Reserve
      <3>2. r \in Asked' <=> r \in Asked
        <4>1. \/ req[r].at = "update" /\ req'[r].at = "idle"
              \/ req[r].at = "reserve" /\ req'[r].at = "claim"
          BY <3>1, SlotAfter DEF UpdateWrite, Reserve
        <4>2. QED
          BY <4>1, SlotAsks DEF MayMoveById, Confirming
      <3>3. Asked' = Asked
        BY <1>s, <3>2, AskedStep
      <3>4. Lifecycle!Edit
        BY <1>t, <3>1, <3>3 DEF Lifecycle!Edit
      <3>5. QED
        BY <3>4 DEF Lifecycle!LifecycleNext, LifecycleStep
    <2>3. QED
      BY <2>1, <2>2
  <1>4. CASE ReconcileWrite(r)
    <2>1. UNCHANGED <<order.status, order.version, order.closed>> /\ r \notin Asked'
      BY <1>t, <1>4, <1>ends DEF ReconcileWrite
    <2>2. QED
      BY <1>s, <2>1, QuietStep
  <1>5. CASE SettleAccepted(r)
    <2>a. r \in Asked
      BY <1>5, SlotAsks DEF SettleAccepted, MayMoveById, Confirming
    <2>1. CASE Moves(r, "failed") /\ order' = order
      BY <1>s, <2>1, <2>a, QuietStep
    <2>2. CASE order' = WithStatus(order, "SUBMITTED_TO_FUT", order.closed) /\ Ends(r)
      <3>1. "SUBMITTED_TO_FUT" \in ProviderStatuses \ {"COMPLETED"}
            /\ "SUBMITTED_TO_FUT" \notin Terminal
        BY DEF ProviderStatuses, Terminal
      <3>2. order.closed = (order.closed \/ "SUBMITTED_TO_FUT" \in Terminal)
        BY <1>t, <3>1
      <3>3. QED
        BY <1>s, <1>ends, <2>a, <2>2, <3>1, <3>2, ProviderWrite
    <2>3. QED
      BY <1>5, <2>1, <2>2 DEF SettleAccepted
  <1>6. CASE SettleFailed(r)
    <2>1. order' = WithStatus(order, "FAILED", TRUE) /\ Ends(r)
      BY <1>6 DEF SettleFailed
    <2>2. TRUE = (order.closed \/ "FAILED" \in Terminal)
      BY DEF Terminal
    <2>3. r \in Asked
      BY <1>6, SlotAsks DEF SettleFailed, MayMoveById, Confirming
    <2>4. QED
      BY <1>s, <1>ends, <2>1, <2>2, <2>3, ProviderWrite
  <1>7. CASE CorrectWrite(r)
    <2>1. order' = WithStatus(order, "PROCESSING", order.closed) /\ Ends(r)
      BY <1>7 DEF CorrectWrite
    <2>2. "PROCESSING" \in ProviderStatuses \ {"COMPLETED"} /\ "PROCESSING" \notin Terminal
      BY DEF ProviderStatuses, Terminal
    <2>3. order.closed = (order.closed \/ "PROCESSING" \in Terminal)
      BY <1>t, <2>2
    <2>4. r \in Asked
      BY <1>7, SlotAsks DEF CorrectWrite, MayMoveById
    <2>5. QED
      BY <1>s, <1>ends, <2>1, <2>2, <2>3, <2>4, ProviderWrite
  <1>8. ASSUME NEW mapped \in ProviderStatuses, NEW ref \in BOOLEAN, NEW cost \in BOOLEAN,
               SyncWrite(r, mapped, ref, cost)
        PROVE  LifecycleStep
    <2> DEFINE next == SyncedStatus(mapped)
               moves == SyncMoves(req[r].status, next)
               closes == moves /\ next \in Terminal
    <2>1. /\ Ends(r) /\ req[r].at = "sync"
          /\ order' = IF moves THEN WithStatus(order, next, SyncedClosed(closes)) ELSE order
      BY <1>8 DEF SyncWrite
    <2>2. CASE moves
      <3>1. r \in Asked
        BY <2>1, <2>2, SlotAsks DEF SyncMoves, MayMoveById
      <3>2. next \in ProviderStatuses \ {"COMPLETED"}
        BY DEF SyncedStatus, ProviderStatuses
      <3>3. SyncedClosed(closes) = (order.closed \/ next \in Terminal)
        BY <2>2 DEF SyncedClosed
      <3>4. order' = WithStatus(order, next, SyncedClosed(closes))
        BY <2>1, <2>2
      <3>5. r \notin Asked'
        BY <2>1, <1>ends
      <3> HIDE DEF next, moves, closes
      <3>6. QED
        BY <1>s, <3>1, <3>2, <3>3, <3>4, <3>5, ProviderWrite
    <2>3. CASE ~moves
      BY <1>1, <2>1, <2>3
    <2>4. QED
      BY <2>2, <2>3
  <1>9. CASE CancelFutWrite(r) \/ CancelStatus(r)
    <2>1. order' = order /\ req'[r].at \in {"cancelStatus", "statusWrite", "idle"}
      BY <1>9, SlotAfter DEF CancelFutWrite, CancelStatus, rows
    <2>2. r \notin Asked'
      BY <2>1, SlotAsks DEF MayMoveById, Confirming
    <2>3. QED
      BY <1>s, <2>1, <2>2, QuietStep
  <1>10. CASE Claim(r) \/ Submit(r)
    <2>1. order' = order /\ req[r].at \in {"claim", "submit"}
      BY <1>10 DEF Claim, Submit, rows
    <2>2. r \in Asked
      BY <2>1, SlotAsks DEF MayMoveById, Confirming
    <2>3. QED
      BY <1>s, <2>1, <2>2, QuietStep
  <1>11. QED
    BY <1>1, <1>2, <1>3, <1>4, <1>5, <1>6, <1>7, <1>8, <1>9, <1>10
       DEF Continue, rows, AddCredentialsWrite, EraseCredentials, ProofWrite, RetentionWrite,
           PrepareWrite, SettleUnknown, CallFails

\* The status, version and closedAt of an order move as the status table, versioned edits
\* and the calls to the provider begun while the order was open allow, and in no other way,
\* however requests overlap: in particular nobody but a person completes, disputes or
\* refunds an order, and no call begun after it was closed moves it.
THEOREM RefinesLifecycle == Spec => ImplementsLifecycle
  <1>1. Init => Lifecycle!LifecycleInit
    <2> SUFFICES ASSUME Init PROVE Lifecycle!LifecycleInit
      OBVIOUS
    <2>1. order.version \in Nat
      BY InitIInv DEF IInv, TypeOK, RowsOK
    <2>2. order.status \in {"DRAFT", "APPROVED"} /\ order.closed = FALSE
      BY DEF Init
    <2>3. Asked = {}
      BY DEF Init, Free, Asked, MayMoveById, Confirming
    <2>4. QED
      BY <2>1, <2>2, <2>3 DEF Lifecycle!LifecycleInit
  <1>2. IInv /\ [Next]_vars => [Lifecycle!LifecycleNext]_(Lifecycle!lifecycle)
    <2> SUFFICES ASSUME IInv, [Next]_vars PROVE LifecycleStep
      BY DEF Lifecycle!lifecycle, LifecycleStep
    <2>1. CASE UNCHANGED vars
      BY <2>1 DEF vars, LifecycleStep, Asked
    <2>2. CASE Next
      <3>1. PICK r \in Requests : Start(r) \/ Continue(r) \/ Crash(r)
        BY <2>2 DEF Next
      <3>2. CASE Crash(r)
        <4>1. order' = order /\ SlotStep(r) /\ req'[r].at = "idle"
          BY <3>2, EndsStep, SlotAfter DEF Crash, rows
        <4>2. r \notin Asked'
          BY <4>1, SlotAsks DEF MayMoveById, Confirming
        <4>3. QED
          BY <4>1, <4>2, QuietStep
      <3>3. QED
        BY <3>1, <3>2, StartAsks, ContinueMoves
    <2>3. QED
      BY <2>1, <2>2
  <1>3. QED
    BY <1>1, <1>2, Invariance, PTL DEF Spec, ImplementsLifecycle, Lifecycle!LifecycleSpec

-----------------------------------------------------------------------------
(* One request at a time.                                                  *)

\* No two requests overlap.
Serial == \A r, s \in Requests : r = s

\* What a request may rely on when nobody else writes while it waits: all that it
\* read is still true of the rows.
SerialOK(r) ==
  /\ req[r].at = "credsWrite" => (req[r].arg = "week" <=> order.status \in Terminal)
  /\ req[r].at \in {"prepare", "submit"} => ~fut.ref
  /\ req[r].at \in {"reserve", "claim"} => fut.state = "PREPARED"
  /\ req[r].at \in {"reserve"} \cup Confirming => order.status = "APPROVED"
  /\ req[r].at = "sync" => req[r].status = order.status
  /\ req[r].at = "correct" => order.status = "CUSTOMER_ACTION_REQUIRED"
  /\ req[r].at = "refund" => req[r].status # "REFUNDED"

SerialRows ==
  /\ ClosedIffTerminal
  /\ RefundedOnce
  /\ fut.state = "PREPARED" => ~fut.ref

SerialInv == IInv /\ SerialRows /\ \A r \in Requests : SerialOK(r)

LEMMA SerialStart ==
  ASSUME SerialInv, NEW r \in Requests, Start(r)
  PROVE  SerialRows' /\ SerialOK(r)'
  <1>1. UNCHANGED <<rows, placed>>
    BY DEF Start, UpdateRead, ChangeStatusRead, AddCredentialsRead,
           DeleteCredentialsRead, ExpireRead, ProofRead, CompleteRead, ReconcileRead,
           RefundRead, PrepareRead, ConfirmRead, SyncRead, CorrectRead, CancelRead
  <1>2. SerialRows'
    BY <1>1 DEF SerialInv, SerialRows, rows, ClosedIffTerminal, RefundedOnce
  <1>3. order' = order /\ fut' = fut /\ IInv /\ SerialRows
    BY <1>1 DEF rows, SerialInv
  <1>4. ASSUME NEW a \in Actors, AddCredentialsRead(r, a) PROVE SerialOK(r)'
    <2>1. /\ req'[r].at = "credsWrite"
          /\ req'[r].arg = IF order.closed THEN "week" ELSE "far"
      BY <1>3, <1>4, SlotAfter DEF AddCredentialsRead
    <2>2. QED
      BY <1>3, <2>1 DEF SerialOK, SerialRows, ClosedIffTerminal, Confirming
  <1>5. ASSUME NEW a \in Actors, PrepareRead(r, a) PROVE SerialOK(r)'
    <2>1. req'[r].at = "prepare" /\ ~fut.ref
      BY <1>3, <1>5, SlotAfter DEF PrepareRead
    <2>2. QED
      BY <1>3, <2>1 DEF SerialOK, Confirming
  <1>6. ASSUME NEW a \in Actors, ConfirmRead(r, a) PROVE SerialOK(r)'
    <2>1. req'[r].at = "reserve" /\ fut.state = "PREPARED" /\ order.status = "APPROVED"
      BY <1>3, <1>6, SlotAfter DEF ConfirmRead
    <2>2. QED
      BY <1>3, <2>1 DEF SerialOK, Confirming
  <1>7. ASSUME NEW a \in Actors, SyncRead(r, a) PROVE SerialOK(r)'
    <2>1. req'[r] = [Free EXCEPT !.at = "sync", !.actor = a, !.status = order.status]
      BY <1>3, <1>7 DEF SyncRead, IInv, TypeOK, Slots
    <2>2. req'[r].at = "sync" /\ req'[r].status = order.status
      BY <2>1 DEF Free
    <2>3. QED
      BY <1>3, <2>2 DEF SerialOK, Confirming
  <1>8. ASSUME NEW a \in Actors, CorrectRead(r, a) PROVE SerialOK(r)'
    <2>1. req'[r].at = "correct" /\ order.status = "CUSTOMER_ACTION_REQUIRED"
      BY <1>3, <1>8, SlotAfter DEF CorrectRead
    <2>2. QED
      BY <1>3, <2>1 DEF SerialOK, Confirming
  <1>9. ASSUME NEW a \in Actors, RefundRead(r, a) PROVE SerialOK(r)'
    <2>1. /\ req'[r].at = "refund" /\ req'[r].status = order.status
          /\ order.status # "REFUNDED"
      BY <1>3, <1>9, SlotAfter DEF RefundRead
    <2>2. QED
      BY <1>3, <2>1 DEF SerialOK, Confirming
  <1>10. ASSUME NEW a \in Actors,
                \/ \E w \in Assignees \cup {Keep} : UpdateRead(r, a, w)
                \/ \E next \in Statuses : ChangeStatusRead(r, a, next)
                \/ DeleteCredentialsRead(r, a) \/ ProofRead(r, a) \/ CompleteRead(r, a)
                \/ ReconcileRead(r, a) \/ CancelRead(r, a) \/ ExpireRead(r)
         PROVE  SerialOK(r)'
    <2>1. req'[r].at \in {"update", "statusWrite", "credsDelete", "proofWrite", "complete",
                          "reconcile", "cancelFut", "expire"}
      BY <1>3, <1>10, SlotAfter
         DEF UpdateRead, ChangeStatusRead, DeleteCredentialsRead, ProofRead, CompleteRead,
             ReconcileRead, CancelRead, ExpireRead
    <2>2. QED
      BY <2>1 DEF SerialOK, Confirming
  <1>11. CASE ExpireRead(r)
    <2>1. req'[r].at = "expire"
      BY <1>3, <1>11, SlotAfter DEF ExpireRead
    <2>2. QED
      BY <1>2, <2>1 DEF SerialOK, Confirming
  <1>12. QED
    BY <1>2, <1>4, <1>5, <1>6, <1>7, <1>8, <1>9, <1>10, <1>11 DEF Start

\* What the status table makes of an order that was refunded.
LEMMA RefundedIsFinal ==
  ASSUME NEW s, CanTransition("REFUNDED", s)
  PROVE  s = "REFUNDED"
  BY DEF CanTransition, Transitions

LEMMA SerialContinue ==
  ASSUME SerialInv, NEW r \in Requests, Continue(r)
  PROVE  SerialRows' /\ SerialOK(r)'
  <1>t. /\ IInv /\ SerialRows /\ SerialOK(r) /\ RequestOK(r)
        /\ order \in [status : Statuses, version : Nat, closed : BOOLEAN,
                      assignee : Assignees, reconciled : BOOLEAN]
        /\ fut \in [state : SubmissionStates, ref : BOOLEAN, cost : BOOLEAN]
        /\ refunds \in Nat
    BY DEF SerialInv, IInv, TypeOK, RowsOK
  <1>idle. ASSUME Ends(r) PROVE SerialOK(r)'
    <2>1. req'[r].at = "idle"
      BY <1>t, <1>idle, SlotAfter
    <2>2. QED
      BY <2>1 DEF SerialOK, Confirming
  <1>same. ASSUME order'.status = order.status, order'.closed = order.closed,
                  UNCHANGED <<fut, refunds>>
           PROVE  SerialRows'
    BY <1>t, <1>same DEF SerialRows, ClosedIffTerminal, RefundedOnce
  <1>move. ASSUME NEW s, NEW c \in BOOLEAN, order' = WithStatus(order, s, c),
                  c <=> s \in Terminal, order.status = "REFUNDED" => s = "REFUNDED",
                  refunds' = refunds, fut'.state = "PREPARED" => ~fut'.ref
           PROVE  SerialRows'
    <2>1. order'.status = s /\ order'.closed = c
      BY <1>t, <1>move, WithStatusFields
    <2>2. QED
      BY <1>t, <1>move, <2>1 DEF SerialRows, ClosedIffTerminal, RefundedOnce
  <1>1. CASE UpdateWrite(r)
    <2>1. order'.status = order.status /\ order'.closed = order.closed
      BY <1>t, <1>1 DEF UpdateWrite
    <2>2. QED
      BY <1>1, <2>1, <1>idle, <1>same DEF UpdateWrite
  <1>2. CASE AddCredentialsWrite(r) \/ EraseCredentials(r) \/ ProofWrite(r) \/ RetentionWrite(r)
              \/ SettleUnknown(r) \/ PrepareWrite(r) \/ CallFails(r)
    <2>1. order' = order /\ refunds' = refunds /\ Ends(r)
      BY <1>2 DEF AddCredentialsWrite, EraseCredentials, ProofWrite, RetentionWrite,
                  SettleUnknown, PrepareWrite, CallFails, rows
    <2>2. fut'.state = "PREPARED" => ~fut'.ref
      BY <1>2, <1>t DEF AddCredentialsWrite, EraseCredentials, ProofWrite, RetentionWrite,
                  SettleUnknown, PrepareWrite, CallFails, rows, SerialRows, SerialOK
    <2>3. QED
      BY <1>t, <2>1, <2>2, <1>idle DEF SerialRows, ClosedIffTerminal, RefundedOnce
  <1>3. CASE StatusWrite(r)
    <2>1. CASE Current(r)
      <3>1. /\ order' = WithStatus(order, req[r].arg, req[r].arg \in Terminal)
            /\ UNCHANGED <<fut, refunds>> /\ CanTransition(order.status, req[r].arg)
            /\ req'[r].at = "retention"
        BY <1>t, <1>3, <2>1, SlotAfter DEF StatusWrite, RequestOK, Versioned, Current
      <3>2. order.status = "REFUNDED" => req[r].arg = "REFUNDED"
        BY <3>1, RefundedIsFinal
      <3>3. fut'.state = "PREPARED" => ~fut'.ref
        BY <1>t, <3>1 DEF SerialRows
      <3>4. (req[r].arg \in Terminal) \in BOOLEAN
        OBVIOUS
      <3>5. SerialRows'
        BY <3>1, <3>2, <3>3, <3>4, <1>move
      <3>6. QED
        BY <3>1, <3>5 DEF SerialOK, Confirming
    <2>2. CASE ~Current(r)
      BY <1>3, <2>2, <1>idle, <1>same DEF StatusWrite
    <2>3. QED
      BY <2>1, <2>2
  <1>4. CASE CompleteWrite(r)
    <2>1. CASE Current(r)
      <3>1. /\ order' = WithStatus(order, "COMPLETED", TRUE)
            /\ refunds' = refunds /\ CanTransition(order.status, "COMPLETED") /\ Ends(r)
            /\ fut' = [fut EXCEPT !.state = "COMPLETED", !.cost = TRUE]
        BY <1>t, <1>4, <2>1 DEF CompleteWrite, RequestOK, Versioned, Current
      <3>2. order.status # "REFUNDED"
        BY <3>1, RefundedIsFinal
      <3>3. fut'.state # "PREPARED" /\ "COMPLETED" \in Terminal
        BY <1>t, <3>1 DEF Terminal
      <3>4. QED
        BY <3>1, <3>2, <3>3, <1>move, <1>idle
    <2>2. CASE ~Current(r)
      BY <1>4, <2>2, <1>idle, <1>same DEF CompleteWrite
    <2>3. QED
      BY <2>1, <2>2
  <1>5. CASE ReconcileWrite(r)
    <2>1. order'.status = order.status /\ order'.closed = order.closed
      BY <1>t, <1>5 DEF ReconcileWrite
    <2>2. QED
      BY <1>5, <2>1, <1>idle, <1>same DEF ReconcileWrite
  <1>6. CASE RefundWrite(r)
    <2>1. CASE Current(r) /\ order.status = req[r].status
      <3>1. /\ order' = WithStatus(order, "REFUNDED", TRUE) /\ fut' = fut
            /\ refunds' = refunds + 1 /\ order.status # "REFUNDED" /\ Ends(r)
        BY <1>t, <1>6, <2>1 DEF RefundWrite, SerialOK
      <3>2. refunds' = 1
        BY <1>t, <3>1 DEF SerialRows, RefundedOnce
      <3>3. order'.status = "REFUNDED" /\ order'.closed = TRUE /\ "REFUNDED" \in Terminal
        BY <1>t, <3>1, WithStatusFields DEF Terminal
      <3>4. fut'.state = "PREPARED" => ~fut'.ref
        BY <1>t, <3>1 DEF SerialRows
      <3>5. ClosedIffTerminal'
        BY <3>3 DEF ClosedIffTerminal
      <3>6. RefundedOnce'
        BY <3>2, <3>3 DEF RefundedOnce
      <3>7. QED
        BY <3>1, <3>4, <3>5, <3>6, <1>idle DEF SerialRows
    <2>2. CASE ~(Current(r) /\ order.status = req[r].status)
      BY <1>6, <2>2, <1>idle, <1>same DEF RefundWrite
    <2>3. QED
      BY <2>1, <2>2
  <1>7. CASE Reserve(r)
    <2>1. order'.status = order.status /\ order'.closed = order.closed
      BY <1>t, <1>7 DEF Reserve
    <2>2. SerialRows'
      BY <1>7, <2>1, <1>same DEF Reserve
    <2>3. Ends(r) \/ Moves(r, "claim")
      BY <1>7 DEF Reserve
    <2>4. ASSUME Moves(r, "claim") PROVE SerialOK(r)'
      <3>1. req'[r].at = "claim" /\ fut' = fut
        BY <1>t, <1>7, <2>4, SlotAfter DEF Reserve
      <3>2. fut.state = "PREPARED" /\ order.status = "APPROVED"
        BY <1>t, <1>7 DEF Reserve, SerialOK
      <3>3. QED
        BY <2>1, <3>1, <3>2 DEF SerialOK
    <2>5. QED
      BY <2>2, <2>3, <2>4, <1>idle
  <1>8. CASE Claim(r)
    <2>1. req'[r].at = "submit" /\ order' = order /\ refunds' = refunds
      BY <1>t, <1>8, SlotAfter DEF Claim
    <2>2. fut'.state = "CONFIRMING" /\ fut'.ref = fut.ref
      BY <1>t, <1>8 DEF Claim
    <2>3. ~fut.ref /\ order.status = "APPROVED"
      BY <1>t, <1>8 DEF Claim, SerialOK, SerialRows, Confirming
    <2>4. QED
      BY <1>t, <2>1, <2>2, <2>3 DEF SerialOK, SerialRows, ClosedIffTerminal, RefundedOnce
  <1>9. CASE Submit(r)
    <2>1. UNCHANGED rows /\ order.status = "APPROVED"
      BY <1>t, <1>9 DEF Submit, SerialOK, Confirming
    <2>2. req'[r].at \in {"accepted", "unknown", "failed"}
      BY <1>t, <1>9, SlotAfter DEF Submit
    <2>3. QED
      BY <2>1, <2>2, <1>same DEF SerialOK, rows
  <1>10. CASE SettleAccepted(r)
    <2>0. order.status = "APPROVED" /\ ~order.closed /\ refunds' = refunds
      BY <1>t, <1>10 DEF SettleAccepted, SerialOK, Confirming, SerialRows, ClosedIffTerminal,
                         Terminal
    <2>1. CASE /\ fut' = [state |-> "SUBMITTED", ref |-> TRUE, cost |-> TRUE]
               /\ order' = WithStatus(order, "SUBMITTED_TO_FUT", order.closed)
               /\ Ends(r)
      <3>1. fut'.state # "PREPARED" /\ "SUBMITTED_TO_FUT" \notin Terminal /\ order.closed \in BOOLEAN
        BY <1>t, <2>1 DEF Terminal
      <3>2. QED
        BY <2>0, <2>1, <3>1, <1>move, <1>idle
    <2>2. CASE Moves(r, "failed") /\ UNCHANGED <<order, fut>>
      <3>1. req'[r].at = "failed"
        BY <1>t, <2>2, SlotAfter
      <3>2. QED
        BY <2>0, <2>2, <3>1, <1>same DEF SerialOK
    <2>3. QED
      BY <1>10, <2>1, <2>2 DEF SettleAccepted
  <1>11. CASE SettleFailed(r)
    <2>1. order.status = "APPROVED" /\ fut'.state = "FAILED" /\ "FAILED" \in Terminal
      BY <1>t, <1>11 DEF SettleFailed, SerialOK, Confirming, Terminal
    <2>2. order' = WithStatus(order, "FAILED", TRUE) /\ refunds' = refunds /\ Ends(r)
      BY <1>11 DEF SettleFailed
    <2>3. QED
      BY <2>1, <2>2, <1>move, <1>idle
  <1>12. ASSUME NEW mapped \in ProviderStatuses, NEW ref \in BOOLEAN, NEW cost \in BOOLEAN,
                SyncWrite(r, mapped, ref, cost)
         PROVE  SerialRows' /\ SerialOK(r)'
    <2> DEFINE next == SyncedStatus(mapped)
               moves == SyncMoves(req[r].status, next)
               closes == moves /\ next \in Terminal
    <2>1. fut'.state \in {"COMPLETED", "CANCELLED", "SUBMITTED"}
      BY <1>12 DEF SyncWrite, SyncedState
    <2>2. /\ order' = IF moves THEN WithStatus(order, next, SyncedClosed(closes)) ELSE order
          /\ refunds' = refunds /\ Ends(r)
      BY <1>12 DEF SyncWrite
    <2>3. req[r].status = order.status
      BY <1>t, <1>12 DEF SyncWrite, SerialOK
    <2>4. SerialRows'
      <3>1. CASE moves
        <4>1. order' = WithStatus(order, next, SyncedClosed(closes))
          BY <2>2, <3>1
        <4>2. ~order.closed /\ order.status # "REFUNDED"
          BY <1>t, <2>3, <3>1 DEF SyncMoves, SerialRows, ClosedIffTerminal, Terminal
        <4>3. SyncedClosed(closes) <=> next \in Terminal
          BY <3>1, <4>2 DEF SyncedClosed
        <4>4. SyncedClosed(closes) \in BOOLEAN
          BY DEF SyncedClosed
        <4> HIDE DEF next, moves, closes
        <4>5. QED
          BY <2>1, <2>2, <4>1, <4>2, <4>3, <4>4, <1>move
      <3>2. CASE ~moves
        <4>1. order' = order
          BY <2>2, <3>2
        <4>2. QED
          BY <1>t, <2>1, <2>2, <4>1 DEF SerialRows, ClosedIffTerminal, RefundedOnce
      <3>3. QED
        BY <3>1, <3>2
    <2>5. QED
      BY <2>2, <2>4, <1>idle
  <1>13. CASE CorrectWrite(r)
    <2>1. /\ order.status = "CUSTOMER_ACTION_REQUIRED" /\ ~order.closed
          /\ fut'.state = "SUBMITTED" /\ "PROCESSING" \notin Terminal /\ order.closed \in BOOLEAN
      BY <1>t, <1>13 DEF CorrectWrite, SerialOK, SerialRows, ClosedIffTerminal, Terminal
    <2>2. order' = WithStatus(order, "PROCESSING", order.closed) /\ refunds' = refunds /\ Ends(r)
      BY <1>13 DEF CorrectWrite
    <2>3. QED
      BY <2>1, <2>2, <1>move, <1>idle
  <1>14. CASE CancelFutWrite(r)
    <2>1. order' = order /\ refunds' = refunds /\ req'[r].at = "cancelStatus"
      BY <1>t, <1>14, SlotAfter DEF CancelFutWrite
    <2>2. fut'.state = "CANCELLED"
      BY <1>t, <1>14 DEF CancelFutWrite
    <2>3. QED
      BY <1>t, <2>1, <2>2 DEF SerialOK, SerialRows, ClosedIffTerminal, RefundedOnce, Confirming
  <1>15. CASE CancelStatus(r)
    <2>1. UNCHANGED rows /\ req'[r].at \in {"idle", "statusWrite"}
      BY <1>t, <1>15, SlotAfter DEF CancelStatus
    <2>2. QED
      BY <2>1, <1>same DEF rows, SerialOK, Confirming
  <1>16. QED
    BY <1>1, <1>2, <1>3, <1>4, <1>5, <1>6, <1>7, <1>8, <1>9, <1>10, <1>11, <1>12, <1>13,
       <1>14, <1>15 DEF Continue

LEMMA SerialNext ==
  ASSUME Serial, SerialInv, [Next]_vars
  PROVE  SerialInv'
  <1>1. IInv'
    BY NextStep, Preserved, StutterStep DEF Next, SerialInv
  <1>2. ASSUME NEW r \in Requests, Start(r) \/ Continue(r) \/ Crash(r)
        PROVE  SerialRows' /\ SerialOK(r)'
    <2>1. CASE Crash(r)
      <3>1. req'[r].at = "idle"
        BY <2>1, SlotAfter DEF SerialInv, Crash
      <3>2. QED
        BY <2>1, <3>1 DEF SerialInv, SerialRows, SerialOK, Confirming, Crash, rows,
                          ClosedIffTerminal, RefundedOnce
    <2>2. QED
      BY <1>2, <2>1, SerialStart, SerialContinue
  <1>3. CASE Next
    BY <1>1, <1>2, <1>3 DEF Next, SerialInv, Serial
  <1>4. CASE UNCHANGED vars
    BY <1>1, <1>4 DEF SerialInv, SerialRows, SerialOK, vars, ClosedIffTerminal, RefundedOnce
  <1>5. QED
    BY <1>3, <1>4

LEMMA InitSerial == Init => SerialInv
  <1> SUFFICES ASSUME Init PROVE SerialInv
    OBVIOUS
  <1>1. ~order.closed /\ order.status \notin Terminal
    BY DEF Init, Terminal
  <1>2. fut.ref = FALSE /\ refunds = 0
    BY DEF Init
  <1>3. \A r \in Requests : req[r].at = "idle"
    BY DEF Init, Free
  <1>4. QED
    BY <1>1, <1>2, <1>3, InitIInv
       DEF SerialInv, SerialRows, SerialOK, ClosedIffTerminal, RefundedOnce, Confirming

\* Requests that do not overlap find what they read unchanged when they write, also
\* when some of them are cut short by a crash or a fault.
THEOREM SerialInvariance == ASSUME Serial PROVE Spec => []SerialInv
  BY InitSerial, SerialNext, PTL DEF Spec

\* closedAt is set exactly in a closing status, by whichever handler wrote it last.
THEOREM ClosedWithTheOrder == ASSUME Serial PROVE Spec => []ClosedIffTerminal
  <1>1. SerialInv => ClosedIffTerminal
    BY DEF SerialInv, SerialRows
  <1>2. QED
    BY <1>1, SerialInvariance, PTL

\* Until an order's number is known, what the provider has accepted of it is exactly what
\* faults have kept from us, but while the reply of one more submission is being stored.
PurchaseOK(r) ==
  ~fut.ref /\ req[r].at # "accepted" => placed.accepted <= placed.unrecorded

PurchaseInv ==
  SerialInv /\ BoughtAgainOnlyIfLost /\ \A r \in Requests : PurchaseOK(r)

LEMMA PurchaseStep ==
  ASSUME PurchaseInv, NEW r \in Requests, Start(r) \/ Continue(r) \/ Crash(r)
  PROVE  BoughtAgainOnlyIfLost' /\ PurchaseOK(r)'
  <1>t. /\ IInv /\ SerialOK(r) /\ PurchaseOK(r) /\ BoughtAgainOnlyIfLost
        /\ fut \in [state : SubmissionStates, ref : BOOLEAN, cost : BOOLEAN]
        /\ placed \in PlacedType
        /\ placed.accepted \in Nat /\ placed.unrecorded \in Nat
    BY DEF PurchaseInv, SerialInv, IInv, TypeOK, RowsOK, PlacedType
  <1>keep. ASSUME req[r].at # "accepted", placed' = placed, fut.ref => fut'.ref
           PROVE  BoughtAgainOnlyIfLost' /\ PurchaseOK(r)'
    BY <1>t, <1>keep DEF BoughtAgainOnlyIfLost, PurchaseOK
  <1>lost. ASSUME Unrecorded
           PROVE  /\ placed'.accepted = placed.accepted
                  /\ placed'.unrecorded = placed.unrecorded + 1
    BY <1>t, <1>lost DEF Unrecorded, PlacedType
  <1>1. CASE Start(r)
    <2>1. UNCHANGED <<rows, placed>> /\ req[r].at = "idle"
      BY <1>1 DEF Start, Starts, UpdateRead, ChangeStatusRead, AddCredentialsRead,
             DeleteCredentialsRead, ExpireRead, ProofRead, CompleteRead, ReconcileRead,
             RefundRead, PrepareRead, ConfirmRead, SyncRead, CorrectRead, CancelRead
    <2>2. QED
      BY <2>1, <1>keep DEF rows
  <1>2. CASE UpdateWrite(r) \/ AddCredentialsWrite(r) \/ EraseCredentials(r) \/ ProofWrite(r)
              \/ StatusWrite(r) \/ RetentionWrite(r) \/ ReconcileWrite(r) \/ RefundWrite(r)
              \/ Reserve(r) \/ CancelStatus(r) \/ CallFails(r)
    <2>1. fut' = fut /\ placed' = placed /\ req[r].at # "accepted"
      BY <1>2 DEF UpdateWrite, AddCredentialsWrite, EraseCredentials, ProofWrite, StatusWrite,
             RetentionWrite, ReconcileWrite, RefundWrite, Reserve, CancelStatus, CallFails, rows
    <2>2. QED
      BY <2>1, <1>keep
  <1>3. CASE CompleteWrite(r) \/ PrepareWrite(r) \/ Claim(r) \/ SettleUnknown(r)
              \/ SettleFailed(r) \/ CorrectWrite(r) \/ CancelFutWrite(r)
    <2>1. fut'.ref = fut.ref /\ placed' = placed /\ req[r].at # "accepted"
      BY <1>t, <1>3 DEF CompleteWrite, PrepareWrite, Claim, SettleUnknown, SettleFailed,
             CorrectWrite, CancelFutWrite
    <2>2. QED
      BY <2>1, <1>keep
  <1>4. ASSUME NEW mapped \in ProviderStatuses, NEW ref \in BOOLEAN, NEW cost \in BOOLEAN,
               SyncWrite(r, mapped, ref, cost)
        PROVE  BoughtAgainOnlyIfLost' /\ PurchaseOK(r)'
    <2>1. fut'.ref = (fut.ref \/ ref) /\ placed' = placed /\ req[r].at = "sync"
      BY <1>4 DEF SyncWrite
    <2>2. QED
      BY <2>1, <1>keep
  <1>5. CASE Submit(r)
    <2>1. placed.accepted <= placed.unrecorded /\ req[r].at # "accepted"
      BY <1>t, <1>5 DEF Submit, SerialOK, PurchaseOK
    <2>2. CASE Moves(r, "accepted") /\ placed' = [placed EXCEPT !.accepted = @ + 1]
      <3>1. /\ placed'.accepted = placed.accepted + 1 /\ placed'.unrecorded = placed.unrecorded
            /\ req'[r].at = "accepted"
        BY <1>t, <2>2, SlotAfter DEF PlacedType
      <3>2. QED
        BY <1>t, <2>1, <3>1 DEF BoughtAgainOnlyIfLost, PurchaseOK
    <2>3. CASE placed' = [placed EXCEPT !.accepted = @ + 1, !.unrecorded = @ + 1]
      <3>1. /\ placed'.accepted = placed.accepted + 1
            /\ placed'.unrecorded = placed.unrecorded + 1
        BY <1>t, <2>3 DEF PlacedType
      <3>2. QED
        BY <1>t, <2>1, <3>1 DEF BoughtAgainOnlyIfLost, PurchaseOK
    <2>4. CASE UNCHANGED placed
      BY <1>5, <2>1, <2>4, <1>keep DEF Submit, rows
    <2>5. QED
      BY <1>5, <2>2, <2>3, <2>4 DEF Submit
  <1>6. CASE SettleAccepted(r)
    <2>1. CASE fut'.ref /\ UNCHANGED placed
      BY <1>t, <2>1 DEF BoughtAgainOnlyIfLost, PurchaseOK
    <2>2. CASE Unrecorded
      BY <1>t, <2>2, <1>lost DEF BoughtAgainOnlyIfLost, PurchaseOK
    <2>3. QED
      BY <1>6, <2>1, <2>2 DEF SettleAccepted
  <1>7. CASE Crash(r)
    <2>1. CASE req[r].at = "accepted"
      <3>1. Unrecorded
        BY <1>7, <2>1 DEF Crash
      <3>2. QED
        BY <1>t, <3>1, <1>lost DEF BoughtAgainOnlyIfLost, PurchaseOK
    <2>2. CASE req[r].at # "accepted"
      BY <1>7, <2>2, <1>keep DEF Crash, rows
    <2>3. QED
      BY <2>1, <2>2
  <1>8. QED
    BY <1>1, <1>2, <1>3, <1>4, <1>5, <1>6, <1>7 DEF Continue

\* confirmFutOrder buys an order again only after a fault has kept the order number of an
\* earlier purchase from being stored, and once for each: whatever moves, preparations,
\* synchronisations and confirmations come in between.
THEOREM BuyingAgainIsPaidFor == ASSUME Serial PROVE Spec => []BoughtAgainOnlyIfLost
  <1>1. Init => PurchaseInv
    <2> SUFFICES ASSUME Init PROVE PurchaseInv
      OBVIOUS
    <2>1. placed.accepted = 0 /\ placed.unrecorded = 0
      BY DEF Init
    <2>2. QED
      BY <2>1, InitSerial DEF PurchaseInv, PurchaseOK, BoughtAgainOnlyIfLost
  <1>2. PurchaseInv /\ [Next]_vars => PurchaseInv'
    <2> SUFFICES ASSUME PurchaseInv, [Next]_vars PROVE PurchaseInv'
      OBVIOUS
    <2>1. SerialInv'
      BY SerialNext DEF PurchaseInv
    <2>2. CASE Next
      <3>1. PICK r \in Requests : Start(r) \/ Continue(r) \/ Crash(r)
        BY <2>2 DEF Next
      <3>2. BoughtAgainOnlyIfLost' /\ PurchaseOK(r)'
        BY <3>1, PurchaseStep
      <3>3. \A s \in Requests : s = r
        BY DEF Serial
      <3>4. QED
        BY <2>1, <3>2, <3>3 DEF PurchaseInv
    <2>3. CASE UNCHANGED vars
      BY <2>1, <2>3 DEF vars, PurchaseInv, PurchaseOK, BoughtAgainOnlyIfLost
    <2>4. QED
      BY <2>2, <2>3
  <1>3. PurchaseInv => BoughtAgainOnlyIfLost
    BY DEF PurchaseInv
  <1>4. QED
    BY <1>1, <1>2, <1>3, PTL DEF Spec

\* applyRefund books an order's refund once, and nothing leads out of REFUNDED.
THEOREM OneRefund == ASSUME Serial PROVE Spec => []RefundedOnce
  <1>1. SerialInv => RefundedOnce
    BY DEF SerialInv, SerialRows
  <1>2. QED
    BY <1>1, SerialInvariance, PTL

\* When is a stored credential due: within a week exactly when the order is closed,
\* but while the statement that says so is still to come.
DueOK ==
  cred.state = "active" /\ (\A r \in Requests : req[r].at # "retention") =>
    (cred.due = "week" <=> order.status \in Terminal)

RetentionOK(r) ==
  req[r].at = "retention" => (req[r].arg = "week" <=> order.status \in Terminal)

RetentionInv == SerialInv /\ DueOK /\ \A r \in Requests : RetentionOK(r)

\* A step that leaves the slot elsewhere and brings the credentials in line.
LEMMA RetentionKept ==
  ASSUME Serial, NEW r \in Requests, req'[r].at # "retention",
         cred'.state = "active" => (cred'.due = "week" <=> order'.status \in Terminal)
  PROVE  DueOK' /\ \A s \in Requests : RetentionOK(s)'
  BY DEF Serial, DueOK, RetentionOK

LEMMA DueInFields ==
  ASSUME IInv, NEW d
  PROVE  /\ DueIn(d).state = cred.state
         /\ cred.state = "active" => DueIn(d).due = d
  BY DEF DueIn, IInv, TypeOK, RowsOK

LEMMA RetentionStep ==
  ASSUME Serial, "crash" \notin Faults, RetentionInv, NEW r \in Requests,
         Start(r) \/ Continue(r) \/ Crash(r)
  PROVE  DueOK' /\ \A s \in Requests : RetentionOK(s)'
  <1>t. /\ IInv /\ SerialRows /\ SerialOK(r) /\ RetentionOK(r)
        /\ order \in [status : Statuses, version : Nat, closed : BOOLEAN,
                      assignee : Assignees, reconciled : BOOLEAN]
        /\ cred \in [state : {"none", "active", "deleted"}, due : Dues]
    BY DEF RetentionInv, SerialInv, IInv, TypeOK, RowsOK
  <1>i. IInv
    BY <1>t
  <1>d. cred.state = "active" /\ req[r].at # "retention" =>
          (cred.due = "week" <=> order.status \in Terminal)
    BY DEF Serial, RetentionInv, DueOK
  <1>w. DueIn("week").state = cred.state /\ (cred.state = "active" => DueIn("week").due = "week")
    BY <1>t, DueInFields
  <1>keep. ASSUME req[r].at # "retention", req'[r].at # "retention", cred' = cred,
                  order'.status \in Terminal <=> order.status \in Terminal
           PROVE  DueOK' /\ \A s \in Requests : RetentionOK(s)'
    BY <1>d, <1>keep, RetentionKept
  <1>1. CASE Start(r)
    <2>1. UNCHANGED <<rows, placed>> /\ req[r].at = "idle"
      BY <1>1 DEF Start, Starts, UpdateRead, ChangeStatusRead, AddCredentialsRead,
             DeleteCredentialsRead, ExpireRead, ProofRead, CompleteRead, ReconcileRead,
             RefundRead, PrepareRead, ConfirmRead, SyncRead, CorrectRead, CancelRead
    <2>2. req'[r].at # "retention"
      <3>1. ASSUME NEW a \in Actors, SyncRead(r, a) PROVE req'[r].at # "retention"
        BY <1>t, <3>1 DEF SyncRead, IInv, TypeOK, Slots, Free
      <3>2. QED
        BY <1>1, <1>t, <3>1, SlotAfter
           DEF Start, UpdateRead, ChangeStatusRead, AddCredentialsRead,
             DeleteCredentialsRead, ExpireRead, ProofRead, CompleteRead, ReconcileRead,
             RefundRead, PrepareRead, ConfirmRead, CorrectRead, CancelRead
    <2>3. QED
      BY <2>1, <2>2, <1>keep DEF rows
  <1>2. ~Crash(r)
    BY DEF Crash
  <1>3. CASE UpdateWrite(r) \/ ProofWrite(r) \/ ReconcileWrite(r) \/ PrepareWrite(r)
              \/ Reserve(r) \/ Claim(r) \/ Submit(r) \/ SettleUnknown(r)
              \/ CancelFutWrite(r) \/ CancelStatus(r) \/ CallFails(r)
    <2>1. cred' = cred /\ order'.status = order.status /\ req[r].at # "retention"
      BY <1>t, <1>3 DEF UpdateWrite, ProofWrite, ReconcileWrite, PrepareWrite, Reserve, Claim,
             Submit, SettleUnknown, CancelFutWrite, CancelStatus, CallFails, rows
    <2>2. req'[r].at # "retention"
      BY <1>t, <1>3, SlotAfter DEF UpdateWrite, ProofWrite, ReconcileWrite, PrepareWrite,
             Reserve, Claim, Submit, SettleUnknown, CancelFutWrite, CancelStatus, CallFails
    <2>3. QED
      BY <2>1, <2>2, <1>keep
  <1>4. CASE AddCredentialsWrite(r)
    <2>1. /\ cred' = [state |-> "active", due |-> req[r].arg] /\ order' = order
          /\ req'[r].at = "idle" /\ (req[r].arg = "week" <=> order.status \in Terminal)
      BY <1>t, <1>4, SlotAfter DEF AddCredentialsWrite, SerialOK
    <2>2. QED
      BY <2>1, RetentionKept
  <1>5. CASE EraseCredentials(r)
    <2>1. cred'.state # "active" /\ req'[r].at = "idle"
      BY <1>t, <1>5, SlotAfter DEF EraseCredentials
    <2>2. QED
      BY <2>1, RetentionKept
  <1>6. CASE StatusWrite(r)
    <2>1. CASE Current(r)
      <3>1. /\ order' = WithStatus(order, req[r].arg, req[r].arg \in Terminal)
            /\ req'[r].at = "retention"
            /\ req'[r].arg = IF req[r].arg \in Terminal THEN "week" ELSE "far"
        BY <1>t, <1>6, <2>1, SlotAfter DEF StatusWrite
      <3>2. order'.status = req[r].arg
        BY <1>t, <3>1, WithStatusFields
      <3>3. QED
        BY <3>1, <3>2 DEF Serial, DueOK, RetentionOK
    <2>2. CASE ~Current(r)
      <3>1. cred' = cred /\ order' = order /\ req'[r].at = "idle" /\ req[r].at # "retention"
        BY <1>t, <1>6, <2>2, SlotAfter DEF StatusWrite
      <3>2. QED
        BY <3>1, <1>keep
    <2>3. QED
      BY <2>1, <2>2
  <1>7. CASE RetentionWrite(r)
    <2>1. /\ cred' = DueIn(req[r].arg) /\ order' = order /\ req'[r].at = "idle"
          /\ (req[r].arg = "week" <=> order.status \in Terminal)
      BY <1>t, <1>7, SlotAfter DEF RetentionWrite, RetentionOK
    <2>2. cred'.state = "active" => cred'.due = req[r].arg
      BY <1>t, <2>1, DueInFields
    <2>3. QED
      BY <2>1, <2>2, RetentionKept
  <1>8. CASE CompleteWrite(r) \/ RefundWrite(r)
    <2>1. req'[r].at = "idle" /\ req[r].at # "retention"
      BY <1>t, <1>8, SlotAfter DEF CompleteWrite, RefundWrite
    <2>2. CASE cred' = cred /\ order' = order
      BY <2>1, <2>2, <1>keep
    <2>3. CASE cred' = DueIn("week") /\ order' = WithStatus(order, "COMPLETED", TRUE)
      <3>1. order'.status = "COMPLETED"
        BY <1>i, <2>3, WithStatusFields
      <3>2. QED
        BY <1>w, <2>1, <2>3, <3>1, RetentionKept DEF Terminal
    <2>4. CASE cred' = DueIn("week") /\ order' = WithStatus(order, "REFUNDED", TRUE)
      <3>1. order'.status = "REFUNDED"
        BY <1>i, <2>4, WithStatusFields
      <3>2. QED
        BY <1>w, <2>1, <2>4, <3>1, RetentionKept DEF Terminal
    <2>5. QED
      BY <1>8, <2>2, <2>3, <2>4 DEF CompleteWrite, RefundWrite
  <1>9. CASE SettleAccepted(r)
    <2>1. /\ cred' = cred /\ req[r].at # "retention" /\ order.status = "APPROVED"
          /\ req'[r].at # "retention"
      BY <1>t, <1>9, SlotAfter DEF SettleAccepted, SerialOK, Confirming
    <2>2. order' = order \/ order' = WithStatus(order, "SUBMITTED_TO_FUT", order.closed)
      BY <1>9 DEF SettleAccepted
    <2>3. order'.status \in {"APPROVED", "SUBMITTED_TO_FUT"}
      BY <1>t, <2>1, <2>2, WithStatusFields
    <2>4. QED
      BY <2>1, <2>3, <1>keep DEF Terminal
  <1>10. CASE SettleFailed(r)
    <2>1. /\ order' = WithStatus(order, "FAILED", TRUE) /\ cred' = DueIn("week")
          /\ req'[r].at = "idle"
      BY <1>t, <1>10, SlotAfter DEF SettleFailed
    <2>2. order'.status = "FAILED"
      BY <1>i, <2>1, WithStatusFields
    <2>3. QED
      BY <1>w, <2>1, <2>2, RetentionKept DEF Terminal
  <1>11. ASSUME NEW mapped \in ProviderStatuses, NEW ref \in BOOLEAN, NEW cost \in BOOLEAN,
                SyncWrite(r, mapped, ref, cost)
         PROVE  DueOK' /\ \A s \in Requests : RetentionOK(s)'
    <2> DEFINE next == SyncedStatus(mapped)
               moves == SyncMoves(req[r].status, next)
               closes == moves /\ next \in Terminal
    <2>1. /\ order' = IF moves THEN WithStatus(order, next, SyncedClosed(closes)) ELSE order
          /\ cred' = IF closes THEN DueIn("week") ELSE cred
          /\ req'[r].at = "idle" /\ req[r].at # "retention"
      BY <1>t, <1>11, SlotAfter DEF SyncWrite
    <2>2. req[r].status = order.status
      BY <1>t, <1>11 DEF SyncWrite, SerialOK
    <2>3. CASE closes
      <3>1. order'.status = next /\ next \in Terminal /\ cred' = DueIn("week")
        BY <1>t, <2>1, <2>3, WithStatusFields
      <3>2. QED
        BY <1>w, <2>1, <3>1, RetentionKept
    <2>4. CASE ~closes
      <3>1. cred' = cred
        BY <2>1, <2>4
      <3>2. moves => order'.status = next
        BY <1>t, <2>1, WithStatusFields
      <3>3. order'.status \in Terminal <=> order.status \in Terminal
        BY <2>1, <2>2, <2>4, <3>2 DEF SyncMoves
      <3>4. QED
        BY <2>1, <3>1, <3>3, <1>keep
    <2>5. QED
      BY <2>3, <2>4
  <1>12. CASE CorrectWrite(r)
    <2>1. /\ cred' = cred /\ order' = WithStatus(order, "PROCESSING", order.closed)
          /\ order.status = "CUSTOMER_ACTION_REQUIRED"
          /\ req'[r].at = "idle" /\ req[r].at # "retention"
      BY <1>t, <1>12, SlotAfter DEF CorrectWrite, SerialOK
    <2>2. order'.status = "PROCESSING"
      BY <1>t, <2>1, WithStatusFields
    <2>3. QED
      BY <2>1, <2>2, <1>keep DEF Terminal
  <1>13. QED
    BY <1>1, <1>2, <1>3, <1>4, <1>5, <1>6, <1>7, <1>8, <1>9, <1>10, <1>11, <1>12 DEF Continue

\* transitionWithHistory and the provider's answers leave stored credentials due for
\* deletion within a week exactly when the order is closed.  A crash between the
\* status and the deletion date, which are two statements, would leave them apart.
THEOREM CredentialsFollowTheOrder ==
  ASSUME Serial, "crash" \notin Faults PROVE Spec => []RetentionScheduled
  <1>1. Init => RetentionInv
    <2> SUFFICES ASSUME Init PROVE RetentionInv
      OBVIOUS
    <2>1. (cred.state = "active" => cred.due = "far") /\ order.status \notin Terminal
      BY DEF Init, Terminal
    <2>2. \A r \in Requests : req[r].at = "idle"
      BY DEF Init, Free
    <2>3. QED
      BY <2>1, <2>2, InitSerial DEF RetentionInv, DueOK, RetentionOK
  <1>2. RetentionInv /\ [Next]_vars => RetentionInv'
    <2> SUFFICES ASSUME RetentionInv, [Next]_vars PROVE RetentionInv'
      OBVIOUS
    <2>1. SerialInv'
      BY SerialNext DEF RetentionInv
    <2>2. CASE Next
      BY <2>1, <2>2, RetentionStep DEF Next, RetentionInv
    <2>3. CASE UNCHANGED vars
      BY <2>1, <2>3 DEF vars, RetentionInv, DueOK, RetentionOK
    <2>4. QED
      BY <2>2, <2>3
  <1>3. RetentionInv => RetentionScheduled
    BY DEF RetentionInv, DueOK, RetentionScheduled, Quiet
  <1>4. QED
    BY <1>1, <1>2, <1>3, PTL DEF Spec
=============================================================================
