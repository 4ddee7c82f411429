------------------------- MODULE AgentRuntimeProofs -------------------------
(***************************************************************************)
(* Theorems about AgentRuntime, for every kernel, every budget, every set  *)
(* of faults and every bound.                                              *)
(*                                                                         *)
(* The state is a projection of the trajectory, and that alone is not      *)
(* inductive: a commit records a prior and a rollback target taken from    *)
(* the trajectory, so IInv adds that priors chain, that targets are sound, *)
(* and that some accepted pair is the last one.  Next has thirteen         *)
(* actions but only five effects on what IInv reads (the five forms below):*)
(* StepForms reduces an action to its form, and one lemma per form shows   *)
(* that it keeps IInv.                                                     *)
(*                                                                         *)
(* Two more invariants rest on IInv.  BudgetInv reads the counters off the *)
(* trajectory; RevisionsAreProjections says that each digest in it was     *)
(* right when it was recorded.  Sums of costs, projections and replays are *)
(* recursive functions: NatRecursion says that they compute what their     *)
(* equations say, and induction over the history does the rest.            *)
(***************************************************************************)
EXTENDS AgentRuntime, FiniteSetTheorems, TLAPS

-----------------------------------------------------------------------------
(* Trajectories *)

\* What appending a pair does to a trajectory.
LEMMA AppendFacts ==
    ASSUME NEW l \in Seq(Pairs), NEW p \in Pairs
    PROVE  /\ Append(l, p) \in Seq(Pairs)
           /\ Len(Append(l, p)) = Len(l) + 1
           /\ DOMAIN l = 1..Len(l)
           /\ Len(l) \in Nat
           /\ DOMAIN Append(l, p) = 1..(Len(l) + 1)
           /\ \A i \in DOMAIN l : Append(l, p)[i] = l[i]
           /\ Append(l, p)[Len(l) + 1] = p
  OBVIOUS

\* Some accepted pair is the last one.
HasLast(l) ==
    \E i \in DOMAIN l : IsAccepted(l, i) /\ \A j \in DOMAIN l : IsAccepted(l, j) => j <= i

\* An accepted pair with no accepted pair after it is the one LastAccepted picks,
\* and its revision is the current one.
LEMMA LastAcceptedUnique ==
    ASSUME NEW l \in Seq(Pairs), NEW i \in DOMAIN l, IsAccepted(l, i),
           \A j \in DOMAIN l : IsAccepted(l, j) => j <= i
    PROVE  LastAccepted(l) = i /\ last_revision(l) = l[i].revision /\ HasLast(l)
  <1>1. \A k \in DOMAIN l : (/\ IsAccepted(l, k)
                             /\ \A j \in DOMAIN l : IsAccepted(l, j) => j <= k) => k = i
    OBVIOUS
  <1>2. LastAccepted(l) = i
    BY <1>1 DEF LastAccepted
  <1> QED
    BY <1>2 DEF last_revision, HasLast

\* An accepted pair becomes the last accepted one.
LEMMA AppendAccepted ==
    ASSUME NEW l \in Seq(Pairs), NEW p \in Pairs, p.status = "accepted"
    PROVE  /\ LastAccepted(Append(l, p)) = Len(l) + 1
           /\ last_revision(Append(l, p)) = p.revision
           /\ HasLast(Append(l, p))
  <1> DEFINE m == Append(l, p)
             n == Len(l) + 1
  <1>1. m \in Seq(Pairs) /\ n \in DOMAIN m /\ m[n] = p /\ \A j \in DOMAIN m : j <= n
    BY AppendFacts
  <1>2. IsAccepted(m, n)
    BY <1>1 DEF IsAccepted
  <1> HIDE DEF m, n
  <1>3. LastAccepted(m) = n /\ last_revision(m) = m[n].revision /\ HasLast(m)
    BY <1>1, <1>2, LastAcceptedUnique
  <1> QED
    BY <1>1, <1>3 DEF m, n

\* A rejected pair leaves the last accepted one, its revision and the live
\* effects alone.
LEMMA AppendRejected ==
    ASSUME NEW l \in Seq(Pairs), NEW p \in Pairs, p.status # "accepted", HasLast(l)
    PROVE  /\ LastAccepted(Append(l, p)) = LastAccepted(l)
           /\ last_revision(Append(l, p)) = last_revision(l)
           /\ HasLast(Append(l, p))
           /\ LastAccepted(l) \in DOMAIN l
  <1> DEFINE m == Append(l, p)
  <1>1. PICK i \in DOMAIN l : IsAccepted(l, i) /\ \A j \in DOMAIN l : IsAccepted(l, j) => j <= i
    BY DEF HasLast
  <1>2. m \in Seq(Pairs) /\ i \in DOMAIN m /\ m[i] = l[i]
    BY AppendFacts
  <1>3. \A j \in DOMAIN m : IsAccepted(m, j) => j \in DOMAIN l /\ IsAccepted(l, j)
    BY AppendFacts DEF IsAccepted
  <1>4. IsAccepted(m, i) /\ \A j \in DOMAIN m : IsAccepted(m, j) => j <= i
    BY <1>1, <1>2, <1>3 DEF IsAccepted
  <1> HIDE DEF m
  <1>5. LastAccepted(m) = i /\ last_revision(m) = m[i].revision /\ HasLast(m)
    BY <1>2, <1>4, LastAcceptedUnique
  <1>6. LastAccepted(l) = i /\ last_revision(l) = l[i].revision
    BY <1>1, LastAcceptedUnique
  <1> QED
    BY <1>2, <1>5, <1>6 DEF m

\* A pair that is neither an accepted semantic action nor an accepted rollback
\* has no effect.
LEMMA AppendWithoutEffect ==
    ASSUME NEW l \in Seq(Pairs), NEW p \in Pairs,
           p.status # "accepted" \/ p.kind \notin {"semantic", "rollback"}
    PROVE  /\ Effects(Append(l, p)) = Effects(l)
           /\ rolled_back_sequences(Append(l, p)) = rolled_back_sequences(l)
  <1> DEFINE m == Append(l, p)
             Live(k) == {j \in DOMAIN k : /\ IsAccepted(k, j) /\ k[j].kind = "semantic"
                                          /\ j \notin rolled_back_sequences(k)}
             Undone(k) == {j \in DOMAIN k : IsAccepted(k, j) /\ k[j].kind = "rollback"}
  <1>1. /\ \A j \in DOMAIN l : j \in DOMAIN m /\ m[j] = l[j]
        /\ \A j \in DOMAIN m : j \in DOMAIN l \/ m[j] = p
    BY AppendFacts
  <1> HIDE DEF m
  <1>2. Undone(m) = Undone(l)
    BY <1>1 DEF IsAccepted
  <1>3. \A j \in Undone(l) : m[j].target = l[j].target
    BY <1>1
  <1>4. rolled_back_sequences(m) = {m[i].target : i \in Undone(m)}
    BY DEF rolled_back_sequences
  <1>5. rolled_back_sequences(l) = {l[i].target : i \in Undone(l)}
    BY DEF rolled_back_sequences
  <1>6. rolled_back_sequences(m) = rolled_back_sequences(l)
    BY <1>2, <1>3, <1>4, <1>5
  <1>7. Live(m) = Live(l)
    BY <1>1, <1>6 DEF IsAccepted
  <1>8. [j \in Live(m) |-> m[j].op] = [j \in Live(l) |-> l[j].op]
    BY <1>1, <1>7
  <1> QED
    BY <1>6, <1>8 DEF Effects, m

\* The effects of a trajectory do not depend on revisions, costs and errors.
LEMMA AppendSameEffect ==
    ASSUME NEW l \in Seq(Pairs), NEW p \in Pairs, NEW q \in Pairs,
           p.status = q.status, p.kind = q.kind, p.op = q.op, p.target = q.target
    PROVE  Effects(Append(l, p)) = Effects(Append(l, q))
  <1> DEFINE m == Append(l, p)
             n == Append(l, q)
             Live(k) == {j \in DOMAIN k : /\ IsAccepted(k, j) /\ k[j].kind = "semantic"
                                          /\ j \notin rolled_back_sequences(k)}
             Undone(k) == {j \in DOMAIN k : IsAccepted(k, j) /\ k[j].kind = "rollback"}
  <1>1. /\ DOMAIN m = DOMAIN n
        /\ \A j \in DOMAIN m : /\ m[j].status = n[j].status /\ m[j].kind = n[j].kind
                               /\ m[j].op = n[j].op /\ m[j].target = n[j].target
    BY AppendFacts
  <1> HIDE DEF m, n
  <1>2. Undone(m) = Undone(n)
    BY <1>1 DEF IsAccepted
  <1>3. rolled_back_sequences(m) = {m[i].target : i \in Undone(m)}
    BY DEF rolled_back_sequences
  <1>4. rolled_back_sequences(n) = {n[i].target : i \in Undone(n)}
    BY DEF rolled_back_sequences
  <1>5. rolled_back_sequences(m) = rolled_back_sequences(n)
    BY <1>1, <1>2, <1>3, <1>4
  <1>6. Live(m) = Live(n)
    BY <1>1, <1>5 DEF IsAccepted
  <1>7. [j \in Live(m) |-> m[j].op] = [j \in Live(n) |-> n[j].op]
    BY <1>1, <1>6
  <1> QED
    BY <1>7 DEF Effects, m, n

-----------------------------------------------------------------------------
(* The inductive invariant *)

\* What every step needs of the session it starts from.
IInv ==
    /\ TypeOK
    /\ HasLast(log)
    /\ StateIsProjection
    /\ ExportRehydrates
    /\ RollbacksAreSound
    /\ CertifiedIsEarned

\* Without effects the projection is the initial state.
LEMMA EmptyProjection ==
    ASSUME NEW effects, DOMAIN effects = {}
    PROVE  Project(effects) = InitialState
  BY DEF Project

\* The digest of a kernel state is a revision, and so is having none.
LEMMA RevisionTypes ==
    /\ \A s \in KernelStates : state_digest(s) \in Revisions
    /\ NoRevision \in Revisions
  BY DEF state_digest, Revisions

\* What the constructor records and counts is well typed.
LEMMA StartPairType == StartPair \in Pairs /\ StartCounters \in Counters
  <1>1. state_digest(InitialState) \in Revisions /\ NoRevision \in Revisions
    BY KernelAssumption, RevisionTypes
  <1> QED
    BY <1>1 DEF StartPair, Pairs, Kinds, StartCounters, Counters

\* Marking a budget stop keeps a status in range and never certifies.
LEMMA MarkType ==
    ASSUME NEW st \in Statuses, NEW c
    PROVE  /\ mark_budget_partial(st, c) \in Statuses
           /\ mark_budget_partial(st, c) = "certified" => st = "certified"
  BY DEF mark_budget_partial, Statuses

\* Where the session starts.
LEMMA InitInvariant == Init => IInv
  <1> SUFFICES ASSUME Init PROVE IInv
    OBVIOUS
  <1>1. log = <<StartPair>> /\ StartPair \in Pairs /\ StartCounters \in Counters
    BY StartPairType DEF Init
  <1>2. log \in Seq(Pairs) /\ Len(log) = 1 /\ DOMAIN log = {1} /\ log[1] = StartPair
    BY <1>1
  <1>3. IsAccepted(log, 1) /\ StartPair.kind = "start" /\ StartPair.prior = NoRevision
        /\ StartPair.revision = state_digest(InitialState)
    BY <1>2 DEF IsAccepted, StartPair
  <1>4. HasLast(log) /\ last_revision(log) = state_digest(InitialState)
    BY <1>2, <1>3, LastAcceptedUnique
  <1>5. TypeOK
    BY <1>1, <1>2, KernelAssumption, MarkType DEF Init, TypeOK, Statuses
  <1>6. StateIsProjection
    <2>1. DOMAIN Effects(log) = {}
      BY <1>2, <1>3 DEF Effects, StartPair
    <2> QED
      BY <2>1, EmptyProjection DEF StateIsProjection, Init
  <1>7. ExportRehydrates
    <2>1. SubSeq(log, 1, 1 - 1) = << >>
      BY <1>2
    <2>2. last_revision(<< >>) = NoRevision
      BY DEF last_revision
    <2> QED
      BY <1>2, <1>3, <1>4, <2>1, <2>2 DEF ExportRehydrates, Init
  <1>8. RollbacksAreSound
    BY <1>2, <1>3 DEF RollbacksAreSound, StartPair
  <1>9. CertifiedIsEarned
    BY MarkType DEF CertifiedIsEarned, Init, Statuses
  <1> QED
    BY <1>4, <1>5, <1>6, <1>7, <1>8, <1>9 DEF IInv

-----------------------------------------------------------------------------
(* What every call does to the session, in five forms *)

\* A pair is rejected: the history grows, nothing else that is visible moves.
RejectForm ==
    /\ \E p \in Pairs : /\ p.status = "rejected" /\ p.prior = last_revision(log) /\ p.cost = 0
                        /\ log' = Append(log, p)
                        /\ \/ p.error = "refused" /\ counters' = [counters EXCEPT !.actions = @ + 1]
                           \/ p.error = "recording_failed" /\ counters' = counters
    /\ dangling # NoAction => log' = Append(log, RejectedPair(dangling, "recording_failed"))
    /\ dangling' = NoAction
    /\ counters' \in Counters
    /\ UNCHANGED <<state, status, evaluation>>

\* An ACTION is left without its RESULT.
DangleForm ==
    /\ dangling' \in Actions
    /\ dangling' # NoAction => dangling'.prior = last_revision(log)
    /\ dangling # NoAction => dangling' = dangling
    /\ UNCHANGED <<log, counters, state, status, evaluation>>

\* An admitted action is recorded, and its projection becomes the state.
CommitForm ==
    /\ status = "active"
    /\ \E a \in Actions, new \in KernelStates, cost \in Int :
          /\ a.prior = last_revision(log)
          /\ a.kind \in {"start", "semantic", "rollback"}
          /\ a.kind = "rollback" => validate_rollback_target(a.target)
          /\ a.kind = "semantic" => a.op \in Ops /\ Validates(a.op, state)
          /\ new = ProjectWith(a)
          /\ ~budget_violation(a.op, cost)
          /\ Commit(a, new, cost)

\* A verdict is recorded and settles the session.
FinalizeForm ==
    /\ status = "active"
    /\ dangling = NoAction
    /\ log' = Append(log, AcceptedPair(record_action("finalize", NoOp, 0), state,
                                       default_compute_cost("finalize", NoOp)))
    /\ evaluation' = SettledVerdict
    /\ status' = StatusOf(SettledVerdict)
    /\ counters' = projected_counters
    /\ UNCHANGED <<dangling, state>>

\* The projection is computed again.
RebuildForm ==
    /\ state' = Project(Effects(log))
    /\ UNCHANGED <<log, dangling, counters, status, evaluation>>

\* The effect of a step is one of the five.
Forms == RejectForm \/ DangleForm \/ CommitForm \/ FinalizeForm \/ RebuildForm

\* The revision a request is compared with is a digest or none.
LEMMA LastRevisionType == ASSUME TypeOK, HasLast(log) PROVE last_revision(log) \in Revisions
  <1>1. PICK i \in DOMAIN log : IsAccepted(log, i) /\ \A j \in DOMAIN log : IsAccepted(log, j) => j <= i
    BY DEF HasLast
  <1>2. last_revision(log) = log[i].revision
    BY <1>1, LastAcceptedUnique DEF TypeOK
  <1>3. log[i] \in Pairs
    BY DEF TypeOK
  <1> QED
    BY <1>2, <1>3 DEF Pairs

\* An ACTION is well typed and carries the current revision as its prior.
LEMMA RecordActionType ==
    ASSUME TypeOK, HasLast(log), NEW kind \in Kinds, NEW op \in Ops \cup {NoOp}, NEW target \in Nat
    PROVE  /\ record_action(kind, op, target) \in Actions
           /\ record_action(kind, op, target).prior = last_revision(log)
           /\ record_action(kind, op, target).kind = kind
           /\ record_action(kind, op, target).target = target
           /\ record_action(kind, op, target).op = op
  BY LastRevisionType DEF record_action, Actions

\* A RESULT completes its ACTION to a pair of the trajectory, field by field.
LEMMA PairTypes ==
    ASSUME NEW a \in Actions
    PROVE  /\ \A s \in KernelStates, cost \in Int :
                 /\ AcceptedPair(a, s, cost) \in Pairs
                 /\ AcceptedPair(a, s, cost).status = "accepted"
                 /\ AcceptedPair(a, s, cost).kind = a.kind
                 /\ AcceptedPair(a, s, cost).op = a.op
                 /\ AcceptedPair(a, s, cost).target = a.target
                 /\ AcceptedPair(a, s, cost).prior = a.prior
                 /\ AcceptedPair(a, s, cost).revision = state_digest(s)
                 /\ AcceptedPair(a, s, cost).cost = cost
                 /\ AcceptedPair(a, s, cost).error = "none"
           /\ \A error \in {"refused", "recording_failed"} :
                 /\ RejectedPair(a, error) \in Pairs
                 /\ RejectedPair(a, error).status = "rejected"
                 /\ RejectedPair(a, error).prior = a.prior
                 /\ RejectedPair(a, error).cost = 0
                 /\ RejectedPair(a, error).error = error
  BY RevisionTypes DEF AcceptedPair, RejectedPair, Pair, Actions, Pairs

\* Costs are integers, and the default ones are not negative.
LEMMA CostTypes ==
    /\ \A kind, op : default_compute_cost(kind, op) \in Nat
    /\ \A kind, op : \A given \in Costs : CostOf(kind, op, given) \in Int
  BY BudgetAssumption DEF default_compute_cost, CostOf, Costs

\* A refused call appends a rejected pair or leaves its ACTION dangling.
LEMMA RejectionForm ==
    ASSUME IInv, NEW kind \in Kinds, NEW op \in Ops \cup {NoOp}, RecordRejection(kind, op)
    PROVE  RejectForm \/ DangleForm
  <1> DEFINE a == record_action(kind, op, 0)
  <1>1. a \in Actions /\ a.prior = last_revision(log)
    BY RecordActionType DEF IInv
  <1>2. counters \in Counters
    BY DEF IInv, TypeOK
  <1>3. CASE /\ log' = Append(log, RejectedPair(a, "refused"))
             /\ counters' = [counters EXCEPT !.actions = @ + 1]
             /\ UNCHANGED dangling
    <2>1. counters' \in Counters
      BY <1>2, <1>3 DEF Counters
    <2>2. dangling = NoAction /\ dangling' = NoAction /\ UNCHANGED <<state, status, evaluation>>
      BY <1>3 DEF RecordRejection
    <2> QED
      BY <1>1, <1>3, <2>1, <2>2, PairTypes DEF RejectForm
  <1>4. CASE /\ dangling' = a
             /\ UNCHANGED <<log, counters>>
    BY <1>1, <1>4 DEF DangleForm, RecordRejection
  <1> QED
    BY <1>3, <1>4 DEF RecordRejection

\* A recording that fails ends in a rejection of the dangling ACTION, or leaves it.
LEMMA FailureForm ==
    ASSUME IInv, NEW a \in Actions, a.prior = last_revision(log), RecordingFails(a)
    PROVE  RejectForm \/ DangleForm
  <1>1. PICK b \in Actions : /\ b.prior = last_revision(log) /\ CloseDangling(b)
                             /\ dangling # NoAction => b = dangling
    BY DEF RecordingFails, IInv, TypeOK, ExportRehydrates
  <1>2. counters \in Counters /\ UNCHANGED <<state, counters, status, evaluation>>
    BY DEF RecordingFails, IInv, TypeOK
  <1>3. CASE log' = Append(log, RejectedPair(b, "recording_failed")) /\ dangling' = NoAction
    BY <1>1, <1>2, <1>3, PairTypes DEF RejectForm
  <1>4. CASE dangling' = b /\ UNCHANGED log
    BY <1>1, <1>2, <1>4 DEF DangleForm
  <1> QED
    BY <1>1, <1>3, <1>4 DEF CloseDangling

\* Every step of the session has one of the forms, or stutters.
LEMMA StepForms == ASSUME IInv, Next PROVE Forms
  <1> USE DEF Forms
  <1>t. TypeOK /\ HasLast(log)
    BY DEF IInv
  <1>k. {"start", "semantic", "rollback", "finalize"} = Kinds
    BY DEF Kinds
  <1>r. ASSUME NEW r \in Requests, RecordRejection(r[1], r[2])
        PROVE  RejectForm \/ DangleForm
    BY <1>k, <1>r, RejectionForm DEF Requests
  <1>1. CASE ApplyFinalizeByName
    BY <1>1, <1>k, RejectionForm DEF ApplyFinalizeByName
  <1>2. CASE ApplyOverBudget
    BY <1>2, <1>r DEF ApplyOverBudget
  <1>3. CASE ApplyInactive
    BY <1>3, <1>r DEF ApplyInactive
  <1>4. CASE ApplyStale
    BY <1>4, <1>r DEF ApplyStale
  <1>5. CASE \E op \in Ops : ApplyInvalid(op)
    BY <1>5, <1>k, RejectionForm DEF ApplyInvalid
  <1>6. CASE \E op \in Ops : ApplyProjectionFails(op)
    BY <1>6, <1>k, RejectionForm DEF ApplyProjectionFails
  <1>7. CASE \E op \in Ops : ApplyAccepted(op)
    <2>1. PICK op \in Ops, given \in Costs :
              LET a == record_action("semantic", op, 0) IN
              /\ Admitted("semantic", op, given)
              /\ Validates(op, state)
              /\ \E new \in {ProjectWith(a)} \cap KernelStates :
                    Commit(a, new, CostOf("semantic", op, given)) \/ RecordingFails(a)
      BY <1>7 DEF ApplyAccepted
    <2>2. /\ record_action("semantic", op, 0) \in Actions
          /\ record_action("semantic", op, 0).prior = last_revision(log)
          /\ record_action("semantic", op, 0).kind = "semantic"
          /\ record_action("semantic", op, 0).op = op
      BY <1>t, <1>k, RecordActionType
    <2>3. /\ status = "active" /\ CostOf("semantic", op, given) \in Int
          /\ ~budget_violation(op, CostOf("semantic", op, given))
      BY <2>1, CostTypes DEF Admitted
    <2> QED
      BY <2>1, <2>2, <2>3, FailureForm DEF CommitForm
  <1>8. CASE ApplyStartAgain
    <2>1. PICK given \in Costs :
              LET a == record_action("start", NoOp, 0) IN
              /\ Admitted("start", NoOp, given)
              /\ \/ RecordRejection("start", NoOp)
                 \/ \E new \in {ProjectWith(a)} \cap KernelStates :
                       Commit(a, new, CostOf("start", NoOp, given)) \/ RecordingFails(a)
      BY <1>8 DEF ApplyStartAgain
    <2>2. /\ record_action("start", NoOp, 0) \in Actions
          /\ record_action("start", NoOp, 0).prior = last_revision(log)
          /\ record_action("start", NoOp, 0).kind = "start"
          /\ record_action("start", NoOp, 0).op = NoOp
      BY <1>t, <1>k, RecordActionType
    <2>3. /\ status = "active" /\ CostOf("start", NoOp, given) \in Int
          /\ ~budget_violation(NoOp, CostOf("start", NoOp, given))
      BY <2>1, CostTypes DEF Admitted
    <2> QED
      BY <2>1, <2>2, <2>3, <1>k, RejectionForm, FailureForm DEF CommitForm
  <1>9. CASE RollbackRefused
    BY <1>9, <1>k, RejectionForm DEF RollbackRefused
  <1>10. CASE \E target \in 1..MaxPairs : RollbackProjectionFails(target)
    BY <1>10, <1>k, RejectionForm DEF RollbackProjectionFails
  <1>11. CASE \E target \in 1..MaxPairs : RollbackAccepted(target)
    <2>1. PICK target \in 1..MaxPairs, given \in Costs :
              LET a == record_action("rollback", NoOp, target) IN
              /\ Admitted("rollback", NoOp, given)
              /\ validate_rollback_target(target)
              /\ \E new \in {ProjectWith(a)} \cap KernelStates :
                    Commit(a, new, CostOf("rollback", NoOp, given)) \/ RecordingFails(a)
      BY <1>11 DEF RollbackAccepted
    <2>2. target \in Nat
      BY BudgetAssumption
    <2>3. /\ record_action("rollback", NoOp, target) \in Actions
          /\ record_action("rollback", NoOp, target).prior = last_revision(log)
          /\ record_action("rollback", NoOp, target).kind = "rollback"
          /\ record_action("rollback", NoOp, target).target = target
          /\ record_action("rollback", NoOp, target).op = NoOp
      BY <1>t, <1>k, <2>2, RecordActionType
    <2>4. /\ status = "active" /\ CostOf("rollback", NoOp, given) \in Int
          /\ ~budget_violation(NoOp, CostOf("rollback", NoOp, given))
      BY <2>1, CostTypes DEF Admitted
    <2> QED
      BY <2>1, <2>3, <2>4, FailureForm DEF CommitForm
  <1>12. CASE rebuild_projection
    BY <1>12 DEF rebuild_projection, RebuildForm
  <1>13. CASE Finalize
    <2> DEFINE a == record_action("finalize", NoOp, 0)
    <2>1. a \in Actions /\ a.prior = last_revision(log)
      BY <1>t, <1>k, RecordActionType
    <2>2. CASE RecordingFails(a)
      BY <2>1, <2>2, FailureForm
    <2>3. CASE ~RecordingFails(a)
      BY <1>13, <2>3 DEF Finalize, FinalizeForm
    <2> QED
      BY <2>2, <2>3
  <1> QED
    BY <1>1, <1>2, <1>3, <1>4, <1>5, <1>6, <1>7, <1>8, <1>9, <1>10, <1>11, <1>12, <1>13 DEF Next

-----------------------------------------------------------------------------
(* Each form keeps the invariant *)

\* Priors keep chaining when a pair with the current revision is appended.
LEMMA PriorsChain ==
    ASSUME IInv, NEW p \in Pairs, p.prior = last_revision(log), log' = Append(log, p)
    PROVE  \A i \in DOMAIN log' : log'[i].prior = last_revision(SubSeq(log', 1, i - 1))
  <1>1. log \in Seq(Pairs) /\ \A i \in DOMAIN log : log[i].prior = last_revision(SubSeq(log, 1, i - 1))
    BY DEF IInv, TypeOK, ExportRehydrates
  <1>2. \A i \in DOMAIN log : SubSeq(log', 1, i - 1) = SubSeq(log, 1, i - 1)
    BY <1>1, AppendFacts
  <1>3. SubSeq(log', 1, Len(log)) = log
    BY <1>1
  <1>4. /\ DOMAIN log' = 1..(Len(log) + 1) /\ DOMAIN log = 1..Len(log) /\ Len(log) \in Nat
        /\ \A i \in DOMAIN log : log'[i] = log[i]
        /\ log'[Len(log) + 1] = p
    BY <1>1, AppendFacts
  <1> SUFFICES ASSUME NEW i \in DOMAIN log'
               PROVE  log'[i].prior = last_revision(SubSeq(log', 1, i - 1))
    OBVIOUS
  <1>5. CASE i \in DOMAIN log
    BY <1>1, <1>2, <1>4, <1>5
  <1>6. CASE i = Len(log) + 1
    <2>1. i - 1 = Len(log)
      BY <1>4, <1>6
    <2> QED
      BY <1>3, <1>4, <1>6, <2>1
  <1> QED
    BY <1>4, <1>5, <1>6

\* Pairs other than accepted rollbacks cannot spoil the rollbacks.
LEMMA RollbacksStaySound ==
    ASSUME IInv, NEW p \in Pairs, log' = Append(log, p),
           p.status = "accepted" /\ p.kind = "rollback" => validate_rollback_target(p.target)
    PROVE  RollbacksAreSound'
  <1> DEFINE Rollbacks(l) == {i \in DOMAIN l : IsAccepted(l, i) /\ l[i].kind = "rollback"}
             Sound(l, i) == /\ l[i].target \in 1..(i - 1)
                            /\ IsAccepted(l, l[i].target)
                            /\ l[l[i].target].kind = "semantic"
  <1>1. /\ log \in Seq(Pairs)
        /\ \A i \in Rollbacks(log) : Sound(log, i)
        /\ \A i, j \in Rollbacks(log) : log[i].target = log[j].target => i = j
    BY DEF IInv, TypeOK, RollbacksAreSound
  <1>2. /\ DOMAIN log = 1..Len(log) /\ DOMAIN log' = 1..(Len(log) + 1) /\ Len(log) \in Nat
        /\ \A i \in DOMAIN log : log'[i] = log[i]
        /\ log'[Len(log) + 1] = p
    BY <1>1, AppendFacts
  <1>3. \A i \in Rollbacks(log') : i \in Rollbacks(log) \/ i = Len(log) + 1
    BY <1>2 DEF IsAccepted
  <1>4. Len(log) + 1 \in Rollbacks(log') =>
            /\ p.target \in DOMAIN log /\ IsAccepted(log, p.target)
            /\ log[p.target].kind = "semantic"
            /\ \A i \in Rollbacks(log) : log[i].target # p.target
    BY <1>2 DEF IsAccepted, validate_rollback_target, rolled_back_sequences
  <1>5. \A i \in Rollbacks(log') : Sound(log', i)
    <2> SUFFICES ASSUME NEW i \in Rollbacks(log') PROVE Sound(log', i)
      OBVIOUS
    <2>1. CASE i \in Rollbacks(log)
      <3>1. Sound(log, i) /\ i \in DOMAIN log /\ log'[i] = log[i]
        BY <1>1, <1>2, <2>1
      <3>2. log[i].target \in DOMAIN log
        BY <1>2, <3>1
      <3> QED
        BY <1>2, <3>1, <3>2 DEF IsAccepted
    <2>2. CASE i = Len(log) + 1
      BY <1>2, <1>4, <2>2 DEF IsAccepted
    <2> QED
      BY <1>3, <2>1, <2>2
  <1>6. \A i, j \in Rollbacks(log') : log'[i].target = log'[j].target => i = j
    BY <1>1, <1>2, <1>3, <1>4
  <1> QED
    BY <1>5, <1>6 DEF RollbacksAreSound, IsAccepted

\* A rejection keeps the invariant: no effect, no new current revision.
LEMMA RejectKeeps == ASSUME IInv, RejectForm PROVE IInv'
  <1>1. PICK p \in Pairs : p.status = "rejected" /\ p.prior = last_revision(log) /\ log' = Append(log, p)
    BY DEF RejectForm
  <1>2. log \in Seq(Pairs) /\ HasLast(log)
    BY DEF IInv, TypeOK
  <1>3. /\ LastAccepted(log') = LastAccepted(log) /\ LastAccepted(log) \in DOMAIN log
        /\ last_revision(log') = last_revision(log) /\ HasLast(log')
    BY <1>1, <1>2, AppendRejected
  <1>4. Effects(log') = Effects(log)
    BY <1>1, <1>2, AppendWithoutEffect
  <1>5. /\ log' \in Seq(Pairs) /\ log'[LastAccepted(log)] = log[LastAccepted(log)]
    BY <1>1, <1>2, <1>3, AppendFacts
  <1>6. TypeOK'
    BY <1>5 DEF IInv, TypeOK, RejectForm
  <1>7. StateIsProjection'
    BY <1>4 DEF IInv, StateIsProjection, RejectForm
  <1>8. ExportRehydrates'
    BY <1>1, <1>3, PriorsChain DEF IInv, ExportRehydrates, RejectForm
  <1>9. RollbacksAreSound'
    BY <1>1, RollbacksStaySound
  <1>10. CertifiedIsEarned'
    BY <1>3, <1>5 DEF IInv, CertifiedIsEarned, RejectForm
  <1> QED
    BY <1>3, <1>6, <1>7, <1>8, <1>9, <1>10 DEF IInv

\* An ACTION left without its RESULT keeps the invariant.
LEMMA DangleKeeps == ASSUME IInv, DangleForm PROVE IInv'
  BY DEF IInv, DangleForm, TypeOK, StateIsProjection, ExportRehydrates, RollbacksAreSound,
         CertifiedIsEarned

\* Projecting again changes nothing.
LEMMA RebuildKeeps == ASSUME IInv, RebuildForm PROVE IInv' /\ state' = state
  <1>1. state' = state
    BY DEF IInv, StateIsProjection, RebuildForm
  <1> QED
    BY <1>1 DEF IInv, RebuildForm, TypeOK, StateIsProjection, ExportRehydrates,
                RollbacksAreSound, CertifiedIsEarned

\* A commit keeps the invariant: the state it stores is the projection of the
\* trajectory it leaves, because only the op and target of the new pair matter.
LEMMA CommitKeeps == ASSUME IInv, CommitForm PROVE IInv'
  <1>1. PICK a \in Actions, new \in KernelStates, cost \in Int :
            /\ a.prior = last_revision(log)
            /\ a.kind \in {"start", "semantic", "rollback"}
            /\ a.kind = "rollback" => validate_rollback_target(a.target)
            /\ new = ProjectWith(a)
            /\ Commit(a, new, cost)
    BY DEF CommitForm
  <1> DEFINE p == AcceptedPair(a, new, cost)
  <1>2. /\ p \in Pairs /\ p.status = "accepted" /\ p.kind = a.kind /\ p.target = a.target
        /\ p.prior = last_revision(log) /\ p.revision = state_digest(new)
    BY <1>1, PairTypes
  <1>3. /\ log \in Seq(Pairs) /\ log' = Append(log, p) /\ state' = new
        /\ dangling = NoAction /\ dangling' = NoAction
    BY <1>1 DEF IInv, TypeOK, Commit
  <1>4. HasLast(log') /\ last_revision(log') = state_digest(state') /\ log' \in Seq(Pairs)
    BY <1>2, <1>3, AppendAccepted, AppendFacts
  <1>5. counters' \in Counters
    <2>1. counters \in Counters
      BY DEF IInv, TypeOK
    <2>2. candidate_depth(new) \in Int
      BY <2>1 DEF candidate_depth, Counters
    <2> QED
      BY <1>1, <2>1, <2>2 DEF Commit, candidate_counters, Counters
  <1>6. status' \in Statuses /\ status' # "certified"
    BY <1>1, MarkType DEF Commit, CommitForm, Statuses
  <1>7. TypeOK'
    BY <1>3, <1>4, <1>5, <1>6 DEF TypeOK
  <1>8. StateIsProjection'
    <2>1. /\ AcceptedPair(a, InitialState, 0) \in Pairs
          /\ AcceptedPair(a, InitialState, 0).status = p.status
          /\ AcceptedPair(a, InitialState, 0).kind = p.kind
          /\ AcceptedPair(a, InitialState, 0).op = p.op
          /\ AcceptedPair(a, InitialState, 0).target = p.target
      BY KernelAssumption, PairTypes
    <2>2. Effects(Append(log, AcceptedPair(a, InitialState, 0))) = Effects(Append(log, p))
      BY <1>2, <1>3, <2>1, AppendSameEffect
    <2> QED
      BY <1>1, <1>3, <2>2 DEF StateIsProjection, ProjectWith
  <1>9. ExportRehydrates'
    BY <1>2, <1>3, <1>4, PriorsChain DEF ExportRehydrates
  <1>10. RollbacksAreSound'
    BY <1>1, <1>2, <1>3, RollbacksStaySound
  <1>11. CertifiedIsEarned'
    BY <1>6 DEF CertifiedIsEarned
  <1> QED
    BY <1>4, <1>7, <1>8, <1>9, <1>10, <1>11 DEF IInv

\* Finalize keeps the invariant: it has no effect on the projection, and its
\* verdict is about the very state it leaves.
LEMMA FinalizeKeeps == ASSUME IInv, FinalizeForm PROVE IInv'
  <1> DEFINE a == record_action("finalize", NoOp, 0)
             p == AcceptedPair(a, state, default_compute_cost("finalize", NoOp))
  <1>1. a \in Actions /\ a.prior = last_revision(log) /\ a.kind = "finalize"
    BY RecordActionType DEF IInv, Kinds
  <1>2. /\ p \in Pairs /\ p.status = "accepted" /\ p.kind = "finalize"
        /\ p.prior = last_revision(log) /\ p.revision = state_digest(state)
    BY <1>1, PairTypes, CostTypes DEF IInv, TypeOK
  <1>3. /\ log \in Seq(Pairs) /\ log' = Append(log, p) /\ state' = state
        /\ dangling' = NoAction
    BY DEF IInv, TypeOK, FinalizeForm
  <1>4. /\ HasLast(log') /\ last_revision(log') = state_digest(state')
        /\ log' \in Seq(Pairs) /\ LastAccepted(log') = Len(log) + 1
        /\ log'[Len(log) + 1] = p
    BY <1>2, <1>3, AppendAccepted, AppendFacts
  <1>5. TypeOK'
    <2>1. counters' \in Counters
      <3>1. default_compute_cost("finalize", NoOp) \in Int /\ counters \in Counters
        BY CostTypes DEF IInv, TypeOK
      <3>2. PICK c \in Int : counters' = [counters EXCEPT !.actions = @ + 1,
                                            !.evaluations = @ + 1, !.compute = @ + c]
        BY <3>1 DEF FinalizeForm, projected_counters
      <3>3. /\ counters.actions \in Nat /\ counters.evaluations \in Nat
            /\ counters.compute \in Int /\ counters.depth \in Int
        BY <3>1 DEF Counters
      <3>4. counters = [actions |-> counters.actions, evaluations |-> counters.evaluations,
                        compute |-> counters.compute, depth |-> counters.depth]
        BY <3>1 DEF Counters
      <3>5. counters' = [actions |-> counters.actions + 1,
                         evaluations |-> counters.evaluations + 1,
                         compute |-> counters.compute + c, depth |-> counters.depth]
        BY <3>2, <3>4
      <3> QED
        BY <3>3, <3>5 DEF Counters
    <2>2. status' \in Statuses
      BY DEF FinalizeForm, StatusOf, Statuses
    <2> QED
      BY <1>3, <1>4, <2>1, <2>2 DEF IInv, TypeOK
  <1>6. StateIsProjection'
    BY <1>2, <1>3, AppendWithoutEffect DEF IInv, StateIsProjection
  <1>7. ExportRehydrates'
    BY <1>2, <1>3, <1>4, PriorsChain DEF ExportRehydrates
  <1>8. RollbacksAreSound'
    BY <1>2, <1>3, RollbacksStaySound
  <1>9. CertifiedIsEarned'
    <2>1. status' = "certified" => SettledVerdict = "certified" /\ Verdict(state) = "certified"
      BY DEF FinalizeForm, StatusOf, SettledVerdict
    <2> QED
      BY <1>2, <1>3, <1>4, <2>1 DEF CertifiedIsEarned, FinalizeForm
  <1> QED
    BY <1>4, <1>5, <1>6, <1>7, <1>8, <1>9 DEF IInv

\* The invariant is inductive.
LEMMA InductiveStep == ASSUME IInv, [Next]_vars PROVE IInv'
  <1>1. CASE Next
    BY <1>1, StepForms, RejectKeeps, DangleKeeps, CommitKeeps, FinalizeKeeps, RebuildKeeps DEF Forms
  <1>2. CASE UNCHANGED vars
    BY <1>2 DEF vars, IInv, TypeOK, StateIsProjection, ExportRehydrates, RollbacksAreSound,
                CertifiedIsEarned
  <1> QED
    BY <1>1, <1>2

\* The inductive invariant holds of every session.
THEOREM InvariantHolds == Spec => []IInv
  <1>1. Init => IInv
    BY InitInvariant
  <1>2. IInv /\ [Next]_vars => IInv'
    BY InductiveStep
  <1> QED
    BY <1>1, <1>2, PTL DEF Spec

-----------------------------------------------------------------------------
(* What holds of every session, over any kernel and any budget *)

\* The session object is well typed: whatever kernel the runtime drives, its
\* log, counters, status and state stay in range (AgentRuntime).
THEOREM TypeCorrect == Spec => []TypeOK
  <1>1. IInv => TypeOK
    BY DEF IInv
  <1> QED
    BY <1>1, InvariantHolds, PTL

\* The visible state is always the projection of the live accepted actions
\* (_project_state and apply).
THEOREM ProjectionCorrect == Spec => []StateIsProjection
  <1>1. IInv => StateIsProjection
    BY DEF IInv
  <1> QED
    BY <1>1, InvariantHolds, PTL

\* Whatever export() writes, _rehydrate and from_export accept.
THEOREM ExportCorrect == Spec => []ExportRehydrates
  <1>1. IInv => ExportRehydrates
    BY DEF IInv
  <1> QED
    BY <1>1, InvariantHolds, PTL

\* An action is rolled back at most once, and only if it was an accepted
\* semantic one (_validate_rollback_target).
THEOREM RollbackCorrect == Spec => []RollbacksAreSound
  <1>1. IInv => RollbacksAreSound
    BY DEF IInv
  <1> QED
    BY <1>1, InvariantHolds, PTL

\* No history of calls, refusals, rollbacks and failed recordings certifies a
\* state the kernel does not certify (finalize and apply).
THEOREM CertificationCorrect == Spec => []CertifiedIsEarned
  <1>1. IInv => CertifiedIsEarned
    BY DEF IInv
  <1> QED
    BY <1>1, InvariantHolds, PTL

\* A settled session stays settled (the status gates of apply and finalize).
THEOREM SettlementCorrect == Spec => TerminalIsFinal
  <1> DEFINE Settled == status # "active" =>
                 /\ state' = state /\ status' = status /\ evaluation' = evaluation
                 /\ last_revision(log') = last_revision(log)
                 /\ Effects(log') = Effects(log)
  <1>1. ASSUME IInv, [Next]_vars PROVE [Settled]_vars
    <2>1. CASE RejectForm
      <3>1. log \in Seq(Pairs) /\ HasLast(log)
        BY <1>1 DEF IInv, TypeOK
      <3> QED
        BY <2>1, <3>1, AppendRejected, AppendWithoutEffect DEF RejectForm
    <2>2. CASE DangleForm
      BY <2>2 DEF DangleForm
    <2>3. CASE RebuildForm
      BY <1>1, <2>3, RebuildKeeps DEF RebuildForm
    <2>4. CASE CommitForm \/ FinalizeForm
      BY <2>4 DEF CommitForm, FinalizeForm
    <2>5. CASE UNCHANGED vars
      BY <2>5
    <2> QED
      BY <1>1, <2>1, <2>2, <2>3, <2>4, <2>5, StepForms DEF Forms
  <1> QED
    BY <1>1, InvariantHolds, PTL DEF Spec, TerminalIsFinal

\* No certificate is issued by the step that uses a budget up (finalize's
\* demotion, and the marking of apply).
THEOREM BudgetStopIsNoCertificate == Spec => NoCertificateOnExhaustedBudget
  <1> DEFINE Honest == status # "certified" /\ status' = "certified"
                          => ~budget_is_exhausted_for(counters')
  <1>1. ASSUME IInv, [Next]_vars PROVE [Honest]_vars
    <2>1. CASE RejectForm \/ DangleForm \/ RebuildForm
      BY <2>1 DEF RejectForm, DangleForm, RebuildForm
    <2>2. CASE CommitForm
      <3>1. status' # "certified"
        BY <2>2, MarkType DEF CommitForm, Commit, Statuses
      <3> QED
        BY <3>1
    <2>3. CASE FinalizeForm
      BY <2>3 DEF FinalizeForm, StatusOf, SettledVerdict
    <2>4. CASE UNCHANGED vars
      BY <2>4
    <2> QED
      BY <1>1, <2>1, <2>2, <2>3, <2>4, StepForms DEF Forms
  <1> QED
    BY <1>1, InvariantHolds, PTL DEF Spec, NoCertificateOnExhaustedBudget

(* The only thing that ever follows an ACTION without a RESULT is its own   *)
(* rejection: no call pairs it with another result (_close_dangling_action). *)
THEOREM DanglingClosedByRejection == Spec => DanglingIsOnlyRejected
  <1> DEFINE Closed == dangling # NoAction =>
                 \/ dangling' = dangling /\ log' = log
                 \/ /\ dangling' = NoAction
                    /\ log' = Append(log, RejectedPair(dangling, "recording_failed"))
  <1>1. ASSUME IInv, [Next]_vars PROVE [Closed]_vars
    <2>1. CASE RejectForm \/ DangleForm \/ RebuildForm
      BY <2>1 DEF RejectForm, DangleForm, RebuildForm
    <2>2. CASE CommitForm \/ FinalizeForm
      BY <2>2 DEF CommitForm, Commit, FinalizeForm
    <2>3. CASE UNCHANGED vars
      BY <2>3
    <2> QED
      BY <1>1, <2>1, <2>2, <2>3, StepForms DEF Forms
  <1> QED
    BY <1>1, InvariantHolds, PTL DEF Spec, DanglingIsOnlyRejected

-----------------------------------------------------------------------------
(* Sums of costs *)

SumStart(c)           == 0
SumStep(c, n, before) == before + c[n]
Sums == INSTANCE NatRecursion WITH Start <- SumStart, Step <- SumStep

\* The running sum is what its recursion says.
LEMMA RunningSumFacts ==
    ASSUME NEW c \in [Nat -> Int]
    PROVE  /\ RunningSum(c)[0] = 0
           /\ \A n \in Nat : /\ RunningSum(c)[n] \in Int
                             /\ RunningSum(c)[n + 1] = RunningSum(c)[n] + c[n + 1]
  <1> DEFINE Is(s) == s = [n \in Nat |-> IF n = 0 THEN 0 ELSE s[n - 1] + c[n]]
             sum   == RunningSum(c)
             K     == {n \in Nat : sum[n] \in Int}
  <1>1. PICK f : Sums!IsRecursion(c, f)
    BY Sums!RecursionExists
  <1>2. Is(f)
    BY <1>1 DEF Sums!IsRecursion, Sums!At, SumStart, SumStep
  <1>3. Is(sum)
    BY <1>2 DEF RunningSum
  <1> HIDE DEF sum
  <1>4. ASSUME NEW n \in Nat PROVE sum[n + 1] = sum[n] + c[n + 1]
    <2>1. n + 1 \in Nat /\ n + 1 # 0 /\ (n + 1) - 1 = n
      OBVIOUS
    <2>2. sum[n + 1] = sum[(n + 1) - 1] + c[n + 1]
      BY <1>3, <2>1
    <2> QED
      BY <2>1, <2>2
  <1>5. sum[0] = 0
    BY <1>3
  <1>6. 0 \in K /\ \A n \in Nat : n \in K => n + 1 \in K
    BY <1>4, <1>5
  <1> HIDE DEF K
  <1>7. Nat \subseteq K
    BY <1>6, Sums!Induction
  <1> QED
    BY <1>4, <1>5, <1>7 DEF K, sum

\* Sums over the same terms are the same.
LEMMA RunningSumsAgree ==
    ASSUME NEW c \in [Nat -> Int], NEW d \in [Nat -> Int], NEW n \in Nat,
           \A i \in 1..n : c[i] = d[i]
    PROVE  RunningSum(c)[n] = RunningSum(d)[n]
  <1> DEFINE K == {i \in Nat : i <= n => RunningSum(c)[i] = RunningSum(d)[i]}
  <1>1. 0 \in K
    BY RunningSumFacts
  <1>2. ASSUME NEW i \in Nat, i \in K PROVE i + 1 \in K
    <2>1. SUFFICES ASSUME i + 1 <= n PROVE RunningSum(c)[i + 1] = RunningSum(d)[i + 1]
      OBVIOUS
    <2>2. i + 1 \in 1..n /\ i <= n
      BY <2>1
    <2>3. RunningSum(c)[i] = RunningSum(d)[i] /\ c[i + 1] = d[i + 1]
      BY <1>2, <2>2
    <2> QED
      BY <2>3, RunningSumFacts
  <1> HIDE DEF K
  <1>3. Nat \subseteq K
    BY <1>1, <1>2, Sums!Induction
  <1> QED
    BY <1>3 DEF K

\* The sum of the costs at some positions of a trajectory.
CostOfPositions(l, S) == RunningSum(CostsAt(l, S))[Len(l)]

LEMMA CostsType ==
    ASSUME NEW l \in Seq(Pairs), NEW S \in SUBSET DOMAIN l
    PROVE  CostsAt(l, S) \in [Nat -> Int]
  <1>1. \A n \in S : l[n].cost \in Int
    <2> TAKE n \in S
    <2>1. l[n] \in Pairs
      OBVIOUS
    <2> QED
      BY <2>1 DEF Pairs
  <1> QED
    BY <1>1 DEF CostsAt

\* A new pair adds its cost, if its position counts, and nothing else.
LEMMA CostAppend ==
    ASSUME NEW l \in Seq(Pairs), NEW p \in Pairs, NEW S \in SUBSET DOMAIN l
    PROVE  /\ CostOfPositions(l, S) \in Int
           /\ CostOfPositions(Append(l, p), S) = CostOfPositions(l, S)
           /\ CostOfPositions(Append(l, p), S \cup {Len(l) + 1}) = CostOfPositions(l, S) + p.cost
  <1> DEFINE m == Append(l, p)
             n == Len(l)
             T == S \cup {n + 1}
  <1>1. /\ m \in Seq(Pairs) /\ n \in Nat /\ Len(m) = n + 1 /\ m[n + 1] = p
        /\ DOMAIN l = 1..n /\ DOMAIN m = 1..(n + 1)
        /\ \A i \in 1..n : m[i] = l[i]
    BY AppendFacts
  <1> HIDE DEF m
  <1>2. S \subseteq DOMAIN m /\ T \subseteq DOMAIN m
    BY <1>1
  <1>3. /\ CostsAt(l, S) \in [Nat -> Int] /\ CostsAt(m, S) \in [Nat -> Int]
        /\ CostsAt(m, T) \in [Nat -> Int]
    BY <1>1, <1>2, CostsType
  <1>4. \A i \in 1..n : /\ CostsAt(m, S)[i] = CostsAt(l, S)[i]
                        /\ CostsAt(m, T)[i] = CostsAt(l, S)[i]
    BY <1>1 DEF CostsAt
  <1>5. n + 1 \notin S /\ n + 1 \in Nat
    BY <1>1
  <1>6. CostsAt(m, S)[n + 1] = 0 /\ CostsAt(m, T)[n + 1] = p.cost
    BY <1>1, <1>5 DEF CostsAt
  <1> HIDE DEF T
  <1>7. RunningSum(CostsAt(l, S))[n] \in Int
    BY <1>1, <1>3, RunningSumFacts
  <1>8. /\ RunningSum(CostsAt(m, S))[n] = RunningSum(CostsAt(l, S))[n]
        /\ RunningSum(CostsAt(m, T))[n] = RunningSum(CostsAt(l, S))[n]
    BY <1>1, <1>3, <1>4, RunningSumsAgree
  <1>9. /\ RunningSum(CostsAt(m, S))[n + 1] = RunningSum(CostsAt(m, S))[n] + CostsAt(m, S)[n + 1]
        /\ RunningSum(CostsAt(m, T))[n + 1] = RunningSum(CostsAt(m, T))[n] + CostsAt(m, T)[n + 1]
    BY <1>1, <1>3, RunningSumFacts
  <1>10. /\ RunningSum(CostsAt(m, S))[n + 1] = RunningSum(CostsAt(l, S))[n]
         /\ RunningSum(CostsAt(m, T))[n + 1] = RunningSum(CostsAt(l, S))[n] + p.cost
    BY <1>6, <1>7, <1>8, <1>9
  <1>11. Len(m) = n + 1
    BY <1>1
  <1> QED
    BY <1>7, <1>10, <1>11 DEF CostOfPositions, T, m

-----------------------------------------------------------------------------
(* Counting positions *)

\* The positions of a trajectory that a counter or a cap counts.
RecordedAt(l)  == {i \in DOMAIN l : l[i].error # "recording_failed"}
EvaluatedAt(l) == {i \in DOMAIN l : /\ l[i].status = "accepted"
                                    /\ l[i].kind = "finalize" \/ l[i].op \in EvaluationOps}
SpentAt(l)     == {i \in DOMAIN l : l[i].status = "accepted" /\ l[i].kind # "finalize"}
SpentEvalAt(l) == {i \in SpentAt(l) : l[i].op \in EvaluationOps}

\* A set of positions is finite, and a new position counts one more.
LEMMA PositionCount ==
    ASSUME NEW l \in Seq(Pairs), NEW S \in SUBSET DOMAIN l
    PROVE  /\ IsFiniteSet(S)
           /\ Cardinality(S) \in Nat
           /\ Cardinality(S \cup {Len(l) + 1}) = Cardinality(S) + 1
           /\ \A T \in SUBSET S : Cardinality(T) <= Cardinality(S)
  <1>1. DOMAIN l = 1..Len(l) /\ Len(l) \in Nat /\ IsFiniteSet(1..Len(l)) /\ Len(l) + 1 \notin 1..Len(l)
    BY FS_Interval
  <1>2. IsFiniteSet(S)
    BY <1>1, FS_Subset
  <1>3. Len(l) + 1 \notin S
    BY <1>1
  <1> QED
    BY <1>2, <1>3, FS_AddElement, FS_CardinalityType, FS_Subset

\* What a new pair adds to the counted positions.
LEMMA AppendCounted ==
    ASSUME NEW l \in Seq(Pairs), NEW p \in Pairs
    PROVE  LET m == Append(l, p)
               One(counts) == IF counts THEN {Len(l) + 1} ELSE {}
           IN  /\ DOMAIN m = DOMAIN l \cup {Len(l) + 1}
               /\ RecordedAt(m) = RecordedAt(l) \cup One(p.error # "recording_failed")
               /\ EvaluatedAt(m) = EvaluatedAt(l)
                    \cup One(p.status = "accepted" /\ (p.kind = "finalize" \/ p.op \in EvaluationOps))
               /\ SpentAt(m) = SpentAt(l) \cup One(p.status = "accepted" /\ p.kind # "finalize")
               /\ SpentEvalAt(m) = SpentEvalAt(l)
                    \cup One(p.status = "accepted" /\ p.kind # "finalize" /\ p.op \in EvaluationOps)
  <1> DEFINE m == Append(l, p)
             n == Len(l) + 1
             One(counts) == IF counts THEN {n} ELSE {}
  <1>1. /\ DOMAIN m = DOMAIN l \cup {n} /\ n \notin DOMAIN l /\ m[n] = p
        /\ \A i \in DOMAIN l : m[i] = l[i]
    BY AppendFacts
  <1> HIDE DEF m, n
  <1>2. RecordedAt(m) = RecordedAt(l) \cup One(p.error # "recording_failed")
    BY <1>1 DEF RecordedAt
  <1>3. EvaluatedAt(m) = EvaluatedAt(l)
          \cup One(p.status = "accepted" /\ (p.kind = "finalize" \/ p.op \in EvaluationOps))
    BY <1>1 DEF EvaluatedAt
  <1>4. SpentAt(m) = SpentAt(l) \cup One(p.status = "accepted" /\ p.kind # "finalize")
    BY <1>1 DEF SpentAt
  <1>5. SpentEvalAt(m) = SpentEvalAt(l)
          \cup One(p.status = "accepted" /\ p.kind # "finalize" /\ p.op \in EvaluationOps)
    BY <1>1, <1>4 DEF SpentEvalAt, SpentAt
  <1> QED
    BY <1>1, <1>2, <1>3, <1>4, <1>5 DEF m, n

\* Using less is not beyond a cap that using more is not beyond.
LEMMA WithinCap ==
    ASSUME NEW cap \in Caps, NEW x \in Int, NEW y \in Int, x <= y, ~Beyond(y, cap)
    PROVE  ~Beyond(x, cap)
  BY BudgetAssumption DEF Beyond

-----------------------------------------------------------------------------
(* The budget *)

(* The counters are what the trajectory accounts for; while the session is *)
(* active nothing but accepted actions has cost anything, so the check of  *)
(* the counters is a check of what the actions spent.                      *)
BudgetInv ==
    /\ counters.actions = Cardinality(RecordedAt(log))
    /\ counters.evaluations = Cardinality(EvaluatedAt(log))
    /\ counters.compute = CostOfPositions(log, DOMAIN log)
    /\ SpentAt(log) \subseteq RecordedAt(log)
    /\ status = "active" => counters.compute = CostOfPositions(log, SpentAt(log))
    /\ Cardinality(SpentAt(log)) > 1 =>
          /\ ~Beyond(Cardinality(SpentAt(log)), MaxActions)
          /\ ~Beyond(CostOfPositions(log, SpentAt(log)), MaxCompute)
    /\ SpentEvalAt(log) # {} => ~Beyond(Cardinality(SpentEvalAt(log)), MaxEvaluations)

\* The constructor charges the start pair it records.
LEMMA InitBudget == Init => BudgetInv
  <1> SUFFICES ASSUME Init PROVE BudgetInv
    OBVIOUS
  <1>1. log = <<StartPair>> /\ StartPair \in Pairs /\ counters = StartCounters
    BY StartPairType DEF Init
  <1>2. << >> \in Seq(Pairs) /\ log = Append(<< >>, StartPair) /\ Len(<< >>) = 0 /\ DOMAIN << >> = {}
    BY <1>1
  <1>3. /\ StartPair.kind = "start" /\ StartPair.op = NoOp /\ StartPair.status = "accepted"
        /\ StartPair.cost = 1 /\ StartPair.error = "none" /\ NoOp \notin EvaluationOps
    BY KernelAssumption DEF StartPair
  <1>4. DOMAIN << >> = {} /\ RecordedAt(<< >>) = {} /\ EvaluatedAt(<< >>) = {} /\ SpentAt(<< >>) = {}
        /\ SpentEvalAt(<< >>) = {}
    BY <1>2 DEF RecordedAt, EvaluatedAt, SpentAt, SpentEvalAt
  <1>5. DOMAIN log = {1} /\ RecordedAt(log) = {1} /\ EvaluatedAt(log) = {} /\ SpentAt(log) = {1}
        /\ SpentEvalAt(log) = {}
    BY <1>1, <1>3 DEF RecordedAt, EvaluatedAt, SpentAt, SpentEvalAt
  <1>6. Cardinality({}) = 0 /\ Cardinality({1}) = 1
    BY FS_EmptySet, FS_Singleton
  <1>7. CostOfPositions(log, {} \cup {0 + 1}) = CostOfPositions(<< >>, {}) + 1
    BY <1>1, <1>2, <1>3, CostAppend
  <1>8. CostOfPositions(<< >>, {}) = 0
    <2>1. CostsAt(<< >>, {}) \in [Nat -> Int]
      BY <1>2, CostsType
    <2> QED
      BY <1>2, <2>1, RunningSumFacts DEF CostOfPositions
  <1>9. CostOfPositions(log, {1}) = 1
    BY <1>7, <1>8
  <1> QED
    BY <1>1, <1>2, <1>5, <1>6, <1>9 DEF BudgetInv, StartCounters

\* A rejection costs one action, and a failed recording nothing.
LEMMA RejectBudget == ASSUME IInv, BudgetInv, RejectForm PROVE BudgetInv'
  <1>1. PICK p \in Pairs :
            /\ p.status = "rejected" /\ p.cost = 0 /\ log' = Append(log, p)
            /\ \/ p.error = "refused" /\ counters' = [counters EXCEPT !.actions = @ + 1]
               \/ p.error = "recording_failed" /\ counters' = counters
    BY DEF RejectForm
  <1>2. log \in Seq(Pairs) /\ counters \in Counters /\ status' = status
    BY DEF IInv, TypeOK, RejectForm
  <1>3. /\ DOMAIN log' = DOMAIN log \cup {Len(log) + 1} /\ EvaluatedAt(log') = EvaluatedAt(log)
        /\ SpentAt(log') = SpentAt(log) /\ SpentEvalAt(log') = SpentEvalAt(log)
        /\ p.error = "refused" => RecordedAt(log') = RecordedAt(log) \cup {Len(log) + 1}
        /\ p.error = "recording_failed" => RecordedAt(log') = RecordedAt(log)
    BY <1>1, <1>2, AppendCounted
  <1>4. SpentAt(log) \subseteq DOMAIN log /\ RecordedAt(log) \subseteq DOMAIN log
    BY DEF SpentAt, RecordedAt
  <1>5. /\ CostOfPositions(log', DOMAIN log') = CostOfPositions(log, DOMAIN log)
        /\ CostOfPositions(log', SpentAt(log')) = CostOfPositions(log, SpentAt(log))
    <2>1. /\ CostOfPositions(log, DOMAIN log) \in Int
          /\ CostOfPositions(log', DOMAIN log') = CostOfPositions(log, DOMAIN log) + p.cost
      BY <1>1, <1>2, <1>3, CostAppend
    <2>2. CostOfPositions(log', DOMAIN log') = CostOfPositions(log, DOMAIN log)
      BY <1>1, <2>1
    <2>3. CostOfPositions(Append(log, p), SpentAt(log)) = CostOfPositions(log, SpentAt(log))
      BY <1>2, <1>4, CostAppend
    <2> QED
      BY <1>1, <1>3, <2>2, <2>3
  <1>6. /\ Cardinality(RecordedAt(log) \cup {Len(log) + 1}) = Cardinality(RecordedAt(log)) + 1
    BY <1>2, <1>4, PositionCount
  <1>7. counters'.actions = Cardinality(RecordedAt(log'))
    BY <1>1, <1>2, <1>3, <1>6 DEF BudgetInv, Counters
  <1>8. counters'.evaluations = counters.evaluations /\ counters'.compute = counters.compute
    BY <1>1, <1>2 DEF Counters
  <1>9. SpentAt(log') \subseteq RecordedAt(log')
    BY <1>1, <1>3 DEF BudgetInv
  <1> QED
    BY <1>2, <1>3, <1>5, <1>7, <1>8, <1>9 DEF BudgetInv

\* An accepted action is charged what was checked.
LEMMA CommitBudget == ASSUME IInv, BudgetInv, CommitForm PROVE BudgetInv'
  <1>1. PICK a \in Actions, new \in KernelStates, cost \in Int :
            /\ a.kind \in {"start", "semantic", "rollback"}
            /\ ~budget_violation(a.op, cost)
            /\ Commit(a, new, cost)
    BY DEF CommitForm
  <1> DEFINE p == AcceptedPair(a, new, cost)
             n == Len(log) + 1
             isEval == a.op \in EvaluationOps
  <1>2. /\ p \in Pairs /\ p.status = "accepted" /\ p.kind = a.kind /\ p.op = a.op
        /\ p.cost = cost /\ p.error = "none" /\ a.kind # "finalize"
    BY <1>1, PairTypes
  <1>3. /\ log \in Seq(Pairs) /\ log' = Append(log, p) /\ counters \in Counters
        /\ counters' = candidate_counters(a.op, cost, new) /\ status = "active"
    BY <1>1 DEF IInv, TypeOK, Commit, CommitForm
  <1> HIDE DEF p
  <1>4. /\ DOMAIN log' = DOMAIN log \cup {n} /\ RecordedAt(log') = RecordedAt(log) \cup {n}
        /\ SpentAt(log') = SpentAt(log) \cup {n}
        /\ isEval => /\ EvaluatedAt(log') = EvaluatedAt(log) \cup {n}
                     /\ SpentEvalAt(log') = SpentEvalAt(log) \cup {n}
        /\ ~isEval => /\ EvaluatedAt(log') = EvaluatedAt(log)
                      /\ SpentEvalAt(log') = SpentEvalAt(log)
    BY <1>2, <1>3, AppendCounted
  <1>5. /\ SpentAt(log) \subseteq RecordedAt(log) \cup DOMAIN log /\ RecordedAt(log) \subseteq DOMAIN log
        /\ EvaluatedAt(log) \subseteq DOMAIN log /\ SpentEvalAt(log) \subseteq EvaluatedAt(log)
        /\ SpentAt(log) \subseteq DOMAIN log
    BY DEF SpentAt, RecordedAt, EvaluatedAt, SpentEvalAt
  <1>6. /\ CostOfPositions(log', DOMAIN log') = CostOfPositions(log, DOMAIN log) + cost
        /\ CostOfPositions(log', SpentAt(log')) = CostOfPositions(log, SpentAt(log)) + cost
    BY <1>2, <1>3, <1>4, <1>5, CostAppend
  <1>7. /\ Cardinality(RecordedAt(log')) = Cardinality(RecordedAt(log)) + 1
        /\ Cardinality(SpentAt(log')) <= Cardinality(RecordedAt(log'))
        /\ Cardinality(SpentAt(log')) \in Nat /\ Cardinality(RecordedAt(log')) \in Nat
        /\ SpentAt(log') \subseteq RecordedAt(log')
    <2>1. SpentAt(log') \subseteq RecordedAt(log') /\ RecordedAt(log') \subseteq DOMAIN log'
      BY <1>4, <1>5 DEF BudgetInv
    <2>2. log' \in Seq(Pairs)
      BY <1>2, <1>3, AppendFacts
    <2>3. /\ Cardinality(SpentAt(log')) <= Cardinality(RecordedAt(log'))
          /\ Cardinality(RecordedAt(log')) \in Nat
      BY <2>1, <2>2, PositionCount
    <2>4. Cardinality(SpentAt(log')) \in Nat
      <3>1. SpentAt(log') \subseteq DOMAIN log'
        BY <2>1
      <3> QED
        BY <2>2, <3>1, PositionCount
    <2>5. Cardinality(RecordedAt(log')) = Cardinality(RecordedAt(log)) + 1
      BY <1>3, <1>4, <1>5, PositionCount
    <2> QED
      BY <2>1, <2>3, <2>4, <2>5
  <1>8. isEval => /\ Cardinality(EvaluatedAt(log')) = Cardinality(EvaluatedAt(log)) + 1
                  /\ Cardinality(SpentEvalAt(log')) = Cardinality(SpentEvalAt(log)) + 1
                  /\ Cardinality(SpentEvalAt(log)) <= Cardinality(EvaluatedAt(log))
                  /\ Cardinality(SpentEvalAt(log)) \in Nat
                  /\ Cardinality(EvaluatedAt(log)) \in Nat
    <2>1. SpentEvalAt(log) \subseteq DOMAIN log /\ EvaluatedAt(log) \subseteq DOMAIN log
      BY <1>5
    <2>2. /\ Cardinality(SpentEvalAt(log)) \in Nat
          /\ Cardinality(SpentEvalAt(log) \cup {n}) = Cardinality(SpentEvalAt(log)) + 1
      BY <1>3, <2>1, PositionCount
    <2>3. /\ Cardinality(EvaluatedAt(log)) \in Nat
          /\ Cardinality(EvaluatedAt(log) \cup {n}) = Cardinality(EvaluatedAt(log)) + 1
      BY <1>3, <2>1, PositionCount
    <2>4. Cardinality(SpentEvalAt(log)) <= Cardinality(EvaluatedAt(log))
      BY <1>3, <1>5, <2>1, PositionCount
    <2> QED
      BY <1>4, <2>2, <2>3, <2>4
  <1>9. /\ counters'.actions = counters.actions + 1
        /\ counters'.evaluations = IF isEval THEN counters.evaluations + 1 ELSE counters.evaluations
        /\ counters'.compute = counters.compute + cost
    BY <1>3 DEF candidate_counters, Counters
  <1>10. /\ counters'.actions = Cardinality(RecordedAt(log'))
         /\ counters'.evaluations = Cardinality(EvaluatedAt(log'))
         /\ counters'.compute = CostOfPositions(log', DOMAIN log')
         /\ counters'.compute = CostOfPositions(log', SpentAt(log'))
    BY <1>3, <1>4, <1>6, <1>7, <1>8, <1>9 DEF BudgetInv
  <1>11. /\ ~Beyond(counters'.actions, MaxActions)
         /\ isEval => ~Beyond(counters'.evaluations, MaxEvaluations)
         /\ ~Beyond(counters'.compute, MaxCompute)
    BY <1>1, <1>9 DEF budget_violation
  <1>12. ~Beyond(Cardinality(SpentAt(log')), MaxActions)
    BY <1>7, <1>10, <1>11, WithinCap DEF Caps
  <1>13. isEval => ~Beyond(Cardinality(SpentEvalAt(log')), MaxEvaluations)
    <2>1. MaxEvaluations \in Caps
      BY DEF Caps
    <2>2. isEval => /\ Cardinality(SpentEvalAt(log')) <= Cardinality(EvaluatedAt(log'))
                    /\ Cardinality(SpentEvalAt(log')) \in Int
                    /\ Cardinality(EvaluatedAt(log')) \in Int
      BY <1>8
    <2> QED
      BY <1>10, <1>11, <2>1, <2>2, WithinCap
  <1>14. SpentEvalAt(log') # {} => ~Beyond(Cardinality(SpentEvalAt(log')), MaxEvaluations)
    BY <1>4, <1>13 DEF BudgetInv
  <1>15. ~Beyond(CostOfPositions(log', SpentAt(log')), MaxCompute)
    BY <1>10, <1>11
  <1> QED
    BY <1>7, <1>10, <1>12, <1>14, <1>15 DEF BudgetInv

\* Finalize is charged outside the caps, and ends the active session.
LEMMA FinalizeBudget == ASSUME IInv, BudgetInv, FinalizeForm PROVE BudgetInv'
  <1> DEFINE cost == default_compute_cost("finalize", NoOp)
             p == AcceptedPair(record_action("finalize", NoOp, 0), state, cost)
             n == Len(log) + 1
  <1>1. /\ p \in Pairs /\ p.status = "accepted" /\ p.kind = "finalize"
        /\ p.cost = cost /\ p.error = "none" /\ cost \in Int
    <2>1. /\ record_action("finalize", NoOp, 0) \in Actions
          /\ record_action("finalize", NoOp, 0).kind = "finalize"
      BY RecordActionType DEF IInv, Kinds
    <2> QED
      BY <2>1, PairTypes, CostTypes DEF IInv, TypeOK
  <1>2. /\ log \in Seq(Pairs) /\ log' = Append(log, p) /\ counters \in Counters
        /\ counters' = [counters EXCEPT !.actions = @ + 1, !.evaluations = @ + 1,
                                       !.compute = @ + cost]
        /\ status' # "active"
    BY DEF IInv, TypeOK, FinalizeForm, StatusOf, projected_counters
  <1> HIDE DEF p, cost
  <1>3. /\ DOMAIN log' = DOMAIN log \cup {n} /\ RecordedAt(log') = RecordedAt(log) \cup {n}
        /\ EvaluatedAt(log') = EvaluatedAt(log) \cup {n}
        /\ SpentAt(log') = SpentAt(log) /\ SpentEvalAt(log') = SpentEvalAt(log)
    BY <1>1, <1>2, AppendCounted
  <1>4. /\ RecordedAt(log) \subseteq DOMAIN log /\ EvaluatedAt(log) \subseteq DOMAIN log
        /\ SpentAt(log) \subseteq DOMAIN log
    BY DEF SpentAt, RecordedAt, EvaluatedAt
  <1>5. CostOfPositions(log', DOMAIN log') = CostOfPositions(log, DOMAIN log) + cost
    BY <1>1, <1>2, <1>3, CostAppend
  <1>6. CostOfPositions(log', SpentAt(log')) = CostOfPositions(log, SpentAt(log))
    BY <1>1, <1>2, <1>3, <1>4, CostAppend
  <1>7. /\ Cardinality(RecordedAt(log')) = Cardinality(RecordedAt(log)) + 1
        /\ Cardinality(EvaluatedAt(log')) = Cardinality(EvaluatedAt(log)) + 1
    BY <1>2, <1>3, <1>4, PositionCount
  <1>8. /\ counters'.actions = counters.actions + 1
        /\ counters'.evaluations = counters.evaluations + 1
        /\ counters'.compute = counters.compute + cost
    BY <1>2 DEF Counters
  <1> QED
    BY <1>2, <1>3, <1>5, <1>6, <1>7, <1>8 DEF BudgetInv

\* The budget invariant is inductive relative to IInv.
LEMMA BudgetStep == ASSUME IInv, BudgetInv, [Next]_vars PROVE BudgetInv'
  <1>1. CASE DangleForm \/ RebuildForm
    BY <1>1 DEF DangleForm, RebuildForm, BudgetInv
  <1>2. CASE UNCHANGED vars
    BY <1>2 DEF vars, BudgetInv
  <1> QED
    BY <1>1, <1>2, StepForms, RejectBudget, CommitBudget, FinalizeBudget DEF Forms

\* The budget invariant holds of every session.
THEOREM BudgetHolds == Spec => []BudgetInv
  <1>1. Init => BudgetInv
    BY InitBudget
  <1>2. IInv /\ BudgetInv /\ [Next]_vars => BudgetInv'
    BY BudgetStep
  <1> QED
    BY <1>1, <1>2, InvariantHolds, PTL DEF Spec

(* The counters agree with the trajectory: no sequence of refusals, failed *)
(* recordings, rollbacks and verdicts charges an action that the history   *)
(* does not show, or forgets one (_record_rejected, _commit_state).        *)
THEOREM CountersCorrect == Spec => []CountersMatchLog
  <1>1. BudgetInv => CountersMatchLog
    BY DEF BudgetInv, CountersMatchLog, RecordedAt, EvaluatedAt, CostOfPositions, TotalCost,
           Positions
  <1> QED
    BY <1>1, BudgetHolds, PTL

(* Accepted actions stay within the policy, by the history's own account:  *)
(* whatever a caller states as a cost, a session that has recorded more    *)
(* than its start has not spent beyond a cap (_budget_violation).          *)
THEOREM CapsCorrect == Spec => []SpendingWithinCaps
  <1>1. BudgetInv => SpendingWithinCaps
    BY DEF BudgetInv, SpendingWithinCaps, SpentAt, SpentEvalAt, CostOfPositions, TotalCost,
           Positions
  <1> QED
    BY <1>1, BudgetHolds, PTL

-----------------------------------------------------------------------------
(* What a projection computes *)

ProjectionStart(effects)           == InitialState
ProjectionStep(effects, n, before) ==
    IF n \in DOMAIN effects /\ before # NoState THEN Execute(effects[n], before) ELSE before
Projections == INSTANCE NatRecursion WITH Start <- ProjectionStart, Step <- ProjectionStep

\* The states of a projection are what their recursion says.
LEMMA StatesAfterFacts ==
    ASSUME NEW e
    PROVE  /\ StatesAfter(e)[0] = InitialState
           /\ \A n \in Nat : StatesAfter(e)[n + 1] = ProjectionStep(e, n + 1, StatesAfter(e)[n])
  <1> DEFINE Is(s) == s = [n \in Nat |-> IF n = 0 THEN InitialState ELSE ProjectionStep(e, n, s[n - 1])]
             after == StatesAfter(e)
  <1>1. PICK f : Projections!IsRecursion(e, f)
    BY Projections!RecursionExists
  <1>2. Is(f)
    BY <1>1 DEF Projections!IsRecursion, Projections!At, ProjectionStart
  <1>3. Is(after)
    BY <1>2 DEF StatesAfter, ProjectionStep
  <1> HIDE DEF after
  <1>4. ASSUME NEW n \in Nat PROVE after[n + 1] = ProjectionStep(e, n + 1, after[n])
    <2>1. n + 1 \in Nat /\ n + 1 # 0 /\ (n + 1) - 1 = n
      OBVIOUS
    <2>2. after[n + 1] = ProjectionStep(e, n + 1, after[(n + 1) - 1])
      BY <1>3, <2>1
    <2> QED
      BY <2>1, <2>2
  <1>5. after[0] = InitialState
    BY <1>3
  <1> QED
    BY <1>4, <1>5 DEF after

\* Effects that are the same up to a position lead to the same state there.
LEMMA StatesAgree ==
    ASSUME NEW e, NEW f, NEW n \in Nat,
           \A i \in 1..n : /\ i \in DOMAIN e <=> i \in DOMAIN f
                           /\ i \in DOMAIN e => e[i] = f[i]
    PROVE  StatesAfter(e)[n] = StatesAfter(f)[n]
  <1> DEFINE K == {i \in Nat : i <= n => StatesAfter(e)[i] = StatesAfter(f)[i]}
  <1>1. 0 \in K
    BY StatesAfterFacts
  <1>2. ASSUME NEW i \in Nat, i \in K PROVE i + 1 \in K
    <2>1. SUFFICES ASSUME i + 1 <= n PROVE StatesAfter(e)[i + 1] = StatesAfter(f)[i + 1]
      OBVIOUS
    <2>2. i + 1 \in 1..n /\ i <= n
      BY <2>1
    <2>3. StatesAfter(e)[i] = StatesAfter(f)[i]
      BY <1>2, <2>2
    <2>4. \A s : ProjectionStep(e, i + 1, s) = ProjectionStep(f, i + 1, s)
      BY <2>2 DEF ProjectionStep
    <2> QED
      BY <2>3, <2>4, StatesAfterFacts
  <1> HIDE DEF K
  <1>3. Nat \subseteq K
    BY <1>1, <1>2, Projections!Induction
  <1> QED
    BY <1>3 DEF K

\* Without effects after a position the state stays.
LEMMA StatesStay ==
    ASSUME NEW e, NEW m \in Nat, NEW n \in Nat, m <= n, \A i \in (m + 1)..n : i \notin DOMAIN e
    PROVE  StatesAfter(e)[n] = StatesAfter(e)[m]
  <1> DEFINE K == {i \in Nat : m + i <= n => StatesAfter(e)[m + i] = StatesAfter(e)[m]}
  <1>1. 0 \in K
    OBVIOUS
  <1>2. ASSUME NEW i \in Nat, i \in K PROVE i + 1 \in K
    <2>1. SUFFICES ASSUME m + (i + 1) <= n PROVE StatesAfter(e)[m + (i + 1)] = StatesAfter(e)[m]
      OBVIOUS
    <2>2. /\ m + i \in Nat /\ (m + i) + 1 = m + (i + 1) /\ m + i <= n
          /\ (m + i) + 1 \in (m + 1)..n
      BY <2>1
    <2>3. StatesAfter(e)[m + i] = StatesAfter(e)[m]
      BY <1>2, <2>2
    <2>4. StatesAfter(e)[(m + i) + 1] = ProjectionStep(e, (m + i) + 1, StatesAfter(e)[m + i])
      BY <2>2, StatesAfterFacts
    <2>5. StatesAfter(e)[(m + i) + 1] = StatesAfter(e)[m + i]
      BY <2>2, <2>4 DEF ProjectionStep
    <2> QED
      BY <2>2, <2>3, <2>5
  <1> HIDE DEF K
  <1>3. Nat \subseteq K
    BY <1>1, <1>2, Projections!Induction
  <1>4. n - m \in Nat /\ m + (n - m) = n
    OBVIOUS
  <1>5. n - m \in K
    BY <1>3, <1>4
  <1> QED
    BY <1>4, <1>5 DEF K

\* Positions up to a bound have a last one.
LEMMA LastOfExists ==
    ASSUME NEW n \in Nat, NEW S \in SUBSET (1..n), S # {}
    PROVE  LastOf(S) \in S /\ \A i \in S : i <= LastOf(S)
  <1> DEFINE K == {m \in Nat : (\E i \in S : i + m >= n) =>
                                 (\E j \in S : \A i \in S : i <= j)}
  <1>1. 0 \in K
    OBVIOUS
  <1>2. ASSUME NEW m \in Nat, m \in K PROVE m + 1 \in K
    <2>1. SUFFICES ASSUME NEW i \in S, i + (m + 1) >= n
                   PROVE  \E j \in S : \A k \in S : k <= j
      OBVIOUS
    <2>2. CASE \E k \in S : k > i
      <3>1. PICK k \in S : k > i
        BY <2>2
      <3>2. k + m >= n
        BY <2>1, <3>1
      <3> QED
        BY <1>2, <3>2
    <2>3. CASE \A k \in S : k <= i
      BY <2>3
    <2> QED
      BY <2>2, <2>3
  <1> HIDE DEF K
  <1>3. Nat \subseteq K
    BY <1>1, <1>2, Projections!Induction
  <1>4. PICK i \in S : TRUE
    OBVIOUS
  <1>5. i + n >= n /\ n \in K
    BY <1>3
  <1>6. \E j \in S : \A k \in S : k <= j
    BY <1>5 DEF K
  <1> QED
    BY <1>6 DEF LastOf

\* A projection is the state after all positions of its trajectory.
LEMMA ProjectIsLast ==
    ASSUME NEW e, NEW n \in Nat, DOMAIN e \subseteq 1..n
    PROVE  Project(e) = StatesAfter(e)[n]
  <1>1. CASE DOMAIN e = {}
    <2>1. StatesAfter(e)[n] = StatesAfter(e)[0]
      BY <1>1, StatesStay
    <2> QED
      BY <1>1, <2>1, StatesAfterFacts DEF Project
  <1>2. CASE DOMAIN e # {}
    <2> DEFINE m == LastOf(DOMAIN e)
    <2>1. m \in 1..n /\ \A i \in DOMAIN e : i <= m
      BY <1>2, LastOfExists
    <2>2. StatesAfter(e)[n] = StatesAfter(e)[m]
      BY <2>1, StatesStay
    <2> QED
      BY <1>2, <2>2 DEF Project
  <1> QED
    BY <1>1, <1>2

-----------------------------------------------------------------------------
(* Prefixes of a trajectory *)

Upto(l, i)      == SubSeq(l, 1, i)
ProjectAt(l, i) == Project(Effects(Upto(l, i)))

\* A prefix is the prefix before it and one more pair.
LEMMA PrefixFacts ==
    ASSUME NEW l \in Seq(Pairs), NEW i \in Nat, i <= Len(l)
    PROVE  /\ Upto(l, i) \in Seq(Pairs)
           /\ Len(Upto(l, i)) = i
           /\ DOMAIN Upto(l, i) = 1..i
           /\ \A j \in 1..i : Upto(l, i)[j] = l[j]
           /\ i < Len(l) => Upto(l, i + 1) = Append(Upto(l, i), l[i + 1])
  BY DEF Upto

\* The effects of a prefix are at its positions.
LEMMA EffectsDomain ==
    ASSUME NEW l \in Seq(Pairs)
    PROVE  DOMAIN Effects(l) \subseteq 1..Len(l)
  BY DEF Effects

\* An accepted semantic action that no rollback names yet is one more effect.
LEMMA AppendSemantic ==
    ASSUME NEW l \in Seq(Pairs), NEW p \in Pairs, p.status = "accepted", p.kind = "semantic",
           Len(l) + 1 \notin rolled_back_sequences(l)
    PROVE  /\ DOMAIN Effects(Append(l, p)) = DOMAIN Effects(l) \cup {Len(l) + 1}
           /\ Effects(Append(l, p))[Len(l) + 1] = p.op
           /\ \A i \in DOMAIN Effects(l) : Effects(Append(l, p))[i] = Effects(l)[i]
  <1> DEFINE m == Append(l, p)
             n == Len(l) + 1
             Live(k) == {j \in DOMAIN k : /\ IsAccepted(k, j) /\ k[j].kind = "semantic"
                                          /\ j \notin rolled_back_sequences(k)}
             Undone(k) == {j \in DOMAIN k : IsAccepted(k, j) /\ k[j].kind = "rollback"}
  <1>1. /\ \A j \in DOMAIN l : j \in DOMAIN m /\ m[j] = l[j]
        /\ \A j \in DOMAIN m : j \in DOMAIN l \/ j = n
        /\ n \in DOMAIN m /\ m[n] = p /\ n \notin DOMAIN l
    BY AppendFacts
  <1> HIDE DEF m, n
  <1>2. Undone(m) = Undone(l)
    BY <1>1 DEF IsAccepted
  <1>3. \A j \in Undone(l) : m[j].target = l[j].target
    BY <1>1
  <1>4. rolled_back_sequences(m) = {m[i].target : i \in Undone(m)}
    BY DEF rolled_back_sequences
  <1>5. rolled_back_sequences(l) = {l[i].target : i \in Undone(l)}
    BY DEF rolled_back_sequences
  <1>6. rolled_back_sequences(m) = rolled_back_sequences(l)
    BY <1>2, <1>3, <1>4, <1>5
  <1>7. n \notin rolled_back_sequences(l)
    BY DEF n
  <1>8. Live(m) = Live(l) \cup {n}
    BY <1>1, <1>6, <1>7 DEF IsAccepted
  <1>9. Effects(m) = [j \in Live(m) |-> m[j].op] /\ Effects(l) = [j \in Live(l) |-> l[j].op]
    BY DEF Effects
  <1>10. \A j \in Live(l) : m[j] = l[j]
    BY <1>1
  <1> HIDE DEF Live
  <1>11. /\ DOMAIN Effects(m) = DOMAIN Effects(l) \cup {n} /\ Effects(m)[n] = m[n].op
         /\ \A j \in DOMAIN Effects(l) : Effects(m)[j] = Effects(l)[j]
    BY <1>8, <1>9, <1>10
  <1> QED
    BY <1>1, <1>11 DEF m, n

\* The rollbacks of a prefix are rollbacks of the whole trajectory.
LEMMA PrefixRollbacks ==
    ASSUME NEW l \in Seq(Pairs), NEW i \in Nat, i <= Len(l)
    PROVE  rolled_back_sequences(Upto(l, i)) \subseteq rolled_back_sequences(l)
  <1>1. \A j \in DOMAIN Upto(l, i) : j \in DOMAIN l /\ Upto(l, i)[j] = l[j]
    BY PrefixFacts
  <1> QED
    BY <1>1 DEF rolled_back_sequences, IsAccepted

\* What a pair does to the projection of the prefix before it.
LEMMA ProjectStep ==
    ASSUME NEW l \in Seq(Pairs), NEW i \in Nat, i < Len(l)
    PROVE  /\ ~IsAccepted(l, i + 1) => ProjectAt(l, i + 1) = ProjectAt(l, i)
           /\ /\ IsAccepted(l, i + 1) /\ l[i + 1].kind = "semantic"
              /\ i + 1 \notin rolled_back_sequences(l)
              => ProjectAt(l, i + 1) = IF ProjectAt(l, i) # NoState
                                       THEN Execute(l[i + 1].op, ProjectAt(l, i)) ELSE NoState
  <1> DEFINE k == Upto(l, i)
             p == l[i + 1]
             n == i + 1
  <1>1. /\ k \in Seq(Pairs) /\ p \in Pairs /\ Len(k) = i /\ Upto(l, n) = Append(k, p)
        /\ n \in Nat /\ i <= Len(l)
    BY PrefixFacts
  <1> HIDE DEF k, p
  <1>2. CASE ~IsAccepted(l, i + 1)
    <2>1. p.status # "accepted"
      BY <1>2 DEF IsAccepted, p
    <2>2. Effects(Append(k, p)) = Effects(k)
      BY <1>1, <2>1, AppendWithoutEffect
    <2> QED
      BY <1>1, <1>2, <2>2 DEF ProjectAt, k
  <1>3. ASSUME IsAccepted(l, i + 1), l[i + 1].kind = "semantic",
               i + 1 \notin rolled_back_sequences(l)
        PROVE  ProjectAt(l, n) = IF ProjectAt(l, i) # NoState
                                 THEN Execute(l[n].op, ProjectAt(l, i)) ELSE NoState
    <2> DEFINE e == Effects(k)
               f == Effects(Append(k, p))
    <2>1. p.status = "accepted" /\ p.kind = "semantic" /\ n \notin rolled_back_sequences(k)
      BY <1>1, <1>3, PrefixRollbacks DEF IsAccepted, p, k
    <2>2. DOMAIN f = DOMAIN e \cup {n} /\ f[n] = p.op /\ \A j \in DOMAIN e : f[j] = e[j]
      BY <1>1, <2>1, AppendSemantic
    <2>3. DOMAIN e \subseteq 1..i
      BY <1>1, EffectsDomain
    <2> HIDE DEF e, f
    <2>4. DOMAIN f \subseteq 1..n
      BY <2>2, <2>3
    <2>5. Project(e) = StatesAfter(e)[i] /\ Project(f) = StatesAfter(f)[n]
      BY <1>1, <2>3, <2>4, ProjectIsLast
    <2>6. \A j \in 1..i : /\ j \in DOMAIN e <=> j \in DOMAIN f
                          /\ j \in DOMAIN e => e[j] = f[j]
      BY <2>2
    <2>7. StatesAfter(e)[i] = StatesAfter(f)[i]
      BY <2>6, StatesAgree
    <2>8. StatesAfter(f)[n] = ProjectionStep(f, n, StatesAfter(f)[i])
      BY StatesAfterFacts
    <2>9. Project(f) = IF Project(e) # NoState THEN Execute(p.op, Project(e)) ELSE NoState
      BY <2>2, <2>5, <2>7, <2>8 DEF ProjectionStep
    <2>10. ProjectAt(l, i) = Project(e) /\ ProjectAt(l, n) = Project(f)
      BY <1>1 DEF ProjectAt, e, f, k
    <2> QED
      BY <2>9, <2>10 DEF p
  <1> QED
    BY <1>2, <1>3

\* The empty prefix projects to the initial state.
LEMMA ProjectNothing == ASSUME NEW l \in Seq(Pairs) PROVE ProjectAt(l, 0) = InitialState
  <1>1. Upto(l, 0) \in Seq(Pairs) /\ Len(Upto(l, 0)) = 0
    BY PrefixFacts
  <1>2. DOMAIN Effects(Upto(l, 0)) = {}
    <2>1. DOMAIN Effects(Upto(l, 0)) \subseteq 1..0
      BY <1>1, EffectsDomain
    <2> QED
      BY <2>1
  <1> QED
    BY <1>2, EmptyProjection DEF ProjectAt

-----------------------------------------------------------------------------
(* Replaying a trajectory *)

Sandbox(s)      == [state |-> s, mismatches |-> {}, broken |-> FALSE]
SandboxStart(l) == Sandbox(InitialState)
Replays == INSTANCE NatRecursion WITH Start <- SandboxStart, Step <- ReplayStep

\* The sandboxes of a replay are what their recursion says.
LEMMA SandboxFacts ==
    ASSUME NEW l
    PROVE  /\ Sandboxes(l)[0] = Sandbox(InitialState)
           /\ \A i \in Nat : Sandboxes(l)[i + 1] = ReplayStep(l, i + 1, Sandboxes(l)[i])
  <1> DEFINE Is(s) == s = [i \in Nat |-> IF i = 0 THEN Sandbox(InitialState)
                                         ELSE ReplayStep(l, i, s[i - 1])]
             upto == Sandboxes(l)
  <1>1. PICK f : Replays!IsRecursion(l, f)
    BY Replays!RecursionExists
  <1>2. Is(f)
    BY <1>1 DEF Replays!IsRecursion, Replays!At, SandboxStart
  <1>3. Is(upto)
    BY <1>2 DEF Sandboxes, Sandbox
  <1> HIDE DEF upto
  <1>4. ASSUME NEW i \in Nat PROVE upto[i + 1] = ReplayStep(l, i + 1, upto[i])
    <2>1. i + 1 \in Nat /\ i + 1 # 0 /\ (i + 1) - 1 = i
      OBVIOUS
    <2>2. upto[i + 1] = ReplayStep(l, i + 1, upto[(i + 1) - 1])
      BY <1>3, <2>1
    <2> QED
      BY <2>1, <2>2
  <1>5. upto[0] = Sandbox(InitialState)
    BY <1>3
  <1> QED
    BY <1>4, <1>5 DEF upto

\* A matching step moves the sandbox to what it computed; a skipped one does not.
LEMMA ReplayStepFacts ==
    ASSUME NEW l, NEW i, NEW s,
           NEW new, new = IF l[i].kind = "semantic" THEN Execute(l[i].op, s) ELSE ProjectAt(l, i)
    PROVE  /\ ~IsAccepted(l, i) \/ i \in rolled_back_sequences(l)
              => ReplayStep(l, i, Sandbox(s)) = Sandbox(s)
           /\ /\ IsAccepted(l, i) /\ i \notin rolled_back_sequences(l)
              /\ new # NoState /\ l[i].revision = state_digest(new)
              => ReplayStep(l, i, Sandbox(s)) = Sandbox(new)
  BY DEF ReplayStep, Sandbox, ProjectAt, Upto

(* Every accepted pair carries the digest of the projection at its place,  *)
(* which a kernel state is.  It is what a replay compares with.            *)
RevisionsAreProjections ==
    \A i \in DOMAIN log : IsAccepted(log, i) =>
        /\ ProjectAt(log, i) \in KernelStates
        /\ log[i].revision = state_digest(ProjectAt(log, i))

\* It holds of the pair that ends a trajectory whose current revision is that
\* of its projection.
LEMMA RevisionAtEnd ==
    ASSUME NEW l \in Seq(Pairs), NEW p \in Pairs, p.status = "accepted",
           Project(Effects(Append(l, p))) \in KernelStates,
           last_revision(Append(l, p)) = state_digest(Project(Effects(Append(l, p))))
    PROVE  LET n == Len(l) + 1
           IN  /\ ProjectAt(Append(l, p), n) \in KernelStates
               /\ p.revision = state_digest(ProjectAt(Append(l, p), n))
  <1> DEFINE m == Append(l, p)
             n == Len(l) + 1
  <1>1. Upto(m, n) = m
    BY DEF Upto
  <1>2. last_revision(m) = p.revision
    BY AppendAccepted
  <1>3. Project(Effects(m)) \in KernelStates /\ last_revision(m) = state_digest(Project(Effects(m)))
    OBVIOUS
  <1> HIDE DEF m, n
  <1>4. ProjectAt(m, n) \in KernelStates /\ p.revision = state_digest(ProjectAt(m, n))
    BY <1>1, <1>2, <1>3 DEF ProjectAt
  <1> QED
    BY <1>4 DEF m, n

\* A prefix does not change when the trajectory grows.
LEMMA PrefixOfAppend ==
    ASSUME NEW l \in Seq(Pairs), NEW p \in Pairs, NEW i \in DOMAIN l
    PROVE  ProjectAt(Append(l, p), i) = ProjectAt(l, i)
  <1>1. Upto(Append(l, p), i) = Upto(l, i)
    BY DEF Upto
  <1> QED
    BY <1>1 DEF ProjectAt

\* The revisions stay right: a step that appends a pair leaves the prefixes
\* alone, and IInv after the step says the rest.
LEMMA RevisionsStep ==
    ASSUME IInv, IInv', RevisionsAreProjections, [Next]_vars
    PROVE  RevisionsAreProjections'
  <1>1. CASE log' = log
    BY <1>1 DEF RevisionsAreProjections
  <1>2. CASE \E p \in Pairs : log' = Append(log, p)
    <2>1. PICK p \in Pairs : log' = Append(log, p)
      BY <1>2
    <2>2. log \in Seq(Pairs)
      BY DEF IInv, TypeOK
    <2> DEFINE m == Append(log, p)
               n == Len(log) + 1
    <2>3. last_revision(m) = state_digest(Project(Effects(m))) /\ Project(Effects(m)) \in KernelStates
      BY <2>1 DEF IInv, TypeOK, ExportRehydrates, StateIsProjection
    <2>4. /\ \A i \in DOMAIN m : i \in DOMAIN log \/ i = n
          /\ \A i \in DOMAIN log : m[i] = log[i]
          /\ m[n] = p
      BY <2>2, AppendFacts
    <2>5. \A i \in DOMAIN log : ProjectAt(m, i) = ProjectAt(log, i)
      BY <2>2, PrefixOfAppend
    <2>6. p.status = "accepted" => /\ ProjectAt(m, n) \in KernelStates
                                   /\ p.revision = state_digest(ProjectAt(m, n))
      BY <2>2, <2>3, RevisionAtEnd
    <2> HIDE DEF m, n
    <2>7. \A i \in DOMAIN m : IsAccepted(m, i) =>
              /\ ProjectAt(m, i) \in KernelStates
              /\ m[i].revision = state_digest(ProjectAt(m, i))
      BY <2>4, <2>5, <2>6 DEF RevisionsAreProjections, IsAccepted
    <2>8. log' = m
      BY <2>1 DEF m
    <2> QED
      BY <2>7, <2>8 DEF RevisionsAreProjections
  <1>3. log' = log \/ \E p \in Pairs : log' = Append(log, p)
    <2>1. CASE RejectForm
      BY <2>1 DEF RejectForm
    <2>2. CASE DangleForm \/ RebuildForm
      BY <2>2 DEF DangleForm, RebuildForm
    <2>3. CASE CommitForm
      BY <2>3, PairTypes DEF CommitForm, Commit
    <2>4. CASE FinalizeForm
      <3>1. record_action("finalize", NoOp, 0) \in Actions /\ state \in KernelStates
        BY RecordActionType DEF IInv, TypeOK, Kinds
      <3> QED
        BY <2>4, <3>1, PairTypes, CostTypes DEF FinalizeForm
    <2>5. CASE UNCHANGED vars
      BY <2>5 DEF vars
    <2> QED
      BY <2>1, <2>2, <2>3, <2>4, <2>5, StepForms DEF Forms
  <1> QED
    BY <1>1, <1>2, <1>3

\* The start pair carries the digest of the initial state.
LEMMA InitRevisions == Init => RevisionsAreProjections
  <1> SUFFICES ASSUME Init PROVE RevisionsAreProjections
    OBVIOUS
  <1>1. IInv
    BY InitInvariant
  <1>2. << >> \in Seq(Pairs) /\ log = Append(<< >>, StartPair) /\ Len(<< >>) + 1 = 1 /\ log = <<StartPair>>
    BY StartPairType DEF Init
  <1>3. last_revision(log) = state_digest(Project(Effects(log))) /\ Project(Effects(log)) \in KernelStates
    BY <1>1 DEF IInv, TypeOK, ExportRehydrates, StateIsProjection
  <1>4. StartPair \in Pairs /\ StartPair.status = "accepted"
    BY StartPairType DEF StartPair
  <1>5. /\ ProjectAt(log, 1) \in KernelStates
        /\ StartPair.revision = state_digest(ProjectAt(log, 1))
    BY <1>2, <1>3, <1>4, RevisionAtEnd
  <1>6. DOMAIN log = {1} /\ log[1] = StartPair
    BY <1>2
  <1> QED
    BY <1>5, <1>6 DEF RevisionsAreProjections

\* An action that is rolled back is an accepted semantic one, rolled back later.
LEMMA RolledBackFacts ==
    ASSUME IInv, NEW j \in rolled_back_sequences(log)
    PROVE  /\ j \in DOMAIN log /\ IsAccepted(log, j) /\ log[j].kind = "semantic"
           /\ \E r \in DOMAIN log : /\ IsAccepted(log, r) /\ log[r].kind = "rollback"
                                    /\ log[r].target = j /\ j < r
  <1>1. PICK r \in DOMAIN log : IsAccepted(log, r) /\ log[r].kind = "rollback" /\ log[r].target = j
    BY DEF rolled_back_sequences
  <1>2. j \in 1..(r - 1) /\ IsAccepted(log, j) /\ log[j].kind = "semantic"
    BY <1>1 DEF IInv, RollbacksAreSound
  <1>3. DOMAIN log = 1..Len(log) /\ Len(log) \in Nat
    BY DEF IInv, TypeOK
  <1> QED
    BY <1>1, <1>2, <1>3

\* Up to i every action that will be rolled back is followed by an accepted one.
SettledAt(i) ==
    \A j \in 1..i : IsAccepted(log, j) /\ j \in rolled_back_sequences(log)
                      => \E k \in (j + 1)..i : IsAccepted(log, k)

(* Under last-in-first-out rollbacks the replay is in step whenever an     *)
(* action is due: were the accepted action before it rolled back later,    *)
(* that rollback would skip over this action, which is still live.         *)
LEMMA SettledBeforeAction ==
    ASSUME IInv, IsLifo(log), NEW i \in Nat, i < Len(log), IsAccepted(log, i + 1),
           log[i + 1].kind = "semantic", i + 1 \notin rolled_back_sequences(log)
    PROVE  SettledAt(i)
  <1>1. DOMAIN log = 1..Len(log) /\ Len(log) \in Nat /\ log \in Seq(Pairs) /\ i + 1 \in DOMAIN log
    BY DEF IInv, TypeOK
  <1> SUFFICES ASSUME NEW j \in 1..i, IsAccepted(log, j), j \in rolled_back_sequences(log),
                      \A k \in (j + 1)..i : ~IsAccepted(log, k)
               PROVE  FALSE
    BY DEF SettledAt
  <1>2. PICK r \in DOMAIN log : /\ IsAccepted(log, r) /\ log[r].kind = "rollback"
                                /\ log[r].target = j /\ j < r
    BY RolledBackFacts
  <1>3. r # i + 1 /\ r \notin (j + 1)..i
    BY <1>2
  <1>4. r > i + 1 /\ i + 1 \in (j + 1)..(r - 1)
    BY <1>1, <1>2, <1>3
  <1>5. i + 1 \notin DOMAIN Effects(Upto(log, r - 1))
    BY <1>2, <1>4 DEF IsLifo, Upto
  <1> DEFINE k == Upto(log, r - 1)
  <1>6. r - 1 \in Nat /\ r - 1 <= Len(log) /\ i + 1 \in 1..(r - 1)
    BY <1>1, <1>4
  <1>7. i + 1 \in DOMAIN k /\ k[i + 1] = log[i + 1]
    BY <1>1, <1>6, PrefixFacts
  <1>8. i + 1 \notin rolled_back_sequences(k)
    BY <1>1, <1>6, PrefixRollbacks
  <1> HIDE DEF k
  <1>9. IsAccepted(k, i + 1) /\ k[i + 1].kind = "semantic"
    BY <1>7 DEF IsAccepted
  <1>10. i + 1 \in DOMAIN Effects(k)
    BY <1>7, <1>8, <1>9 DEF Effects
  <1> QED
    BY <1>5, <1>10 DEF k

\* After i steps the replay has met no mismatch, and it is in step with the
\* trajectory unless the last accepted action will be rolled back.
FollowsAt(i) ==
    \E s : /\ Sandboxes(log)[i] = Sandbox(s)
           /\ SettledAt(i) => s = ProjectAt(log, i)

\* The next pair keeps it so.
LEMMA ReplayFollowsStep ==
    ASSUME IInv, RevisionsAreProjections, IsLifo(log), NEW i \in Nat, i < Len(log), FollowsAt(i)
    PROVE  FollowsAt(i + 1)
  <1> DEFINE n  == i + 1
             RB == rolled_back_sequences(log)
  <1>1. PICK s : /\ Sandboxes(log)[i] = Sandbox(s)
                 /\ SettledAt(i) => s = ProjectAt(log, i)
    BY DEF FollowsAt
  <1>2. Sandboxes(log)[n] = ReplayStep(log, n, Sandbox(s))
    BY <1>1, SandboxFacts
  <1>3. /\ log \in Seq(Pairs) /\ n \in DOMAIN log /\ DOMAIN log = 1..Len(log)
        /\ Len(log) \in Nat /\ n \in 1..n /\ \A j \in 1..n : j \in 1..i \/ j = n
    BY DEF IInv, TypeOK
  <1>4. CASE ~IsAccepted(log, n)
    <2>1. Sandboxes(log)[n] = Sandbox(s)
      BY <1>2, <1>4, ReplayStepFacts
    <2>2. ProjectAt(log, n) = ProjectAt(log, i)
      BY <1>3, <1>4, ProjectStep
    <2>3. SettledAt(n) => SettledAt(i)
      <3> SUFFICES ASSUME SettledAt(n), NEW j \in 1..i, IsAccepted(log, j), j \in RB
                   PROVE  \E k \in (j + 1)..i : IsAccepted(log, k)
        BY DEF SettledAt
      <3>1. j \in 1..n
        OBVIOUS
      <3>2. PICK k \in (j + 1)..n : IsAccepted(log, k)
        BY <3>1 DEF SettledAt
      <3>3. k # n
        BY <1>4, <3>2
      <3>4. k \in (j + 1)..i
        BY <3>2, <3>3
      <3> QED
        BY <3>2, <3>4
    <2> QED
      BY <1>1, <2>1, <2>2, <2>3 DEF FollowsAt
  <1>5. CASE IsAccepted(log, n) /\ n \in RB
    <2>1. Sandboxes(log)[n] = Sandbox(s)
      BY <1>2, <1>5, ReplayStepFacts
    <2>2. ~SettledAt(n)
      <3>1. (n + 1)..n = {}
        BY <1>3
      <3> QED
        BY <1>3, <1>5, <3>1 DEF SettledAt
    <2> QED
      BY <2>1, <2>2 DEF FollowsAt
  <1>6. ASSUME IsAccepted(log, n), n \notin RB,
               NEW new, new = IF log[n].kind = "semantic" THEN Execute(log[n].op, s)
                                                          ELSE ProjectAt(log, n),
               new = ProjectAt(log, n)
        PROVE  FollowsAt(n)
    <2>1. new \in KernelStates /\ log[n].revision = state_digest(new)
      BY <1>3, <1>6 DEF RevisionsAreProjections
    <2>2. new # NoState
      BY <2>1, KernelAssumption
    <2>3. ReplayStep(log, n, Sandbox(s)) = Sandbox(new)
      BY <1>6, <2>1, <2>2, ReplayStepFacts
    <2> QED
      BY <1>2, <1>6, <2>3 DEF FollowsAt
  <1>7. CASE IsAccepted(log, n) /\ n \notin RB /\ log[n].kind # "semantic"
    BY <1>6, <1>7
  <1>8. CASE IsAccepted(log, n) /\ n \notin RB /\ log[n].kind = "semantic"
    <2>1. SettledAt(i)
      BY <1>8, SettledBeforeAction
    <2>2. s = ProjectAt(log, i)
      BY <1>1, <2>1
    <2>3. ProjectAt(log, n) = IF s # NoState THEN Execute(log[n].op, s) ELSE NoState
      BY <1>3, <1>8, <2>2, ProjectStep
    <2>4. ProjectAt(log, n) # NoState
      BY <1>3, <1>8, KernelAssumption DEF RevisionsAreProjections
    <2>5. ProjectAt(log, n) = Execute(log[n].op, s)
      BY <2>3, <2>4
    <2> QED
      BY <1>6, <1>8, <2>5
  <1> QED
    BY <1>4, <1>5, <1>7, <1>8

\* The whole replay follows, and ends in the session's state.
LEMMA ReplayFollows ==
    ASSUME IInv, RevisionsAreProjections, IsLifo(log)
    PROVE  replay(log) = Sandbox(state)
  <1> DEFINE K == {i \in Nat : i <= Len(log) => FollowsAt(i)}
  <1>1. log \in Seq(Pairs) /\ Len(log) \in Nat /\ DOMAIN log = 1..Len(log)
    BY DEF IInv, TypeOK
  <1>2. 0 \in K
    <2>1. ProjectAt(log, 0) = InitialState
      BY <1>1, ProjectNothing
    <2>2. FollowsAt(0)
      BY <2>1, SandboxFacts DEF FollowsAt
    <2> QED
      BY <2>2
  <1>3. ASSUME NEW i \in Nat, i \in K PROVE i + 1 \in K
    <2>1. SUFFICES ASSUME i + 1 <= Len(log) PROVE FollowsAt(i + 1)
      OBVIOUS
    <2>2. i < Len(log) /\ FollowsAt(i)
      BY <1>1, <1>3, <2>1
    <2> QED
      BY <2>2, ReplayFollowsStep
  <1> HIDE DEF K
  <1>4. Nat \subseteq K
    BY <1>2, <1>3, Replays!Induction
  <1>5. FollowsAt(Len(log))
    BY <1>1, <1>4 DEF K
  <1>6. SettledAt(Len(log))
    <2> SUFFICES ASSUME NEW j \in 1..Len(log), j \in rolled_back_sequences(log)
                 PROVE  \E k \in (j + 1)..Len(log) : IsAccepted(log, k)
      BY DEF SettledAt
    <2>1. PICK r \in DOMAIN log : IsAccepted(log, r) /\ j < r
      BY RolledBackFacts
    <2>2. r \in (j + 1)..Len(log)
      BY <1>1, <2>1
    <2> QED
      BY <2>1, <2>2
  <1>7. PICK s : Sandboxes(log)[Len(log)] = Sandbox(s) /\ s = ProjectAt(log, Len(log))
    BY <1>5, <1>6 DEF FollowsAt
  <1>8. ProjectAt(log, Len(log)) = state
    <2>1. Upto(log, Len(log)) = log
      BY <1>1 DEF Upto
    <2> QED
      BY <2>1 DEF ProjectAt, IInv, StateIsProjection
  <1> QED
    BY <1>7, <1>8 DEF replay

\* The revisions of the trajectory are those of its projections, in every session.
THEOREM RevisionsHold == Spec => []RevisionsAreProjections
  <1>1. Init => RevisionsAreProjections
    BY InitRevisions
  <1>2. IInv /\ IInv' /\ RevisionsAreProjections /\ [Next]_vars => RevisionsAreProjections'
    BY RevisionsStep
  <1> QED
    BY <1>1, <1>2, InvariantHolds, PTL DEF Spec

(* A session whose rollbacks each undo the latest live action replays: no  *)
(* mismatch, and the state the client sees (replay and _project_state), for *)
(* every kernel, with rejections, failed recordings and verdicts between.  *)
THEOREM LifoReplayCorrect == Spec => []LifoReplays
  <1>1. IInv /\ RevisionsAreProjections => LifoReplays
    BY ReplayFollows DEF LifoReplays, ReplayMatches, Sandbox
  <1> QED
    BY <1>1, InvariantHolds, RevisionsHold, PTL

-----------------------------------------------------------------------------
(* What a step does to the live actions *)

Restricts(f, e) == DOMAIN f \subseteq DOMAIN e /\ \A i \in DOMAIN f : f[i] = e[i]

Adds(f, e, n, op) ==
    DOMAIN f = DOMAIN e \cup {n} /\ f[n] = op /\ \A i \in DOMAIN e : f[i] = e[i]

\* A pair that is no semantic action adds no effect; a rollback takes one away.
LEMMA AppendControl ==
    ASSUME NEW l \in Seq(Pairs), NEW p \in Pairs, p.kind # "semantic"
    PROVE  Restricts(Effects(Append(l, p)), Effects(l))
  <1> DEFINE m == Append(l, p)
             n == Len(l) + 1
             Live(k) == {j \in DOMAIN k : /\ IsAccepted(k, j) /\ k[j].kind = "semantic"
                                          /\ j \notin rolled_back_sequences(k)}
             Undone(k) == {j \in DOMAIN k : IsAccepted(k, j) /\ k[j].kind = "rollback"}
  <1>1. /\ \A j \in DOMAIN l : j \in DOMAIN m /\ m[j] = l[j]
        /\ \A j \in DOMAIN m : j \in DOMAIN l \/ m[j] = p
    BY AppendFacts
  <1> HIDE DEF m, n
  <1>2. Undone(l) \subseteq Undone(m) /\ \A j \in Undone(l) : m[j].target = l[j].target
    BY <1>1 DEF IsAccepted
  <1>3. /\ rolled_back_sequences(m) = {m[i].target : i \in Undone(m)}
        /\ rolled_back_sequences(l) = {l[i].target : i \in Undone(l)}
    BY DEF rolled_back_sequences
  <1>4. rolled_back_sequences(l) \subseteq rolled_back_sequences(m)
    BY <1>2, <1>3
  <1>5. Live(m) \subseteq Live(l)
    BY <1>1, <1>4 DEF IsAccepted
  <1>6. Effects(m) = [j \in Live(m) |-> m[j].op] /\ Effects(l) = [j \in Live(l) |-> l[j].op]
    BY DEF Effects
  <1>7. \A j \in Live(l) : m[j] = l[j]
    BY <1>1
  <1> HIDE DEF Live
  <1>8. Restricts(Effects(m), Effects(l))
    BY <1>5, <1>6, <1>7 DEF Restricts
  <1> QED
    BY <1>8 DEF m

\* The state that one more live action leads to.
LEMMA AppendExecutes ==
    ASSUME NEW l \in Seq(Pairs), NEW p \in Pairs, p.status = "accepted", p.kind = "semantic",
           Len(l) + 1 \notin rolled_back_sequences(l), Project(Effects(l)) # NoState
    PROVE  /\ Adds(Effects(Append(l, p)), Effects(l), Len(l) + 1, p.op)
           /\ Project(Effects(Append(l, p))) = Execute(p.op, Project(Effects(l)))
  <1> DEFINE n == Len(l) + 1
             e == Effects(l)
             f == Effects(Append(l, p))
  <1>1. Adds(f, e, n, p.op)
    BY AppendSemantic DEF Adds
  <1>2. DOMAIN e \subseteq 1..Len(l) /\ Len(l) \in Nat
    BY EffectsDomain
  <1> HIDE DEF e, f
  <1>3. DOMAIN f \subseteq 1..n /\ n \in Nat
    BY <1>1, <1>2 DEF Adds
  <1> DEFINE k == Len(l)
  <1> HIDE DEF k
  <1>4. Project(e) = StatesAfter(e)[k] /\ Project(f) = StatesAfter(f)[n]
    BY <1>2, <1>3, ProjectIsLast DEF k
  <1>5. k \in Nat /\ n = k + 1
    BY <1>2 DEF k
  <1> HIDE DEF n
  <1>6. \A i \in 1..k : /\ i \in DOMAIN e <=> i \in DOMAIN f
                        /\ i \in DOMAIN e => e[i] = f[i]
    BY <1>1, <1>5 DEF Adds
  <1>7. StatesAfter(e)[k] = StatesAfter(f)[k]
    BY <1>5, <1>6, StatesAgree
  <1>8. StatesAfter(f)[n] = ProjectionStep(f, n, StatesAfter(f)[k])
    BY <1>5, StatesAfterFacts
  <1>9. Project(f) = Execute(p.op, Project(e))
    BY <1>1, <1>4, <1>7, <1>8 DEF ProjectionStep, Adds, e
  <1> QED
    BY <1>1, <1>9 DEF e, f, n

\* No rollback names a pair that is not in the trajectory yet.
LEMMA NothingUndoneAhead ==
    ASSUME IInv
    PROVE  Len(log) + 1 \notin rolled_back_sequences(log)
  <1>t. log \in Seq(Pairs)
    BY DEF IInv, TypeOK
  <1>1. \A i \in DOMAIN log : i \in 1..Len(log) /\ Len(log) \in Nat
    BY <1>t
  <1>2. \A i \in DOMAIN log : IsAccepted(log, i) /\ log[i].kind = "rollback"
                                => log[i].target \in 1..(i - 1)
    BY DEF IInv, RollbacksAreSound
  <1>3. \A i \in DOMAIN log : IsAccepted(log, i) /\ log[i].kind = "rollback"
                                => log[i].target # Len(log) + 1
    BY <1>1, <1>2
  <1> QED
    BY <1>3 DEF rolled_back_sequences

\* An accepted rollback is in the trajectory.
HasRollback(l) == \E i \in DOMAIN l : IsAccepted(l, i) /\ l[i].kind = "rollback"

\* The three things a step does to the live actions and the state.
KeepsActions  == Effects(log') = Effects(log) /\ state' = state
ExecutesAction ==
    \E op \in Ops : /\ Validates(op, state)
                    /\ op \in DepthOps => ~Beyond(counters.depth + 1, MaxDepth)
                    /\ Adds(Effects(log'), Effects(log), Len(log) + 1, op)
                    /\ state' = Execute(op, state)
UndoesAction ==
    Restricts(Effects(log'), Effects(log)) /\ HasRollback(log')

LEMMA ActionSteps ==
    ASSUME IInv, IInv', [Next]_vars
    PROVE  /\ KeepsActions \/ ExecutesAction \/ UndoesAction
           /\ HasRollback(log) => HasRollback(log')
  <1>t. /\ log \in Seq(Pairs) /\ state \in KernelStates /\ state = Project(Effects(log))
        /\ state' = Project(Effects(log'))
    BY DEF IInv, TypeOK, StateIsProjection
  <1>s. Len(log) + 1 \notin rolled_back_sequences(log)
    BY NothingUndoneAhead
  <1>a. ASSUME NEW p \in Pairs, log' = Append(log, p)
        PROVE  HasRollback(log) => HasRollback(log')
    <2>1. \A j \in DOMAIN log : j \in DOMAIN log' /\ log'[j] = log[j]
      BY <1>t, <1>a, AppendFacts
    <2> QED
      BY <2>1 DEF HasRollback, IsAccepted
  <1>1. CASE RejectForm
    <2>1. PICK p \in Pairs : p.status = "rejected" /\ log' = Append(log, p)
      BY <1>1 DEF RejectForm
    <2>2. Effects(log') = Effects(log)
      BY <1>t, <2>1, AppendWithoutEffect
    <2> QED
      BY <1>1, <1>a, <2>1, <2>2 DEF RejectForm, KeepsActions
  <1>2. CASE DangleForm
    BY <1>2 DEF DangleForm, KeepsActions
  <1>3. CASE RebuildForm
    BY <1>3, <1>t DEF RebuildForm, KeepsActions
  <1>4. CASE FinalizeForm
    <2> DEFINE p == AcceptedPair(record_action("finalize", NoOp, 0), state,
                                 default_compute_cost("finalize", NoOp))
    <2>1. p \in Pairs /\ p.kind = "finalize" /\ log' = Append(log, p)
      <3>1. /\ record_action("finalize", NoOp, 0) \in Actions
            /\ record_action("finalize", NoOp, 0).kind = "finalize"
        BY RecordActionType DEF IInv, Kinds
      <3> QED
        BY <1>4, <1>t, <3>1, PairTypes, CostTypes DEF FinalizeForm
    <2>2. Effects(log') = Effects(log)
      BY <1>t, <2>1, AppendWithoutEffect
    <2> QED
      BY <1>t, <1>a, <2>1, <2>2 DEF KeepsActions
  <1>5. CASE CommitForm
    <2>1. PICK a \in Actions, new \in KernelStates, cost \in Int :
              /\ a.kind \in {"start", "semantic", "rollback"}
              /\ a.kind = "semantic" => a.op \in Ops /\ Validates(a.op, state)
              /\ ~budget_violation(a.op, cost)
              /\ Commit(a, new, cost)
      BY <1>5 DEF CommitForm
    <2> DEFINE p == AcceptedPair(a, new, cost)
    <2>2. p \in Pairs /\ p.status = "accepted" /\ p.kind = a.kind /\ p.op = a.op
      BY <2>1, PairTypes
    <2>3. log' = Append(log, p)
      BY <2>1 DEF Commit
    <2> HIDE DEF p
    <2>4. HasRollback(log) => HasRollback(log')
      BY <1>a, <2>2, <2>3
    <2>5. CASE a.kind = "start"
      <3>1. Effects(log') = Effects(log)
        BY <1>t, <2>2, <2>3, <2>5, AppendWithoutEffect
      <3> QED
        BY <1>t, <2>4, <3>1 DEF KeepsActions
    <2>6. CASE a.kind = "rollback"
      <3>1. Restricts(Effects(log'), Effects(log))
        BY <1>t, <2>2, <2>3, <2>6, AppendControl
      <3>2. Len(log) + 1 \in DOMAIN log' /\ log'[Len(log) + 1] = p
        BY <1>t, <2>2, <2>3, AppendFacts
      <3>3. HasRollback(log')
        BY <2>2, <2>6, <3>2 DEF HasRollback, IsAccepted
      <3> QED
        BY <2>4, <3>1, <3>3 DEF UndoesAction
    <2>7. CASE a.kind = "semantic"
      <3>1. /\ Adds(Effects(Append(log, p)), Effects(log), Len(log) + 1, p.op)
            /\ Project(Effects(Append(log, p))) = Execute(p.op, Project(Effects(log)))
        BY <1>s, <1>t, <2>2, <2>7, KernelAssumption, AppendExecutes
      <3>2. p.op \in DepthOps => ~Beyond(counters.depth + 1, MaxDepth)
        BY <2>1, <2>2 DEF budget_violation
      <3>3. p.op \in Ops /\ Validates(p.op, state) /\ state' = Execute(p.op, state)
        BY <1>t, <2>1, <2>2, <2>3, <2>7, <3>1
      <3> QED
        BY <2>3, <2>4, <3>1, <3>2, <3>3 DEF ExecutesAction
    <2> QED
      BY <2>1, <2>5, <2>6, <2>7
  <1>6. CASE UNCHANGED vars
    BY <1>6 DEF vars, KeepsActions
  <1> QED
    BY <1>1, <1>2, <1>3, <1>4, <1>5, <1>6, StepForms DEF Forms

-----------------------------------------------------------------------------
(* A session implements its abstract one (AgentSession) *)

\* A rollback takes exactly the action it names out of the live ones.
LEMMA AppendRollback ==
    ASSUME NEW l \in Seq(Pairs), NEW p \in Pairs, p.status = "accepted", p.kind = "rollback"
    PROVE  /\ DOMAIN Effects(Append(l, p)) = DOMAIN Effects(l) \ {p.target}
           /\ \A i \in DOMAIN Effects(Append(l, p)) : Effects(Append(l, p))[i] = Effects(l)[i]
  <1> DEFINE m == Append(l, p)
             n == Len(l) + 1
             Live(k) == {j \in DOMAIN k : /\ IsAccepted(k, j) /\ k[j].kind = "semantic"
                                          /\ j \notin rolled_back_sequences(k)}
             Undone(k) == {j \in DOMAIN k : IsAccepted(k, j) /\ k[j].kind = "rollback"}
  <1>1. /\ \A j \in DOMAIN l : j \in DOMAIN m /\ m[j] = l[j]
        /\ \A j \in DOMAIN m : j \in DOMAIN l \/ j = n
        /\ n \in DOMAIN m /\ m[n] = p /\ n \notin DOMAIN l
    BY AppendFacts
  <1> HIDE DEF m, n
  <1>2. Undone(m) = Undone(l) \cup {n}
    BY <1>1 DEF IsAccepted
  <1>3. \A j \in Undone(l) : m[j].target = l[j].target
    BY <1>1
  <1>4. /\ rolled_back_sequences(m) = {m[i].target : i \in Undone(m)}
        /\ rolled_back_sequences(l) = {l[i].target : i \in Undone(l)}
    BY DEF rolled_back_sequences
  <1>5. rolled_back_sequences(m) = rolled_back_sequences(l) \cup {p.target}
    BY <1>1, <1>2, <1>3, <1>4
  <1>6. Live(m) = Live(l) \ {p.target}
    BY <1>1, <1>5 DEF IsAccepted
  <1>7. Effects(m) = [j \in Live(m) |-> m[j].op] /\ Effects(l) = [j \in Live(l) |-> l[j].op]
    BY DEF Effects
  <1>8. \A j \in Live(l) : m[j] = l[j]
    BY <1>1
  <1> HIDE DEF Live
  <1>9. /\ DOMAIN Effects(m) = DOMAIN Effects(l) \ {p.target}
        /\ \A j \in DOMAIN Effects(m) : Effects(m)[j] = Effects(l)[j]
    BY <1>6, <1>7, <1>8
  <1> QED
    BY <1>9 DEF m

\* Tickets are given out by acceptance alone.
LEMMA AppendIssued ==
    ASSUME NEW l \in Seq(Pairs), NEW p \in Pairs
    PROVE  Issued(Append(l, p)) =
              IF p.status = "accepted" /\ p.kind = "semantic"
              THEN Issued(l) \cup {Len(l) + 1} ELSE Issued(l)
  <1> DEFINE m == Append(l, p)
             n == Len(l) + 1
  <1>1. /\ \A j \in DOMAIN l : j \in DOMAIN m /\ m[j] = l[j]
        /\ \A j \in DOMAIN m : j \in DOMAIN l \/ j = n
        /\ n \in DOMAIN m /\ m[n] = p /\ n \notin DOMAIN l
    BY AppendFacts
  <1> HIDE DEF m, n
  <1>2. Issued(m) = IF p.status = "accepted" /\ p.kind = "semantic"
                    THEN Issued(l) \cup {n} ELSE Issued(l)
    BY <1>1 DEF Issued, IsAccepted
  <1> QED
    BY <1>2 DEF m, n

\* The abstract session executes its plan as a projection executes its effects.
LEMMA SameExecution == \A e : ClientSession!Executed(e) = StatesAfter(e)
  BY DEF ClientSession!Executed, StatesAfter

\* A projection is what its effects lead to.
LEMMA ProjectionLeads ==
    ASSUME NEW l \in Seq(Pairs), Project(Effects(l)) \in KernelStates
    PROVE  ClientSession!LeadTo(Effects(l), Project(Effects(l)))
  <1> DEFINE e == Effects(l)
  <1>1. DOMAIN e \subseteq Nat
    BY EffectsDomain
  <1>2. SUFFICES ASSUME NEW n \in 1..(MaxPairs + MaxRefusedPairs),
                        \A t \in DOMAIN e : t <= n
                 PROVE  StatesAfter(e)[n] = Project(e)
    BY SameExecution DEF ClientSession!LeadTo
  <1>3. n \in Nat /\ DOMAIN e \subseteq 1..n
    <2>1. n \in Nat
      BY BudgetAssumption
    <2>2. \A t \in DOMAIN e : t \in 1..Len(l) /\ t <= n
      BY <1>2, EffectsDomain
    <2> QED
      BY <2>1, <2>2
  <1> QED
    BY <1>3, ProjectIsLast

\* What the budgets make of an active session is nothing or a stop.
LEMMA MarkStops == \A c : mark_budget_partial("active", c) \in {"active", "partial"}
  BY DEF mark_budget_partial

LEMMA SessionStarts == Init => ClientSession!Init
  <1> SUFFICES ASSUME Init PROVE ClientSession!Init
    OBVIOUS
  <1>1. /\ log = <<StartPair>> /\ state = InitialState
        /\ status \in {"active", "partial"}
    BY MarkStops DEF Init
  <1>2. DOMAIN log = {1} /\ log[1].kind = "start"
    BY <1>1 DEF StartPair
  <1>3. Issued(log) = {} /\ DOMAIN Effects(log) = {}
    BY <1>2 DEF Issued, Effects
  <1>4. Effects(log) = [t \in {} |-> InitialState]
    BY <1>3 DEF Effects
  <1> QED
    BY <1>1, <1>3, <1>4 DEF ClientSession!Init

\* A commit performs an action, takes one back, or is a second start.
LEMMA CommitImplements ==
    ASSUME IInv, IInv', CommitForm
    PROVE  [ClientSession!Next]_(ClientSession!session)
  <1>t. /\ log \in Seq(Pairs) /\ state \in KernelStates /\ state = Project(Effects(log))
        /\ state' = Project(Effects(log')) /\ log' \in Seq(Pairs) /\ state' \in KernelStates
        /\ status = "active"
    BY DEF IInv, TypeOK, StateIsProjection, CommitForm
  <1>1. PICK a \in Actions, new \in KernelStates, cost \in Int :
            /\ a.kind \in {"start", "semantic", "rollback"}
            /\ a.kind = "rollback" => validate_rollback_target(a.target)
            /\ a.kind = "semantic" => a.op \in Ops /\ Validates(a.op, state)
            /\ Commit(a, new, cost)
    BY DEF CommitForm
  <1> DEFINE p == AcceptedPair(a, new, cost)
  <1>2. /\ p \in Pairs /\ p.status = "accepted" /\ p.kind = a.kind /\ p.op = a.op
        /\ p.target = a.target
    BY <1>1, PairTypes DEF AcceptedPair, Pair
  <1>3. log' = Append(log, p)
    BY <1>1 DEF Commit
  <1>4. status' \in {"active", "partial"}
    BY <1>1, <1>t, MarkStops DEF Commit
  <1>5. Len(log) + 1 \in 1..(MaxPairs + MaxRefusedPairs) /\ DOMAIN log = 1..Len(log)
    <2>1. Len(log) < MaxPairs \/ Len(log) < MaxRefusedPairs
      BY <1>1 DEF Commit, Room
    <2>2. MaxPairs \in Nat /\ MaxRefusedPairs \in Nat /\ Len(log) \in Nat /\ DOMAIN log = 1..Len(log)
      BY <1>t, BudgetAssumption
    <2> QED
      BY <2>1, <2>2
  <1>6. ClientSession!LeadTo(Effects(log'), state')
    BY <1>t, ProjectionLeads
  <1> HIDE DEF p
  <1>7. CASE a.kind = "start"
    <2>1. Effects(log') = Effects(log) /\ Issued(log') = Issued(log)
      BY <1>t, <1>2, <1>3, <1>7, AppendWithoutEffect, AppendIssued
    <2>2. state' = state
      BY <1>t, <2>1
    <2>3. CASE status' = "active"
      BY <1>t, <2>1, <2>2, <2>3 DEF ClientSession!session
    <2>4. CASE status' = "partial"
      <3>1. ClientSession!Settle
        BY <1>t, <2>1, <2>2, <2>4 DEF ClientSession!Settle
      <3> QED
        BY <3>1 DEF ClientSession!Next
    <2> QED
      BY <1>4, <2>3, <2>4
  <1>8. CASE a.kind = "rollback"
    <2>1. validate_rollback_target(p.target)
      BY <1>1, <1>2, <1>8
    <2>2. p.target \in DOMAIN Effects(log) /\ p.target \in 1..(MaxPairs + MaxRefusedPairs)
      BY <1>5, <1>t, <2>1, BudgetAssumption DEF validate_rollback_target, Effects
    <2>3. /\ DOMAIN Effects(log') = DOMAIN Effects(log) \ {p.target}
          /\ \A i \in DOMAIN Effects(log') : Effects(log')[i] = Effects(log)[i]
      <3>1. /\ DOMAIN Effects(Append(log, p)) = DOMAIN Effects(log) \ {p.target}
            /\ \A i \in DOMAIN Effects(Append(log, p)) :
                  Effects(Append(log, p))[i] = Effects(log)[i]
        BY <1>t, <1>2, <1>8, AppendRollback
      <3>2. Effects(log') = Effects(Append(log, p))
        BY <1>3
      <3> QED
        BY <3>1, <3>2
    <2>4. Effects(log') = [u \in DOMAIN Effects(log) \ {p.target} |-> Effects(log)[u]]
      <3>1. Effects(log') = [u \in DOMAIN Effects(log') |-> Effects(log')[u]]
        BY DEF Effects
      <3> QED
        BY <2>3, <3>1
    <2>5. Issued(log') = Issued(log)
      BY <1>t, <1>2, <1>3, <1>8, AppendIssued
    <2>6. ClientSession!TakeBack(p.target)
      BY <1>t, <1>4, <1>6, <2>2, <2>4, <2>5 DEF ClientSession!TakeBack, ClientSession!GoesOnOrStops
    <2> QED
      BY <2>2, <2>6 DEF ClientSession!Next
  <1>9. CASE a.kind = "semantic"
    <2> DEFINE n == Len(log) + 1
    <2>1. /\ Adds(Effects(log'), Effects(log), n, p.op)
          /\ state' = Execute(p.op, state)
      BY <1>t, <1>2, <1>3, <1>9, KernelAssumption, NothingUndoneAhead, AppendExecutes
    <2>2. Issued(log') = Issued(log) \cup {n}
      BY <1>t, <1>2, <1>3, <1>9, AppendIssued
    <2>3. (\A u \in Issued(log) : u < n) /\ n \notin DOMAIN Effects(log)
      BY <1>t, <1>5, EffectsDomain DEF Issued
    <2>4. p.op \in Ops /\ Validates(p.op, state)
      BY <1>1, <1>2, <1>9
    <2> HIDE DEF n
    <2>5. \A u \in DOMAIN Effects(log') :
             Effects(log')[u] = IF u = n THEN p.op ELSE Effects(log)[u]
      BY <2>1, <2>3 DEF Adds
    <2>6. DOMAIN Effects(log') = DOMAIN Effects(log) \cup {n}
      BY <2>1 DEF Adds
    <2>7. ClientSession!Perform(n, p.op)
      BY <1>t, <1>4, <1>6, <2>1, <2>2, <2>3, <2>4, <2>5, <2>6
      DEF ClientSession!Perform, ClientSession!GoesOnOrStops
    <2> QED
      BY <1>5, <2>4, <2>7 DEF ClientSession!Next, n
  <1> QED
    BY <1>1, <1>7, <1>8, <1>9

LEMMA StepImplements ==
    ASSUME IInv, IInv', [Next]_vars
    PROVE  [ClientSession!Next]_(ClientSession!session)
  <1>t. /\ log \in Seq(Pairs) /\ state \in KernelStates /\ state = Project(Effects(log))
    BY DEF IInv, TypeOK, StateIsProjection
  <1>1. CASE RejectForm
    <2>1. PICK p \in Pairs : p.status = "rejected" /\ log' = Append(log, p)
      BY <1>1 DEF RejectForm
    <2>2. Effects(log') = Effects(log) /\ Issued(log') = Issued(log)
      BY <1>t, <2>1, AppendWithoutEffect, AppendIssued
    <2> QED
      BY <1>1, <2>2 DEF RejectForm, ClientSession!session
  <1>2. CASE DangleForm
    BY <1>2 DEF DangleForm, ClientSession!session
  <1>3. CASE RebuildForm
    BY <1>3, <1>t DEF RebuildForm, ClientSession!session
  <1>4. CASE FinalizeForm
    <2> DEFINE p == AcceptedPair(record_action("finalize", NoOp, 0), state,
                                 default_compute_cost("finalize", NoOp))
    <2>1. p \in Pairs /\ p.kind = "finalize" /\ log' = Append(log, p)
      <3>1. /\ record_action("finalize", NoOp, 0) \in Actions
            /\ record_action("finalize", NoOp, 0).kind = "finalize"
        BY RecordActionType DEF IInv, Kinds
      <3> QED
        BY <1>4, <1>t, <3>1, PairTypes, CostTypes DEF FinalizeForm
    <2>2. Effects(log') = Effects(log) /\ Issued(log') = Issued(log)
      BY <1>t, <2>1, AppendWithoutEffect, AppendIssued
    <2>3. /\ status' \in {"certified", "partial", "insufficient"}
          /\ status' = "certified" => Verdict(state) = "certified"
      BY <1>4 DEF FinalizeForm, StatusOf, SettledVerdict
    <2>4. ClientSession!Settle
      BY <1>4, <2>2, <2>3 DEF FinalizeForm, ClientSession!Settle
    <2> QED
      BY <2>4 DEF ClientSession!Next
  <1>5. CASE CommitForm
    BY <1>5, CommitImplements
  <1>6. CASE UNCHANGED vars
    BY <1>6 DEF vars, ClientSession!session
  <1> QED
    BY <1>1, <1>2, <1>3, <1>4, <1>5, <1>6, StepForms DEF Forms

(* The runtime is a plan of actions that takes effect at once: whatever it *)
(* records, rejects, loses and repairs, for its client an action is in     *)
(* force from its acceptance until it is taken back, the state is what the *)
(* actions in force lead to, and an inactive session stays as it is        *)
(* (apply, finalize, rebuild_projection), for every kernel and budget.     *)
THEOREM SessionImplemented == Spec => ImplementsSession
  <1>1. Init => ClientSession!Init
    BY SessionStarts
  <1>2. ASSUME IInv, IInv', [Next]_vars PROVE [ClientSession!Next]_(ClientSession!session)
    BY <1>2, StepImplements
  <1> QED
    BY <1>1, <1>2, InvariantHolds, PTL DEF Spec, ImplementsSession, ClientSession!Spec
=============================================================================
