---------------------------- MODULE AgentRuntime ----------------------------
(***************************************************************************)
(* The agent decomposition runtime: one session, its append-only           *)
(* trajectory of (ACTION, RESULT) pairs, the visible state projected from  *)
(* it, the budget counters, the session status, and the methods apply,     *)
(* finalize, rebuild_projection and replay.  A method runs to completion   *)
(* before the next one starts, so a method call is one step; what an       *)
(* exception in the middle of a call leaves behind is modelled by Faults.  *)
(*                                                                         *)
(* The kernel is a parameter, as it is in the code (KernelProtocol).  Pair *)
(* number i of the trajectory holds the events 2i-1 (ACTION) and 2i        *)
(* (RESULT), so "sequence" in the code is 2i-1 here.                       *)
(***************************************************************************)
EXTENDS Integers, Sequences, FiniteSets, SequencesExt

CONSTANTS
    Ops,               \* semantic requests: an action name with its payload
    KernelStates,      \* the states a kernel can return
    InitialState,      \* kernel.initial_state(question)
    NoState,           \* the outcome of an execute() that raises
    Validates(_, _),   \* kernel.validate(op, state) reports no error
    Execute(_, _),     \* kernel.execute(op, state), NoState when it raises
    DepthOf(_),        \* state["depth"], not an integer when there is none
    Verdict(_),        \* kernel.evaluate_frontier(state)["status"]
    EvaluationOps,     \* ops charged to the evaluation budget
    DepthOps,          \* ops charged to the depth budget
    ExpensiveOps,      \* ops named "evaluate" or "certify"
    StartIsKnown,      \* kernel.validate has nothing against a second start
    CallerCosts,       \* the explicit compute_cost values callers pass
    MaxActions, MaxEvaluations, MaxCompute, MaxDepth,   \* BudgetPolicy
    Unlimited,         \* a budget of None
    NoOp, NoRevision, NoAction, NoEvaluation, DefaultCost,
    Faults,            \* where the clock or the event store may raise
    MaxPairs,          \* bound: the pairs a modelled trajectory may hold
    MaxRefusals,       \* bound: the refused pairs among them
    MaxRefusedPairs    \* bound: the pairs of a trajectory with a refused one

Caps == {MaxActions, MaxEvaluations, MaxCompute, MaxDepth}

ASSUME KernelAssumption ==
    /\ InitialState \in KernelStates
    /\ NoState \notin KernelStates
    /\ NoOp \notin Ops
    /\ EvaluationOps \subseteq Ops
    /\ DepthOps \subseteq Ops
    /\ ExpensiveOps \subseteq Ops
    /\ StartIsKnown \in BOOLEAN

ASSUME BudgetAssumption ==
    /\ Unlimited \notin Int
    /\ Caps \subseteq Int \cup {Unlimited}
    /\ CallerCosts \subseteq Int
    /\ DefaultCost \notin Int
    /\ MaxPairs \in Nat \ {0}
    /\ MaxRefusals \in Nat /\ MaxRefusedPairs \in Nat

ASSUME FaultAssumption == Faults \subseteq {"result", "close", "stamp"}

VARIABLES
    log,           \* trajectory: the sequence of completed pairs
    dangling,      \* a trailing ACTION without its RESULT, or NoAction
    state,         \* AgentRuntime.state
    counters,      \* AgentRuntime.counters
    status,        \* AgentRuntime.status
    evaluation     \* status of AgentRuntime.frontier_evaluation

vars == <<log, dangling, state, counters, status, evaluation>>

-----------------------------------------------------------------------------
(* The trajectory *)

\* SHA-256 of the canonical JSON: a value of its own, one per state.
state_digest(s) == [sha256 |-> s]

IsAccepted(l, i) == l[i].status = "accepted"

LastAccepted(l) ==
    CHOOSE i \in DOMAIN l : /\ IsAccepted(l, i)
                            /\ \A j \in DOMAIN l : IsAccepted(l, j) => j <= i

last_revision(l) ==
    IF \E i \in DOMAIN l : IsAccepted(l, i) THEN l[LastAccepted(l)].revision
                                           ELSE NoRevision

rolled_back_sequences(l) ==
    {l[i].target : i \in {j \in DOMAIN l : /\ IsAccepted(l, j)
                                           /\ l[j].kind = "rollback"}}

\* The live semantic actions of a trajectory, by position.
Effects(l) ==
    [i \in {j \in DOMAIN l : /\ IsAccepted(l, j)
                             /\ l[j].kind = "semantic"
                             /\ j \notin rolled_back_sequences(l)} |-> l[i].op]

\* Fault: the prior is the last pair's revision, accepted or not.
record_action_after_any(kind, op, target) ==
    [kind |-> kind, op |-> op, target |-> target, prior |-> log[Len(log)].revision]

record_action(kind, op, target) ==
    [kind |-> kind, op |-> op, target |-> target, prior |-> last_revision(log)]

Pair(a, outcome, revision, cost, error) ==
    [kind |-> a.kind, op |-> a.op, target |-> a.target, prior |-> a.prior,
     status |-> outcome, revision |-> revision, cost |-> cost, error |-> error]

AcceptedPair(a, s, cost) == Pair(a, "accepted", state_digest(s), cost, "none")
RejectedPair(a, error)   == Pair(a, "rejected", NoRevision, 0, error)

-----------------------------------------------------------------------------
(* Projection *)

\* The states of executing the effects in position order, from the initial one.
StatesAfter(effects) ==
    LET after[n \in Nat] ==
            IF n = 0 THEN InitialState
            ELSE LET before == after[n - 1]
                 IN  IF n \in DOMAIN effects /\ before # NoState
                     THEN Execute(effects[n], before) ELSE before
    IN  after

LastOf(positions) == CHOOSE n \in positions : \A m \in positions : m <= n

Project(effects) ==
    IF DOMAIN effects = {} THEN InitialState ELSE StatesAfter(effects)[LastOf(DOMAIN effects)]

\* Fault: the prospective pair is forgotten.
ProjectWithoutExtra(a) == Project(Effects(log))

\* _project_state(extra_action): the prospective pair is read as accepted.
ProjectWith(a) == Project(Effects(Append(log, AcceptedPair(a, InitialState, 0))))

\* Fault: a target already rolled back is accepted again.
validate_target_once_accepted(target) ==
    /\ target \in DOMAIN log
    /\ IsAccepted(log, target)
    /\ log[target].kind = "semantic"

validate_rollback_target(target) ==
    /\ target \in DOMAIN log
    /\ IsAccepted(log, target)
    /\ log[target].kind = "semantic"
    /\ target \notin rolled_back_sequences(log)

-----------------------------------------------------------------------------
(* Budgets *)

default_compute_cost(kind, op) ==
    IF kind = "finalize" \/ op \in ExpensiveOps THEN 5
    ELSE IF kind = "rollback" THEN 3 ELSE 1

CostOf(kind, op, given) ==
    IF given = DefaultCost THEN default_compute_cost(kind, op) ELSE given

Beyond(used, cap)  == cap # Unlimited /\ used > cap
Reached(used, cap) == cap # Unlimited /\ used >= cap

\* Fault: the cost of the candidate is not part of the check.
budget_violation_without_cost(op, cost) ==
    \/ Beyond(counters.actions + 1, MaxActions)
    \/ op \in EvaluationOps /\ Beyond(counters.evaluations + 1, MaxEvaluations)
    \/ Beyond(counters.compute, MaxCompute)
    \/ op \in DepthOps /\ Beyond(counters.depth + 1, MaxDepth)

budget_violation(op, cost) ==
    \/ Beyond(counters.actions + 1, MaxActions)
    \/ op \in EvaluationOps /\ Beyond(counters.evaluations + 1, MaxEvaluations)
    \/ Beyond(counters.compute + cost, MaxCompute)
    \/ op \in DepthOps /\ Beyond(counters.depth + 1, MaxDepth)

budget_is_exhausted_for(c) ==
    \/ Reached(c.actions, MaxActions)
    \/ Reached(c.evaluations, MaxEvaluations)
    \/ Reached(c.compute, MaxCompute)
    \/ Reached(c.depth, MaxDepth)

\* Fault: a budget stop has a status of its own, which no session status names.
mark_budget_exhausted(current, c) ==
    IF current # "certified" /\ budget_is_exhausted_for(c) THEN "exhausted" ELSE current

mark_budget_partial(current, c) ==
    IF current # "certified" /\ budget_is_exhausted_for(c) THEN "partial" ELSE current

\* Fault: the depth of the new state is never read.
candidate_depth_unread(s) == counters.depth

candidate_depth(s) == IF DepthOf(s) \in Int THEN DepthOf(s) ELSE counters.depth

\* Fault: an explicit compute_cost is ignored.
candidate_counters_at_default(op, cost, s) ==
    [actions     |-> counters.actions + 1,
     evaluations |-> counters.evaluations + (IF op \in EvaluationOps THEN 1 ELSE 0),
     compute     |-> counters.compute + default_compute_cost("semantic", op),
     depth       |-> candidate_depth(s)]

candidate_counters(op, cost, s) ==
    [actions     |-> counters.actions + 1,
     evaluations |-> counters.evaluations + (IF op \in EvaluationOps THEN 1 ELSE 0),
     compute     |-> counters.compute + cost,
     depth       |-> candidate_depth(s)]

-----------------------------------------------------------------------------
(* start: the constructor and the eagerly recorded start pair *)

StartCounters == [actions |-> 1, evaluations |-> 0, compute |-> 1, depth |-> 0]

StartPair ==
    [kind |-> "start", op |-> NoOp, target |-> 0, prior |-> NoRevision,
     status |-> "accepted", revision |-> state_digest(InitialState),
     cost |-> 1, error |-> "none"]

Init ==
    /\ log = <<StartPair>>
    /\ dangling = NoAction
    /\ state = InitialState
    /\ counters = StartCounters
    /\ status = mark_budget_partial("active", StartCounters)
    /\ evaluation = NoEvaluation

-----------------------------------------------------------------------------
(* Recording *)

Refusals == {i \in DOMAIN log : log[i].error = "refused"}
Room == Len(log) < IF Refusals = {} THEN MaxPairs ELSE MaxRefusedPairs

\* _rejected_result and _record_rejected: append the pair, charge one action.
\* With an ACTION dangling, record_action raises and the call changes nothing.
RecordRejection(kind, op) ==
    /\ Room
    /\ Cardinality(Refusals) < MaxRefusals /\ Len(log) < MaxRefusedPairs
    /\ dangling = NoAction
    /\ UNCHANGED <<state, status, evaluation>>
    /\ \/ /\ log' = Append(log, RejectedPair(record_action(kind, op, 0), "refused"))
          /\ counters' = [counters EXCEPT !.actions = @ + 1]
          /\ UNCHANGED dangling
       \/ /\ "result" \in Faults
          /\ dangling' = record_action(kind, op, 0)
          /\ UNCHANGED <<log, counters>>

\* _close_dangling_action: the repair may itself raise, and is then swallowed.
CloseDangling(a) ==
    \/ /\ log' = Append(log, RejectedPair(a, "recording_failed"))
       /\ dangling' = NoAction
    \/ /\ "close" \in Faults
       /\ dangling' = a
       /\ UNCHANGED log

\* The recording of an otherwise acceptable action fails: on the ACTION because
\* of an earlier dangling one (parity), or on the RESULT.
RecordingFails(a) ==
    /\ Room
    /\ UNCHANGED <<state, counters, status, evaluation>>
    /\ \/ dangling # NoAction /\ CloseDangling(dangling)
       \/ dangling = NoAction /\ "result" \in Faults /\ CloseDangling(a)

-----------------------------------------------------------------------------
(* apply *)

Costs == CallerCosts \cup {DefaultCost}
KnownRevisions == {log[i].revision : i \in DOMAIN log} \cup {NoRevision}
IsCurrent(prior) == prior = NoRevision \/ prior = last_revision(log)

\* The requests apply() distinguishes before it reads their content.
Requests == {<<"semantic", op>> : op \in Ops} \cup {<<"rollback", NoOp>>, <<"start", NoOp>>}

\* Fault: the status gate is missing.
AdmittedInAnyStatus(kind, op, given) == ~budget_violation(op, CostOf(kind, op, given))

Admitted(kind, op, given) ==
    ~budget_violation(op, CostOf(kind, op, given)) /\ status = "active"

ApplyFinalizeByName == RecordRejection("finalize", NoOp)

ApplyOverBudget ==
    \E r \in Requests, given \in Costs :
        /\ budget_violation(r[2], CostOf(r[1], r[2], given))
        /\ RecordRejection(r[1], r[2])

ApplyInactive ==
    \E r \in Requests, given \in Costs :
        /\ ~budget_violation(r[2], CostOf(r[1], r[2], given))
        /\ status # "active"
        /\ RecordRejection(r[1], r[2])

ApplyStale ==
    \E r \in Requests, given \in Costs, prior \in KnownRevisions :
        /\ Admitted(r[1], r[2], given)
        /\ ~IsCurrent(prior)
        /\ RecordRejection(r[1], r[2])

\* kernel.validate reports errors.
ApplyInvalid(op) ==
    /\ \E given \in Costs : Admitted("semantic", op, given)
    /\ ~Validates(op, state)
    /\ RecordRejection("semantic", op)

\* Executing the live actions followed by this one raises.
ApplyProjectionFails(op) ==
    /\ Room
    /\ \E given \in Costs : Admitted("semantic", op, given)
    /\ Validates(op, state)
    /\ ProjectWith(record_action("semantic", op, 0)) \notin KernelStates
    /\ RecordRejection("semantic", op)

\* Fault: the trajectory does not check that actions and results alternate.
CommitWithoutParity(a, new, cost) ==
    /\ Room
    /\ log' = Append(log, AcceptedPair(a, new, cost))
    /\ state' = new
    /\ counters' = candidate_counters(a.op, cost, new)
    /\ status' = mark_budget_partial(status, candidate_counters(a.op, cost, new))
    /\ UNCHANGED <<dangling, evaluation>>

\* The commit that follows the recording.  A clock that raises at updated_at
\* leaves everything committed except the budget-driven status.
Commit(a, new, cost) ==
    /\ Room
    /\ dangling = NoAction
    /\ log' = Append(log, AcceptedPair(a, new, cost))
    /\ state' = new
    /\ counters' = candidate_counters(a.op, cost, new)
    /\ \/ status' = mark_budget_partial(status, candidate_counters(a.op, cost, new))
       \/ "stamp" \in Faults /\ status' = status
    /\ UNCHANGED <<dangling, evaluation>>

ApplyAccepted(op) ==
    \E given \in Costs :
        LET a == record_action("semantic", op, 0) IN
        /\ Room
        /\ Admitted("semantic", op, given)
        /\ Validates(op, state)
        /\ \E new \in {ProjectWith(a)} \cap KernelStates :
              Commit(a, new, CostOf("semantic", op, given)) \/ RecordingFails(a)

\* apply("start"): nothing but the kernel's validate keeps a client from
\* recording a second start, which the projection then ignores.
ApplyStartAgain ==
    \E given \in Costs :
        LET a == record_action("start", NoOp, 0) IN
        /\ Admitted("start", NoOp, given)
        /\ \/ ~StartIsKnown /\ RecordRejection("start", NoOp)
           \/ /\ StartIsKnown
              /\ \E new \in {ProjectWith(a)} \cap KernelStates :
                    Commit(a, new, CostOf("start", NoOp, given)) \/ RecordingFails(a)

\* A rollback whose target is unknown, rejected, a control action or rolled
\* back already, or whose payload lacks the field kernel.validate requires.
RollbackRefused ==
    /\ \E given \in Costs : Admitted("rollback", NoOp, given)
    /\ RecordRejection("rollback", NoOp)

RollbackProjectionFails(target) ==
    /\ Room
    /\ \E given \in Costs : Admitted("rollback", NoOp, given)
    /\ validate_rollback_target(target)
    /\ ProjectWith(record_action("rollback", NoOp, target)) \notin KernelStates
    /\ RecordRejection("rollback", NoOp)

RollbackAccepted(target) ==
    \E given \in Costs :
        LET a == record_action("rollback", NoOp, target) IN
        /\ Room
        /\ Admitted("rollback", NoOp, given)
        /\ validate_rollback_target(target)
        /\ \E new \in {ProjectWith(a)} \cap KernelStates :
              Commit(a, new, CostOf("rollback", NoOp, given)) \/ RecordingFails(a)

rebuild_projection ==
    /\ state' \in {Project(Effects(log))} \cap KernelStates
    /\ UNCHANGED <<log, dangling, counters, status, evaluation>>

-----------------------------------------------------------------------------
(* finalize *)

projected_counters ==
    [counters EXCEPT !.actions = @ + 1, !.evaluations = @ + 1,
                     !.compute = @ + default_compute_cost("finalize", NoOp)]

\* Fault: the budget the finalize itself uses is not looked at.
UndemotedVerdict == Verdict(state)

\* A certified verdict is demoted when the finalize itself exhausts a budget.
SettledVerdict ==
    IF Verdict(state) = "certified" /\ budget_is_exhausted_for(projected_counters)
    THEN "partial" ELSE Verdict(state)

StatusOf(verdict) ==
    IF verdict = "certified" THEN "certified"
    ELSE IF verdict \in {"partial", "ineligible"} THEN "partial"
    ELSE "insufficient"

Finalize ==
    /\ status = "active"
    /\ Verdict(state) # "malformed"
    /\ LET a == record_action("finalize", NoOp, 0) IN
       \/ /\ Room
          /\ dangling = NoAction
          /\ log' = Append(log, AcceptedPair(a, state, default_compute_cost("finalize", NoOp)))
          /\ evaluation' = SettledVerdict
          /\ status' = StatusOf(SettledVerdict)
          /\ counters' = projected_counters
          /\ UNCHANGED <<dangling, state>>
       \/ RecordingFails(a)

-----------------------------------------------------------------------------
Next ==
    \/ ApplyFinalizeByName
    \/ ApplyOverBudget
    \/ ApplyInactive
    \/ ApplyStale
    \/ \E op \in Ops : ApplyInvalid(op)
    \/ \E op \in Ops : ApplyProjectionFails(op)
    \/ \E op \in Ops : ApplyAccepted(op)
    \/ ApplyStartAgain
    \/ RollbackRefused
    \/ \E target \in 1..MaxPairs : RollbackProjectionFails(target)
    \/ \E target \in 1..MaxPairs : RollbackAccepted(target)
    \/ rebuild_projection
    \/ Finalize

Spec == Init /\ [][Next]_vars

-----------------------------------------------------------------------------
(* replay: walk the pairs through the kernel in a sandbox.  Actions that are *)
(* rolled back anywhere in the trajectory are skipped from the start;        *)
(* control pairs re-project the pairs up to and including themselves; the    *)
(* sandbox state advances only on a digest match; an exception ends it.      *)

\* Fault: only semantic pairs are replayed, rolled back or not.
ReplaySemanticOnly(l, i, sandbox) ==
    LET candidate == Execute(l[i].op, sandbox.state)
    IN  IF sandbox.broken \/ ~IsAccepted(l, i) \/ l[i].kind # "semantic" THEN sandbox
        ELSE IF candidate = NoState
        THEN [sandbox EXCEPT !.mismatches = @ \cup {i}, !.broken = TRUE]
        ELSE IF state_digest(candidate) = l[i].revision
        THEN [sandbox EXCEPT !.state = candidate]
        ELSE [sandbox EXCEPT !.mismatches = @ \cup {i}]

ReplayStep(l, i, sandbox) ==
    LET candidate == IF l[i].kind = "semantic" THEN Execute(l[i].op, sandbox.state)
                     ELSE Project(Effects(SubSeq(l, 1, i)))
    IN  IF sandbox.broken \/ ~IsAccepted(l, i) \/ i \in rolled_back_sequences(l)
        THEN sandbox
        ELSE IF candidate = NoState
        THEN [sandbox EXCEPT !.mismatches = @ \cup {i}, !.broken = TRUE]
        ELSE IF state_digest(candidate) = l[i].revision
        THEN [sandbox EXCEPT !.state = candidate]
        ELSE [sandbox EXCEPT !.mismatches = @ \cup {i}]

Sandboxes(l) ==
    LET upto[i \in Nat] ==
            IF i = 0 THEN [state |-> InitialState, mismatches |-> {}, broken |-> FALSE]
            ELSE ReplayStep(l, i, upto[i - 1])
    IN  upto

replay(l) == Sandboxes(l)[Len(l)]

ReplayMatches(l) == replay(l).mismatches = {}

-----------------------------------------------------------------------------
(* Properties *)

Kinds       == {"start", "semantic", "rollback", "finalize"}
Revisions   == [sha256 : KernelStates] \cup {NoRevision}
Actions     == [kind : Kinds, op : Ops \cup {NoOp}, target : Nat, prior : Revisions]
Pairs       == [kind : Kinds, op : Ops \cup {NoOp}, target : Nat, prior : Revisions,
                status : {"accepted", "rejected"}, revision : Revisions,
                cost : Int, error : {"none", "refused", "recording_failed"}]
Counters    == [actions : Nat, evaluations : Nat, compute : Int, depth : Int]
Statuses    == {"active", "certified", "insufficient", "partial"}

\* The type invariant of the session object.
TypeOK ==
    /\ log \in Seq(Pairs)
    /\ dangling \in Actions \cup {NoAction}
    /\ state \in KernelStates
    /\ counters \in Counters
    /\ status \in Statuses

\* The visible state is the projection of the accepted live actions, whatever
\* rejections, rollbacks, failed recordings and verdicts lie between them.
StateIsProjection == state = Project(Effects(log))

\* Every document export() can produce is one _rehydrate and from_export
\* accept: priors chain along the accepted revisions, and the persisted state
\* has the digest of the last one.
ExportRehydrates ==
    /\ last_revision(log) = state_digest(state)
    /\ \A i \in DOMAIN log : log[i].prior = last_revision(SubSeq(log, 1, i - 1))
    /\ dangling # NoAction => dangling.prior = last_revision(log)

\* An accepted rollback names an earlier accepted semantic action, and no two
\* accepted rollbacks name the same one.
RollbacksAreSound ==
    LET Rollbacks == {i \in DOMAIN log : IsAccepted(log, i) /\ log[i].kind = "rollback"} IN
    /\ \A i \in Rollbacks : LET t == log[i].target IN
          t \in 1..(i - 1) /\ IsAccepted(log, t) /\ log[t].kind = "semantic"
    /\ \A i, j \in Rollbacks : log[i].target = log[j].target => i = j

Positions(Test(_)) == {i \in DOMAIN log : Test(log[i])}

\* The sums c[1] + ... + c[n], for each n.
RunningSum(c) == LET sum[n \in Nat] == IF n = 0 THEN 0 ELSE sum[n - 1] + c[n] IN sum

CostsAt(l, S) == [n \in Nat |-> IF n \in S THEN l[n].cost ELSE 0]
TotalCost(S)  == RunningSum(CostsAt(log, S))[Len(log)]

\* The budget counters are what the trajectory accounts for: a failed recording
\* is never charged, a rejection costs one action, an accepted pair its cost.
CountersMatchLog ==
    LET Recorded(p)  == p.error # "recording_failed"
        Evaluated(p) == p.status = "accepted" /\ (p.kind = "finalize" \/ p.op \in EvaluationOps)
    IN  /\ counters.actions = Cardinality(Positions(Recorded))
        /\ counters.evaluations = Cardinality(Positions(Evaluated))
        /\ counters.compute = TotalCost(DOMAIN log)

\* What accepted actions spent, read from the trajectory and not from the
\* counters, stays within the policy; finalize is charged outside it.
SpendingWithinCaps ==
    LET Spent(p) == p.status = "accepted" /\ p.kind # "finalize"
        Eval(p)  == Spent(p) /\ p.op \in EvaluationOps
    IN  Cardinality(Positions(Spent)) > 1 =>
        /\ ~Beyond(Cardinality(Positions(Spent)), MaxActions)
        /\ Positions(Eval) # {} => ~Beyond(Cardinality(Positions(Eval)), MaxEvaluations)
        /\ ~Beyond(TotalCost(Positions(Spent)), MaxCompute)

\* A certified session carries a state the kernel certifies, its last accepted
\* pair is the finalize, and the recorded evaluation says certified.
CertifiedIsEarned ==
    status = "certified" =>
        /\ Verdict(state) = "certified"
        /\ evaluation = "certified"
        /\ log[LastAccepted(log)].kind = "finalize"

\* The step that certifies leaves no budget exhausted.
NoCertificateOnExhaustedBudget ==
    [][status # "certified" /\ status' = "certified"
         => ~budget_is_exhausted_for(counters')]_vars

\* Once the session leaves ACTIVE its state, status, evaluation and accepted
\* history are settled: later calls can only append rejections.
TerminalIsFinal ==
    [][status # "active" =>
         /\ state' = state /\ status' = status /\ evaluation' = evaluation
         /\ last_revision(log') = last_revision(log)
         /\ Effects(log') = Effects(log)]_vars

\* An ACTION that lost its RESULT is closed by a rejection of that very action
\* before anything else is recorded: no other result is ever paired with it.
DanglingIsOnlyRejected ==
    [][dangling # NoAction =>
         \/ dangling' = dangling /\ log' = log
         \/ /\ dangling' = NoAction
            /\ log' = Append(log, RejectedPair(dangling, "recording_failed"))]_vars

\* For its client the session is a plan of actions that takes effect at once:
\* the live actions are the plan, accepted semantic positions the tickets.
\* Refused and failed calls, second starts and rebuilt projections do nothing.
Issued(l) == {i \in DOMAIN l : IsAccepted(l, i) /\ l[i].kind = "semantic"}

ClientSession == INSTANCE AgentSession
    WITH plan <- Effects(log), issued <- Issued(log),
         Tickets <- 1..(MaxPairs + MaxRefusedPairs)

ImplementsSession == ClientSession!Spec

\* A trajectory whose rollbacks each undo the latest live action replays.
IsLifo(l) ==
    \A i \in DOMAIN l : IsAccepted(l, i) /\ l[i].kind = "rollback" =>
        \A j \in (l[i].target + 1)..(i - 1) :
            j \notin DOMAIN Effects(SubSeq(l, 1, i - 1))
LifoReplays == IsLifo(log) => ReplayMatches(log) /\ replay(log).state = state

\* trajectory.py:12-13: replaying accepted events through the injected kernel
\* must reconstruct the same state.
ReplayReconstructs == replay(log).state = state
=============================================================================
