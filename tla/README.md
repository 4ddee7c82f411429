# A verification development for aie-decision

TLA+ modules for the decision runtime in `src/src/aie_decision` and its scripts,
the TLC configurations that check them on small instances, and proofs checked by
TLAPS. Paths below are relative to `src/src/aie_decision` unless they start with
`src/`.

## 1. The system

aie-decision is a library and a set of command-line programs with which an AI
agent breaks an uncertain question down into measurable parts. There is no
server, no thread and no lock: each call runs to completion. What makes the code
hard is not parallelism inside a process but long sequences of calls over state
that is re-derived from a history, ledgers that another piece of code must be able
to replay, and separate CLI processes on one file.

### 1.1 Components

| Component | State it keeps | Operations | Modelled in |
|---|---|---|---|
| Agent runtime (`agent_runtime*.py`, `trajectory.py`) | append-only trajectory of ACTION/RESULT events, projected state, counters, status, last evaluation | `start`, `apply`, `rollback`, `finalize`, `rebuild_projection`, `replay`, `export`, `from_export` | `AgentRuntime` |
| Default journal kernel (`agent_cli._DefaultKernel`) | recordings, depth, frontier | `validate`, `execute`, `evaluate_frontier` | `JournalKernel` |
| Fermi kernel (`fermi_kernel*.py`) | question, recorded tree actions, exported tree, dependence, evaluation, frontier test, depth | seven actions, rebuild of the tree | `FermiKernel`, `FermiSession` |
| Decomposition tree (`decomposition_tree.py`, `tree_*.py`) | nodes, expansions, branches, gaps | expand, alternative, atom, gap, prune, mark unresolved | `DecompositionTree`, as functions (partly) |
| Frontier certification (`frontier*.py`) | none (pure) | sufficiency, necessity and saturation gates, certificate | `FrontierGates` |
| CLI session store (`agent_cli.py`) | one JSON document, sibling temporary files | `start`, `apply`, `finalize`, `inspect`, `replay` | `SessionStore` |
| Closed-loop search (`search.py`, `candidate_generation.py`, `ablation.py`) | candidate queue, known formulas, budgets, selection | one run to a stop reason | `SearchLoop` |
| Search ledger and its replay (`ledger.py`, `search_replay.py`) | ordered events; revision lineage of records | append, validate, replay, checkpoint | `SearchReplay`, `AnalysisLedger` |
| Wave loop (`wave_loop*.py`) | the round, its ledger, typed actions | draft, evaluate, accept, refine, give up, replay | `WaveLoop` (partly) |
| Joint wave surface and its authority (`wave_authority.py`, `joint_schema.py`, `factor_ir.py`, `particle_surface.py`, `wave_diagnostics.py`) | provenance of the stages | seven stages, exit code | `WaveAuthority` (partly) |
| Acceptance scripts (`src/scripts`) | the run's ledger and projection | run, replay | `MvpRunner`, `WaveAuthority` (partly) |
| Evidence pipeline (`pipeline.py`, `evidence.py`, `scenes.py`, `decomposition.py`, `validation.py`, `cli.py`, ...) | contract, graph, propositions, scene, ledger, output files | compile, revise, invalidate, record | `CompileAnalysis`, `AnalysisSession` and four operator modules (partly) |
| Derived factors (`factors.py`) | lifecycle of a factor | propose, assess, transition | `CompileAnalysis`, proposing only (partly) |
| Units, expressions, intervals (`fermi*.py`, `intervals.py`, ...) | none (pure) | unit algebra, formula parsing, interval audit | `IntervalAudit` (partly) |
| Probability propagation (`probability*.py`) | none (pure) | sampling, quantile fits, ranking | in `FermiKernel`: validity and ranking (partly) |

### 1.2 How they interact

A client calls the *runtime*. It checks budgets and status, asks its *kernel* to
validate the request, re-executes the whole live history through the kernel to
obtain the next state (`_project_state`), and records the ACTION and its RESULT
with the digest of that state. The kernel is injected: the default one only
journals, the Fermi one rebuilds a decomposition tree from the tree actions its
state holds and, for `test_frontier`, runs the gates of `frontier.py` with its own
callbacks. `finalize` asks the kernel for a verdict and settles the status. A CLI
command is a process that reads the session document, rehydrates a runtime, makes
one call and replaces the document.

The *search* is another client of the numeric code: one call works a queue of
candidate formulas to a stop reason, and hands the ledger it wrote to
`search_replay`, whose replayed state is the checkpoint. The *wave authority* calls
its stages in order, each caught on its own, then the *wave loop* on the payload,
which evaluates a surface of its own, then the loop's replay, and the command
decides on the provenance whether to fail. The *MVP runner* drives its own round and
projects its ledger onto the search ledger, so that `search_replay` is also its
judge. The *compile* command is a pipeline of pure constructors followed by a ledger
and three files; a program using the library goes on from there, revising the
question and carrying its condition graph over.

### 1.3 What is hard, and what must hold

- *Long histories.* A rollback takes one action out of the middle of the history;
  everything after it is executed again on states it never saw. The visible
  state must be the projection of what is left, digests must chain, an action may
  be rolled back once, a stale evaluation must not be finalized.
- *Budgets at their edge.* Actions, evaluations, compute and depth are charged on
  different paths, some before and some without a check; the verdict must not
  claim completion on a budget stop. The search has four budgets of its own, and
  what a budget cuts off must remain pending.
- *Exceptions in the middle of a call.* The clock and the event store are
  injected and may raise between an ACTION and its RESULT, in the repair of that,
  and after the commit. Every stage of the wave authority may fail and be caught,
  every one of the compiler may raise, and what is left must not look complete.
- *Replay.* `replay` walks the history in another way than `apply` built it; three
  ledgers are read back by code that shares nothing with the code that writes
  them.
- *Order.* Candidates pass and fail in different rounds, sources arrive in some
  order, revisions are recorded in some order: selection, disputes and lineage must
  not depend on it.
- *Processes and crashes.* Commands overlap and can be killed at any step; the
  document must stay whole, and commands must not block each other for good.

`PROJECT.json` lists each hazard at its line with the properties that watch it.

## 2. Modules

```
AgentSession ~~> AgentRuntime
AgentRuntime ----------------+-> MCJournalSession
JournalKernel ---------------+
AgentRuntime ----------------+
FrontierGates --+            +-> FermiSession -> MCFermiSession
DecompositionTree -> FermiKernel
AgentRuntime -> AgentRuntimeProofs --+
FermiSession ------------------------+-> FermiSessionProofs

SessionDocument ~~> SessionHistory
SessionStore -> SessionHistory -> MCSessionStore, SessionStoreProofs

SearchReplay ~~> SearchLoop -> MCSearchLoop, SearchLoopProofs
SearchReplay ~~> MvpRunner -> MvpRunnerProofs
WaveLoop -> WaveAuthority -> MCWaveAuthority, WaveProofs

AnalysisLedger -> AnswerContract --+
EvidenceScene ---------------------+-> CompileAnalysis -> AnalysisSession
IntervalAudit ---------------------+      -> MCAnalysisSession, AnalysisSessionProofs

NatRecursion ~~> AgentRuntimeProofs, WaveProofs, FermiSessionProofs, MvpRunnerProofs
```

`->` is EXTENDS, `~~>` is INSTANCE ... WITH: `AgentSession`, `SessionDocument` and
`SearchReplay` are abstract specifications that the modules on their right are held
to, `NatRecursion` is a theory that proofs use.
Operators whose comment starts with "Fault:" are deliberate bugs; no specification
uses them, they exist to show that each property can fail.

### 2.1 Runtime, kernels and tree

**AgentRuntime** is the runtime over any kernel: the kernel is a set of constant
operators (`Validates`, `Execute`, `DepthOf`, `Verdict`, the categories of
`action_specs`). Calls are steps, because a call returns before the next.

| Variable | Code |
|---|---|
| `log` | completed (ACTION, RESULT) pairs of `Trajectory`; pair i is the events 2i-1 and 2i, so a target here is the position of the pair |
| `dangling` | a trailing ACTION without its RESULT |
| `state`, `counters`, `status` | the fields of the same name |
| `evaluation` | the status in `frontier_evaluation` |

`apply` is split along its early returns, in the order of the code:
`ApplyFinalizeByName`, `ApplyOverBudget`, `ApplyInactive`, `ApplyStale`, then
`RollbackRefused`, `ApplyInvalid`, `ApplyProjectionFails`, and the commits
`ApplyAccepted`, `ApplyStartAgain` (nothing in the runtime rejects a second
`start`, only a kernel's `validate` may) and `RollbackAccepted`. A rejection that
finds a dangling ACTION raises and changes nothing; an acceptable call that finds
one closes it as a rejection. `Faults` says where an exception may strike:
`result` (between the events), `close` (in the repair, which is swallowed) and
`stamp` (the clock at `updated_at`, after the commit). A digest is an injective
value of the state; SHA-256 collisions are left out. The two walks over a history,
the projection (`StatesAfter`, `Project`) and the replay (`Sandboxes`), are
recursive functions of the position, so that the proofs can reason about them.

**AgentSession** is what a client may think a session is: a plan of actions in
force, each under a ticket, and a standing. An action is executed on the present
state and joins the plan, one taken back leaves the state the others lead to, and a
session that is not active stays as it is. There is no trajectory in it, no digest,
no budget and no failing call. `AgentRuntime` implements it with `plan <-
Effects(log)`, the live actions, and `issued <- Issued(log)`, the positions of all
accepted semantic ones: a position is the ticket, `rollback` is `TakeBack`, and
refusals, exceptions, second starts and rebuilt projections are stutters.

One state deserves a name: a *rejected* call also costs an action, but only a
commit checks whether the budget is used up (`agent_runtime_execution.py:307`). A
session whose last action was spent on a refusal stays ACTIVE and refuses every
further call.

**JournalKernel** and **FermiKernel** instantiate the kernel. In the Fermi kernel
the numbers are abstracted to what the gates compare: a marginal is constant, tight,
wide, unknown or malformed, the first three with widths 0, 1 and 3, and the width of
the target is the sum of its leaves' (`joint_sample` with a linear expression, and
monotone in every leaf like the sampled one). An undeclared or unknown dependence
spoils the interval only when two leaves are uncertain, as in `joint_sample`; more
than two uncertain leaves with the default negative correlation make it raise. The
tree is not abstracted: **DecompositionTree** has the nodes, expansions,
alternatives, redundancy, branches and gaps with their creation-order ids, because
renumbering is one of the things that go wrong. Formulas are canonical forms; a
claim is sound or not. The rebuilt tree (`TreesAfter`), the depth of a node
(`Depths`) and its formula (`Rendered`) are recursive functions too; a width is
counted by the leaves of each kind. An unsound *second* claim on a leaf that is
atomic already replaces its record (`fermi_kernel_tree.py:184`): the model does what
the code does, and no property says otherwise.

**FrontierGates** has `frontier.py` and `frontier_necessity.py` as operators:
`evaluate_sufficiency`, `evaluate_necessity` over executed deletions and
replacements, `evaluate_saturation` and `certify_frontier`. The saturation gate is
defined by where its walk ends, which is what the properties need; `saturation_loop`
is the loop of the code, call by call. An assumption of `MCFermiSession`, which TLC
evaluates, compares the two on every walk of three calls, a theorem on every walk.
**FermiSession** composes runtime and Fermi kernel and states what a session
promises about its tree and certificate.

**SessionStore** has one process per CLI command. A process loads (or checks),
opens the temporary file exclusively, writes and syncs, renames, answers; it can
fail at each of these and be killed between any two. A document is its start
command and the recorded commands. A pid stands for the name of the temporary
file: the name also holds `id(document)`, an address that a fresh process with
the same code commonly repeats; two processes with one pid never run at once.
**SessionHistory** adds one history variable, whether commands have overlapped.
**SessionDocument** is the store as one would like it: a document that each command
changes in a single step, `Start` where there is none or by `--force`, `Record` by
adding to the one that is there. Processes, temporary files, failures and crashes
are gone; with `document <- file`, commands that do not overlap implement it.

### 2.2 Search

**SearchLoop** is `search_fermi`. `pc` follows the nesting of its loops (seeding,
round, select, evaluate, rank, children, finish), `queue`, `queued`,
`known_formulas`, `evaluations`, `round_index` and `stop_reason` are the locals of
the same name, `current` is what is left of the round's candidates, and `focus` the
candidate at hand. A formula is known by the grade it earns (passed, failed,
invalid, unreadable), its identity as an expression and its size; the clock may run
out wherever the code reads it. Declared candidates, the mechanical ablations of a
passing one (`ablation.py`) and the proposals of the mutation templates
(`candidate_generation.py`) are offered in the order of the code, and each is
skipped, activated or refused for the budget.

**SearchReplay** is the automaton of `replay_search_ledger`, and so the abstract
specification of everything that writes a search ledger. `SearchLoop` implements it
under the mapping `replayed <- Replayed`, which computes from the ledger what the
replay would know; `MvpRunner` runs the same automaton over its projection.
`Replays` reads a whole ledger with it, as a recursion over the entries.

### 2.3 Wave

**WaveLoop** is `run_wave_loop` with its decision policy, the typed actions and
`replay_wave_ledger`. `decision_actions` is the set of the rankings that the sort by
gain and its cut at `max_actions` can give; a replay is a recursion over the ledger.
Of a surface it reads the width of each axis, whether the effective sample size
suffices, and the gain each action promises. **WaveAuthority** puts the stages of
`run_authoritative_wave` around it; `components` is what the provenance records and
`invoked` what really ran, which are not the same thing. The command's exit codes
are its last step. **MvpRunner** is `run_joint_wave_surface_mvp.py`: one run with
its typed action, the projection of its ledger onto search events (a recursion over
the events that counts the regimes and the candidates seen), and the replay command
with its two reruns. The projection hashes each entry and is sanitized afterwards,
so an event also says whether its numbers are finite: `sanitize_for_json` turns
those that are not into text, and `HashMatches` is the check of
`search_replay.py:90-92`, which the search's own ledger passes by construction.
Either evaluation may raise.

### 2.4 Evidence

**CompileAnalysis** walks `compile_analysis` stage by stage (contract, graph,
sources, fact bindings, scene, factors, interval, package, ledger) and the
`compile` command around it with its three files; every stage may raise where the
code does, and every write may fail. The data it builds comes from
**AnswerContract** (contracts, their material fields, condition graphs,
answerability, invalidation), **EvidenceScene** (what a passage says, how
propositions become events, claims, disputes and gaps), **IntervalAudit** and
**AnalysisLedger** (`append` with its lineage rules). A passage is a model value
whose reading says what the patterns of the code find in it. **AnalysisSession**
lets a program go on: it revises any version of the contract, carries any version of
the graph over to any other, and offers any version to the ledger, in any order.

## 3. Runs

| Run | Question | Bounds |
|---|---|---|
| JournalSession | Do state, trajectory, counters, status and replay agree after any history, with recordings that fail midway? | five pairs, one refused, action cap 5, compute cap 6, depth cap 2, an explicit cost of -1, all three faults |
| FermiCertification | Can a stale or unanswerable tree be certified, or a budget stop? | eight pairs, action cap 9, evaluation cap 3, no refusal |
| FermiStructure | Do tree, branch and depth follow the recorded actions? | eight pairs, or five of which one is refused, depth cap 3 |
| SessionCommands | Commands that overlap, fail and are killed: whole documents, no stray files, no trace of failures, every command ends | two starts (one forced), two writers, one reader, three pids used again |
| SearchLoop | Is every ledger replayable, every candidate accounted for, the selection minimal, the stop reason true, the end certain? | two seeds, a declared revision and ablation, two mechanical ablations, two proposals, every grade of the formulas, five budgets |
| WaveAuthority | Does success mean that everything ran, and do verdict, actions and replay agree? | two mappings with six ways to compile, two axes of four kinds, three gain vectors, two actions, any stage failing |
| MvpRunner | When does a projected ledger replay, and why may a replay differ? | all fixtures and surfaces, finite numbers or not, evaluations that raise, two rounds, a run and two reruns |
| AnalysisSession | Is what is compiled valid, what is recorded one line, and what is answered still asked? | families of payloads that vary one part over all it can be, two runs of the command, three contracts and three graphs |

What they show, property by property:

- *JournalSession.* `StateIsProjection`: the visible state is the projection of the
  live actions. `ExportRehydrates`: priors chain along the accepted revisions, so
  every export can be read back. `RollbacksAreSound`: only accepted semantic actions
  are rolled back, once each. `CountersMatchLog`, `SpendingWithinCaps`: what was
  charged is what the trajectory shows; what accepted actions spent, read off the
  trajectory, is within the caps, the cap on evaluations included. `LifoReplays`: as
  long as rollbacks undo the last action, `replay` reconstructs the state (in
  general it does not, see ReplayDivergence). `DanglingIsOnlyRejected`: an ACTION
  that lost its RESULT is only ever closed as a rejection. `ImplementsSession`: the
  runtime with its trajectory, digests, budgets and failing calls is an
  `AgentSession`: whatever a call does, it performs one action on the present state,
  takes one back, settles, or does nothing a client can see, and a certificate is
  about the state that the client sees.
- *FermiCertification.* `EvaluationIsFresh`: a stored evaluation or test is that of
  the present tree. `CertifiedIsEarned`, `CertifiedIsAnswerable`: a certified session
  has atomic leaves with known marginals, a declared dependence when two are
  uncertain, a target as narrow as the question asks, and no leaf whose exact
  measurement would still help. `NoCertificateOnExhaustedBudget`.
- *FermiStructure.* `TreeIsRebuilt`: tree and depth are what the recorded actions
  rebuild. `CurrentBranchIsATree`: one expansion per node, none redundant, every
  active leaf atomic or on the frontier. `DepthWithinCap`: no sequence of expansions
  grows the tree beyond the cap; a rollback may (section 3.1), and the session is
  then settled unless its last stamp failed.
- *SessionCommands.* `DocumentIsWhole`, `TmpIsAccountedFor`, `UnpublishedIsInvisible`,
  `CommandsEnd`; `SequentialUseKeepsSaved`: as long as commands did not overlap, what
  was saved and answered is still there (with overlap it is not, see LostAction).
  `SequentialUseIsAtomic`: as long as they did not, check, load, temporary file and
  rename come to one step on the document that is there.
- *SearchLoop.* `ReplayAccepts` is the refinement. `CheckpointKeepsPending`: what the
  checkpoint calls pending is what queue and round still hold. `SelectedIsMinimal`,
  `StopIsHonest`, `WorkWithinBudget`, `SearchEnds`.
- *WaveAuthority.* `SuccessIsComplete`: exit code 0 means that every stage ran, that
  the surface consists of the compiled legal mappings, and that what was printed is
  what the ledger replays to. `ReplayAgrees`: replaying the ledger gives the states,
  the terminal reason and the actions that the loop returned. `VerdictFitsActions`,
  `CommandEnds`.
- *MvpRunner.* `ProjectionReplays`: the transitions of a projected ledger are
  accepted whatever the run did, no candidate is left to evaluate, and a run that
  concluded raises in the replay exactly when it recorded a number that is not
  finite (section 3.1). `ReplayDivergesWithCause`: a replay differs because the
  fixture leaves the particles open or because the clock decided a split. Without
  either, every rerun chooses the same action and writes the same ledger.
- *AnalysisSession.* `LineageIsLinear`; `AnswerFitsContract`: no mixture of versions
  answers a question with what was settled for another meaning; `CompiledIsValid`:
  what the validation only reports, the ledger refuses; `NothingIsLaundered`: an
  event stands on wording that states a fact, and is confirmed only when its truth
  was established on reading; `DisputesAreKept`: the order of the sources settles
  nothing; `LedgerFileIsLast`.

Why the bounds are enough. Every guard of the runtime looks at the last accepted
pair, one target and the counters; five pairs hold start, two effects, a rollback of
the earlier one and a further action or finalize, the shortest history in which
re-execution, digests, replay order and caps interact, and the caps lie at or below
the bound, so each budget is both reached and exceeded. `MaxRefusals` keeps refused
calls, which differ only in their cost of one action, from filling the trajectory,
and `MaxRefusedPairs` bounds a trajectory that has one; FermiCertification leaves
them out because a refusal changes nothing a certificate reads. There, define,
expand, two measurements, dependence, test and finalize take eight pairs with
`start`, so a certificate over two uncertain leaves is within the bound, and so are
a test passed and invalidated, and the statuses demoted, insufficient and
structurally complete. For the store, two writers and two starts give every pair of
commands, and the fifth process reads what they left. In the search, each seed can
fail or pass, a declared ablation and revision compete with a mechanical ablation
that has the revision's formula, and a proposal writes a known formula differently;
the five budgets cut the candidates, the rounds, the evaluations, or nothing. The
wave rounds look at each axis and mapping on its own, so two of each show every
combination of a good and a bad one. A payload part is read by one or two stages,
which is why families varying one part at a time reach every error path; three
versions of the contract hold a change of meaning and back.

Deadlock is checked everywhere but in AnalysisSession, where a command that has
exited and a program that has used up its versions really stop. In the others a
finished session, loop or command has a stuttering action of its own.

Violation runs state what a document or comment of the repository says and TLC
finds the code not to do it:

| Run | Statement | What happens |
|---|---|---|
| ReplayDivergence | replay reconstructs the state (`trajectory.py:12-13`) | define, dependence, expansion, measurement of the child, then the dependence is rolled back: replay leaves it out from the start, the expansion's digest differs, the replayed state stays behind, the measurement raises on a node it does not have, and replay breaks off before the rollback that would have re-projected |
| RollbackRebinds | a rollback excludes only the effects of the rolled-back action | later nodes are renumbered, and a live `propose_atom` lands on another node (`fermi_kernel_tree.py:159`) |
| LostAction | every recorded action is appended to the trajectory | two overlapping `apply` processes: the later rename drops the other's action (`agent_cli.py:446`) |
| InvalidIsRejected | an invalid candidate is recorded as REJECT (`src/docs/MVP-SEARCH-LOOP.md:46`) | another candidate fails first; its proposals are compared with every known formula, one of which does not parse, and the search raises (`candidate_generation.py:294`) |

### 3.1 Observations that no run states

Met while modelling; the models do what the code does.

- *Runtime.* `finalize` charges compute past the cap (`agent_runtime_lifecycle.py:170`).
  A rollback of `define_question` leaves an accepted `set_dependence` live although
  `fermi_kernel.py:103` demands the question first. Two overlapping `start` commands
  without `--force` both pass the existence check of `agent_cli.py:407`.
- *Tree.* Rolling back an expansion renumbers the nodes of those that stay, so it
  can make the tree deeper. Expand node 1 into the nodes 2 and 3, propose an
  alternative for it (node 4), and expand 2, 3 and 4: the depth is 2. Rolled back,
  the first expansion leaves a chain in which the expansions of 2, 3 and 4 each grow
  the node that the one before made: the depth is 4, with a cap of 3.
  `_mark_budget_partial` then settles the session, and a partial result is all that
  `agent-decomposition-runtime/spec.md:48` asks. The unit an expansion declares for
  its parent is never compared with the node's (`tree_mutation.py:120`). A redundant
  alternative forks a branch like any other, and the lineage of a fork still holds
  the expansion it competes with (`tree_mutation.py:310-315`).
- *Frontier.* The Fermi kernel's delete callback leaves the other leaves while the
  expression refers to all of them, so the necessity gate can refuse nothing
  (`KernelNecessityHolds`); a negative threshold raises. `require_calibration` accepts
  only `unmeasured`, which every valid sample is. The saturation cursor of the kernel
  never advances. The default negative correlation raises with three uncertain
  leaves, one more than the run's bound.
- *Search.* A mechanical ablation whose formula a declared candidate has is not
  tried for its own parent, so a selected candidate may have an untried removal.
  Nothing checks that a declared ablation reads no more variables than its parent;
  one that grows still displaces it, and the smallest that passed is then not
  selected. `SelectedIsMinimal` claims the size under `Shrinking` only.
  `ranking_method` mentions cost, the sort does not use it.
- *Wave.* The loop is handed the whole payload, mappings marked `expect_failure`
  included, although the surface before it is built from the legal ones only
  (`wave_authority.py:718`; the comment at `wave_authority.py:655` speaks of the
  surface). A ledger or replay stage after a loop that raised is recorded as called.
  The replay keeps only the actions of REFINING events. An acceptance can be
  followed by one action more than `max_actions`. The command prints `result-found`
  also when it exits with 3.
- *Runner.* A regime split records RESULT and concludes `budget-exhausted`: the
  decision over its second surface is computed and never read; a stop that is only
  the fallback is concluded as `result-found`. The clock check makes a replay
  non-deterministic. A fixture that names no particles never replays: `run` and
  `replay` fill in different defaults. And a run that recorded an infinite relative
  width (`wave_mvp_surface.py:281`), or whose fixture has an infinite domain, comes
  to its conclusion and then raises: its projection is hashed before the sanitizing
  of `run_joint_wave_surface_mvp.py:554` changes the number, and the replay of its
  own ledger finds another hash, although `wave-surface-search-loop/spec.md:41` asks
  for a replayable ledger. `ProjectionReplays` says that this is the only way to get
  there.
- *Evidence.* An interval with a width ratio between one and two passes the audit as
  informative and is refused by the validation. After a revision of wording only, the
  graph stays bound to the old revision and is answered `INVALID_CONTRACT`. A contested
  event lists contested atoms of other fields as counter-evidence. The exit code 2 of
  `compile` for validation issues is never reached: the ledger raises first.
- *Factors.* `assess_identifiability` (`factors.py:83`) can make a supported factor
  non-identifiable and leaves its status, while `transition_factor` refuses to promote
  such a factor; neither has a caller in the package.

## 4. Fairness

The runtime is synchronous and nothing in it must eventually happen without a
caller, so its specification has no fairness; neither has the analysis session. A
CLI process that has begun is scheduled by the operating system: `SessionStore`
assumes weak fairness of each process's next step forward (open, write, rename,
answer) and nothing of beginnings, failures, crashes or pids. `CommandsEnd` then says
that every command that begins ends, even when it finds the temporary file of a
killed process that had its pid. `SearchLoop` and `WaveAuthority` are each one thread
that waits for nothing, so `WF_vars(Next)` says only that the interpreter goes on:
that they end is a fact about their queues, budgets and error paths, not about
fairness.

## 5. Proofs

All for every value of the constants, under the assumptions named in the modules. A
theorem named in brackets after a property states that property.

**AgentRuntimeProofs**, for every kernel, budget, fault set and bound. Assumed: the
initial state is a kernel state, `NoState` is not, costs are integers, caps are
integers or unlimited. Nothing is assumed of `Execute`: it may depend on anything,
raise anywhere, and undo or repeat what it did.

- `StateIsProjection` (`ProjectionCorrect`), `ExportRehydrates` (`ExportCorrect`),
  `RollbacksAreSound` (`RollbackCorrect`), `CertifiedIsEarned`
  (`CertificationCorrect`), `NoCertificateOnExhaustedBudget`
  (`BudgetStopIsNoCertificate`), `TypeCorrect`, and `SettlementCorrect`: nothing
  changes after the session left ACTIVE. That the state is the projection is not
  inductive alone: the next pair takes its prior and its rollback target from the
  trajectory. `IInv` adds that some accepted pair is the last one, that priors chain
  along the accepted ones, and that rollbacks name distinct earlier accepted semantic
  pairs. The thirteen actions have five effects on these (reject, dangle, commit,
  finalize, rebuild): `StepForms` shows that, and one lemma per form that it keeps
  `IInv`. The lemmas on `Append` carry the weight: a rejected or effectless pair
  changes neither the effects nor the current revision.
- `CountersMatchLog` (`CountersCorrect`) and `SpendingWithinCaps` (`CapsCorrect`).
  `BudgetInv` counts the trajectory and adds what the checks rely on: while the
  session is active, only accepted actions have cost compute, so that checking the
  counter is checking what was spent. `finalize` breaks that, and ends the session.
- `LifoReplays` (`LifoReplayCorrect`): a replay keeps step with the session as long
  as each rollback undoes the latest live action. The induction over the trajectory
  needs that each digest is that of the projection of the history *up to its pair*
  (`RevisionsAreProjections`); a later rollback changes the projection and not the
  prefix.
- `DanglingIsOnlyRejected` (`DanglingClosedByRejection`), an action property.
- `ImplementsSession` (`SessionImplemented`), by step simulation under `IInv`, form by
  form. An accepted action extends `Effects` by its position, a rollback removes one
  entry, and everything else leaves it alone (`CommitImplements`). That the new state
  is what the new plan leads to is `StateIsProjection` after the step, whatever the
  runtime executed on the way: a projection stands still past its last live action,
  so that any ticket above it gives the same state (`ProjectionLeads`).

**NatRecursion** is a theory of lemmas that makes recursive functions usable in
proofs and says nothing of the system by itself. TLA+ defines one by a CHOOSE, which
means nothing until a function with that equation is known to exist.
`RecursionExists` proves that one does for any start and any step, `RecursionsAgree`
that two of them with the same steps up to n have the same value there; `Induction`
is induction over a *set* of numbers, since the provers cannot instantiate the
library's theorem over a predicate. Sums of costs, projections, replays, rebuilt
trees, the saturation loop and the reading of a wave, search or runner ledger are
instances.

**FermiSessionProofs**, for any requests, budgets and faults: `TreeIsRebuilt`
(`TreeCorrect`), `EvaluationIsFresh` (`FreshnessCorrect`), `CurrentBranchIsATree`
(`BranchCorrect`), `CertifiedIsAnswerable` (`AnswerableCorrect`) and `DepthWithinCap`
(`DepthCorrect`). Each has the hypothesis `KernelIsFermi`: the runtime's kernel
constants are the operators of `FermiKernel`, as both configurations set them. It is
a hypothesis and not an ASSUME, because it equates operators on all arguments, which
TLC cannot enumerate. Assumed besides (`FermiAssumption`): requests have the arguments
their names call for.

- A tree is rebuilt from the actions a state records, and `StateOK` says what that
  gives: a well-formed tree (children are nodes made after their parent, the branch
  has one expansion of a node and no redundant one), and an evaluation and a test that
  are those of the present tree. Each kernel action keeps it.
- `PlanHolds` carries that through rollbacks. A state after a rollback is no successor
  of the state before it; but it is the projection of its live actions (`IInv`), and
  those still are known requests with at most one question. `PlannedState` concludes
  that any such state is sound.
- Depth, rendering and width recurse over the nodes of a tree and not over numbers:
  `RankedFixpoint` shows that a recursion whose calls lower a rank has a solution, by
  iterating it.
- Certification uses the gates: `SaturationBoundsGain` says that a walk that ends
  without a useful refinement leaves no offer that gains more than the threshold: the
  kernel offers the leaf ranked highest first, the walk always weighs its first offer
  (`FirstOfferIsWeighed`), and no other leaf gains more.
- `DepthInv` relates counter, tree and cap. Without a rollback no accepted action
  grows the tree past the cap; with one the stamp matters, since an exception there
  skips the check.
- About the gates alone, for all integers and any callbacks: `CertificateIsHonest` (a
  certified frontier meets every part of the tolerance, has only necessary leaves, and
  its refinements were walked to their end without a useful one),
  `KernelNecessityHolds` (the vacuity of the necessity gate described in section 3.1)
  and `SaturationFollowsCalls` (`evaluate_saturation` is what `saturation_loop`
  computes). The invariant of that loop, `BrokenOff`, is that either it still runs and
  no call so far ends it, or the first call that does has decided the answer.

**SessionStoreProofs**, for any number of commands, any pids and both modes of use:
`DocumentIsWhole` (`WholeDocument`), `TmpIsAccountedFor` (`AccountedTmp`),
`UnpublishedIsInvisible` (`NothingUnpublished`), `StoreTypes`, and
`SequentialUseKeepsSaved` (`SequentialUse`), under the assumptions that the kinds of
command are disjoint and that the two sentinels are no documents. What is renamed is
whole only because the sibling belongs to the process that renames it: `SInv` adds
that running processes have different pids, that a process in mid-write owns its
sibling (complete once synced), and that a document others can see names only
commands that were renamed into place. `SequentialInv` adds, for commands that never
overlapped, that what a command is about to write is one step from the document that
is there: that document with the command added, or a session that may be started on
it. Hence `SequentialUseIsAtomic` (`SequentialUseAtomic`): no step but a rename
changes the document (`OnlyRenamesWrite`), and a rename that overlaps with nothing
is `Start` or `Record` of `SessionDocument`.

**SearchLoopProofs**, for every declared graph that `DeclaredCandidateGenerator`
admits, any ablations and proposals, every grade and budget: `ReplayAccepts`
(`SearchImplementsReplay`: each step of the search is a transition of the replay
automaton or a stutter), `CheckpointKeepsPending` (`CheckpointCorrect`),
`WorkWithinBudget` (`BudgetCorrect`), `SelectedIsMinimal` (`SelectionCorrect`),
`StopIsHonest` (`StopCorrect`) and `TypeCorrect`. Assumed beyond the declared graph:
a minted candidate names the one it is minted for, sizes are naturals, budgets
positive (`MintedAssumption`, `SearchAssumption`). The step simulation needs to know
that a candidate validated now was activated before and never evaluated. Hence
`QueueInv`: every activated candidate that is not evaluated waits in exactly one
place (queue, round or focus), without repetition; `RecordedInv`: the ledger records
what the sets say, with rounds that never decrease; `LoopInv`: what holds at each
`pc`; `BudgetInv`: evaluations are among the queued, which the activation guard
counts. What is selected and why the search stops needs three more parts:
`MinimalInv` (every passed candidate is outweighed by a minimal one, which a passing
ablation replaces only after its parent was evaluated), `TriedInv` (until a budget
stops the search, a passed candidate has had its declared ablations activated, up to
`at` while it is at hand) and `ReasonInv` (what the stop reason says at each `pc`).

**WaveProofs**, for any axes, diagnostics, mappings, costs and failing stages:
`ReplayAgrees` (`ReplayCorrect`), `VerdictFitsActions` (`VerdictCorrect`) and
`SuccessIsComplete` (`SuccessCorrect`). `LoopInv` says event by event what the ledger
holds at each place of the loop; what a replay makes of such a ledger is then computed
from its recursion. `AuthorityInv` ties each component in the provenance to the work
it stands for. Two components are recorded without it, `wave_ledger` and
`wave_replay` after a loop that raised, and the proof rests there on the exit code 4
that the command keeps for an empty ledger.

**MvpRunnerProofs**, for every fixture, surface and number of rounds:
`ProjectionReplays` (`ProjectionReplayed`) and `ReplayDivergesWithCause`
(`DivergenceExplained`). What projection and replay make of a longer ledger is one
step from what they made of it before (`ProjectionOfAppend`, `ReplayOfAppend`), and
`Follows` says which candidates both have seen at each place, so that the ledgers a
run can write are accepted event by event. `Carries` follows the numbers from the
events into the entries, and `Sanitized` says what the sanitizing does to such
entries: they replay as before, and the hash of one is found again unless its number
was not finite. `RunInv` adds what the place says of the ledger (`AtHand`) and of
the runs that are over (`Past`): with given particles they chose the action that the
run at hand chooses, so that only the split the clock decides can tell them apart;
without, the saved run drew particles by one default and its rerun by the other.

**AnalysisSessionProofs**, for any payloads, versions and order, assuming that every
passage of a payload has a reading (`PayloadsAreRead`, `StudiesAreRead`):

- `LineageIsLinear` (`LineageCorrect`) by `LedgerInv`: an admitted revision continues
  the last one of its record and is not recorded. `LedgerFileIsLast`
  (`LedgerFileCorrect`) by `FilesInv`, which ties the numbers on disk to the stage.
- `AnswerFitsContract` (`AnswerCorrect`) by `BuildInv` (what the compiler returns is
  settled for the payload's contract) and `VersionsInv` (a graph version has the
  statuses and the contract of the first one or only invalidated statuses, and no two
  contracts share a revision id).
- `CompiledIsValid` (`CompilationCorrect`) by `RecordsInv`: in the ledger stage, the
  first records of the package have been appended and none had an issue.
- `NothingIsLaundered` (`SceneCorrect`) and `DisputesAreKept` (`DisputesCorrect`) by
  `EvidenceInv`, from lemmas on how `reconstruct_event_scene` groups propositions.

Model-checked only: the liveness properties `CommandsEnd`, `SearchEnds` and
`CommandEnds`, since fairness and ENABLED are outside the prover, and what the
violation runs refute. That `ReplayReconstructs` fails in general is why
`LifoReplays` has its premise, and that `SavedActionsAreKept` fails is why
`SequentialUseKeepsSaved` and `SequentialUseIsAtomic` have theirs. Proved only: the
types of `SessionStore` and `SearchLoop` (`StoreTypes`, `TypeCorrect`), the facts
about the gates, and `SettlementCorrect`.

## 6. Not modelled

- Reading calls (`discover`, `inspect`, `export`) change nothing; what `export`
  writes is covered by `ExportRehydrates`. Malformed verdicts are excluded by a guard
  of `Finalize`: both kernels return well-formed ones.
- `prune` and `mark_node_unresolved` of the tree: no kernel action reaches them.
- `transition_factor`, `assess_identifiability`, `recompute`, `exporting` and
  `privacy`: pure functions that the pipeline never calls.
- Wave checkpoints are written and verified by replaying their ledger, which
  `ReplayAgrees` covers; no code resumes a loop from one.
- Sampling, quantile fits, particle kernels and diagnostics: floating point. Their
  outcomes are chosen, or reduced to widths that add up.
- Unit algebra, formula parsing, serialization, payload coercion, wording, and hashing
  but for that of the runner's projection: data. A formula parses or not, a payload
  part is refused or not.
- `validate_wave_mvp_completion.py` reads files and counts.

## 7. Plan

In the order of what they would add:

1. `DecompositionTree` as a state machine of its own with prune and mark-unresolved,
   and the structure of a tree (`TreeOK`) as its invariant.
2. The factor lifecycle, and the unit and interval operators against reference
   definitions.
3. A hazard without a property: a client that retries a command whose answer was
   lost (`agent_cli.py:281`).
