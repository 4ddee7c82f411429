----------------------------- MODULE SearchLoop -----------------------------
(***************************************************************************)
(* search_fermi: rounds over a queue of candidate formulas.  A candidate   *)
(* that passes activates its ablations, one that fails the declared        *)
(* revisions and the proposals of the mutation templates; four budgets may *)
(* stop the loop, and every step leaves an event in the ledger from which  *)
(* the checkpoint is replayed.                                             *)
(*                                                                         *)
(* A formula is known by what the loop asks of it: the grade its           *)
(* evaluation earns, its identity as an expression and its size.           *)
(***************************************************************************)
EXTENDS Integers, Sequences, FiniteSets, SequencesExt

CONSTANTS
    Declared,      \* the candidates of the payload, in order
    Dynamic,       \* the ids the loop mints for ablations and proposals
    Formulas,
    Formula,       \* of a candidate
    Parent,        \* of a candidate, or NoCandidate
    Kind,          \* its mutation_kind
    Identity,      \* of a formula: the dump of its expression tree
    Size,          \* of a formula: how many variables it reads
    Ablations,     \* of a candidate: the removals of its ablatable variables
    Proposals,     \* of a candidate: what the templates make of its failure
    Grades,        \* of a formula: what its evaluation may come to
    Budgets,
    Rounds,        \* the round indices the budgets allow
    NoCandidate

Candidates == Range(Declared) \cup Dynamic

AllGrades == {"passed", "failed", "invalid", "unreadable"}

\* What DeclaredCandidateGenerator demands of the declared candidates.
DeclaredGraph ==
    /\ IsInjective(Declared) /\ Declared # <<>>
    /\ \A c \in Range(Declared) :
           /\ Kind[c] \in {"seed", "expand", "revise", "ablate"}
           /\ Kind[c] = "seed" <=> Parent[c] = NoCandidate
           /\ Parent[c] \in (Range(Declared) \cup {NoCandidate}) \ {c}
    /\ \E depth \in [Range(Declared) -> 1..Len(Declared)] :
           \A c \in Range(Declared) : Kind[c] # "seed" => depth[c] > depth[Parent[c]]

\* _budget: the three counted limits are positive integers.
SearchBudgets == [max_candidates : Nat \ {0}, max_rounds : Nat \ {0},
                  max_evaluations : Nat \ {0}, templates : BOOLEAN]

ASSUME DeclaredAssumption == Declared \in Seq(Range(Declared)) /\ DeclaredGraph

ASSUME SearchAssumption ==
    /\ NoCandidate \notin Candidates
    /\ Range(Declared) \cap Dynamic = {}
    /\ Formula \in [Candidates -> Formulas]
    /\ Ablations \in [Candidates -> Seq(Dynamic)]
    /\ Proposals \in [Candidates -> Seq(Dynamic)]
    /\ Grades \in [Formulas -> SUBSET AllGrades]
    /\ Budgets \subseteq SearchBudgets
    /\ Rounds \subseteq Nat /\ \A b \in Budgets : 0..b.max_rounds \subseteq Rounds

\* What the loop mints names the candidate it is minted for.
ASSUME MintedAssumption ==
    /\ Size \in [Formulas -> Nat]
    /\ \A p \in Candidates : \A c \in Range(Ablations[p]) \cup Range(Proposals[p]) :
           Parent[c] = p

VARIABLES
    grade,         \* what each formula is worth; fixed by the payload
    budget,        \* fixed by the payload
    ledger, queue, queued, known_formulas, evaluations, round_index, stop_reason,
    current,       \* what is left of the round's candidates
    focus,         \* the candidate at hand
    at,            \* how far the loop over the offered candidates has come
    pc

vars == <<grade, budget, ledger, queue, queued, known_formulas, evaluations,
          round_index, stop_reason, current, focus, at, pc>>
payload == <<grade, budget>>

Init ==
    /\ grade \in {g \in [Formulas -> AllGrades] : \A f \in Formulas : g[f] \in Grades[f]}
    /\ budget \in Budgets
    /\ ledger = <<>> /\ queue = <<>> /\ queued = {}
    /\ known_formulas = {Formula[c] : c \in Range(Declared)}
    /\ evaluations = [c \in {} |-> FALSE]
    /\ round_index = 0 /\ stop_reason = ""
    /\ current = <<>> /\ focus = NoCandidate /\ at = 1
    /\ pc = "seeding"

record(c, state) ==
    ledger' = Append(ledger, [candidate |-> c, state |-> state, round |-> round_index])

-----------------------------------------------------------------------------
IsSeed(c) == Parent[c] = NoCandidate \/ Kind[c] = "seed"

RecordSeed ==
    /\ pc = "seeding"
    /\ \E i \in at..Len(Declared) :
           /\ IsSeed(Declared[i]) /\ \A j \in at..(i - 1) : ~IsSeed(Declared[j])
           /\ record(Declared[i], "SEED")
           /\ queue' = Append(queue, Declared[i])
           /\ queued' = queued \cup {Declared[i]}
           /\ at' = i + 1
    /\ UNCHANGED <<payload, known_formulas, evaluations, round_index, stop_reason,
                   current, focus, pc>>

SeedsRecorded ==
    /\ pc = "seeding" /\ \A i \in at..Len(Declared) : ~IsSeed(Declared[i])
    /\ pc' = "round"
    /\ UNCHANGED <<payload, ledger, queue, queued, known_formulas, evaluations,
                   round_index, stop_reason, current, focus, at>>

BeginRound ==
    /\ pc = "round" /\ queue # <<>> /\ round_index < budget.max_rounds
    /\ round_index' = round_index + 1
    /\ current' = queue /\ queue' = <<>>
    /\ pc' = "select"
    /\ UNCHANGED <<payload, ledger, queued, known_formulas, evaluations, stop_reason,
                   focus, at>>

\* Fault: the rounds run out and the stop reason is not set.
LeaveRoundsSilently ==
    /\ pc = "round" /\ (queue = <<>> \/ round_index >= budget.max_rounds)
    /\ pc' = "finish"
    /\ UNCHANGED <<payload, ledger, queue, queued, known_formulas, evaluations,
                   round_index, stop_reason, current, focus, at>>

LeaveRounds ==
    /\ pc = "round" /\ (queue = <<>> \/ round_index >= budget.max_rounds)
    /\ stop_reason' = IF queue = <<>> THEN stop_reason ELSE "budget-exhausted"
    /\ pc' = "finish"
    /\ UNCHANGED <<payload, ledger, queue, queued, known_formulas, evaluations,
                   round_index, current, focus, at>>

\* Fault: one evaluation more than the budget is admitted.
EvaluationsSpentLate ==
    \/ Cardinality(DOMAIN evaluations) > budget.max_candidates
    \/ Cardinality(DOMAIN evaluations) > budget.max_evaluations

EvaluationsSpent ==
    \/ Cardinality(DOMAIN evaluations) >= budget.max_candidates
    \/ Cardinality(DOMAIN evaluations) >= budget.max_evaluations

\* Fault: the candidate at hand is not put back when the budget ends.
StopInRoundLosing ==
    /\ pc = "select" /\ current # <<>>
    /\ current' = Tail(current)
    /\ stop_reason' = "budget-exhausted"
    /\ pc' = "finish"
    /\ UNCHANGED <<payload, ledger, queue, queued, known_formulas, evaluations, round_index,
                   focus, at>>

\* Before each candidate the evaluations are counted and the clock is read;
\* max_seconds may be over at any reading.
StopInRound ==
    /\ pc = "select" /\ current # <<>>
    /\ queue' = Append(queue, Head(current)) /\ current' = Tail(current)
    /\ stop_reason' = "budget-exhausted"
    /\ pc' = "finish"
    /\ UNCHANGED <<payload, ledger, queued, known_formulas, evaluations, round_index,
                   focus, at>>

Validate ==
    /\ pc = "select" /\ current # <<>> /\ ~EvaluationsSpent
    /\ record(Head(current), "VALIDATE")
    /\ focus' = Head(current) /\ current' = Tail(current)
    /\ pc' = "evaluate"
    /\ UNCHANGED <<payload, queue, queued, known_formulas, evaluations, round_index,
                   stop_reason, at>>

\* Fault: an empty round is not left.
EndRoundInPlace ==
    /\ pc = "select" /\ current = <<>>
    /\ pc' = IF stop_reason = "" THEN "select" ELSE "finish"
    /\ UNCHANGED <<payload, ledger, queue, queued, known_formulas, evaluations,
                   round_index, stop_reason, current, focus, at>>

EndRound ==
    /\ pc = "select" /\ current = <<>>
    /\ pc' = IF stop_reason = "" THEN "round" ELSE "finish"
    /\ UNCHANGED <<payload, ledger, queue, queued, known_formulas, evaluations,
                   round_index, stop_reason, current, focus, at>>

Evaluated(passed) ==
    evaluations' = [c \in DOMAIN evaluations \cup {focus} |->
                        IF c = focus THEN passed ELSE evaluations[c]]

\* Fault: a rejected candidate is ranked like an evaluated one.
RejectThenRank ==
    /\ pc = "evaluate" /\ grade[Formula[focus]] \in {"invalid", "unreadable"}
    /\ record(focus, "REJECT") /\ Evaluated(FALSE)
    /\ pc' = "rank"
    /\ UNCHANGED <<payload, queue, queued, known_formulas, round_index, stop_reason,
                   current, focus, at>>

Reject ==
    /\ pc = "evaluate" /\ grade[Formula[focus]] \in {"invalid", "unreadable"}
    /\ record(focus, "REJECT") /\ Evaluated(FALSE)
    /\ pc' = "select"
    /\ UNCHANGED <<payload, queue, queued, known_formulas, round_index, stop_reason,
                   current, focus, at>>

Evaluate ==
    /\ pc = "evaluate" /\ grade[Formula[focus]] \in {"passed", "failed"}
    /\ record(focus, "EVALUATE") /\ Evaluated(grade[Formula[focus]] = "passed")
    /\ pc' = "rank"
    /\ UNCHANGED <<payload, queue, queued, known_formulas, round_index, stop_reason,
                   current, focus, at>>

-----------------------------------------------------------------------------
Passed == focus \in DOMAIN evaluations /\ evaluations[focus]
Proposing == ~Passed /\ budget.templates

\* generate_candidates takes the identity of every known formula and of every
\* proposal before it returns one; a formula that does not parse makes it raise.
GenerationRaises ==
    Proposing /\ \E f \in known_formulas \cup {Formula[c] : c \in Range(Proposals[focus])} :
                     grade[f] = "unreadable"

Rank ==
    /\ pc = "rank"
    /\ record(focus, "RANK")
    /\ at' = 1
    /\ pc' = IF GenerationRaises THEN "aborted" ELSE "children"
    /\ UNCHANGED <<payload, queue, queued, known_formulas, evaluations, round_index,
                   stop_reason, current, focus>>

\* The children of a candidate: the declared ones of the kinds its outcome
\* allows, then those the loop makes itself.
Offered == Declared \o (IF Passed THEN Ablations[focus]
                        ELSE IF Proposing THEN Proposals[focus] ELSE <<>>)

IsChild(c) ==
    c \in Range(Declared) => /\ Parent[c] = focus
                             /\ Kind[c] \in IF Passed THEN {"ablate"} ELSE {"expand", "revise"}

\* A made child is dropped when its formula is known: to the letter for an
\* ablation, by its identity for a proposal.
IsKnown(c) ==
    /\ c \in Dynamic
    /\ \/ Formula[c] \in known_formulas
       \/ Proposing /\ \E f \in known_formulas : Identity[f] = Identity[Formula[c]]

Skipped(c) == ~IsChild(c) \/ c \in queued \/ c \in DOMAIN evaluations \/ IsKnown(c)

NextChild(i) ==
    /\ i \in at..Len(Offered)
    /\ ~Skipped(Offered[i]) /\ \A j \in at..(i - 1) : Skipped(Offered[j])

QueueIsFull == Cardinality(queued) >= budget.max_candidates

Activate ==
    /\ pc = "children"
    /\ \E i \in 1..Len(Offered) :
           /\ NextChild(i) /\ ~QueueIsFull
           /\ record(Offered[i], IF Passed THEN "MINIMIZE" ELSE "EXPAND")
           /\ queue' = Append(queue, Offered[i])
           /\ queued' = queued \cup {Offered[i]}
           /\ known_formulas' = known_formulas \cup {Formula[Offered[i]]}
           /\ at' = i + 1
    /\ UNCHANGED <<payload, evaluations, round_index, stop_reason, current, focus, pc>>

\* The rest of the round is still evaluated after the queue is full.
RefuseChild ==
    /\ pc = "children"
    /\ \E i \in 1..Len(Offered) : NextChild(i)
    /\ QueueIsFull
    /\ stop_reason' = "budget-exhausted"
    /\ pc' = "select"
    /\ UNCHANGED <<payload, ledger, queue, queued, known_formulas, evaluations,
                   round_index, current, focus, at>>

ChildrenDone ==
    /\ pc = "children" /\ \A i \in at..Len(Offered) : Skipped(Offered[i])
    /\ pc' = "select"
    /\ UNCHANGED <<payload, ledger, queue, queued, known_formulas, evaluations,
                   round_index, stop_reason, current, focus, at>>

-----------------------------------------------------------------------------
passed_rows == {c \in DOMAIN evaluations : evaluations[c]}

minimal_rows == {c \in passed_rows : ~\E d \in passed_rows : Kind[d] = "ablate" /\ Parent[d] = c}

\* Fault: any minimal row may come first.
SelectableUnsorted == minimal_rows

\* The rows are sorted by the number of variables first.
Selectable == {c \in minimal_rows : \A d \in minimal_rows : Size[Formula[c]] <= Size[Formula[d]]}

Result ==
    /\ pc = "finish" /\ stop_reason = "" /\ minimal_rows # {}
    /\ stop_reason' = "result-found"
    /\ \E c \in Selectable : record(c, "RESULT") /\ focus' = c
    /\ pc' = "done"
    /\ UNCHANGED <<payload, queue, queued, known_formulas, evaluations, round_index,
                   current, at>>

Stop ==
    /\ pc = "finish" /\ (stop_reason # "" \/ minimal_rows = {})
    /\ stop_reason' = IF stop_reason = "" THEN "insufficient-information" ELSE stop_reason
    /\ record(NoCandidate, "STOP") /\ focus' = NoCandidate
    /\ pc' = "done"
    /\ UNCHANGED <<payload, queue, queued, known_formulas, evaluations, round_index,
                   current, at>>

Returned == pc \in {"done", "aborted"} /\ UNCHANGED vars

Next == \/ RecordSeed \/ SeedsRecorded \/ BeginRound \/ LeaveRounds \/ StopInRound
        \/ Validate \/ EndRound \/ Reject \/ Evaluate \/ Rank
        \/ Activate \/ RefuseChild \/ ChildrenDone \/ Result \/ Stop \/ Returned

Spec == Init /\ [][Next]_vars

\* The loop is one thread that nothing blocks.
FairSpec == Spec /\ WF_vars(Next)

-----------------------------------------------------------------------------
TypeOK ==
    /\ grade \in [Formulas -> AllGrades] /\ budget \in Budgets
    /\ ledger \in Seq([candidate : Candidates \cup {NoCandidate}, round : Rounds,
                       state : {"SEED", "EXPAND", "MINIMIZE", "VALIDATE", "EVALUATE",
                                "REJECT", "RANK", "RESULT", "STOP"}])
    /\ queue \in Seq(Candidates) /\ current \in Seq(Candidates)
    /\ queued \subseteq Candidates /\ known_formulas \subseteq Formulas
    /\ DOMAIN evaluations \subseteq Candidates
    /\ evaluations \in [DOMAIN evaluations -> BOOLEAN]
    /\ round_index \in Rounds /\ at \in Nat \ {0}
    /\ stop_reason \in {"", "budget-exhausted", "result-found", "insufficient-information"}
    /\ focus \in Candidates \cup {NoCandidate}
    /\ pc \in {"seeding", "round", "select", "evaluate", "rank", "children", "finish",
               "done", "aborted"}

\* The candidates with an event of one of the states.
Recorded(states) ==
    {ledger[i].candidate : i \in {j \in DOMAIN ledger : ledger[j].state \in states}}

Replayed ==
    [activated |-> Recorded({"SEED", "EXPAND", "MINIMIZE"}),
     validated |-> Recorded({"VALIDATE"}),
     evaluated |-> Recorded({"EVALUATE"}),
     rejected  |-> Recorded({"REJECT"}),
     ranked    |-> Recorded({"RANK"}),
     terminal  |-> Recorded({"RESULT", "STOP"}) # {},
     round     |-> IF ledger = <<>> THEN 0 ELSE ledger[Len(ledger)].round]

Replay == INSTANCE SearchReplay WITH replayed <- Replayed

\* Every event the loop records is one the replay accepts at that point, so
\* that create_search_checkpoint never refuses the loop's own ledger.
ReplayAccepts == Replay!Spec

\* A checkpoint made at any moment hands over exactly the candidates the loop
\* still had to evaluate: none is lost, also when a budget ends a round early.
CheckpointKeepsPending ==
    Replay!pending_candidates(Replayed) =
        Range(queue) \cup Range(current) \cup {c \in {focus} : pc = "evaluate"}

\* No ablation reads more variables than its parent.  Those the loop makes do
\* not; of the declared ones nothing checks it.
Shrinking ==
    \A c \in Candidates : Kind[c] = "ablate" => Size[Formula[c]] <= Size[Formula[Parent[c]]]

\* The selected candidate passed, each of its declared ablations was evaluated
\* and failed, and no candidate that passed reads fewer variables, as long as
\* the declared ablations shrink their parents.
SelectedIsMinimal ==
    stop_reason = "result-found" =>
        /\ focus \in passed_rows
        /\ \A c \in Range(Declared) : Kind[c] = "ablate" /\ Parent[c] = focus =>
               c \in DOMAIN evaluations \ passed_rows
        /\ Shrinking => \A c \in passed_rows : Size[Formula[focus]] <= Size[Formula[c]]

\* The stop reason tells what happened: a found result and insufficient
\* information both mean that nothing was left to evaluate, and the latter that
\* no candidate passed at all; an exhausted budget left a candidate behind.
StopIsHonest ==
    pc = "done" =>
        LET pending == Replay!pending_candidates(Replayed) IN
        /\ stop_reason = "result-found" => pending = {}
        /\ stop_reason = "insufficient-information" => pending = {} /\ passed_rows = {}
        /\ stop_reason = "budget-exhausted" => pending # {} \/ QueueIsFull

\* The four budgets bound the work: evaluations, rounds, and the candidates
\* activated beyond the seeds.
WorkWithinBudget ==
    /\ Cardinality(DOMAIN evaluations) <= budget.max_candidates
    /\ Cardinality(DOMAIN evaluations) <= budget.max_evaluations
    /\ round_index <= budget.max_rounds
    /\ \/ Cardinality(queued) <= budget.max_candidates
       \/ queued \subseteq {c \in Range(Declared) : IsSeed(c)}

\* The loop ends, in a result, a stop or an exception, whatever the payload.
SearchEnds == <>(pc \in {"done", "aborted"})

\* docs/MVP-SEARCH-LOOP.md: an invalid candidate is recorded as REJECT.  One
\* that does not parse makes the generation of another's proposals raise.
InvalidIsRejected == pc # "aborted"
=============================================================================
