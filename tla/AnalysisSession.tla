--------------------------- MODULE AnalysisSession --------------------------
(***************************************************************************)
(* What happens to a compiled analysis: either the command writes it       *)
(* (CompileAnalysis), or a program that called compile_analysis keeps the  *)
(* contract, the graph and the ledger, revises the question, carries the   *)
(* graph over to a revision, asks again whether it is answerable, and      *)
(* records what it made.  Every version it ever had stays in its hands, so *)
(* it may mix any two of them, and record them in any order.               *)
(***************************************************************************)
EXTENDS CompileAnalysis

CONSTANTS
    Studies,        \* the payloads of a program that goes on with the result
    Terms,          \* the terms a question may be revised to
    MaxContracts,   \* bound: contract revisions of one question
    MaxGraphs       \* bound: graph revisions of one question

ASSUME StudiesAreRead == \A p \in Studies : IsPayload(p)

VARIABLES contracts, graphs     \* every version the program holds

session_vars == <<vars, contracts, graphs>>

SessionInit == Init /\ contracts = <<>> /\ graphs = <<>>

CommandStep ==
    /\ Next
    /\ contracts' = <<>>
    /\ graphs' = <<>>

StartStudy ==
    /\ StartWith(Studies)
    /\ UNCHANGED <<contracts, graphs>>

\* compile_analysis returned to a program instead of to the command.
KeepResult ==
    /\ stage = "compiled"
    /\ payload \in Studies
    /\ stage' = "study"
    /\ contracts' = <<work.contract>>
    /\ graphs' = <<work.graph>>
    /\ UNCHANGED <<payload, at, work, ledger, clock, disk, run>>

\* revise_answer_contract; a revision with errors raises and changes nothing.
ReviseContract(i, terms) ==
    /\ stage = "study"
    /\ Len(contracts) < MaxContracts
    /\ ContractErrors(terms) = {}
    /\ contracts' = Append(contracts, revised_contract(contracts[i], terms, Stamp(clock + 1)))
    /\ clock' = clock + 1
    /\ UNCHANGED <<payload, stage, at, work, ledger, disk, run, graphs>>

\* invalidate_graph_for_contract_change with any two contracts of the question.
CarryOver(g, old, new) ==
    /\ stage = "study"
    /\ Len(graphs) < MaxGraphs
    /\ \E carried \in {invalidate_graph_for_contract_change(
                           graphs[g], contracts[old], contracts[new], Stamp(clock + 1))} :
           /\ carried # graphs[g]
           /\ graphs' = Append(graphs, carried)
    /\ clock' = clock + 1
    /\ UNCHANGED <<payload, stage, at, work, ledger, disk, run, contracts>>

\* ledger.append of a version; one that does not fit raises.
RecordVersion(type, id, revision) ==
    /\ stage = "study"
    /\ Admits(ledger, Entry(type, id, revision))
    /\ ledger' = Append(ledger, Entry(type, id, revision))
    /\ UNCHANGED <<payload, stage, at, work, clock, disk, run, contracts, graphs>>

Study ==
    \/ KeepResult
    \/ \E i \in 1..Len(contracts), terms \in Terms : ReviseContract(i, terms)
    \/ \E g \in 1..Len(graphs), old \in 1..Len(contracts), new \in 1..Len(contracts) : CarryOver(g, old, new)
    \/ \E i \in 1..Len(contracts) : RecordVersion("answer_contract", "question", contracts[i].revision)
    \/ \E i \in 1..Len(graphs) : RecordVersion("condition_graph", "graph", graphs[i].revision)

SessionNext == CommandStep \/ StartStudy \/ Study

SessionSpec == SessionInit /\ [][SessionNext]_session_vars

----------------------------------------------------------------------------
(* Properties.                                                             *)

(* The ledger is one line of revisions per record, whatever versions are   *)
(* offered to it and in whatever order (AnalysisLedger.append).            *)
LineageIsLinear == Linear(ledger)

(* A question is answerable only with conditions that were settled for its *)
(* own meaning: no mixture of the versions of contract and graph lets a    *)
(* status survive a change of meaning (invalidate_graph_for_contract_      *)
(* change, evaluate_answerability).                                        *)
AnswerFitsContract ==
    \A i \in 1..Len(contracts), g \in 1..Len(graphs) :
        evaluate_answerability(contracts[i], graphs[g]) = "answerable_bounded" =>
            /\ Material(contracts[i].terms) = Material(payload.terms)
            /\ \E group \in graphs[1].sufficient :
                   \A c \in group : graphs[1].status[c] \in Resolved

(* A compilation that returns has no validation issue, its graph is        *)
(* acyclic and its ledger holds every record of the package in order: what *)
(* validate_package only reports, the ledger refuses (compile_analysis).   *)
Returned == {"compiled", "report", "ledger_file", "print"}

CompiledIsValid ==
    stage \in Returned =>
        /\ PackageIssues = {} /\ work.issues = {}
        /\ ledger = [i \in 1..Len(Records) |-> Records[i].entry]

(* An event stands only on a proposition of a source that was not excluded *)
(* and whose own wording states a fact; it is confirmed only if its truth  *)
(* was established when it was read, not by the support that lets a claim  *)
(* enter the scene (both reconstruct_event_scene).                         *)
NothingIsLaundered ==
    stage \in Returned /\ work.scene # NoScene =>
        \A event \in work.scene.events : \E a \in AtomsOf(work.propositions) :
            /\ a.id = event.support
            /\ a.source \notin LeakingSources
            /\ a.relevance # {}
            /\ Reading[a.passage].kind \in FactTypes
            /\ Reading[a.passage].cue = NoCue
            /\ event.status = "confirmed" => a.truth

(* Two events that give one field different values are both contested,     *)
(* each names the other among its counter-evidence, and the scene records  *)
(* the dispute: the order of the sources settles nothing                   *)
(* (reconstruct_event_scene).                                              *)
DisputesAreKept ==
    stage \in Returned /\ work.scene # NoScene =>
        \A e, f \in work.scene.events :
            ( /\ {e.support, f.support} \subseteq DOMAIN work.fields
              /\ work.fields[e.support].key = work.fields[f.support].key
              /\ work.fields[e.support].field = work.fields[f.support].field
              /\ work.fields[e.support].value # work.fields[f.support].value )
            => /\ e.status = "contested" /\ f.support \in e.counter
               /\ <<work.fields[e.support].key, work.fields[e.support].field>> \in work.scene.disputes

(* The ledger file is the last to be written: with it, a package and a     *)
(* report at least as recent are on disk, also after a command that failed *)
(* between two writes (_compile).                                          *)
LedgerFileIsLast == disk.ledger <= disk.report /\ disk.report <= disk.package
=============================================================================
