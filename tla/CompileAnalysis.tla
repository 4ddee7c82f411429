--------------------------- MODULE CompileAnalysis --------------------------
(***************************************************************************)
(* compile_analysis (pipeline.py) and the compile command around it        *)
(* (cli.py): a payload becomes a contract, a condition graph, sources,     *)
(* propositions, a scene, estimates, factors and an interval audit, which  *)
(* are packaged, recorded one by one in a new ledger and written to three  *)
(* files.  Any stage may raise; the command then exits with an error and   *)
(* leaves on disk what it has written so far.                              *)
(*                                                                         *)
(* The command may be run again with another payload and the same output   *)
(* directory; disk holds, per file, the number of the run that wrote it.   *)
(***************************************************************************)
EXTENDS AnswerContract, EvidenceScene, IntervalAudit

CONSTANTS
    Payloads,       \* what the command may be given
    NoInterval,     \* a payload without forecast_interval
    NoScene,        \* no proposition, no scene
    Nothing,        \* before a stage has produced its record
    MaxRuns         \* bound: runs of the command

IsSequence(s) == s \in Seq({s[i] : i \in 1..Len(s)})

\* The payload is read from JSON: its lists are lists, and the cues of its
\* passages are the ones _safe_scene_type knows.
IsPayload(p) ==
    /\ \A list \in {p.sources, p.estimates, p.factors} : IsSequence(list)
    /\ \A i \in 1..Len(p.sources) :
           /\ IsSequence(p.sources[i].passages)
           /\ \A k \in 1..Len(p.sources[i].passages) :
                  Reading[p.sources[i].passages[k]].cue \in CueTypes \cup {NoCue}

ASSUME PayloadsAreRead == \A p \in Payloads : IsPayload(p)

VARIABLES
    payload,
    stage,          \* the next thing compile_analysis or _compile does
    at,             \* position in the list the stage walks
    work,           \* what the stages have built
    ledger,
    clock,          \* how many revision ids were taken from the time
    disk,
    run

vars == <<payload, stage, at, work, ledger, clock, disk, run>>

Stages == {"idle", "contract", "graph", "sources", "bindings", "scene", "factors", "interval",
           "package", "ledger", "compiled", "report", "ledger_file", "print", "done", "failed"}

Unbuilt == [contract |-> Nothing, graph |-> Nothing, answerability |-> Nothing,
            propositions |-> <<>>, fields |-> <<>>, scene |-> NoScene,
            informative |-> FALSE, issues |-> {}]

Init ==
    /\ payload = Nothing
    /\ stage = "idle"
    /\ at = 1
    /\ work = Unbuilt
    /\ ledger = <<>>
    /\ clock = 0
    /\ disk = [package |-> 0, report |-> 0, ledger |-> 0]
    /\ run = 0

StartWith(payloads) ==
    /\ stage \in {"idle", "done", "failed"}
    /\ run < MaxRuns
    /\ run' = run + 1
    /\ payload' \in payloads
    /\ stage' = "contract"
    /\ UNCHANGED <<at, work, ledger, clock, disk>>

\* The process exits: only the files stay.
Exits(with) ==
    /\ stage' = with
    /\ payload' = Nothing
    /\ at' = 1
    /\ work' = Unbuilt
    /\ ledger' = <<>>
    /\ clock' = 0
    /\ UNCHANGED <<disk, run>>

\* The stage raises, and the command reports the error and exits.
Raises(s, condition) == stage = s /\ condition /\ Exits("failed")

\* The stage at s is done: the next one starts at the head of its list.
Passes(s, condition, next) ==
    /\ stage = s
    /\ condition
    /\ stage' = next
    /\ at' = 1
    /\ UNCHANGED <<payload, ledger, disk, run>>

Walks(s) ==
    /\ stage = s
    /\ at' = at + 1
    /\ UNCHANGED <<payload, stage, disk, run>>

----------------------------------------------------------------------------
(* The question.                                                           *)

ContractRefused == Raises("contract", ContractErrors(payload.terms) # {} \/ payload.conditions = <<>>)

CreateContract ==
    /\ Passes("contract", ContractErrors(payload.terms) = {} /\ payload.conditions # <<>>, "graph")
    /\ work' = [work EXCEPT !.contract = create_contract(payload.terms, Stamp(clock + 1))]
    /\ clock' = clock + 1

GraphRefused == Raises("graph", GraphErrors(payload.conditions, payload.edges, payload.sets) # {})

BuildGraph ==
    /\ Passes("graph", GraphErrors(payload.conditions, payload.edges, payload.sets) = {}, "sources")
    /\ \E graph \in {build_graph(work.contract, payload.conditions, payload.edges, payload.sets, Stamp(clock + 1))} :
           work' = [work EXCEPT !.graph = graph,
                                !.answerability = evaluate_answerability(work.contract, graph)]
    /\ clock' = clock + 1

----------------------------------------------------------------------------
(* The evidence.                                                           *)

SourceRefused == Raises("sources", at <= Len(payload.sources) /\ ~payload.sources[at].titled)

\* One source: read, given its disposition, and cut unless it is excluded.
IngestSource ==
    /\ Walks("sources")
    /\ at <= Len(payload.sources)
    /\ \E source \in {payload.sources[at]} :
           /\ source.titled
           /\ work' = [work EXCEPT !.propositions =
                  IF Disposition(source) = "excluded" THEN @ ELSE @ \o segment_propositions(source)]
    /\ UNCHANGED <<ledger, clock>>

SourcesIngested ==
    /\ Passes("sources", at > Len(payload.sources), "bindings")
    /\ UNCHANGED <<work, clock>>

\* The propositions a selector names.
Matches(binding) ==
    {i \in DOMAIN work.propositions :
        /\ work.propositions[i].source = binding.source
        /\ work.propositions[i].passage = binding.passage}

\* A binding must name one proposition, and no two the same one.
Binds(binding, id) ==
    /\ \E i \in DOMAIN work.propositions : Matches(binding) = {i} /\ work.propositions[i].id = id
    /\ id \notin DOMAIN work.fields

BindingRefused ==
    Raises("bindings", /\ at <= Len(payload.bindings)
                       /\ ~\E i \in DOMAIN work.propositions :
                               Binds(payload.bindings[at], work.propositions[i].id))

BindFact ==
    /\ Walks("bindings")
    /\ at <= Len(payload.bindings)
    /\ \E i \in DOMAIN work.propositions :
           LET atom == work.propositions[i].id
           IN  /\ Binds(payload.bindings[at], atom)
               /\ work' = [work EXCEPT !.fields =
                      [id \in DOMAIN @ \cup {atom} |-> IF id = atom THEN payload.bindings[at] ELSE @[id]]]
    /\ UNCHANGED <<ledger, clock>>

FactsBound ==
    /\ Passes("bindings", at > Len(payload.bindings), "scene")
    /\ UNCHANGED <<work, clock>>

ReconstructScene ==
    /\ Passes("scene", TRUE, "factors")
    /\ work' = [work EXCEPT !.scene =
           IF work.propositions = <<>> THEN NoScene
           ELSE reconstruct_event_scene(AtomsOf(work.propositions), work.fields)]
    /\ UNCHANGED clock

----------------------------------------------------------------------------
(* Factors, the interval and the package.                                  *)

\* generate_candidate: at least one contributing condition, and none twice.
Candidate(factor) == factor.inputs # <<>> /\ \A i, j \in DOMAIN factor.inputs :
                                                 factor.inputs[i] = factor.inputs[j] => i = j

FactorRefused == Raises("factors", \E i \in DOMAIN payload.factors : ~Candidate(payload.factors[i]))

FactorsProposed ==
    /\ Passes("factors", \A i \in DOMAIN payload.factors : Candidate(payload.factors[i]), "interval")
    /\ UNCHANGED <<work, clock>>

Thresholds == {payload.terms.thresholds[i] : i \in DOMAIN payload.terms.thresholds}

IntervalRefused ==
    Raises("interval", payload.interval # NoInterval /\ IntervalErrors(payload.interval) # {})

AuditInterval ==
    /\ Passes("interval", payload.interval # NoInterval => IntervalErrors(payload.interval) = {}, "package")
    /\ work' = [work EXCEPT !.informative =
           payload.interval # NoInterval /\ audit_interval(payload.interval, Thresholds)]
    /\ UNCHANGED clock

\* What validation.py finds in one record of a kind.
ContractIssues         == IF payload.stable THEN {} ELSE {"unstable_identifier"}
GraphIssues            == IF Cyclic(work.graph) THEN {"graph_cycle"} ELSE {}
PropositionIssues(a)   == {i \in {"attribution_loss", "target_relevance_missing"} :
                               \/ i = "attribution_loss" /\ a.kind = "attributed_statement" /\ ~a.speaker
                               \/ i = "target_relevance_missing" /\ a.relevance = {}}
EstimateIssues(e)      == {i \in {"invalid_bounds", "hidden_point_imputation"} :
                               \/ i = "invalid_bounds" /\ e.lower > e.upper
                               \/ i = "hidden_point_imputation" /\ e.lower = e.upper}
FactorIssues(f)        == IF Len(f.inputs) < 2 THEN {"factor_not_composite"} ELSE {}
AuditIssues            == IF payload.interval # NoInterval /\ Vacuous(payload.interval, work.informative)
                          THEN {"vacuous_wide_interval"} ELSE {}

LeakingSources ==
    {payload.sources[i].id : i \in {j \in DOMAIN payload.sources : Disposition(payload.sources[j]) = "excluded"}}

PackageIssues ==
    ContractIssues \cup GraphIssues \cup AuditIssues
    \cup (UNION {PropositionIssues(a) : a \in AtomsOf(work.propositions)})
    \cup (UNION {EstimateIssues(payload.estimates[i]) : i \in DOMAIN payload.estimates})
    \cup (UNION {FactorIssues(payload.factors[i]) : i \in DOMAIN payload.factors})
    \cup (IF \E a \in AtomsOf(work.propositions) : a.source \in LeakingSources
          THEN {"excluded_source_leakage"} ELSE {})

PackageState == IF work.scene # NoScene /\ payload.interval # NoInterval THEN "complete" ELSE "partial"

\* validate_package reports; it does not raise.
AssemblePackage ==
    /\ Passes("package", TRUE, "ledger")
    /\ work' = [work EXCEPT !.issues = PackageIssues]
    /\ UNCHANGED clock

----------------------------------------------------------------------------
(* The ledger of the compilation.                                          *)

\* stage_revision and _revision hash the identity: the id is its own.
StableRecord(type, id, issues) ==
    [entry |-> Entry(type, id, first_revision(<<type, id>>)), issues |-> issues]

Records ==
    << [entry |-> Entry("answer_contract", "question", work.contract.revision), issues |-> ContractIssues],
       [entry |-> Entry("condition_graph", "graph", work.graph.revision), issues |-> GraphIssues] >>
    \o [i \in DOMAIN payload.sources |-> StableRecord("source", payload.sources[i].id, {})]
    \o [i \in DOMAIN work.propositions |->
            StableRecord("evidence_proposition", work.propositions[i].id,
                         PropositionIssues(work.propositions[i]))]
    \o (IF work.scene = NoScene THEN <<>> ELSE <<StableRecord("event_scene", "scene", {})>>)
    \o [i \in DOMAIN payload.estimates |->
            StableRecord("missing_condition", payload.estimates[i].id, EstimateIssues(payload.estimates[i]))]
    \o [i \in DOMAIN payload.factors |->
            StableRecord("derived_factor", payload.factors[i].id, FactorIssues(payload.factors[i]))]
    \o (IF payload.interval = NoInterval THEN <<>> ELSE <<StableRecord("interval_audit", "interval", AuditIssues)>>)
    \o <<StableRecord("analysis_package", "package", work.issues)>>

\* Fault: the ledger takes a record whatever validation says of it.
append_unvalidated(record) == Admits(ledger, record.entry)

\* append validates the record before it looks at its lineage.
append_accepts(record) == record.issues = {} /\ Admits(ledger, record.entry)

RecordRefused == \E records \in {IF stage = "ledger" THEN Records ELSE <<>>} :
    Raises("ledger", at <= Len(records) /\ ~append_accepts(records[at]))

RecordNext ==
    \E records \in {IF stage = "ledger" THEN Records ELSE <<>>} :
        /\ Walks("ledger")
        /\ at <= Len(records)
        /\ append_accepts(records[at])
        /\ ledger' = Append(ledger, records[at].entry)
        /\ UNCHANGED <<work, clock>>

Compiled ==
    /\ Passes("ledger", stage = "ledger" /\ at > Len(Records), "compiled")
    /\ UNCHANGED <<work, clock>>

----------------------------------------------------------------------------
(* The command writes the package, the report and the ledger, in turn.     *)

Writes(s, file, next) ==
    /\ stage = s
    /\ stage' = next
    /\ disk' = [disk EXCEPT ![file] = run]
    /\ UNCHANGED <<payload, at, work, ledger, clock, run>>

\* Fault: the ledger is exported before the package.
WriteLedgerFirst == Writes("compiled", "ledger", "report")

WritePackage == Writes("compiled", "package", "report")
WriteReport  == Writes("report", "report", "ledger_file")
WriteLedger  == Writes("ledger_file", "ledger", "print")

\* mkdir, a write or print fails with an OSError.
WriteFails == \E s \in {"compiled", "report", "ledger_file", "print"} : Raises(s, TRUE)

\* Exit 0 without issues; the branch for issues returns 2.
PrintResponse ==
    /\ stage = "print"
    /\ Exits(IF work.issues = {} THEN "done" ELSE "failed")

Command ==
    \/ ContractRefused \/ CreateContract \/ GraphRefused \/ BuildGraph
    \/ SourceRefused \/ IngestSource \/ SourcesIngested
    \/ BindingRefused \/ BindFact \/ FactsBound \/ ReconstructScene
    \/ FactorRefused \/ FactorsProposed \/ IntervalRefused \/ AuditInterval \/ AssemblePackage
    \/ RecordRefused \/ RecordNext \/ Compiled
    \/ WritePackage \/ WriteReport \/ WriteLedger \/ WriteFails \/ PrintResponse

Start == StartWith(Payloads)

Next == Command \/ Start

Spec == Init /\ [][Next]_vars
=============================================================================
