----------------------- MODULE AnalysisSessionProofs ------------------------
(***************************************************************************)
(* Theorems about AnalysisSession, for any payloads, terms and bounds.     *)
(*                                                                         *)
(* One inductive invariant for each question: LedgerInv (what the ledger   *)
(* holds is one line per record), FilesInv (which of the files the run at  *)
(* hand has written), BuildInv with VersionsInv (which contract the graph  *)
(* was settled for, from its compilation through every version a program   *)
(* derives from it), EvidenceInv (propositions were cut from passages, and *)
(* the scene is the one of the propositions) and RecordsInv (the ledger    *)
(* holds the records appended so far, none of which had an issue).         *)
(***************************************************************************)
EXTENDS AnalysisSession, TLAPS

LEMMA EmptyIsSequence == IsSequence(<<>>) /\ Len(<<>>) = 0
  BY DEF IsSequence

\* A sequence is one over its own values.
LEMMA OwnValues ==
    ASSUME NEW T, NEW s \in Seq(T)
    PROVE  s \in Seq({s[i] : i \in 1..Len(s)})
  <1> DEFINE U == {s[i] : i \in 1..Len(s)}
  <1>1. Len(s) \in Nat /\ s = [i \in 1..Len(s) |-> s[i]]
    OBVIOUS
  <1>2. \A i \in 1..Len(s) : s[i] \in U
    OBVIOUS
  <1> HIDE DEF U
  <1>3. [i \in 1..Len(s) |-> s[i]] \in Seq(U)
    BY <1>1, <1>2
  <1> QED
    BY <1>1, <1>3 DEF U

\* What appending to a sequence gives.
LEMMA AppendFacts ==
    ASSUME NEW s, IsSequence(s), NEW e
    PROVE  /\ Len(s) \in Nat
           /\ IsSequence(Append(s, e))
           /\ Len(Append(s, e)) = Len(s) + 1
           /\ \A i \in 1..Len(s) : Append(s, e)[i] = s[i]
           /\ Append(s, e)[Len(s) + 1] = e
  <1> DEFINE S == {s[i] : i \in 1..Len(s)}
             T == S \cup {e}
             t == Append(s, e)
  <1>1. s \in Seq(S) /\ s \in Seq(T)
    BY DEF IsSequence
  <1>2. /\ Len(s) \in Nat /\ t \in Seq(T) /\ Len(t) = Len(s) + 1
        /\ \A i \in 1..Len(s) : t[i] = s[i]
        /\ t[Len(s) + 1] = e
    BY <1>1
  <1>3. t \in Seq({t[i] : i \in 1..Len(t)})
    BY <1>2, OwnValues
  <1> QED
    BY <1>2, <1>3 DEF IsSequence

-----------------------------------------------------------------------------
(* The ledger *)

\* An entry the ledger admits keeps it one line per record.
LEMMA AdmittedKeepsLine ==
    ASSUME NEW entries, IsSequence(entries), Linear(entries), NEW e, Admits(entries, e)
    PROVE  Linear(Append(entries, e))
  <1> DEFINE t == Append(entries, e)
             n == Len(entries)
  <1>1. /\ n \in Nat /\ Len(t) = n + 1 /\ t[n + 1] = e
        /\ \A i \in 1..n : t[i] = entries[i]
    BY AppendFacts
  <1> HIDE DEF t
  <1>2. \A f : \A k \in 1..(n + 1) : Earlier(t, f, k) = Earlier(entries, f, k)
    BY <1>1 DEF Earlier
  <1>3. \A f, r : \A k \in 1..(n + 1) :
            Continues(t, Earlier(entries, f, k), r) <=> Continues(entries, Earlier(entries, f, k), r)
    BY <1>1 DEF Continues, Earlier
  <1>4. \A i \in 1..Len(t) : Continues(t, Earlier(t, t[i], i), t[i].revision)
    <2>1. TAKE i \in 1..Len(t)
    <2>2. Continues(entries, Earlier(entries, t[i], i), t[i].revision)
      <3>1. CASE i = n + 1
        BY <1>1, <3>1 DEF Admits
      <3>2. CASE i \in 1..n
        BY <1>1, <3>2 DEF Linear
      <3> QED
        BY <1>1, <3>1, <3>2
    <2> QED
      BY <1>1, <1>2, <1>3, <2>2
  <1>5. \A i, j \in 1..Len(t) : t[i].revision.id = t[j].revision.id => i = j
    BY <1>1 DEF Linear, Admits, IsRecorded
  <1> QED
    BY <1>4, <1>5 DEF Linear, t

LedgerInv == IsSequence(ledger) /\ Linear(ledger)

LEMMA EmptyLedger == IsSequence(<<>>) /\ Linear(<<>>)
  BY EmptyIsSequence DEF Linear

LEMMA LedgerStep == LedgerInv /\ [SessionNext]_session_vars => LedgerInv'
  <1> SUFFICES ASSUME LedgerInv, [SessionNext]_session_vars PROVE LedgerInv'
    OBVIOUS
  <1> USE DEF LedgerInv
  <1>1. ASSUME NEW e, Admits(ledger, e), ledger' = Append(ledger, e)
        PROVE  LedgerInv'
    BY <1>1, AdmittedKeepsLine, AppendFacts
  <1>2. CASE ledger' = <<>>
    BY <1>2, EmptyLedger
  <1>3. CASE RecordNext
    BY <1>1, <1>3 DEF RecordNext, append_accepts
  <1>4. CASE Command /\ ~RecordNext
    BY <1>2, <1>4
       DEF Command, ContractRefused, CreateContract, GraphRefused, BuildGraph, SourceRefused,
           IngestSource, SourcesIngested, BindingRefused, BindFact, FactsBound, ReconstructScene,
           FactorRefused, FactorsProposed, IntervalRefused, AuditInterval, AssemblePackage,
           RecordRefused, Compiled, WritePackage, WriteReport, WriteLedger, WriteFails,
           PrintResponse, Raises, Exits, Passes, Walks, Writes
  <1>5. CASE Start \/ StartStudy
    BY <1>5 DEF Start, StartStudy, StartWith
  <1>6. CASE Study
    BY <1>1, <1>6 DEF Study, KeepResult, ReviseContract, CarryOver, RecordVersion
  <1>7. CASE UNCHANGED session_vars
    BY <1>7 DEF session_vars, vars
  <1> QED
    BY <1>3, <1>4, <1>5, <1>6, <1>7 DEF SessionNext, CommandStep, Next

(* The revisions of every record form one line, whatever versions a        *)
(* program holds and offers to the ledger (AnalysisLedger.append).         *)
THEOREM LineageCorrect == SessionSpec => []LineageIsLinear
  <1>1. SessionInit => LedgerInv
    BY EmptyLedger DEF SessionInit, Init, LedgerInv
  <1>2. LedgerInv => LineageIsLinear
    BY DEF LedgerInv, LineageIsLinear
  <1> QED
    BY <1>1, <1>2, LedgerStep, PTL DEF SessionSpec

-----------------------------------------------------------------------------
(* The files *)

\* What the run at hand has written so far.
FilesInv ==
    /\ run \in Nat /\ disk \in [package : Nat, report : Nat, ledger : Nat]
    /\ disk.ledger <= disk.report /\ disk.report <= disk.package /\ disk.package <= run
    /\ stage \in {"report", "ledger_file"} => disk.package = run
    /\ stage = "ledger_file" => disk.report = run

LEMMA FilesStep == FilesInv /\ [SessionNext]_session_vars => FilesInv'
  <1> SUFFICES ASSUME FilesInv, [SessionNext]_session_vars PROVE FilesInv'
    OBVIOUS
  <1> USE DEF FilesInv
  <1>1. CASE UNCHANGED <<disk, run>> /\ stage' \notin {"report", "ledger_file"}
    BY <1>1
  <1>2. CASE WritePackage
    BY <1>2 DEF WritePackage, Writes
  <1>3. CASE WriteReport
    BY <1>3 DEF WriteReport, Writes
  <1>4. CASE WriteLedger
    BY <1>4 DEF WriteLedger, Writes
  <1>5. CASE Command /\ ~WritePackage /\ ~WriteReport /\ ~WriteLedger
    <2>1. UNCHANGED <<disk, run>> /\ stage' \notin {"report", "ledger_file"}
      BY <1>5
         DEF Command, ContractRefused, CreateContract, GraphRefused, BuildGraph, SourceRefused,
             IngestSource, SourcesIngested, BindingRefused, BindFact, FactsBound, ReconstructScene,
             FactorRefused, FactorsProposed, IntervalRefused, AuditInterval, AssemblePackage,
             RecordRefused, RecordNext, Compiled, WriteFails, PrintResponse,
             Raises, Exits, Passes, Walks
    <2> QED
      BY <1>1, <2>1
  <1>6. CASE Start \/ StartStudy
    BY <1>6 DEF Start, StartStudy, StartWith
  <1>7. CASE Study
    <2>1. UNCHANGED <<disk, run>> /\ stage' = "study"
      BY <1>7 DEF Study, KeepResult, ReviseContract, CarryOver, RecordVersion
    <2> QED
      BY <1>1, <2>1
  <1>8. CASE UNCHANGED session_vars
    BY <1>8 DEF session_vars, vars
  <1> QED
    BY <1>2, <1>3, <1>4, <1>5, <1>6, <1>7, <1>8 DEF SessionNext, CommandStep, Next

(* Whichever writes fail and however often the command runs, the ledger    *)
(* file is never newer than the package and the report it goes with        *)
(* (_compile).                                                             *)
THEOREM LedgerFileCorrect == SessionSpec => []LedgerFileIsLast
  <1>1. SessionInit => FilesInv
    BY DEF SessionInit, Init, FilesInv
  <1>2. FilesInv => LedgerFileIsLast
    BY DEF FilesInv, LedgerFileIsLast
  <1> QED
    BY <1>1, <1>2, FilesStep, PTL DEF SessionSpec

-----------------------------------------------------------------------------
(* The answer                                                              *)

GraphFields == {"contract", "status", "edges", "sufficient", "revision"}

\* A graph settled for the contract of a payload.
Settled(graph, contract) ==
    /\ DOMAIN graph = GraphFields
    /\ graph.contract = contract.revision.id
    /\ {} \notin graph.sufficient

\* A version of a graph keeps its sets, and its statuses only with its contract.
VersionOf(version, graph) ==
    /\ DOMAIN version = GraphFields
    /\ version.sufficient = graph.sufficient
    /\ \/ version.status = graph.status /\ version.contract = graph.contract
       \/ \A c \in DOMAIN version.status : version.status[c] = "invalidated"

\* The contract the payload asks for, under an id taken by now.
AsksFor(contract) ==
    /\ contract.terms = payload.terms
    /\ \E k \in 1..clock : contract.revision.id = Stamp(k)

AfterContract == Stages \ {"idle", "contract", "done", "failed"}
AfterGraph    == AfterContract \ {"graph"}

BuildInv ==
    /\ clock \in Nat
    /\ stage \in Stages \cup {"study"}
    /\ stage # "study" => DOMAIN work = DOMAIN Unbuilt /\ contracts = <<>> /\ graphs = <<>>
    /\ stage \in AfterContract => AsksFor(work.contract)
    /\ stage \in AfterGraph => Settled(work.graph, work.contract)

VersionsInv ==
    stage = "study" =>
        /\ IsSequence(contracts) /\ 1 \in 1..Len(contracts)
        /\ IsSequence(graphs) /\ 1 \in 1..Len(graphs)
        /\ contracts[1].terms = payload.terms
        /\ \A i \in 1..Len(contracts) : \E k \in 1..clock : contracts[i].revision.id = Stamp(k)
        /\ \A i, j \in 1..Len(contracts) : contracts[i].revision.id = contracts[j].revision.id => i = j
        /\ Settled(graphs[1], contracts[1])
        /\ \A g \in 1..Len(graphs) : VersionOf(graphs[g], graphs[1])

\* build_condition_graph refuses an empty sufficient set.
LEMMA BuiltIsSettled ==
    ASSUME NEW contract, NEW conditions, NEW edges, NEW sets, NEW id,
           GraphErrors(conditions, edges, sets) = {}
    PROVE  Settled(build_graph(contract, conditions, edges, sets, id), contract)
  <1>1. \A group \in sets : group # {}
    BY DEF GraphErrors
  <1>2. {} \notin SufficientSets(conditions, sets)
    BY <1>1 DEF SufficientSets
  <1> QED
    BY <1>2 DEF Settled, build_graph, GraphFields

\* A graph carried over to a changed contract has no status left.
LEMMA CarriedIsVersion ==
    ASSUME NEW graph, NEW version, VersionOf(version, graph), NEW old, NEW new, NEW id
    PROVE  VersionOf(invalidate_graph_for_contract_change(version, old, new, id), graph)
  <1>1. CASE ~contract_changed(old, new)
    BY <1>1 DEF invalidate_graph_for_contract_change
  <1>2. CASE contract_changed(old, new)
    <2> DEFINE carried == invalidate_graph_for_contract_change(version, old, new, id)
    <2>1. /\ DOMAIN carried = GraphFields
          /\ carried.sufficient = version.sufficient
          /\ carried.status = [c \in DOMAIN version.status |-> "invalidated"]
      BY <1>2 DEF invalidate_graph_for_contract_change, VersionOf, GraphFields
    <2> QED
      BY <2>1 DEF VersionOf
  <1> QED
    BY <1>1, <1>2

LEMMA BuildStep == BuildInv /\ [SessionNext]_session_vars => BuildInv'
  <1> SUFFICES ASSUME BuildInv, [SessionNext]_session_vars PROVE BuildInv'
    OBVIOUS
  <1> USE DEF BuildInv
  <1>1. ASSUME NEW end \in {"done", "failed"}, Exits(end), contracts' = <<>>, graphs' = <<>>
        PROVE  BuildInv'
    BY <1>1 DEF Exits, Stages, AfterContract, AfterGraph, Unbuilt
  <1>2. ASSUME CreateContract, contracts' = <<>>, graphs' = <<>>
        PROVE  BuildInv'
    <2>1. /\ work'.contract = create_contract(payload.terms, Stamp(clock + 1))
          /\ DOMAIN work' = DOMAIN Unbuilt /\ stage = "contract" /\ stage' = "graph"
          /\ clock' = clock + 1 /\ clock' \in Nat /\ payload' = payload
      BY <1>2 DEF CreateContract, Passes, Unbuilt
    <2>2. clock + 1 \in 1..clock'
      BY <2>1
    <2>3. AsksFor(work.contract)'
      BY <2>1, <2>2 DEF AsksFor, create_contract, first_revision
    <2> QED
      BY <1>2, <2>1, <2>3 DEF Stages, AfterContract, AfterGraph
  <1>3. ASSUME BuildGraph, contracts' = <<>>, graphs' = <<>>
        PROVE  BuildInv'
    <2>1. /\ work'.graph = build_graph(work.contract, payload.conditions, payload.edges,
                                       payload.sets, Stamp(clock + 1))
          /\ GraphErrors(payload.conditions, payload.edges, payload.sets) = {}
          /\ work'.contract = work.contract
          /\ DOMAIN work' = DOMAIN Unbuilt /\ stage = "graph" /\ stage' = "sources"
          /\ clock' = clock + 1 /\ clock' \in Nat /\ payload' = payload
      BY <1>3 DEF BuildGraph, Passes, Unbuilt
    <2>2. AsksFor(work.contract)'
      <3>1. AsksFor(work.contract)
        BY <2>1 DEF AfterContract, Stages
      <3> QED
        BY <2>1, <3>1 DEF AsksFor
    <2>3. Settled(work'.graph, work'.contract)
      BY <2>1, BuiltIsSettled
    <2> QED
      BY <1>3, <2>1, <2>2, <2>3 DEF Stages
  <1>4. ASSUME stage \in AfterGraph, stage' \in AfterGraph,
               work'.contract = work.contract, work'.graph = work.graph,
               DOMAIN work' = DOMAIN work, UNCHANGED <<payload, clock>>,
               contracts' = <<>>, graphs' = <<>>
        PROVE  BuildInv'
    BY <1>4 DEF AfterGraph, AfterContract, Stages, AsksFor
  <1>5. CASE Command /\ contracts' = <<>> /\ graphs' = <<>>
    <2>1. CASE \/ ContractRefused \/ GraphRefused \/ SourceRefused \/ BindingRefused
               \/ FactorRefused \/ IntervalRefused \/ RecordRefused \/ WriteFails
      <3>1. Exits("failed")
        BY <2>1 DEF ContractRefused, GraphRefused, SourceRefused, BindingRefused, FactorRefused,
                    IntervalRefused, RecordRefused, WriteFails, Raises
      <3> QED
        BY <1>1, <1>5, <3>1
    <2>2. CASE PrintResponse
      BY <1>1, <1>5, <2>2 DEF PrintResponse
    <2>3. CASE \/ IngestSource \/ SourcesIngested \/ BindFact \/ FactsBound \/ ReconstructScene
               \/ FactorsProposed \/ AuditInterval \/ AssemblePackage \/ RecordNext \/ Compiled
               \/ WritePackage \/ WriteReport \/ WriteLedger
      <3>1. /\ stage \in AfterGraph /\ stage' \in AfterGraph
            /\ UNCHANGED <<payload, clock>>
        BY <2>3 DEF IngestSource, SourcesIngested, BindFact, FactsBound, ReconstructScene,
                    FactorsProposed, AuditInterval, AssemblePackage, RecordNext, Compiled,
                    WritePackage, WriteReport, WriteLedger, Passes, Walks, Writes,
                    AfterGraph, AfterContract, Stages
      <3>2. DOMAIN work = {"contract", "graph", "answerability", "propositions", "fields",
                           "scene", "informative", "issues"}
        BY <3>1 DEF AfterGraph, AfterContract, Stages, Unbuilt
      <3>3. /\ work'.contract = work.contract /\ work'.graph = work.graph
            /\ DOMAIN work' = DOMAIN work
        BY <2>3, <3>2
           DEF IngestSource, SourcesIngested, BindFact, FactsBound, ReconstructScene,
               FactorsProposed, AuditInterval, AssemblePackage, RecordNext, Compiled,
               WritePackage, WriteReport, WriteLedger, Writes
      <3> QED
        BY <1>4, <1>5, <3>1, <3>3
    <2> QED
      BY <1>2, <1>3, <1>5, <2>1, <2>2, <2>3 DEF Command
  <1>6. CASE (Start /\ contracts' = <<>> /\ graphs' = <<>>) \/ StartStudy
    BY <1>6 DEF Start, StartStudy, StartWith, Stages, AfterContract, AfterGraph
  <1>7. CASE Study
    <2>1. stage' = "study" /\ clock' \in Nat
      BY <1>7 DEF Study, KeepResult, ReviseContract, CarryOver, RecordVersion
    <2> QED
      BY <2>1 DEF AfterGraph, AfterContract, Stages
  <1>8. CASE UNCHANGED session_vars
    BY <1>8 DEF session_vars, vars, AsksFor
  <1> QED
    BY <1>5, <1>6, <1>7, <1>8 DEF SessionNext, CommandStep, Next

LEMMA SingleFacts ==
    ASSUME NEW e
    PROVE  IsSequence(<<e>>) /\ Len(<<e>>) = 1 /\ <<e>>[1] = e
  <1>1. <<e>> \in Seq({e}) /\ Len(<<e>>) = 1 /\ <<e>>[1] = e
    OBVIOUS
  <1> QED
    BY <1>1, OwnValues DEF IsSequence

LEMMA VersionsStep == BuildInv /\ VersionsInv /\ [SessionNext]_session_vars => VersionsInv'
  <1> SUFFICES ASSUME BuildInv, VersionsInv, [SessionNext]_session_vars PROVE VersionsInv'
    OBVIOUS
  <1>1. CASE CommandStep \/ StartStudy
    <2>1. stage' # "study"
      BY <1>1
         DEF CommandStep, Next, Command, ContractRefused, CreateContract, GraphRefused, BuildGraph,
             SourceRefused, IngestSource, SourcesIngested, BindingRefused, BindFact, FactsBound,
             ReconstructScene, FactorRefused, FactorsProposed, IntervalRefused, AuditInterval,
             AssemblePackage, RecordRefused, RecordNext, Compiled, WritePackage, WriteReport,
             WriteLedger, WriteFails, PrintResponse, Raises, Exits, Passes, Walks, Writes,
             Start, StartStudy, StartWith
    <2> QED
      BY <2>1 DEF VersionsInv
  <1>2. CASE KeepResult
    <2>1. /\ AsksFor(work.contract) /\ Settled(work.graph, work.contract)
          /\ contracts' = <<work.contract>> /\ graphs' = <<work.graph>>
          /\ UNCHANGED <<payload, clock>>
      BY <1>2 DEF KeepResult, BuildInv, AfterGraph, AfterContract, Stages
    <2>2. /\ IsSequence(contracts') /\ Len(contracts') = 1 /\ contracts'[1] = work.contract
          /\ IsSequence(graphs') /\ Len(graphs') = 1 /\ graphs'[1] = work.graph
      BY <2>1, SingleFacts
    <2>3. 1..1 = {1}
      OBVIOUS
    <2> QED
      BY <2>1, <2>2, <2>3 DEF VersionsInv, AsksFor, Settled, VersionOf
  <1>3. ASSUME NEW i \in 1..Len(contracts), NEW terms \in Terms, ReviseContract(i, terms)
        PROVE  VersionsInv'
    <2> DEFINE c == revised_contract(contracts[i], terms, Stamp(clock + 1))
               n == Len(contracts)
    <2>1. /\ stage = "study" /\ contracts' = Append(contracts, c)
          /\ clock' = clock + 1 /\ clock \in Nat /\ UNCHANGED <<payload, graphs>>
      BY <1>3 DEF ReviseContract, BuildInv
    <2>2. /\ n \in Nat /\ IsSequence(contracts') /\ Len(contracts') = n + 1
          /\ \A j \in 1..n : contracts'[j] = contracts[j]
          /\ contracts'[n + 1] = c
      BY <2>1, AppendFacts DEF VersionsInv
    <2>3. c.revision.id = Stamp(clock + 1)
      BY DEF revised_contract, next_revision
    <2>4. \A j \in 1..n : contracts[j].revision.id # Stamp(clock + 1)
      BY <2>1 DEF VersionsInv, Stamp
    <2>5. \A j \in 1..(n + 1) : \E k \in 1..clock' : contracts'[j].revision.id = Stamp(k)
      <3> TAKE j \in 1..(n + 1)
      <3>1. CASE j = n + 1
        <4>1. clock + 1 \in 1..clock'
          BY <2>1
        <4> QED
          BY <2>2, <2>3, <3>1, <4>1
      <3>2. CASE j \in 1..n
        <4>1. PICK k \in 1..clock : contracts[j].revision.id = Stamp(k)
          BY <2>1, <3>2 DEF VersionsInv
        <4>2. k \in 1..clock'
          BY <2>1
        <4> QED
          BY <2>2, <3>2, <4>1, <4>2
      <3> QED
        BY <2>2, <3>1, <3>2
    <2>6. \A j, k \in 1..(n + 1) : contracts'[j].revision.id = contracts'[k].revision.id => j = k
      <3>1. \A j, k \in 1..n : contracts[j].revision.id = contracts[k].revision.id => j = k
        BY <2>1 DEF VersionsInv
      <3> HIDE DEF c
      <3> QED
        BY <2>2, <2>3, <2>4, <3>1
    <2>7. 1 \in 1..n /\ 1 \in 1..(n + 1) /\ contracts'[1] = contracts[1]
      BY <2>1, <2>2 DEF VersionsInv
    <2> HIDE DEF c
    <2> QED
      BY <2>1, <2>2, <2>5, <2>6, <2>7 DEF VersionsInv
  <1>4. ASSUME NEW g \in 1..Len(graphs), NEW old \in 1..Len(contracts),
               NEW new \in 1..Len(contracts), CarryOver(g, old, new)
        PROVE  VersionsInv'
    <2> DEFINE carried == invalidate_graph_for_contract_change(
                              graphs[g], contracts[old], contracts[new], Stamp(clock + 1))
               n == Len(graphs)
    <2>1. /\ stage = "study" /\ graphs' = Append(graphs, carried)
          /\ clock' = clock + 1 /\ clock \in Nat /\ UNCHANGED <<payload, contracts>>
      BY <1>4 DEF CarryOver, BuildInv
    <2>2. /\ n \in Nat /\ IsSequence(graphs') /\ Len(graphs') = n + 1
          /\ \A j \in 1..n : graphs'[j] = graphs[j]
          /\ graphs'[n + 1] = carried
      BY <2>1, AppendFacts DEF VersionsInv
    <2>3. VersionOf(carried, graphs[1])
      <3>1. VersionOf(graphs[g], graphs[1])
        BY <2>1 DEF VersionsInv
      <3> QED
        BY <3>1, CarriedIsVersion
    <2> HIDE DEF carried
    <2>4. 1 \in 1..n /\ 1 \in 1..(n + 1) /\ graphs'[1] = graphs[1]
      BY <2>1, <2>2 DEF VersionsInv
    <2>5. \A j \in 1..(n + 1) : VersionOf(graphs'[j], graphs'[1])
      BY <2>1, <2>2, <2>3, <2>4 DEF VersionsInv
    <2>6. \A j \in 1..Len(contracts) : \E k \in 1..clock' : contracts[j].revision.id = Stamp(k)
      <3> TAKE j \in 1..Len(contracts)
      <3>1. PICK k \in 1..clock : contracts[j].revision.id = Stamp(k)
        BY <2>1 DEF VersionsInv
      <3>2. k \in 1..clock'
        BY <2>1
      <3> QED
        BY <3>1, <3>2
    <2> QED
      BY <2>1, <2>2, <2>4, <2>5, <2>6 DEF VersionsInv
  <1>5. ASSUME NEW type, NEW id, NEW revision, RecordVersion(type, id, revision)
        PROVE  VersionsInv'
    BY <1>5 DEF RecordVersion, VersionsInv
  <1>6. CASE UNCHANGED session_vars
    BY <1>6 DEF session_vars, vars, VersionsInv
  <1> QED
    BY <1>1, <1>2, <1>3, <1>4, <1>5, <1>6 DEF SessionNext, Study

LEMMA VersionsFit == BuildInv /\ VersionsInv => AnswerFitsContract
  <1> SUFFICES ASSUME BuildInv, VersionsInv,
                      NEW i \in 1..Len(contracts), NEW g \in 1..Len(graphs),
                      evaluate_answerability(contracts[i], graphs[g]) = "answerable_bounded"
               PROVE  /\ Material(contracts[i].terms) = Material(payload.terms)
                      /\ \E group \in graphs[1].sufficient :
                             \A c \in group : graphs[1].status[c] \in Resolved
    BY DEF AnswerFitsContract
  <1>1. stage = "study"
    <2>1. stage # "study" => Len(contracts) = 0
      BY DEF BuildInv
    <2> QED
      BY <2>1
  <1> DEFINE known == {c \in DOMAIN graphs[g].status : graphs[g].status[c] \in Resolved}
  <1>2. /\ graphs[g].contract = contracts[i].revision.id
        /\ \E group \in minimal_sufficient_sets(graphs[g]) : group \subseteq known
    BY DEF evaluate_answerability
  <1>3. PICK group \in graphs[g].sufficient : group \subseteq known
    BY <1>2 DEF minimal_sufficient_sets
  <1>4. /\ VersionOf(graphs[g], graphs[1]) /\ Settled(graphs[1], contracts[1])
        /\ contracts[1].terms = payload.terms /\ 1 \in 1..Len(contracts)
        /\ \A j, k \in 1..Len(contracts) : contracts[j].revision.id = contracts[k].revision.id => j = k
    BY <1>1 DEF VersionsInv
  <1>5. group \in graphs[1].sufficient /\ group # {}
    BY <1>3, <1>4 DEF VersionOf, Settled
  <1>6. ~\A c \in DOMAIN graphs[g].status : graphs[g].status[c] = "invalidated"
    BY <1>3, <1>5 DEF Resolved
  <1>7. graphs[g].status = graphs[1].status /\ graphs[g].contract = graphs[1].contract
    BY <1>4, <1>6 DEF VersionOf
  <1>8. i = 1
    BY <1>2, <1>4, <1>7 DEF Settled
  <1> QED
    BY <1>3, <1>4, <1>5, <1>7, <1>8

(* A question is answerable only with conditions that were settled for its *)
(* own meaning, for any mixture of the versions a program holds            *)
(* (invalidate_graph_for_contract_change, evaluate_answerability).         *)
THEOREM AnswerCorrect == SessionSpec => []AnswerFitsContract
  <1>1. SessionInit => BuildInv /\ VersionsInv
    BY DEF SessionInit, Init, BuildInv, VersionsInv, Stages, AfterContract, AfterGraph
  <1> QED
    BY <1>1, BuildStep, VersionsStep, VersionsFit, PTL DEF SessionSpec
-----------------------------------------------------------------------------
(* The evidence and its scene                                              *)

AtRest     == {"idle", "done", "failed"}
AfterScene == {"factors", "interval", "package", "ledger"} \cup Returned \cup {"print"}

\* A proposition was cut from a passage whose cues are known.
Cut(a) == \E source, i :
    /\ a = create_proposition(source, i)
    /\ Reading[source.passages[i]].cue \in CueTypes \cup {NoCue}

\* The scene is the one of the propositions and facts at hand.
SceneOf(built) ==
    built.scene = IF built.propositions = <<>> THEN NoScene
                  ELSE reconstruct_event_scene(AtomsOf(built.propositions), built.fields)

EvidenceInv ==
    stage # "study" =>
        /\ stage \in AtRest => work = Unbuilt /\ ledger = <<>> /\ at = 1
        /\ stage \notin AtRest => payload \in Payloads \cup Studies
        /\ at \in Nat \ {0}
        /\ IsSequence(work.propositions)
        /\ \A i \in 1..Len(work.propositions) : Cut(work.propositions[i])
        /\ stage \in AfterScene => SceneOf(work)

LEMMA EveryPayload == \A p \in Payloads \cup Studies : IsPayload(p)
  BY PayloadsAreRead, StudiesAreRead

\* Named, because the provers rewrite what they know of \\o.
Joined(s, t) == s \o t

\* What joining two sequences gives.
LEMMA ConcatFacts ==
    ASSUME NEW s, IsSequence(s), NEW t, IsSequence(t)
    PROVE  /\ IsSequence(Joined(s, t))
           /\ Len(s) \in Nat /\ Len(t) \in Nat /\ Len(Joined(s, t)) = Len(s) + Len(t)
           /\ \A i \in 1..Len(s) : Joined(s, t)[i] = s[i]
           /\ \A i \in 1..Len(t) : Joined(s, t)[Len(s) + i] = t[i]
           /\ \A i \in 1..Len(Joined(s, t)) :
                 \/ i \in 1..Len(s) /\ Joined(s, t)[i] = s[i]
                 \/ \E k \in 1..Len(t) : i = Len(s) + k /\ Joined(s, t)[i] = t[k]
  <1> DEFINE T == {s[i] : i \in 1..Len(s)} \cup {t[i] : i \in 1..Len(t)}
             u == Joined(s, t)
  <1>1. s \in Seq(T) /\ t \in Seq(T)
    BY DEF IsSequence
  <1> HIDE DEF T
  <1>2. /\ Len(s) \in Nat /\ Len(t) \in Nat /\ u \in Seq(T) /\ Len(u) = Len(s) + Len(t)
        /\ \A i \in 1..Len(s) : u[i] = s[i]
        /\ \A i \in 1..Len(t) : u[Len(s) + i] = t[i]
    BY <1>1 DEF Joined
  <1> HIDE DEF u
  <1>3. u \in Seq({u[i] : i \in 1..Len(u)})
    BY <1>2, OwnValues
  <1>4. ASSUME NEW i \in 1..Len(u)
        PROVE  \/ i \in 1..Len(s) /\ u[i] = s[i]
               \/ \E k \in 1..Len(t) : i = Len(s) + k /\ u[i] = t[k]
    <2>1. CASE i \in 1..Len(s)
      BY <1>2, <2>1
    <2>2. CASE i \notin 1..Len(s)
      <3>1. i - Len(s) \in 1..Len(t) /\ i = Len(s) + (i - Len(s))
        BY <1>2, <2>2
      <3> QED
        BY <1>2, <3>1
    <2> QED
      BY <2>1, <2>2
  <1> QED
    BY <1>2, <1>3, <1>4 DEF IsSequence, u

\* A function on the positions of a sequence is a sequence.
LEMMA PositionsFacts ==
    ASSUME NEW n \in Nat, NEW s, s = [i \in 1..n |-> s[i]]
    PROVE  IsSequence(s) /\ Len(s) = n /\ DOMAIN s = 1..n
  <1>1. s \in Seq({s[i] : i \in 1..n})
    <2> DEFINE U == {s[i] : i \in 1..n}
    <2>1. \A i \in 1..n : s[i] \in U
      OBVIOUS
    <2> HIDE DEF U
    <2>2. [i \in 1..n |-> s[i]] \in Seq(U)
      BY <2>1
    <2> QED
      BY <2>2 DEF U
  <1>2. DOMAIN s = 1..n
    OBVIOUS
  <1>3. Len(s) = n
    BY <1>1, <1>2
  <1> QED
    BY <1>1, <1>2, <1>3 DEF IsSequence

LEMMA DomainOfSequence == \A s : IsSequence(s) => DOMAIN s = 1..Len(s) /\ Len(s) \in Nat
  BY DEF IsSequence

\* The propositions of a source are cut from its passages.
LEMMA SegmentsAreCut ==
    ASSUME NEW p, IsPayload(p), NEW n \in 1..Len(p.sources)
    PROVE  /\ IsSequence(segment_propositions(p.sources[n]))
           /\ \A i \in 1..Len(segment_propositions(p.sources[n])) :
                  Cut(segment_propositions(p.sources[n])[i])
  <1> DEFINE source == p.sources[n]
             cut    == segment_propositions(source)
             m      == Len(source.passages)
  <1>1. DOMAIN source.passages = 1..m /\ m \in Nat
    BY DomainOfSequence DEF IsPayload
  <1>2. cut = [i \in 1..m |-> create_proposition(source, i)]
    BY <1>1 DEF segment_propositions
  <1>3. \A i \in 1..m : Reading[source.passages[i]].cue \in CueTypes \cup {NoCue}
    BY DEF IsPayload
  <1> HIDE DEF source, cut, m
  <1>4. \A i \in 1..m : Cut(cut[i])
    BY <1>2, <1>3 DEF Cut
  <1>5. cut = [i \in 1..m |-> cut[i]]
    BY <1>2
  <1>6. IsSequence(cut) /\ Len(cut) = m
    BY <1>1, <1>5, PositionsFacts
  <1> QED
    BY <1>4, <1>6 DEF cut, source

LEMMA JoinedAreCut ==
    ASSUME NEW s, IsSequence(s), \A i \in 1..Len(s) : Cut(s[i]),
           NEW t, IsSequence(t), \A i \in 1..Len(t) : Cut(t[i])
    PROVE  IsSequence(Joined(s, t)) /\ \A i \in 1..Len(Joined(s, t)) : Cut(Joined(s, t)[i])
  <1> DEFINE u == Joined(s, t)
  <1>1. /\ IsSequence(u)
        /\ \A i \in 1..Len(u) : \/ i \in 1..Len(s) /\ u[i] = s[i]
                                \/ \E k \in 1..Len(t) : i = Len(s) + k /\ u[i] = t[k]
    BY ConcatFacts
  <1> HIDE DEF u
  <1>2. ASSUME NEW i \in 1..Len(u) PROVE Cut(u[i])
    <2>1. CASE i \in 1..Len(s) /\ u[i] = s[i]
      BY <2>1
    <2>2. CASE \E k \in 1..Len(t) : i = Len(s) + k /\ u[i] = t[k]
      BY <2>2
    <2> QED
      BY <1>1, <2>1, <2>2
  <1> QED
    BY <1>1, <1>2 DEF u

\* What only passes the work on keeps what is known of the evidence.
LEMMA EvidenceKept ==
    ASSUME EvidenceInv, stage # "study", stage' # "study",
           stage \notin AtRest, stage' \notin AtRest, payload' = payload,
           at' \in {1, at + 1},
           work'.propositions = work.propositions,
           stage' \in AfterScene => SceneOf(work)'
    PROVE  EvidenceInv'
  BY DEF EvidenceInv

LEMMA EvidenceStep == BuildInv /\ EvidenceInv /\ [SessionNext]_session_vars => EvidenceInv'
  <1> SUFFICES ASSUME BuildInv, EvidenceInv, [SessionNext]_session_vars PROVE EvidenceInv'
    OBVIOUS
  <1>1. ASSUME NEW end \in {"done", "failed"}, Exits(end)
        PROVE  EvidenceInv'
    BY <1>1, EmptyIsSequence DEF Exits, EvidenceInv, AtRest, AfterScene, Returned, Unbuilt
  <1>2. CASE Command
    <2>1. CASE \/ ContractRefused \/ GraphRefused \/ SourceRefused \/ BindingRefused
               \/ FactorRefused \/ IntervalRefused \/ RecordRefused \/ WriteFails
      <3>1. Exits("failed")
        BY <2>1 DEF ContractRefused, GraphRefused, SourceRefused, BindingRefused, FactorRefused,
                    IntervalRefused, RecordRefused, WriteFails, Raises
      <3> QED
        BY <1>1, <3>1
    <2>2. CASE PrintResponse
      BY <1>1, <2>2 DEF PrintResponse
    <2>3. CASE IngestSource
      <3>1. /\ stage = "sources" /\ stage' = "sources" /\ payload' = payload /\ at' = at + 1
            /\ at <= Len(payload.sources)
            /\ work' = [work EXCEPT !.propositions =
                   IF Disposition(payload.sources[at]) = "excluded" THEN @
                   ELSE @ \o segment_propositions(payload.sources[at])]
        BY <2>3 DEF IngestSource, Walks
      <3>2. /\ payload \in Payloads \cup Studies /\ at \in Nat \ {0}
            /\ IsSequence(work.propositions)
            /\ \A i \in 1..Len(work.propositions) : Cut(work.propositions[i])
        BY <3>1 DEF EvidenceInv, AtRest
      <3>3. IsPayload(payload) /\ Len(payload.sources) \in Nat
        BY <3>2, EveryPayload, DomainOfSequence DEF IsPayload
      <3>4. at \in 1..Len(payload.sources)
        BY <3>1, <3>2, <3>3
      <3> DEFINE more == segment_propositions(payload.sources[at])
      <3>5. IsSequence(more) /\ \A i \in 1..Len(more) : Cut(more[i])
        BY <3>3, <3>4, SegmentsAreCut
      <3>6. "propositions" \in DOMAIN work
        BY <3>1 DEF BuildInv, Unbuilt
      <3> DEFINE both == Joined(work.propositions, more)
      <3>7. \/ work'.propositions = work.propositions
            \/ work'.propositions = both
        BY <3>1, <3>6 DEF Joined
      <3> HIDE DEF more
      <3>8. IsSequence(both) /\ \A i \in 1..Len(both) : Cut(both[i])
        BY <3>2, <3>5, JoinedAreCut
      <3> HIDE DEF both
      <3>9. /\ IsSequence(work'.propositions)
            /\ \A i \in 1..Len(work'.propositions) : Cut(work'.propositions[i])
        <4>1. CASE work'.propositions = work.propositions
          BY <3>2, <4>1
        <4>2. CASE work'.propositions = both
          BY <3>8, <4>2
        <4> QED
          BY <3>7, <4>1, <4>2
      <3>10. at' \in Nat \ {0}
        BY <3>1, <3>2
      <3>11. stage' \notin AtRest /\ stage' \notin AfterScene
        BY <3>1 DEF AtRest, AfterScene, Returned
      <3> QED
        BY <3>1, <3>2, <3>9, <3>10, <3>11 DEF EvidenceInv
    <2>4. CASE CreateContract \/ BuildGraph
      <3>1. DOMAIN work = DOMAIN Unbuilt
        BY <2>4 DEF CreateContract, BuildGraph, Passes, BuildInv
      <3>2. work'.propositions = work.propositions
        BY <2>4, <3>1 DEF CreateContract, BuildGraph, Unbuilt
      <3> QED
        BY <2>4, <3>2, EvidenceKept
           DEF CreateContract, BuildGraph, Passes, AtRest, AfterScene, Returned
    <2>5. CASE SourcesIngested \/ BindFact \/ FactsBound
      <3>1. DOMAIN work = DOMAIN Unbuilt
        BY <2>5 DEF SourcesIngested, BindFact, FactsBound, Passes, Walks, BuildInv
      <3>2. work'.propositions = work.propositions
        BY <2>5, <3>1 DEF SourcesIngested, BindFact, FactsBound, Unbuilt
      <3> QED
        BY <2>5, <3>2, EvidenceKept
           DEF SourcesIngested, BindFact, FactsBound, Passes, Walks, AtRest, AfterScene, Returned
    <2>6. CASE ReconstructScene
      <3>1. DOMAIN work = DOMAIN Unbuilt /\ stage = "scene" /\ stage' = "factors"
            /\ payload' = payload /\ at' = 1
        BY <2>6 DEF ReconstructScene, Passes, BuildInv
      <3>2. /\ work'.propositions = work.propositions /\ work'.fields = work.fields
            /\ work'.scene = IF work.propositions = <<>> THEN NoScene
                             ELSE reconstruct_event_scene(AtomsOf(work.propositions), work.fields)
        BY <2>6, <3>1 DEF ReconstructScene, Unbuilt
      <3>3. SceneOf(work)'
        BY <3>2 DEF SceneOf
      <3> QED
        BY <3>1, <3>2, <3>3, EvidenceKept DEF AtRest
    <2>7. CASE \/ FactorsProposed \/ AuditInterval \/ AssemblePackage \/ RecordNext \/ Compiled
               \/ WritePackage \/ WriteReport \/ WriteLedger
      <3>1. /\ stage \in AfterScene /\ stage' \in AfterScene /\ stage' # "study"
            /\ payload' = payload /\ at' \in {1, at, at + 1}
        BY <2>7 DEF FactorsProposed, AuditInterval, AssemblePackage, RecordNext, Compiled,
                    WritePackage, WriteReport, WriteLedger, Passes, Walks, Writes,
                    AfterScene, Returned
      <3>2. DOMAIN work = DOMAIN Unbuilt
        BY <3>1 DEF BuildInv, AfterScene, Returned
      <3>3. /\ work'.propositions = work.propositions /\ work'.fields = work.fields
            /\ work'.scene = work.scene
        BY <2>7, <3>2 DEF FactorsProposed, AuditInterval, AssemblePackage, RecordNext, Compiled,
                          WritePackage, WriteReport, WriteLedger, Writes, Unbuilt
      <3>4. SceneOf(work)'
        BY <3>1, <3>3 DEF SceneOf, EvidenceInv, AfterScene, Returned
      <3> QED
        BY <3>1, <3>3, <3>4 DEF EvidenceInv, AtRest, AfterScene, Returned
    <2> QED
      BY <1>2, <2>1, <2>2, <2>3, <2>4, <2>5, <2>6, <2>7 DEF Command
  <1>3. CASE Start \/ StartStudy
    <2>1. /\ stage \in AtRest /\ stage' = "contract" /\ payload' \in Payloads \cup Studies
          /\ UNCHANGED <<at, work, ledger>>
      BY <1>3 DEF Start, StartStudy, StartWith, AtRest
    <2> QED
      BY <2>1 DEF EvidenceInv, AtRest, AfterScene, Returned
  <1>4. CASE Study
    <2>1. stage' = "study"
      BY <1>4 DEF Study, KeepResult, ReviseContract, CarryOver, RecordVersion, BuildInv
    <2> QED
      BY <2>1 DEF EvidenceInv
  <1>5. CASE UNCHANGED session_vars
    BY <1>5 DEF session_vars, vars, EvidenceInv, SceneOf
  <1> QED
    BY <1>2, <1>3, <1>4, <1>5 DEF SessionNext, CommandStep, Next

-----------------------------------------------------------------------------
(* The records of a compilation                                            *)

\* The first n records of the package are in the ledger, and had no issue.
Recorded(n) ==
    /\ n \in Nat /\ n <= Len(Records) /\ Len(ledger) = n
    /\ \A i \in 1..n : ledger[i] = Records[i].entry /\ Records[i].issues = {}

RecordsInv ==
    stage # "study" =>
        /\ stage \notin {"ledger"} \cup Returned => ledger = <<>>
        /\ stage \in {"ledger"} \cup Returned => work.issues = PackageIssues
        /\ stage = "ledger" => Recorded(at - 1)
        /\ stage \in Returned \cup {"print"} => Recorded(Len(Records))

LEMMA PairFacts == ASSUME NEW d, NEW e PROVE IsSequence(<<d, e>>)
  <1>1. <<d, e>> \in Seq({d, e})
    OBVIOUS
  <1> QED
    BY <1>1, OwnValues DEF IsSequence

LEMMA JoinedSequence ==
    ASSUME NEW s, IsSequence(s), NEW t, IsSequence(t) PROVE IsSequence(Joined(s, t))
  BY ConcatFacts

LEMMA LastFacts ==
    ASSUME NEW s, IsSequence(s), NEW e
    PROVE  /\ IsSequence(Joined(s, <<e>>))
           /\ Len(Joined(s, <<e>>)) \in Nat \ {0}
           /\ Joined(s, <<e>>)[Len(Joined(s, <<e>>))] = e
  <1> DEFINE T == {s[i] : i \in 1..Len(s)} \cup {e}
             u == Joined(s, <<e>>)
  <1>1. s \in Seq(T) /\ <<e>> \in Seq(T)
    BY DEF IsSequence
  <1> HIDE DEF T
  <1>2. Len(s) \in Nat /\ Len(u) = Len(s) + 1 /\ u[Len(s) + 1] = e
    BY <1>1 DEF Joined
  <1>3. IsSequence(u)
    BY SingleFacts, JoinedSequence
  <1> HIDE DEF u
  <1>4. Len(u) \in Nat \ {0} /\ u[Len(u)] = e
    BY <1>2
  <1> QED
    BY <1>3, <1>4 DEF u

\* The package is the last of the records.
LEMMA RecordsFacts ==
    ASSUME IsPayload(payload), IsSequence(work.propositions)
    PROVE  /\ IsSequence(Records) /\ Len(Records) \in Nat \ {0}
           /\ Records[Len(Records)].issues = work.issues
  <1> DEFINE head      == << [entry |-> Entry("answer_contract", "question", work.contract.revision),
                              issues |-> ContractIssues],
                             [entry |-> Entry("condition_graph", "graph", work.graph.revision),
                              issues |-> GraphIssues] >>
             sources   == [i \in DOMAIN payload.sources |-> StableRecord("source", payload.sources[i].id, {})]
             atoms     == [i \in DOMAIN work.propositions |->
                              StableRecord("evidence_proposition", work.propositions[i].id,
                                           PropositionIssues(work.propositions[i]))]
             scene     == IF work.scene = NoScene THEN <<>> ELSE <<StableRecord("event_scene", "scene", {})>>
             estimates == [i \in DOMAIN payload.estimates |->
                              StableRecord("missing_condition", payload.estimates[i].id,
                                           EstimateIssues(payload.estimates[i]))]
             factors   == [i \in DOMAIN payload.factors |->
                              StableRecord("derived_factor", payload.factors[i].id,
                                           FactorIssues(payload.factors[i]))]
             audit     == IF payload.interval = NoInterval THEN <<>>
                          ELSE <<StableRecord("interval_audit", "interval", AuditIssues)>>
             package   == StableRecord("analysis_package", "package", work.issues)
  <1>1. /\ DOMAIN payload.sources = 1..Len(payload.sources) /\ Len(payload.sources) \in Nat
        /\ DOMAIN payload.estimates = 1..Len(payload.estimates) /\ Len(payload.estimates) \in Nat
        /\ DOMAIN payload.factors = 1..Len(payload.factors) /\ Len(payload.factors) \in Nat
        /\ DOMAIN work.propositions = 1..Len(work.propositions) /\ Len(work.propositions) \in Nat
    BY DomainOfSequence DEF IsPayload
  <1>2. IsSequence(head)
    BY PairFacts
  <1>3. IsSequence(sources)
    <2>1. sources = [i \in 1..Len(payload.sources) |-> sources[i]]
      BY <1>1
    <2> QED
      BY <1>1, <2>1, PositionsFacts
  <1>4. IsSequence(atoms)
    <2>1. atoms = [i \in 1..Len(work.propositions) |-> atoms[i]]
      BY <1>1
    <2> QED
      BY <1>1, <2>1, PositionsFacts
  <1>5. IsSequence(scene)
    BY EmptyIsSequence, SingleFacts
  <1>6. IsSequence(estimates)
    <2>1. estimates = [i \in 1..Len(payload.estimates) |-> estimates[i]]
      BY <1>1
    <2> QED
      BY <1>1, <2>1, PositionsFacts
  <1>7. IsSequence(factors)
    <2>1. factors = [i \in 1..Len(payload.factors) |-> factors[i]]
      BY <1>1
    <2> QED
      BY <1>1, <2>1, PositionsFacts
  <1>8. IsSequence(audit)
    BY EmptyIsSequence, SingleFacts
  <1> DEFINE front == Joined(Joined(Joined(Joined(Joined(Joined(head, sources), atoms), scene),
                                           estimates), factors), audit)
  <1>9. Records = Joined(front, <<package>>)
    BY Zenon DEF Records, Joined
  <1>10. package.issues = work.issues
    BY DEF StableRecord
  <1> HIDE DEF head, sources, atoms, scene, estimates, factors, audit, package
  <1>11. IsSequence(front)
    <2>1. IsSequence(Joined(Joined(head, sources), atoms))
      BY <1>2, <1>3, <1>4, JoinedSequence
    <2>2. IsSequence(Joined(Joined(Joined(Joined(head, sources), atoms), scene), estimates))
      BY <1>5, <1>6, <2>1, JoinedSequence
    <2> QED
      BY <1>7, <1>8, <2>2, JoinedSequence
  <1> HIDE DEF front
  <1>12. /\ IsSequence(Joined(front, <<package>>))
         /\ Len(Joined(front, <<package>>)) \in Nat \ {0}
         /\ Joined(front, <<package>>)[Len(Joined(front, <<package>>))] = package
    BY <1>11, LastFacts
  <1> QED
    BY <1>9, <1>10, <1>12

LEMMA RecordsCount ==
    IsPayload(payload) /\ IsSequence(work.propositions) => Len(Records) \in Nat \ {0}
  BY RecordsFacts

LEMMA RecordsKept ==
    ASSUME payload' = payload, work' = work
    PROVE  Records' = Records /\ PackageIssues' = PackageIssues
  BY DEF Records, PackageIssues, ContractIssues, GraphIssues, AuditIssues, LeakingSources

LEMMA RecordsStep ==
    BuildInv /\ LedgerInv /\ EvidenceInv /\ RecordsInv /\ [SessionNext]_session_vars => RecordsInv'
  <1> SUFFICES ASSUME BuildInv, LedgerInv, EvidenceInv, RecordsInv, [SessionNext]_session_vars
               PROVE  RecordsInv'
    OBVIOUS
  <1>1. ASSUME NEW end \in {"done", "failed"}, Exits(end)
        PROVE  RecordsInv'
    BY <1>1 DEF Exits, RecordsInv, Returned
  <1>2. CASE Command
    <2>1. CASE \/ ContractRefused \/ GraphRefused \/ SourceRefused \/ BindingRefused
               \/ FactorRefused \/ IntervalRefused \/ RecordRefused \/ WriteFails
      <3>1. Exits("failed")
        BY <2>1 DEF ContractRefused, GraphRefused, SourceRefused, BindingRefused, FactorRefused,
                    IntervalRefused, RecordRefused, WriteFails, Raises
      <3> QED
        BY <1>1, <3>1
    <2>2. CASE PrintResponse
      BY <1>1, <2>2 DEF PrintResponse
    <2>3. CASE \/ CreateContract \/ BuildGraph \/ IngestSource \/ SourcesIngested \/ BindFact
               \/ FactsBound \/ ReconstructScene \/ FactorsProposed \/ AuditInterval
      <3>1. /\ stage \notin {"ledger", "study"} \cup Returned
            /\ stage' \notin {"ledger"} \cup Returned /\ ledger' = ledger
        BY <2>3 DEF CreateContract, BuildGraph, IngestSource, SourcesIngested, BindFact, FactsBound,
                    ReconstructScene, FactorsProposed, AuditInterval, Passes, Walks, Returned
      <3> QED
        BY <3>1 DEF RecordsInv, Returned
    <2>4. CASE AssemblePackage
      <3>1. /\ stage = "package" /\ stage' = "ledger" /\ at' = 1 /\ payload' = payload
            /\ ledger' = ledger /\ work' = [work EXCEPT !.issues = PackageIssues]
        BY <2>4 DEF AssemblePackage, Passes
      <3>2. ledger = <<>> /\ payload \in Payloads \cup Studies /\ IsSequence(work.propositions)
        BY <3>1 DEF RecordsInv, Returned, EvidenceInv, AtRest
      <3>3. DOMAIN work = DOMAIN Unbuilt
        BY <3>1 DEF BuildInv
      <3>4. /\ work'.issues = PackageIssues
            /\ work'.graph = work.graph /\ work'.propositions = work.propositions
            /\ work'.informative = work.informative
        BY <3>1, <3>3 DEF Unbuilt
      <3>5. PackageIssues' = PackageIssues
        BY <3>1, <3>4 DEF PackageIssues, ContractIssues, GraphIssues, AuditIssues, LeakingSources
      <3>6. IsPayload(payload') /\ IsSequence(work'.propositions)
        BY <3>1, <3>2, <3>4, EveryPayload
      <3>7. (IsPayload(payload) /\ IsSequence(work.propositions) => Len(Records) \in Nat \ {0})'
        BY RecordsCount, PTL
      <3>8. Recorded(0)'
        <4>1. Len(ledger') = 0 /\ Len(Records') \in Nat
          BY <3>1, <3>2, <3>6, <3>7
        <4> QED
          BY <4>1 DEF Recorded
      <3> QED
        BY <3>1, <3>4, <3>5, <3>8 DEF RecordsInv, Returned
    <2>5. CASE RecordNext
      <3>1. /\ stage = "ledger" /\ stage' = "ledger" /\ at' = at + 1 /\ at <= Len(Records)
            /\ append_accepts(Records[at]) /\ ledger' = Append(ledger, Records[at].entry)
            /\ payload' = payload /\ work' = work
        BY <2>5 DEF RecordNext, Walks
      <3>2. Records' = Records /\ PackageIssues' = PackageIssues
        BY <3>1, RecordsKept
      <3>3. at \in Nat \ {0} /\ payload \in Payloads \cup Studies /\ IsSequence(work.propositions)
        BY <3>1 DEF EvidenceInv, AtRest
      <3>4. Len(Records) \in Nat
        BY <3>3, EveryPayload, RecordsFacts
      <3>5. /\ Len(ledger) = at - 1
            /\ \A i \in 1..(at - 1) : ledger[i] = Records[i].entry /\ Records[i].issues = {}
        BY <3>1 DEF RecordsInv, Recorded
      <3> DEFINE n == at - 1
      <3>6. n \in Nat /\ at = n + 1 /\ at' - 1 = n + 1
        BY <3>1, <3>3
      <3>7. /\ Len(ledger') = n + 1 /\ ledger'[n + 1] = Records[at].entry
            /\ \A i \in 1..n : ledger'[i] = ledger[i]
        BY <3>1, <3>5, AppendFacts DEF LedgerInv
      <3>8. Records[at].issues = {}
        BY <3>1 DEF append_accepts
      <3> HIDE DEF n
      <3>9. \A i \in 1..(n + 1) : ledger'[i] = Records[i].entry /\ Records[i].issues = {}
        BY <3>5, <3>6, <3>7, <3>8 DEF n
      <3>10. Recorded(at - 1)'
        BY <3>1, <3>2, <3>4, <3>6, <3>7, <3>9 DEF Recorded
      <3> QED
        BY <3>1, <3>2, <3>10 DEF RecordsInv, Returned
    <2>6. CASE Compiled
      <3>1. /\ stage = "ledger" /\ stage' = "compiled" /\ at > Len(Records)
            /\ payload' = payload /\ work' = work /\ ledger' = ledger
        BY <2>6 DEF Compiled, Passes
      <3>2. Records' = Records /\ PackageIssues' = PackageIssues
        BY <3>1, RecordsKept
      <3>3. at \in Nat \ {0} /\ payload \in Payloads \cup Studies /\ IsSequence(work.propositions)
        BY <3>1 DEF EvidenceInv, AtRest
      <3>4. Len(Records) \in Nat
        BY <3>3, EveryPayload, RecordsFacts
      <3>5. Recorded(at - 1)
        BY <3>1 DEF RecordsInv
      <3>6. at - 1 = Len(Records)
        BY <3>1, <3>3, <3>4, <3>5 DEF Recorded
      <3>7. Recorded(Len(Records))'
        BY <3>1, <3>2, <3>5, <3>6 DEF Recorded
      <3> QED
        BY <3>1, <3>2, <3>7 DEF RecordsInv, Returned
    <2>7. CASE WritePackage \/ WriteReport \/ WriteLedger
      <3>1. /\ stage \in Returned \cup {"print"} /\ stage' \in Returned \cup {"print"}
            /\ stage # "study" /\ stage # "ledger" /\ stage' # "ledger" /\ stage' # "study"
            /\ payload' = payload /\ work' = work /\ ledger' = ledger
        BY <2>7 DEF WritePackage, WriteReport, WriteLedger, Writes, Returned
      <3>2. Records' = Records /\ PackageIssues' = PackageIssues
        BY <3>1, RecordsKept
      <3>3. Recorded(Len(Records))'
        BY <3>1, <3>2 DEF RecordsInv, Recorded
      <3> QED
        BY <3>1, <3>2, <3>3 DEF RecordsInv, Returned
    <2> QED
      BY <1>2, <2>1, <2>2, <2>3, <2>4, <2>5, <2>6, <2>7 DEF Command
  <1>3. CASE Start \/ StartStudy
    <2>1. stage \in AtRest /\ stage' = "contract" /\ ledger' = ledger
      BY <1>3 DEF Start, StartStudy, StartWith, AtRest
    <2> QED
      BY <2>1 DEF RecordsInv, AtRest, Returned
  <1>4. CASE Study
    <2>1. stage' = "study"
      BY <1>4 DEF Study, KeepResult, ReviseContract, CarryOver, RecordVersion, BuildInv
    <2> QED
      BY <2>1 DEF RecordsInv
  <1>5. CASE UNCHANGED session_vars
    <2>1. UNCHANGED <<payload, work, ledger, stage, at>>
      BY <1>5 DEF session_vars, vars
    <2> QED
      BY <2>1, RecordsKept DEF RecordsInv, Recorded
  <1> QED
    BY <1>2, <1>3, <1>4, <1>5 DEF SessionNext, CommandStep, Next

AnalysisInv == BuildInv /\ LedgerInv /\ EvidenceInv /\ RecordsInv

LEMMA AnalysisInvariant == SessionSpec => []AnalysisInv
  <1>1. SessionInit => AnalysisInv
    <2> SUFFICES ASSUME SessionInit PROVE AnalysisInv
      OBVIOUS
    <2>1. BuildInv
      BY DEF SessionInit, Init, BuildInv, Stages, AfterContract, AfterGraph
    <2>2. LedgerInv
      BY EmptyLedger DEF SessionInit, Init, LedgerInv
    <2>3. EvidenceInv
      BY EmptyIsSequence DEF SessionInit, Init, EvidenceInv, AtRest, AfterScene, Returned, Unbuilt
    <2>4. RecordsInv
      BY DEF SessionInit, Init, RecordsInv, Returned
    <2> QED
      BY <2>1, <2>2, <2>3, <2>4 DEF AnalysisInv
  <1>2. AnalysisInv /\ [SessionNext]_session_vars => AnalysisInv'
    BY BuildStep, LedgerStep, EvidenceStep, RecordsStep DEF AnalysisInv
  <1> QED
    BY <1>1, <1>2, PTL DEF SessionSpec

\* What a compilation that returned has been through.
LEMMA ReturnedIsClean ==
    ASSUME AnalysisInv, stage \in Returned
    PROVE  /\ work.issues = {} /\ PackageIssues = {}
           /\ Recorded(Len(Records)) /\ IsPayload(payload)
           /\ IsSequence(work.propositions) /\ SceneOf(work)
           /\ \A i \in 1..Len(work.propositions) : Cut(work.propositions[i])
  <1>1. /\ payload \in Payloads \cup Studies /\ IsSequence(work.propositions) /\ SceneOf(work)
        /\ \A i \in 1..Len(work.propositions) : Cut(work.propositions[i])
    BY DEF AnalysisInv, EvidenceInv, AtRest, AfterScene, Returned
  <1>2. work.issues = PackageIssues /\ Recorded(Len(Records))
    BY DEF AnalysisInv, RecordsInv, Returned
  <1>3. Len(Records) \in Nat \ {0} /\ Records[Len(Records)].issues = work.issues
    BY <1>1, EveryPayload, RecordsFacts
  <1>4. Len(Records) \in 1..Len(Records)
    BY <1>3
  <1>5. work.issues = {}
    BY <1>2, <1>3, <1>4 DEF Recorded
  <1> QED
    BY <1>1, <1>2, <1>5, EveryPayload

LEMMA ValidWhenReturned == AnalysisInv => CompiledIsValid
  <1> SUFFICES ASSUME AnalysisInv, stage \in Returned
               PROVE  /\ PackageIssues = {} /\ work.issues = {}
                      /\ ledger = [i \in 1..Len(Records) |-> Records[i].entry]
    BY DEF CompiledIsValid
  <1>1. PackageIssues = {} /\ work.issues = {} /\ Recorded(Len(Records))
    BY ReturnedIsClean
  <1>2. ledger = [i \in 1..Len(ledger) |-> ledger[i]]
    BY DEF AnalysisInv, LedgerInv, IsSequence
  <1>3. [i \in 1..Len(ledger) |-> ledger[i]] = [i \in 1..Len(Records) |-> Records[i].entry]
    BY <1>1 DEF Recorded
  <1> QED
    BY <1>1, <1>2, <1>3

(* A compilation that returns has no validation issue, its graph is        *)
(* acyclic and its ledger holds every record of the package in order,      *)
(* although validate_package only reports (compile_analysis,               *)
(* AnalysisLedger.append).                                                 *)
THEOREM CompilationCorrect == SessionSpec => []CompiledIsValid
  BY AnalysisInvariant, ValidWhenReturned, PTL

\* A fact in the scene was stated as one, by the classifier and by its wording.
LEMMA AdmissibleFacts ==
    ASSUME NEW atoms, \A a \in atoms : Cut(a), NEW s \in Admissible(atoms)
    PROVE  \E a \in atoms :
               /\ a.id = s.id
               /\ Reading[a.passage].kind \in FactTypes
               /\ Reading[a.passage].cue = NoCue
               /\ a.truth \/ a \in ClaimedOnly(atoms)
  <1>1. PICK a \in atoms : s = [a EXCEPT !.kind = SafeType(a), !.truth = a.truth \/ a \in ClaimedOnly(atoms)]
    BY DEF Admissible, Settlement
  <1>2. PICK source, i : /\ a = create_proposition(source, i)
                         /\ Reading[source.passages[i]].cue \in CueTypes \cup {NoCue}
    BY DEF Cut
  <1>3. /\ DOMAIN a = {"id", "source", "passage", "kind", "speaker", "relevance", "truth"}
        /\ a.passage = source.passages[i]
        /\ a.kind \in {"attributed_statement", Reading[a.passage].kind}
    BY <1>2 DEF create_proposition
  <1>4. /\ s.id = a.id /\ s.kind = SafeType(a)
        /\ s.truth = (a.truth \/ a \in ClaimedOnly(atoms))
    BY <1>1, <1>3
  <1>5. SafeType(a) \in FactTypes /\ (a.truth \/ a \in ClaimedOnly(atoms))
    BY <1>4 DEF Admissible, event_fact_admissibility
  <1>6. a.kind \in FactTypes /\ Reading[a.passage].cue = NoCue
    BY <1>2, <1>3, <1>5 DEF SafeType, CueTypes, FactTypes
  <1> QED
    BY <1>3, <1>4, <1>5, <1>6 DEF FactTypes

LEMMA ScenesAreHonest == AnalysisInv => NothingIsLaundered
  <1> SUFFICES ASSUME AnalysisInv, stage \in Returned, work.scene # NoScene,
                      NEW event \in work.scene.events
               PROVE  \E a \in AtomsOf(work.propositions) :
                          /\ a.id = event.support
                          /\ a.source \notin LeakingSources
                          /\ a.relevance # {}
                          /\ Reading[a.passage].kind \in FactTypes
                          /\ Reading[a.passage].cue = NoCue
                          /\ event.status = "confirmed" => a.truth
    BY DEF NothingIsLaundered
  <1> DEFINE atoms == AtomsOf(work.propositions)
  <1>1. /\ PackageIssues = {} /\ IsSequence(work.propositions) /\ SceneOf(work)
        /\ \A i \in 1..Len(work.propositions) : Cut(work.propositions[i])
    BY ReturnedIsClean
  <1>2. \A a \in atoms : Cut(a)
    BY <1>1, DomainOfSequence DEF AtomsOf
  <1>3. work.scene = reconstruct_event_scene(atoms, work.fields)
    BY <1>1 DEF SceneOf
  <1> DEFINE contested == Contested(atoms, work.fields)
  <1>4. PICK s \in Admissible(atoms) : event = Event(s, atoms, contested)
    BY <1>3 DEF reconstruct_event_scene
  <1>5. PICK a \in atoms : /\ a.id = s.id
                           /\ Reading[a.passage].kind \in FactTypes
                           /\ Reading[a.passage].cue = NoCue
                           /\ a.truth \/ a \in ClaimedOnly(atoms)
    BY <1>2, AdmissibleFacts
  <1>6. event.support = s.id
    BY <1>4 DEF Event
  <1>7. event.status = "confirmed" => a.truth
    <2>1. ASSUME ~a.truth PROVE event.status # "confirmed"
      <3>1. s.id \in {b.id : b \in ClaimedOnly(atoms)}
        BY <1>5, <2>1
      <3> QED
        BY <1>4, <3>1 DEF Event
    <2> QED
      BY <2>1
  <1>8. a.source \notin LeakingSources
    BY <1>1 DEF PackageIssues
  <1>9. a.relevance # {}
    <2>1. PropositionIssues(a) = {}
      BY <1>1 DEF PackageIssues
    <2> QED
      BY <2>1 DEF PropositionIssues
  <1> QED
    BY <1>5, <1>6, <1>7, <1>8, <1>9

(* An event stands only on a proposition of a source that was not excluded *)
(* and whose own wording states a fact, and it is confirmed only if its    *)
(* truth was established when it was read, for any payload                 *)
(* (reconstruct_event_scene).                                              *)
THEOREM SceneCorrect == SessionSpec => []NothingIsLaundered
  BY AnalysisInvariant, ScenesAreHonest, PTL

LEMMA DisputesAreSeen == AnalysisInv => DisputesAreKept
  <1> DEFINE atoms     == AtomsOf(work.propositions)
             fields    == work.fields
             contested == Contested(atoms, fields)
  <1> SUFFICES ASSUME AnalysisInv, stage \in Returned, work.scene # NoScene,
                      NEW e \in work.scene.events, NEW f \in work.scene.events,
                      {e.support, f.support} \subseteq DOMAIN fields,
                      fields[e.support].key = fields[f.support].key,
                      fields[e.support].field = fields[f.support].field,
                      fields[e.support].value # fields[f.support].value
               PROVE  /\ e.status = "contested" /\ f.support \in e.counter
                      /\ <<fields[e.support].key, fields[e.support].field>> \in work.scene.disputes
    BY DEF DisputesAreKept
  <1>1. work.scene = reconstruct_event_scene(atoms, fields)
    BY ReturnedIsClean DEF SceneOf
  <1>2. PICK a \in Admissible(atoms) : e = Event(a, atoms, contested)
    BY <1>1 DEF reconstruct_event_scene
  <1>3. PICK c \in Admissible(atoms) : f = Event(c, atoms, contested)
    BY <1>1 DEF reconstruct_event_scene
  <1>4. e.support = a.id /\ f.support = c.id /\ a.id # c.id
    BY <1>2, <1>3 DEF Event
  <1>5. Slot(a, fields) = Slot(c, fields)
    BY <1>4 DEF Slot
  <1>6. a.id \in contested /\ c.id \in contested
    BY <1>4, <1>5 DEF Contested
  <1>7. e.status = "contested" /\ e.counter = contested \ {a.id}
    BY <1>2, <1>6 DEF Event
  <1>8. Slot(a, fields) \in work.scene.disputes
    BY <1>1, <1>6 DEF reconstruct_event_scene
  <1> QED
    BY <1>4, <1>6, <1>7, <1>8 DEF Slot

(* Two events that give one field different values are both contested,     *)
(* each names the other, and the scene records the dispute, whatever the   *)
(* order of the sources (reconstruct_event_scene).                         *)
THEOREM DisputesCorrect == SessionSpec => []DisputesAreKept
  BY AnalysisInvariant, DisputesAreSeen, PTL
=============================================================================
