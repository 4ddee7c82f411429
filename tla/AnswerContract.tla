--------------------------- MODULE AnswerContract ---------------------------
(***************************************************************************)
(* The answer contract and its condition graph (decomposition.py): what a  *)
(* question means, which conditions must be known to answer it, and when   *)
(* a revision of the question takes that knowledge away.                   *)
(*                                                                         *)
(* A contract carries its meaning (target, cutoff, geography, decision     *)
(* use) and its wording as model values.                                   *)
(***************************************************************************)
EXTENDS AnalysisLedger, FiniteSets

CONSTANT Blank      \* a required text that is empty once stripped

Statuses == {"observed", "derived", "estimated", "missing", "not_applicable",
             "contradicted", "invalidated"}
Resolved == {"observed", "estimated"}

----------------------------------------------------------------------------
(* Contracts.                                                              *)

Increasing(s) == \A i \in 1..Len(s) : \A j \in 1..Len(s) : i < j => s[i] < s[j]

ContractErrors(t) ==
    {e \in {"required", "horizon", "semantics", "coverage", "thresholds", "width"} :
        \/ e = "required"   /\ Blank \in {t.meaning, t.wording}
        \/ e = "horizon"    /\ t.future /\ ~t.horizon
        \/ e = "semantics"  /\ t.future /\ t.semantics # "explicit"
        \/ e = "coverage"   /\ t.coverage = "outside"
        \/ e = "thresholds" /\ ~Increasing(t.thresholds)
        \/ e = "width"      /\ t.width = "empty"}

\* The fields a descendant depends on: every one but the wording and lineage.
Material(t) == <<t.future, t.horizon, t.semantics, t.coverage, t.thresholds, t.width, t.meaning>>

contract_changed(old, new) == Material(old.terms) # Material(new.terms)

create_contract(terms, id) == [terms |-> terms, revision |-> first_revision(id)]

revised_contract(c, terms, id) == [terms |-> terms, revision |-> next_revision(id, c.revision)]

----------------------------------------------------------------------------
(* The condition graph.                                                    *)

Ids(conditions) == {conditions[i].id : i \in DOMAIN conditions}

\* The sets as declared, or the required conditions when none is.
SufficientSets(conditions, declared) ==
    LET required == {conditions[i].id : i \in {j \in DOMAIN conditions : conditions[j].required}}
    IN  IF declared # {} THEN declared ELSE {required} \ {{}}

\* What build_condition_graph refuses.
GraphErrors(conditions, edges, declared) ==
    {e \in {"none", "duplicate", "impact", "edge", "set"} :
        \/ e = "none"      /\ conditions = <<>>
        \/ e = "duplicate" /\ Cardinality(Ids(conditions)) # Len(conditions)
        \/ e = "impact"    /\ \E i \in DOMAIN conditions : ~conditions[i].impact
        \/ e = "edge"      /\ ~ edges \subseteq Ids(conditions) \X Ids(conditions)
        \/ e = "set"       /\ \E group \in declared : group = {} \/ ~ group \subseteq Ids(conditions)}

build_graph(contract, conditions, edges, declared, id) ==
    [contract   |-> contract.revision.id,
     status     |-> [c \in Ids(conditions) |->
                        conditions[CHOOSE i \in DOMAIN conditions : conditions[i].id = c].status],
     edges      |-> edges,
     sufficient |-> SufficientSets(conditions, declared),
     revision   |-> first_revision(id)]

\* A cycle: a set of nodes each of which leads to another of the set.
Cyclic(graph) ==
    \E loop \in (SUBSET DOMAIN graph.status) \ {{}} :
        \A n \in loop : \E m \in loop : <<n, m>> \in graph.edges

minimal_sufficient_sets(graph) ==
    {group \in graph.sufficient : \A other \in graph.sufficient : ~(other \subseteq group /\ other # group)}

evaluate_answerability(contract, graph) ==
    LET sets     == minimal_sufficient_sets(graph)
        known    == {c \in DOMAIN graph.status : graph.status[c] \in Resolved}
        blocking == (UNION sets) \ known
    IN  IF ContractErrors(contract.terms) # {} \/ graph.contract # contract.revision.id THEN "invalid_contract"
        ELSE IF \E group \in sets : group \subseteq known THEN "answerable_bounded"
        ELSE IF sets = {} \/ (\E c \in blocking : graph.status[c] = "contradicted") THEN "not_answerable"
        ELSE "insufficient_evidence"

\* Fault: the graph follows the contract and its conditions keep their status.
rebind_without_reset(graph, old, new, id) ==
    IF ~contract_changed(old, new) THEN graph
    ELSE [graph EXCEPT !.contract = new.revision.id, !.revision = next_revision(id, graph.revision)]

invalidate_graph_for_contract_change(graph, old, new, id) ==
    IF ~contract_changed(old, new) THEN graph
    ELSE [graph EXCEPT !.contract = new.revision.id,
                       !.status   = [c \in DOMAIN graph.status |-> "invalidated"],
                       !.revision = next_revision(id, graph.revision)]
=============================================================================
