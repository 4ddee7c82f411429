------------------------- MODULE DecompositionTree -------------------------
(***************************************************************************)
(* The immutable decomposition tree: nodes, expansions, branches, gaps and *)
(* the operations that grow it.  Nodes, expansions and branches are        *)
(* numbered in creation order, as their ids are in the code (n_0001 ...),  *)
(* and an expansion stands for its relationship too.  A relation is what   *)
(* an ExpansionRequest proposes:                                           *)
(*   [unit, yields, form, children], the declared parent unit, the unit    *)
(* the expression produces from the child units, its commutative-canonical *)
(* form and the child specifications [label, unit].                        *)
(* A claim is [node, unit, sound], sound when validate_atomic_claim        *)
(* returns no errors.  Operations that raise return Failed.                *)
(***************************************************************************)
EXTENDS Integers, Sequences, SequencesExt, FiniteSets

CONSTANTS Failed,          \* the outcome of an operation that raises
          RootLabel, RootUnit

Root == 1

create_decomposition ==
    [nodes      |-> <<[parent |-> 0, label |-> RootLabel, unit |-> RootUnit, status |-> "open"]>>,
     expansions |-> <<>>,
     branches   |-> << <<>> >>,
     gaps       |-> <<>>,
     question   |-> "open"]

Nodes      == [parent : Nat, label : STRING, unit : STRING,
               status : {"open", "expanded", "atomic_leaf", "unresolved", "rejected", "pruned"}]
Expansions == [target : Nat, unit : STRING, form : STRING, children : Seq(Nat),
               alternativeOf : Nat, redundant : BOOLEAN]
GapKinds   == {"unit_mismatch", "redundant_alternative", "atom_rejected"}
Gaps       == [kind : GapKinds, target : Nat, blocking : BOOLEAN]
Trees      == [nodes : Seq(Nodes), expansions : Seq(Expansions), branches : Seq(Seq(Nat)),
               gaps : Seq(Gaps), question : {"open", "atomic_leaf"}]

-----------------------------------------------------------------------------
(* Reading a tree *)

NodesOf(tree) == DOMAIN tree.nodes

expansions_at(tree, n) ==
    {e \in DOMAIN tree.expansions : tree.expansions[e].target = n}

\* current_branch_id is the default branch and nothing changes it.
current_branch(tree) == tree.branches[1]
Endorsed(tree) == Range(current_branch(tree))

reachable_node_ids(tree) ==
    {Root} \cup UNION {{tree.expansions[e].target} \cup Range(tree.expansions[e].children)
                         : e \in Endorsed(tree)}

SettledStatuses == {"atomic_leaf", "unresolved", "rejected", "pruned"}

frontier(tree) ==
    {n \in reachable_node_ids(tree) :
        /\ tree.nodes[n].status \notin SettledStatuses
        /\ ~ /\ tree.nodes[n].status = "expanded"
             /\ expansions_at(tree, n) \cap Endorsed(tree) # {}}

\* How far each node is from the root; the root's parent is no node.
Depths(tree) ==
    LET depth[n \in 0..Len(tree.nodes)] ==
            IF n = 0 THEN -1 ELSE 1 + depth[tree.nodes[n].parent]
    IN  depth

Depth(tree) ==
    LET depth == Depths(tree)
    IN  CHOOSE d \in {depth[n] : n \in NodesOf(tree)} : \A n \in NodesOf(tree) : depth[n] <= d

-----------------------------------------------------------------------------
(* Growing a tree *)

register_gap(tree, kind, target, blocking) ==
    [tree EXCEPT !.gaps = Append(@, [kind |-> kind, target |-> target, blocking |-> blocking])]

materialise_children(tree, parent, specs) ==
    [tree EXCEPT !.nodes = @ \o [i \in DOMAIN specs |->
        [parent |-> parent, label |-> specs[i].label, unit |-> specs[i].unit,
         status |-> "open"]]]

\* Fault: an alternative extends the current branch too.
attach_to_current_branch(tree, e, isAlternative) ==
    [tree EXCEPT !.branches[1] = Append(@, e)]

\* An alternative forks a branch off the current one; any other expansion
\* extends the current branch.
attach_to_branch(tree, e, isAlternative) ==
    IF isAlternative
    THEN [tree EXCEPT !.branches = Append(@, Append(current_branch(tree), e))]
    ELSE [tree EXCEPT !.branches[1] = Append(@, e)]

ensure_expandable(tree, n) ==
    n \in NodesOf(tree) /\ tree.nodes[n].status \notin {"atomic_leaf", "pruned"}

\* _expand: alternativeOf is 0 for a first expansion.
expand(tree, n, relation, alternativeOf, redundant) ==
    LET e == Len(tree.expansions) + 1
        expansion ==
            [target |-> n, unit |-> relation.unit, form |-> relation.form,
             children |-> [i \in DOMAIN relation.children |-> Len(tree.nodes) + i],
             alternativeOf |-> alternativeOf, redundant |-> redundant]
        grown == attach_to_branch(materialise_children(tree, n, relation.children),
                                  e, alternativeOf # 0)
    IN  IF ~ensure_expandable(tree, n) THEN Failed
        ELSE IF relation.unit # relation.yields
        THEN register_gap(tree, "unit_mismatch", n, TRUE)
        ELSE [grown EXCEPT !.expansions = Append(@, expansion),
                           !.nodes[n].status = "expanded"]

\* _redundancy_vs: the same child units and an equivalent expression.
redundancy_vs(tree, relation, e) ==
    LET other == tree.expansions[e]
        UnitBag(units) == [u \in Range(units) |-> Cardinality({i \in DOMAIN units : units[i] = u})]
    IN  /\ UnitBag([i \in DOMAIN relation.children |-> relation.children[i].unit])
             = UnitBag([i \in DOMAIN other.children |-> tree.nodes[other.children[i]].unit])
        /\ relation.form = other.form

\* _propose_alternative_inner: every sibling expansion is compared.
propose_alternative_inner(tree, n, relation, e) ==
    LET redundant == \E other \in expansions_at(tree, n) : redundancy_vs(tree, relation, other)
        grown == expand(tree, n, relation, e, redundant)
    IN  IF grown = Failed \/ ~redundant THEN grown
        ELSE register_gap(grown, "redundant_alternative", n, FALSE)

FirstOf(S) == CHOOSE e \in S : \A other \in S : e <= other

expand_state(tree, n, relation) ==
    LET rivals == expansions_at(tree, n) \cap Endorsed(tree)
    IN  IF rivals # {} THEN propose_alternative_inner(tree, n, relation, FirstOf(rivals))
        ELSE expand(tree, n, relation, 0, FALSE)

pick_dominant_expansion(tree, candidates) ==
    IF candidates \cap Endorsed(tree) # {}
    THEN FirstOf(candidates \cap Endorsed(tree)) ELSE FirstOf(candidates)

propose_alternative(tree, n, relation) ==
    IF expansions_at(tree, n) = {} THEN Failed
    ELSE propose_alternative_inner(tree, n, relation,
             pick_dominant_expansion(tree, expansions_at(tree, n)))

\* Read before the promotion: the node being promoted still counts.
question_can_be_marked_atomic(tree) ==
    /\ tree.question = "open"
    /\ \A n \in reachable_node_ids(tree) : tree.nodes[n].status \in SettledStatuses

propose_atom(tree, claim) ==
    IF claim.node \notin NodesOf(tree) THEN Failed
    ELSE IF ~claim.sound THEN register_gap(tree, "atom_rejected", claim.node, TRUE)
    ELSE IF claim.unit # tree.nodes[claim.node].unit
    THEN register_gap(tree, "unit_mismatch", claim.node, TRUE)
    ELSE [tree EXCEPT !.nodes[claim.node].status = "atomic_leaf",
                      !.question = IF question_can_be_marked_atomic(tree)
                                   THEN "atomic_leaf" ELSE @]

-----------------------------------------------------------------------------
(* The expression of the current branch *)

\* What render() makes of a node: itself, or what it makes of the children of an
\* endorsed, non-redundant expansion; a later expansion of a node replaces an
\* earlier one.
ActiveAt(tree, n) ==
    {e \in expansions_at(tree, n) \cap Endorsed(tree) : ~tree.expansions[e].redundant}

RenderedChildren(tree, n) ==
    LET chosen == CHOOSE e \in ActiveAt(tree, n) : \A other \in ActiveAt(tree, n) : other <= e
    IN  Range(tree.expansions[chosen].children)

Rendered(tree) ==
    LET leaves[n \in NodesOf(tree)] ==
            IF ActiveAt(tree, n) = {} THEN {n}
            ELSE UNION {leaves[c] : c \in RenderedChildren(tree, n)}
    IN  leaves

\* The leaves of the expression of the current branch.
ActiveLeaves(tree) == Rendered(tree)[Root]
=============================================================================
