---------------------------- MODULE FermiKernel ----------------------------
(***************************************************************************)
(* The deterministic kernel of the recursive Fermi loop.  Its state keeps  *)
(* the accepted tree actions and rebuilds the whole tree from them on each *)
(* new one; every execute() drops the previous evaluation and frontier     *)
(* test.  A request is a record with its action name and                   *)
(*   expand, propose_alternative : node, relation                          *)
(*   propose_atom                : claim, marginal                         *)
(*   set_dependence              : dependence                              *)
(*   define_question             : acceptable, the acceptable width        *)
(*   test_frontier               : material, useful, its two thresholds    *)
(* and complete, TRUE when no required field is missing.                   *)
(*                                                                         *)
(* Sampling is abstracted to widths that add up: a constant marginal has   *)
(* none, a tight one a unit, a wide one three; unknown and malformed ones  *)
(* have no interval.  The target interval is as wide as its leaves are     *)
(* together, and measuring a leaf exactly takes its width away.            *)
(***************************************************************************)
EXTENDS DecompositionTree, FrontierGates, FiniteSetsExt

CONSTANT FermiOps         \* the requests clients make

tree_action_names == {"expand", "propose_alternative", "propose_atom"}
action_names == tree_action_names \cup
    {"define_question", "set_dependence", "evaluate", "test_frontier"}

fermi_initial_state ==
    [question |-> None, actions |-> <<>>, tree |-> None, joint |-> None,
     evaluation |-> None, frontierTest |-> None, depth |-> 0]

\* next is the leaf whose exact measurement is ranked highest.
Evaluations == [leaves : SUBSET Nat, summary : Summaries,
                sufficiency : {"passes", "fails", "not_assessable"}, next : Nat \cup {None}]

FrontierTests == [status : {"certified", "structurally_complete", "insufficient"},
                  material : Int, useful : Int]

Marginals == {"constant", "tight", "wide", "unknown", "malformed"}
Relations == [unit : STRING, yields : STRING, form : STRING,
              children : Seq([label : STRING, unit : STRING])]

ASSUME FermiAssumption ==
    /\ None \notin Evaluations
    /\ RootLabel \in STRING /\ RootUnit \in STRING
    /\ \A op \in FermiOps :
          /\ op.name \in {"expand", "propose_alternative"} =>
                op.node \in Nat /\ op.relation \in Relations
          /\ op.name = "propose_atom" => op.claim.node \in Nat /\ op.marginal \in Marginals
          /\ op.name = "define_question" => op.acceptable \in Nat
          /\ op.name = "test_frontier" => op.material \in Int /\ op.useful \in Int

FermiStates ==
    [question : Nat \cup {None}, actions : Seq(FermiOps), tree : Trees \cup {None},
     joint : STRING \cup {None}, evaluation : Evaluations \cup {None},
     frontierTest : FrontierTests \cup {None}, depth : Nat]

-----------------------------------------------------------------------------
(* _rebuild_tree: the recorded actions applied in order to a fresh tree, and *)
(* the claim each promoted node was last given.  A record the tree turns     *)
(* down, seen by its missing expansion or by a node that is no atomic leaf,  *)
(* raises.                                                                   *)

judged(tree, op, grown) ==
    IF grown = Failed THEN Failed
    ELSE IF op.name = "propose_atom"
    THEN IF grown.nodes[op.claim.node].status = "atomic_leaf" THEN grown ELSE Failed
    ELSE IF Len(grown.expansions) = Len(tree.expansions) THEN Failed ELSE grown

settle(tree, op) ==
    judged(tree, op, CASE op.name = "expand" -> expand_state(tree, op.node, op.relation)
                       [] op.name = "propose_alternative" ->
                              propose_alternative(tree, op.node, op.relation)
                       [] op.name = "propose_atom" -> propose_atom(tree, op.claim))

TreesAfter(actions) ==
    LET upto[i \in Nat] ==
            IF i = 0 THEN create_decomposition
            ELSE LET before == upto[i - 1]
                 IN  IF before = Failed THEN Failed ELSE settle(before, actions[i])
    IN  upto

rebuild_tree(actions) == TreesAfter(actions)[Len(actions)]

\* atoms[n]: the last propose_atom on n.
AtomActions(actions, n) ==
    {i \in DOMAIN actions : actions[i].name = "propose_atom" /\ actions[i].claim.node = n}
atom_of(actions, n) ==
    actions[CHOOSE i \in AtomActions(actions, n) : \A j \in AtomActions(actions, n) : j <= i]

-----------------------------------------------------------------------------
(* _build_evaluation_context, _evaluate and _frontier_test *)

\* Both rebuild the tree from the recorded actions; leaves are those of its
\* active expression.
HasContext(s, tree, leaves) ==
    /\ s.question # None
    /\ \A n \in leaves :
          /\ tree.nodes[n].status = "atomic_leaf"
          /\ AtomActions(s.actions, n) # {}
          /\ atom_of(s.actions, n).marginal # "malformed"

Evaluable(s, tree) == HasContext(s, tree, ActiveLeaves(tree))

marginals_of(s, leaves) == [n \in leaves |-> atom_of(s.actions, n).marginal]

\* The leaves whose marginal is not a constant.
Uncertain(marginals) == {n \in DOMAIN marginals : marginals[n] # "constant"}

TotalWidth(marginals) ==
    LET LeavesAs(m) == {n \in DOMAIN marginals : marginals[n] = m}
    IN  Cardinality(LeavesAs("tight")) + 3 * Cardinality(LeavesAs("wide"))

\* joint_sample: an unknown marginal or, with two uncertain leaves, an
\* undeclared dependence leaves no interval; the default negative correlation
\* is no correlation of three.
joint_sample(marginals, joint) ==
    IF \E n \in DOMAIN marginals : marginals[n] = "unknown"
    THEN Unpropagated("unknown_marginal")
    ELSE IF joint = "negative" /\ Cardinality(Uncertain(marginals)) > 2 THEN Failed
    ELSE IF joint \in {None, "unknown"} /\ Cardinality(Uncertain(marginals)) > 1
    THEN Unpropagated("dependency_gap")
    ELSE [valid |-> TRUE, low |-> 0, high |-> TotalWidth(marginals), calibration |-> "unmeasured"]

measured_exactly(marginals, leaf) == [marginals EXCEPT ![leaf] = "constant"]

\* reducible_uncertainty and rank_width_reduction: the first of the leaves
\* whose exact measurement narrows a valid interval most.
rank_width_reduction(marginals, joint) ==
    LET left(n) == TotalWidth(measured_exactly(marginals, n))
        best    == {n \in Uncertain(marginals) :
                        \A other \in Uncertain(marginals) : left(n) <= left(other)}
    IN  IF best = {} \/ ~joint_sample(marginals, joint).valid THEN None ELSE Min(best)

tolerance_of(s) ==
    [width |-> s.question, relative |-> None, reference |-> None, thresholds |-> {},
     calibrated |-> FALSE]

evaluation_on(s, marginals) ==
    LET summary == joint_sample(marginals, s.joint)
    IN  IF summary = Failed THEN Failed
        ELSE [leaves      |-> DOMAIN marginals,
              summary     |-> summary,
              sufficiency |-> evaluate_sufficiency(summary, tolerance_of(s)),
              next        |-> rank_width_reduction(marginals, s.joint)]

evaluation_of(s, tree) == evaluation_on(s, marginals_of(s, ActiveLeaves(tree)))

\* The kernel's delete callback leaves the other leaves.
deletion_of(marginals, joint, leaf) ==
    LET rest == DOMAIN marginals \ {leaf}
    IN  execute_deletion(DOMAIN marginals, [kind |-> "returned", leaves |-> rest],
                         joint_sample([n \in rest |-> marginals[n]], joint))

\* next_refinement offers the exact measurement of the leaf ranked first, then
\* nothing; two iterations.
refinements(marginals, joint) ==
    LET top    == rank_width_reduction(marginals, joint)
        nothing == [kind |-> "exhausted", low |-> None, high |-> None]
        exact(n) == joint_sample(measured_exactly(marginals, n), joint)
    IN  IF top = None THEN <<nothing, nothing>>
        ELSE << [kind |-> "measured", low |-> exact(top).low, high |-> exact(top).high], nothing >>

frontier_test_of(marginals, joint, result, op) ==
    IF ~result.summary.valid
    THEN [status |-> certify_frontier(result.sufficiency, <<>>, FALSE),
          material |-> op.material, useful |-> op.useful]
    ELSE IF ~IsThreshold(op.material) \/ ~IsThreshold(op.useful) THEN Failed
    ELSE LET necessity == [n \in DOMAIN marginals |->
                             evaluate_necessity(result.summary,
                                 [deletion |-> deletion_of(marginals, joint, n)], op.material)]
             saturated == evaluate_saturation(result.summary, refinements(marginals, joint), op.useful)
         IN  [status |-> certify_frontier(result.sufficiency, necessity, saturated),
              material |-> op.material, useful |-> op.useful]

-----------------------------------------------------------------------------
(* KernelProtocol *)

fermi_validate(op, s) ==
    /\ op.name \in action_names
    /\ op.name = "define_question" => s.question = None
    /\ op.name # "define_question" => s.question # None
    /\ op.complete

\* Fault: an evaluation survives the actions that follow it.
reset_frontier_test(s) == [s EXCEPT !.frontierTest = None]

reset(s) == [s EXCEPT !.evaluation = None, !.frontierTest = None]

recorded(op, s, tree) ==
    IF tree = Failed THEN Failed
    ELSE [reset(s) EXCEPT !.actions = Append(@, op), !.tree = tree, !.depth = Depth(tree)]

\* Fault: a tree action needs no question.
record_tree_action_anyway(op, s) == recorded(op, s, rebuild_tree(Append(s.actions, op)))

record_tree_action(op, s) ==
    IF s.question = None THEN Failed ELSE recorded(op, s, rebuild_tree(Append(s.actions, op)))

evaluate(s, tree) ==
    LET result == IF Evaluable(s, tree) THEN evaluation_of(s, tree) ELSE Failed
    IN  IF result = Failed THEN Failed ELSE [reset(s) EXCEPT !.evaluation = result]

test_frontier(op, s, tree) ==
    LET evaluated == evaluate(s, tree)
        marginals == marginals_of(s, ActiveLeaves(tree))
        tested    == frontier_test_of(marginals, s.joint, evaluated.evaluation, op)
    IN  IF evaluated = Failed \/ tested = Failed THEN Failed
        ELSE [evaluated EXCEPT !.frontierTest = tested]

fermi_execute(op, s) ==
    CASE op.name = "define_question" ->
           [reset(s) EXCEPT !.question = op.acceptable, !.tree = create_decomposition, !.depth = 0]
      [] op.name \in tree_action_names -> record_tree_action(op, s)
      [] op.name = "set_dependence" ->
           IF op.dependence = "invalid" THEN Failed
           ELSE [reset(s) EXCEPT !.joint = op.dependence]
      [] op.name = "evaluate" -> evaluate(s, rebuild_tree(s.actions))
      [] op.name = "test_frontier" -> test_frontier(op, s, rebuild_tree(s.actions))

fermi_depth(s) == s.depth

\* evaluate_frontier: without an executed test there is nothing to certify.
fermi_verdict(s) ==
    IF s.frontierTest # None /\ s.frontierTest.status = "certified" THEN "certified" ELSE "insufficient"

\* action_specs carries no categories: the runtime falls back to names.
fermi_evaluation_ops == {op \in FermiOps : op.name \in {"evaluate", "test_frontier"}}
fermi_depth_ops      == {op \in FermiOps : op.name \in {"expand", "propose_alternative"}}
fermi_expensive_ops  == {op \in FermiOps : op.name = "evaluate"}
=============================================================================
