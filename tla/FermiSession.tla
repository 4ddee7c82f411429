---------------------------- MODULE FermiSession ----------------------------
(***************************************************************************)
(* The runtime driving the Fermi kernel: what a session promises about its *)
(* tree, its evaluation and its certificate when actions are rolled back.  *)
(***************************************************************************)
EXTENDS AgentRuntime, FermiKernel

\* An evaluation or frontier test held in the state is the one the present
\* question, tree, atoms and dependence give: nothing stale survives an action
\* or a rollback (fermi_kernel.execute resets both).
EvaluationIsFresh ==
    /\ state.evaluation # None =>
          LET tree == rebuild_tree(state.actions) IN
          Evaluable(state, tree) /\ state.evaluation = evaluation_of(state, tree)
    /\ state.frontierTest # None =>
          /\ state.evaluation # None
          /\ state.frontierTest.status = "insufficient"
                <=> state.evaluation.sufficiency # "passes"

\* The exported tree is the one the recorded tree actions rebuild.
TreeIsRebuilt ==
    IF state.question = None THEN state.tree = None /\ state.actions = <<>>
    ELSE state.tree = rebuild_tree(state.actions) /\ state.depth = Depth(state.tree)

\* A certified session has a tree whose active leaves are all atomic with a
\* known marginal, a declared dependence when two of them are uncertain, a
\* target as narrow as the question asks, and no leaf whose exact measurement
\* would narrow it by more than the last test called useful.
CertifiedIsAnswerable ==
    status = "certified" =>
        LET marginals == marginals_of(state, ActiveLeaves(state.tree))
            gained(n) == TotalWidth(marginals) - TotalWidth(measured_exactly(marginals, n))
        IN  /\ \A n \in DOMAIN marginals :
                  /\ state.tree.nodes[n].status = "atomic_leaf"
                  /\ marginals[n] \in {"constant", "tight", "wide"}
                  /\ gained(n) <= state.frontierTest.useful
            /\ Cardinality(Uncertain(marginals)) > 1 => state.joint \notin {None, "unknown"}
            /\ TotalWidth(marginals) <= state.question

\* The current branch endorses at most one expansion of a node and no
\* redundant one, so the active expression is well defined; and every active
\* leaf that is not yet atomic is offered on the frontier.
CurrentBranchIsATree ==
    state.question # None =>
        LET tree == state.tree IN
        /\ \A e, f \in Endorsed(tree) :
              tree.expansions[e].target = tree.expansions[f].target => e = f
        /\ \A e \in Endorsed(tree) : ~tree.expansions[e].redundant
        /\ \A n \in ActiveLeaves(tree) :
              tree.nodes[n].status = "atomic_leaf" \/ n \in frontier(tree)

\* Without a rollback no sequence of expansions and alternatives grows the tree
\* beyond the depth budget.  A rollback may, because it renumbers the nodes of
\* the expansions it leaves, but then it ends the session.
DepthWithinCap ==
    state.depth > 0 /\ Beyond(state.depth, MaxDepth) =>
        /\ \E i \in DOMAIN log : IsAccepted(log, i) /\ log[i].kind = "rollback"
        /\ status = "active" => "stamp" \in Faults

-----------------------------------------------------------------------------
(* What the code's own documents say, and the code does not do *)

\* spec.md, "Rejected and rolled-back actions preserve history": only the state
\* effects of the rolled-back action are excluded, so a live atom stays on the
\* node it was accepted for.
AtomsKeepTheirNode ==
    \A i \in DOMAIN Effects(log) : log[i].op.name = "propose_atom" =>
        LET n == log[i].op.claim.node
            then == Project(Effects(SubSeq(log, 1, i))).tree.nodes[n]
            now  == state.tree.nodes[n]
        IN  now.label = then.label
=============================================================================
