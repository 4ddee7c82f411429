--------------------------- MODULE JournalKernel ---------------------------
(***************************************************************************)
(* The kernel agent_cli.build_default_kernel returns: an append-only       *)
(* journal of recordings, a depth that counts expansions and a frontier.   *)
(* A request is [name, node, children, complete]; complete says that its   *)
(* payload carries the fields validate() asks for.                         *)
(***************************************************************************)
EXTENDS Integers, Sequences

CONSTANT JournalOps      \* the requests clients make

journal_initial_state == [recordings |-> <<>>, depth |-> 0, frontier |-> {"root"}]

JournalStates ==
    [recordings : Seq(JournalOps), depth : Nat,
     frontier : SUBSET ({"root"} \cup UNION {op.children : op \in JournalOps})]

\* An action name the kernel does not know validates without issues.
journal_validate(op, s) == op.name \in {"expand", "estimate"} => op.complete

record_estimate(op, s) ==
    [s EXCEPT !.recordings = Append(@, op), !.frontier = @ \ {op.node}]

journal_execute(op, s) ==
    CASE op.name = "expand" ->
           [recordings |-> Append(s.recordings, op), depth |-> s.depth + 1,
            frontier |-> op.children]
      [] op.name = "estimate" -> record_estimate(op, s)
      [] OTHER -> s

journal_depth(s) == s.depth

\* evaluate_frontier: the default kernel never certifies.
journal_verdict(s) == "insufficient"

\* action_specs: categories structural, measurement, control and frontier.
journal_depth_ops == {op \in JournalOps : op.name = "expand"}
journal_evaluation_ops == {op \in JournalOps : op.name = "finalize"}
=============================================================================
