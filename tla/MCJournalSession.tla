-------------------------- MODULE MCJournalSession --------------------------
(***************************************************************************)
(* A session of the runtime over the default CLI kernel, small enough for  *)
(* TLC: one expansion, one estimate of its child, and one incomplete       *)
(* request.                                                                *)
(***************************************************************************)
EXTENDS AgentRuntime, JournalKernel

ExpandRoot   == [name |-> "expand", node |-> "root", children |-> {"a"}, complete |-> TRUE]
EstimateA    == [name |-> "estimate", node |-> "a", children |-> {}, complete |-> TRUE]
EstimateBare == [name |-> "estimate", node |-> "root", children |-> {}, complete |-> FALSE]

MCOps        == {ExpandRoot, EstimateA, EstimateBare}
MCCosts      == {-1}
MCFaults     == {"result", "close", "stamp"}
=============================================================================
