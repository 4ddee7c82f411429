-------------------------- MODULE SessionDocument ---------------------------
(***************************************************************************)
(* What the CLI promises whoever runs one command after the other: one     *)
(* document that every command changes in a single step.  A start puts a   *)
(* fresh session there, where there is none or by --force; any other       *)
(* command adds itself to the session it finds.                            *)
(***************************************************************************)
EXTENDS Sequences

CONSTANTS Starts, Forced, Writers, NoDocument

VARIABLE document

Init == document = NoDocument

Start(s) ==
    /\ document = NoDocument \/ s \in Forced
    /\ document' = [session |-> s, log |-> <<>>]

Record(w) ==
    /\ document # NoDocument
    /\ document' = [document EXCEPT !.log = Append(@, w)]

Next == \/ \E s \in Starts : Start(s)
        \/ \E w \in Writers : Record(w)

Spec == Init /\ [][Next]_document
=============================================================================
