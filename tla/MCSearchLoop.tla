---------------------------- MODULE MCSearchLoop ----------------------------
(***************************************************************************)
(* Two seeds, a declared revision and a declared ablation of the first,    *)
(* its mechanical ablation (whose formula the revision also has), and a    *)
(* proposal for either seed, one of them a formula written in another way. *)
(***************************************************************************)
EXTENDS SearchLoop

CONSTANTS a, b, ra, aa, ma, mr, pa, pb

DeclaredCandidates == <<a, ra, b, aa>>
DynamicCandidates  == {ma, mr, pa, pb}
All == {a, ra, b, aa} \cup DynamicCandidates

\* x*y*z with its parts, and a formula of another kind
SomeFormulas == {"xyz", "xy", "(xy)", "x", "w", "v"}
FormulaOf == [c \in All |-> CASE c = a -> "xyz" [] c \in {ra, ma} -> "xy"
                              [] c \in {aa, mr} -> "x" [] c = pa -> "(xy)"
                              [] c = b -> "w" [] c = pb -> "v"]
ParentOf == [c \in All |-> CASE c \in {ra, aa, ma, pa} -> a [] c = mr -> ra [] c = pb -> b
                             [] OTHER -> NoCandidate]
KindOf == [c \in All |-> CASE c \in {a, b} -> "seed" [] c \in {ra, pa, pb} -> "revise"
                           [] OTHER -> "ablate"]
IdentityOf == [f \in SomeFormulas |-> IF f = "(xy)" THEN "xy" ELSE f]
SizeOf == [f \in SomeFormulas |-> CASE f = "xyz" -> 3 [] f \in {"xy", "(xy)"} -> 2 [] OTHER -> 1]
AblationsOf == [c \in All |-> CASE c = a -> <<ma>> [] c = ra -> <<mr>> [] OTHER -> <<>>]
ProposalsOf == [c \in All |-> CASE c = a -> <<pa>> [] c = b -> <<pb>> [] OTHER -> <<>>]

GradesOf == [f \in SomeFormulas |-> CASE f \in {"xyz", "v"} -> {"passed", "failed", "invalid"}
                                     [] f = "(xy)" -> {"passed"}
                                     [] f = "w" -> AllGrades
                                     [] OTHER -> {"passed", "failed"}]

SomeRounds == 0..4

SomeBudgets ==
    {[max_candidates |-> 8, max_rounds |-> 4, max_evaluations |-> 8, templates |-> t] : t \in BOOLEAN}
    \cup {[max_candidates |-> 3, max_rounds |-> 4, max_evaluations |-> 8, templates |-> TRUE],
          [max_candidates |-> 8, max_rounds |-> 1, max_evaluations |-> 8, templates |-> TRUE],
          [max_candidates |-> 8, max_rounds |-> 4, max_evaluations |-> 2, templates |-> FALSE]}
=============================================================================
