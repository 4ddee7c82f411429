--------------------------- MODULE MCFermiSession ---------------------------
(***************************************************************************)
(* Small Fermi sessions for TLC.  Requests are named by what they do; each *)
(* run picks the ones its question needs.                                  *)
(***************************************************************************)
EXTENDS FermiSession

Child(label, unit) == [label |-> label, unit |-> unit]

Pair2     == [unit |-> "u", yields |-> "u", form |-> "x*y",
              children |-> <<Child("left", "u"), Child("right", "1")>>]
Single(l) == [unit |-> "u", yields |-> "u", form |-> l, children |-> <<Child(l, "u")>>]
Broken    == [unit |-> "u", yields |-> "v", form |-> "b", children |-> <<Child("b", "v")>>]

Define        == [name |-> "define_question", acceptable |-> 3, complete |-> TRUE]
Grow(n, r)    == [name |-> "expand", node |-> n, relation |-> r, complete |-> TRUE]
Compete(n, r) == [name |-> "propose_alternative", node |-> n, relation |-> r, complete |-> TRUE]
Claim(n, u, sound) == [node |-> n, unit |-> u, sound |-> sound]
Measure(c, m) == [name |-> "propose_atom", claim |-> c, marginal |-> m, complete |-> TRUE]
Depend(d)     == [name |-> "set_dependence", dependence |-> d, complete |-> TRUE]
Test(material, useful) ==
    [name |-> "test_frontier", material |-> material, useful |-> useful, complete |-> TRUE]

\* Certification: the root measured as it is, or expanded into two leaves of
\* which one is measured well or badly.
CertifyOps ==
    {Define, Measure(Claim(1, "u", TRUE), "wide"),
     Grow(1, Pair2), Measure(Claim(2, "u", TRUE), "tight"),
     Measure(Claim(3, "1", TRUE), "tight"), Measure(Claim(3, "1", TRUE), "wide"),
     Depend("independent"), Test(0, 1), Test(0, 3)}

\* Structure: expansions, alternatives and what the tree turns down.  The chain
\* 2, 3, 4 grows to the depth budget; when it is built beside Pair2, rolling
\* Pair2's expansion back renumbers it and makes the tree deeper than that.
StructureOps ==
    {Define, Grow(1, Pair2), Grow(1, Single("a")), Grow(2, Single("b")),
     Grow(3, Single("c")), Grow(4, Single("d")), Grow(1, Broken),
     Compete(1, Single("a")), Measure(Claim(2, "u", TRUE), "wide")}

\* Two expansions of siblings and an atom on the first one's child.
SiblingOps ==
    {Define, Grow(1, Pair2), Grow(2, Single("b")), Grow(3, Single("c")),
     Measure(Claim(4, "u", TRUE), "tight")}

\* A measurement that depends on an expansion, and a dependence on neither.
ReplayOps ==
    {Define, Depend("independent"), Grow(1, Single("a")), Measure(Claim(2, "u", TRUE), "wide")}

NoFaults == {}

\* The definition over the first end agrees with the loop on every walk of
\* three calls.
ASSUME SaturationIsTheLoop ==
    \A valid \in BOOLEAN, useful \in 0..2,
       offers \in [1..3 -> [kind : {"exhausted", "raised", "skipped", "measured"},
                            low : {0}, high : 0..3]] :
        LET summary == [valid |-> valid, low |-> 0, high |-> 3, calibration |-> "unmeasured"]
        IN  evaluate_saturation(summary, offers, useful) = saturation_loop(summary, offers, useful)
=============================================================================
