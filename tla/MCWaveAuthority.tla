-------------------------- MODULE MCWaveAuthority ---------------------------
(***************************************************************************)
(* Two axes and two mappings.  The widths are on both sides of an absolute *)
(* tolerance, of a relative one, and of a zero reference.                  *)
(***************************************************************************)
EXTENDS WaveAuthority

CONSTANTS m1, m2, x1, x2

TwoAxes == {x1, x2}
TwoMappings == {m1, m2}

Declares(w, t, r) == [width |-> w, absolute |-> t, reference |-> r, relative |-> 25]

AxisChoices == {Declares(0, 1, NoTolerance), Declares(2, 1, 0),
                Declares(1, NoTolerance, -4), Declares(2, NoTolerance, NoTolerance)}

NoGain == [k \in ActionKinds |-> 0]
GainChoices == {NoGain, [NoGain EXCEPT !["measure"] = 1, !["split_regime"] = 2],
                [k \in ActionKinds |-> 1]}

Caps == {2}

Compiles(e, o, c, f, t) ==
    [expect_failure |-> e, output |-> o, composite |-> c, factor |-> f, transform |-> t]

\* Legal: a factor, a transform by intent that is also a factor, one that needs
\* the second attempt, one refused for its composite axis.  Expected to fail:
\* one that does, one that is a factor after all.
MappingChoices ==
    {Compiles(FALSE, FALSE, FALSE, TRUE, FALSE), Compiles(FALSE, TRUE, FALSE, TRUE, TRUE),
     Compiles(FALSE, FALSE, FALSE, FALSE, TRUE), Compiles(FALSE, FALSE, TRUE, FALSE, TRUE),
     Compiles(TRUE, FALSE, FALSE, FALSE, FALSE), Compiles(TRUE, TRUE, FALSE, TRUE, FALSE)}
=============================================================================
