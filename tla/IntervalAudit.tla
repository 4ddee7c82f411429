---------------------------- MODULE IntervalAudit ---------------------------
(***************************************************************************)
(* The audit of a forecast interval (intervals.py): its width against a    *)
(* reference and a baseline, and the decision regions it spans.  Bounds    *)
(* are integers; the ratios are compared, never computed.                  *)
(***************************************************************************)
EXTENDS Integers, Sequences, FiniteSets

CONSTANT NoBaseline

\* How many action regions, cut by the thresholds, an interval touches.
regions_spanned(lower, upper, thresholds) ==
    Cardinality({t \in thresholds : lower < t /\ t <= upper}) + 1

\* What audit_interval refuses to audit.
IntervalErrors(i) ==
    {e \in {"bounds", "coverage", "scale", "baseline"} :
        \/ e = "bounds"   /\ i.lower > i.upper
        \/ e = "coverage" /\ ~i.coverage
        \/ e = "scale"    /\ i.scale <= 0
        \/ e = "baseline" /\ i.baseline # NoBaseline /\ i.baseline.lower >= i.baseline.upper}

\* The decision gain is positive: fewer regions than the baseline, or not all.
decision_gain(i, thresholds) ==
    LET spanned == regions_spanned(i.lower, i.upper, thresholds)
    IN  IF i.baseline # NoBaseline
        THEN spanned < regions_spanned(i.baseline.lower, i.baseline.upper, thresholds)
        ELSE thresholds # {} /\ spanned < Cardinality(thresholds) + 1

AuditFlags(i, thresholds) ==
    LET spanned == regions_spanned(i.lower, i.upper, thresholds)
    IN  {f \in {"excessive_normalized_width", "no_baseline_improvement", "decision_unresolved"} :
            \/ /\ f = "excessive_normalized_width"
               /\ i.upper - i.lower >= 2 * i.scale
            \/ /\ f = "no_baseline_improvement"
               /\ i.baseline # NoBaseline
               /\ i.upper - i.lower >= i.baseline.upper - i.baseline.lower
            \/ /\ f = "decision_unresolved"
               /\ thresholds # {} /\ spanned # 1 /\ ~decision_gain(i, thresholds)}

audit_interval(i, thresholds) ==
    /\ AuditFlags(i, thresholds) = {}
    /\ thresholds = {} \/ decision_gain(i, thresholds)

\* The interval as wide as its reference, yet called informative.
Vacuous(i, informative) == i.upper - i.lower >= i.scale /\ informative
=============================================================================
