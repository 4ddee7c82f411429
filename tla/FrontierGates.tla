--------------------------- MODULE FrontierGates ---------------------------
(***************************************************************************)
(* The gates a frontier passes before it is certified: the propagated      *)
(* interval is within the tolerance, every leaf is necessary, and the      *)
(* refinements the caller offers are exhausted without a useful one.       *)
(*                                                                         *)
(*   summary   : [valid, low, high, calibration], the 90 percent interval, *)
(*               or None at both ends when there is no valid one           *)
(*   tolerance : [width, relative, reference, thresholds, calibrated]      *)
(*   executed  : the result [status, width] of each intervention offered   *)
(*   offers    : what each call of next_refinement leads to, [kind, high,  *)
(*               low], as long as max_iterations                           *)
(* Numbers are integers; a threshold that raises when it is negative is    *)
(* the caller's to check with IsThreshold.                                 *)
(***************************************************************************)
EXTENDS Integers, Sequences, FiniteSets

CONSTANT None       \* a field that is null

ASSUME NoneAssumption == None \notin Int

Summaries == [valid : BOOLEAN, low : Int \cup {None}, high : Int \cup {None},
              calibration : {"unmeasured", "unknown_marginal", "dependency_gap"}]

Unpropagated(calibration) ==
    [valid |-> FALSE, low |-> None, high |-> None, calibration |-> calibration]

WidthOf(interval) == interval.high - interval.low

IsThreshold(number) == number >= 0

-----------------------------------------------------------------------------
(* evaluate_sufficiency *)

Abs(n) == IF n < 0 THEN -n ELSE n

HasTolerance(tolerance) ==
    tolerance.width # None \/ tolerance.relative # None \/ tolerance.thresholds # {}

\* _action_regions > 1: some threshold lies above the lower end and not above
\* the upper one.
SpansRegions(summary, thresholds) ==
    \E t \in thresholds : summary.low < t /\ t <= summary.high

Within(summary, tolerance) ==
    /\ tolerance.width # None => WidthOf(summary) <= tolerance.width
    /\ tolerance.relative # None =>
          WidthOf(summary) <= tolerance.relative * Abs(tolerance.reference)
    /\ ~SpansRegions(summary, tolerance.thresholds)
    /\ tolerance.calibrated => summary.calibration = "unmeasured"

evaluate_sufficiency(summary, tolerance) ==
    IF ~summary.valid \/ ~HasTolerance(tolerance) THEN "not_assessable"
    ELSE IF Within(summary, tolerance) THEN "passes" ELSE "fails"

-----------------------------------------------------------------------------
(* evaluate_necessity: an intervention that leaves the target as good as it *)
(* was shows the leaf to be redundant.                                      *)

Computed(summary) ==
    IF summary.valid THEN [status |-> "computed", width |-> WidthOf(summary)]
    ELSE [status |-> "invalid_interval", width |-> None]

\* What the deletion callback answers is [kind, leaves]: it raises, returns
\* None, or returns the leaves it leaves.
execute_deletion(referenced, answer, resampled) ==
    IF answer.kind = "raised" THEN [status |-> "not_applicable", width |-> None]
    ELSE IF answer.kind = "none" \/ ~(referenced \subseteq answer.leaves)
    THEN [status |-> "non_computable", width |-> None]
    ELSE Computed(resampled)

\* Coarsening and substitution put another leaf in the place of one.
execute_replacement(answer, resampled) ==
    IF answer.kind # "replaced" THEN [status |-> "not_applicable", width |-> None]
    ELSE Computed(resampled)

\* The width grew by more than the fraction the caller finds material; from a
\* width of zero any growth is.
Degrades(summary, width, material) ==
    width - WidthOf(summary) > material * WidthOf(summary)

Tolerated(summary, result, material) ==
    /\ result.status = "computed"
    /\ summary.valid
    /\ ~Degrades(summary, result.width, material)

evaluate_necessity(summary, executed, material) ==
    /\ executed["deletion"].status # "not_applicable"
    /\ \A intervention \in DOMAIN executed : ~Tolerated(summary, executed[intervention], material)

-----------------------------------------------------------------------------
(* evaluate_saturation walks the offers until the callback returns None,    *)
(* raises, or offers something useful.                                      *)

Narrowing(summary, offer) ==
    IF offer.kind = "measured" /\ summary.valid
    THEN LET gained == WidthOf(summary) - WidthOf(offer) IN IF gained > 0 THEN gained ELSE 0
    ELSE 0

OverThreshold(summary, offer, useful) == Narrowing(summary, offer) > useful

\* A proposal for a leaf that is not there, one whose leaves collide or cannot
\* be sampled, and one without a valid interval do not end the walk.
Ends(summary, offers, useful) ==
    {i \in DOMAIN offers : \/ offers[i].kind \in {"exhausted", "raised"}
                           \/ OverThreshold(summary, offers[i], useful)}

Walked(summary, offers, useful) ==
    {i \in DOMAIN offers : \A j \in Ends(summary, offers, useful) : i <= j}

evaluate_saturation(summary, offers, useful) ==
    LET walked == Walked(summary, offers, useful)
    IN  /\ \E i \in walked : offers[i].kind = "exhausted"
        /\ \A i \in walked : ~OverThreshold(summary, offers[i], useful)

\* The same as the code computes it, call by call: what broke the loop, if
\* anything has.
WalkStep(summary, offer, useful, walk) ==
    IF walk # "open" THEN walk
    ELSE IF offer.kind \in {"exhausted", "raised"} THEN offer.kind
    ELSE IF OverThreshold(summary, offer, useful) THEN "useful" ELSE "open"

saturation_loop(summary, offers, useful) ==
    LET walk[n \in Nat] == IF n = 0 THEN "open"
                           ELSE WalkStep(summary, offers[n], useful, walk[n - 1])
    IN  walk[Len(offers)] = "exhausted"

-----------------------------------------------------------------------------
\* Fault: the tolerance gate is dropped.
certify_any_width(sufficiency, necessity, saturated) ==
    IF (\A leaf \in DOMAIN necessity : necessity[leaf]) /\ saturated THEN "certified"
    ELSE "structurally_complete"

\* necessity says of each leaf whether it is necessary.
certify_frontier(sufficiency, necessity, saturated) ==
    IF sufficiency # "passes" THEN "insufficient"
    ELSE IF (\A leaf \in DOMAIN necessity : necessity[leaf]) /\ saturated THEN "certified"
    ELSE "structurally_complete"
=============================================================================
