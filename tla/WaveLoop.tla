------------------------------ MODULE WaveLoop ------------------------------
(***************************************************************************)
(* run_wave_loop: one round over one particle surface.  The surface is     *)
(* drafted and evaluated, the decision policy accepts it or not, and the   *)
(* diagnostics become typed actions; every step leaves an event in the     *)
(* ledger, from which replay_wave_ledger rebuilds the round.               *)
(*                                                                         *)
(* Of the surface the loop reads the width of each axis, whether the       *)
(* effective sample size is enough, and what each action would gain.       *)
(***************************************************************************)
EXTENDS Integers, Sequences, FiniteSets, SequencesExt

CONSTANTS
    Axes,
    AxisSpecs,     \* what an axis may declare and how wide it may come out
    Gains,         \* what the diagnostics may promise of each kind of action
    MaxActions,    \* the values of budget.max_actions
    NoTolerance    \* an absolute tolerance or a reference value not declared

VARIABLES
    axis,          \* the declared axes and their widths
    ess_ok,        \* the effective sample size reaches the policy's minimum
    gain,          \* of each kind of action, 0 when the diagnostics do not call for it
    max_actions,
    ledger, actions, accepted, stop_reason,
    loop           \* where the loop is

wave_inputs == <<axis, ess_ok, gain, max_actions>>
wave_vars == <<axis, ess_ok, gain, max_actions, ledger, actions, accepted, stop_reason, loop>>

ActionKinds == {"measure", "add_interaction", "split_regime", "minimize", "expand_variable"}

ASSUME WaveAssumption ==
    /\ AxisSpecs \subseteq [width : Nat, absolute : Nat \cup {NoTolerance},
                            reference : Int \cup {NoTolerance}, relative : Nat]
    /\ Gains \subseteq [ActionKinds -> Nat]
    /\ MaxActions \subseteq Nat \ {0}

WaveInit ==
    /\ axis \in [Axes -> AxisSpecs] /\ ess_ok \in BOOLEAN /\ gain \in Gains
    /\ max_actions \in MaxActions
    /\ ledger = <<>> /\ actions = <<>> /\ accepted = FALSE
    /\ stop_reason = "budget-exhausted" /\ loop = "draft"

record(state, reason, emitted) ==
    ledger' = Append(ledger, [state |-> state, reason |-> reason, actions |-> emitted])

-----------------------------------------------------------------------------
\* relative_tolerance is a percentage here; a zero reference is not divided by.
_axis_useful(a) ==
    \/ a.absolute # NoTolerance /\ a.width <= a.absolute
    \/ /\ a.reference # NoTolerance /\ a.reference # 0
       /\ 100 * a.width <= a.relative * (IF a.reference < 0 THEN -a.reference ELSE a.reference)

Unuseful == {x \in Axes : ~_axis_useful(axis[x])}

\* evaluate_decision_value
Useful == Unuseful = {} /\ ess_ok

\* Fault: an axis that is useful already is measured further.
ProposedForAnyAxis == {k \in ActionKinds : /\ gain[k] > 0
                                            /\ k = "measure" => \E x \in Axes : axis[x].width > 0}

\* A measurement is proposed only for an axis that is not useful and has a width.
Proposed == {k \in ActionKinds : /\ gain[k] > 0
                                 /\ k = "measure" => \E x \in Unuseful : axis[x].width > 0}

\* The ids of the actions sort as their kinds do.
KindOrder == <<"add_interaction", "expand_variable", "measure", "minimize", "split_regime">>

Position(k) == CHOOSE i \in DOMAIN KindOrder : KindOrder[i] = k

\* Sorted by the expected reduction of the loss, then by id; the cost is not read.
RanksBefore(k, l) == gain[k] > gain[l] \/ (gain[k] = gain[l] /\ Position(k) < Position(l))

\* The best max_actions of them, the best first: exactly one sequence.
decision_actions ==
    LET proposed == Cardinality(Proposed)
        kept     == IF proposed < max_actions THEN proposed ELSE max_actions
    IN  {s \in [1..kept -> Proposed] :
            /\ \A i, j \in 1..kept : i < j => RanksBefore(s[i], s[j])
            /\ \A i \in 1..kept, k \in Proposed \ Range(s) : RanksBefore(s[i], k)}

Draft ==
    /\ loop = "draft"
    /\ record("DRAFT", "mapping_compiled", <<>>)
    /\ loop' = "evaluate"
    /\ UNCHANGED <<wave_inputs, actions, accepted, stop_reason>>

EvaluateSurface ==
    /\ loop = "evaluate"
    /\ record("EVALUATED", "particle_surface_computed", <<>>)
    /\ actions' \in decision_actions
    /\ loop' = IF Useful THEN "accept" ELSE "refine"
    /\ UNCHANGED <<wave_inputs, accepted, stop_reason>>

Accept ==
    /\ loop = "accept"
    /\ accepted' = TRUE /\ stop_reason' = "decision-value-met"
    /\ record("ACCEPTED", "decision-value-met", actions)
    /\ actions' = Append(actions, "stop")
    /\ loop' = "ended"
    /\ UNCHANGED wave_inputs

Refine ==
    /\ loop = "refine"
    /\ record("REFINING", "diagnostic_actions_emitted", actions)
    /\ loop' = "unresolved"
    /\ UNCHANGED <<wave_inputs, actions, accepted, stop_reason>>

\* Fault: the event is recorded before the reason is settled.
UnresolvedEarly ==
    /\ loop = "unresolved"
    /\ stop_reason' = IF Unuseful # {} THEN "unresolved-decision-criteria"
                      ELSE "marginal-value-insufficient"
    /\ record("UNRESOLVED", stop_reason, <<>>)
    /\ actions' = Append(actions, "stop")
    /\ loop' = "ended"
    /\ UNCHANGED <<wave_inputs, accepted>>

Unresolved ==
    /\ loop = "unresolved"
    /\ \E reason \in {IF Unuseful # {} THEN "unresolved-decision-criteria"
                      ELSE "marginal-value-insufficient"} :
           stop_reason' = reason /\ record("UNRESOLVED", reason, <<>>)
    /\ actions' = Append(actions, "stop")
    /\ loop' = "ended"
    /\ UNCHANGED <<wave_inputs, accepted>>

WaveNext == Draft \/ EvaluateSurface \/ Accept \/ Refine \/ Unresolved

-----------------------------------------------------------------------------
WaveTerminals == {"ACCEPTED", "UNRESOLVED", "STOP"}

\* What a replay has rebuilt from the first n entries; ok is FALSE once it raised.
Rebuilt(entries) ==
    LET upto[n \in Nat] ==
            IF n = 0 THEN [ok |-> TRUE, states |-> <<>>, actions |-> <<>>,
                           accepted |-> FALSE, terminal |-> ""]
            ELSE LET r == upto[n - 1]
                     e == entries[n]
                 IN  [ok       |-> r.ok /\ r.terminal = "",
                      states   |-> Append(r.states, e.state),
                      actions  |-> IF e.state = "REFINING" THEN r.actions \o e.actions
                                                           ELSE r.actions,
                      accepted |-> r.accepted \/ e.state = "ACCEPTED",
                      terminal |-> IF e.state \in WaveTerminals THEN e.reason ELSE r.terminal]
    IN  upto

replay_wave_ledger(entries) == Rebuilt(entries)[Len(entries)]

\* The checkpoint of a finished loop replays to the verdict, the reason and the
\* refinements the loop itself returns; those of an accepted round it does not keep.
ReplayAgrees ==
    loop = "ended" => \E r \in {replay_wave_ledger(ledger)} :
        /\ r.ok /\ r.accepted = accepted /\ r.terminal = stop_reason
        /\ r.states = IF accepted THEN <<"DRAFT", "EVALUATED", "ACCEPTED">>
                      ELSE <<"DRAFT", "EVALUATED", "REFINING", "UNRESOLVED">>
        /\ IF accepted THEN r.actions = <<>> ELSE Append(r.actions, "stop") = actions

\* The verdict and the actions do not contradict each other: an accepted surface
\* asks for no measurement, an unresolved one has an axis or the sample size to
\* show for it, and the loop always ends in exactly one stop.
VerdictFitsActions ==
    loop = "ended" =>
        /\ accepted => "measure" \notin Range(actions)
        /\ stop_reason = "marginal-value-insufficient" => ~ess_ok
        /\ {i \in DOMAIN actions : actions[i] = "stop"} = {Len(actions)}
=============================================================================
