----------------------------- MODULE WaveProofs -----------------------------
(***************************************************************************)
(* Theorems about the wave loop and the authority around it, for any axes, *)
(* any diagnostics, any budget of actions and any mappings.                *)
(*                                                                         *)
(* The loop is a straight line with one branch, so its invariant says what *)
(* the ledger holds at each place, event by event; what a replay rebuilds  *)
(* from such a ledger is computed from the recursion of the replay.  The   *)
(* authority's invariant ties each component of the provenance to the work *)
(* it stands for, whichever of the stages failed.                          *)
(***************************************************************************)
EXTENDS WaveAuthority, FiniteSetTheorems, SequenceTheorems, TLAPS

-----------------------------------------------------------------------------
(* The actions a round proposes *)

\* The kinds of action are finitely many.
LEMMA KindsFinite == IsFiniteSet(ActionKinds)
  <1>1. /\ IsFiniteSet({"measure"}) /\ IsFiniteSet({"add_interaction"})
        /\ IsFiniteSet({"split_regime"}) /\ IsFiniteSet({"minimize"})
        /\ IsFiniteSet({"expand_variable"})
    BY FS_Singleton
  <1>2. ActionKinds = {"measure"} \cup ({"add_interaction"} \cup ({"split_regime"}
                        \cup ({"minimize"} \cup {"expand_variable"})))
    BY DEF ActionKinds
  <1> QED
    BY <1>1, <1>2, FS_Union

\* What the diagnostics propose never includes a stop, and no measurement when
\* every axis is useful.
LEMMA ProposedFacts ==
    /\ Proposed \subseteq ActionKinds
    /\ "stop" \notin Proposed
    /\ Unuseful = {} => "measure" \notin Proposed
  BY DEF Proposed, ActionKinds

\* A ranking of the proposals is a sequence of them.
LEMMA RankedType ==
    ASSUME max_actions \in Nat, NEW s \in decision_actions
    PROVE  s \in Seq(Proposed)
  <1>1. Cardinality(Proposed) \in Nat
    BY KindsFinite, ProposedFacts, FS_Subset, FS_CardinalityType
  <1>2. PICK n \in Nat : s \in [1..n -> Proposed]
    BY <1>1 DEF decision_actions
  <1> QED
    BY <1>2

-----------------------------------------------------------------------------
(* The loop *)

Event(state, reason, emitted) == [state |-> state, reason |-> reason, actions |-> emitted]

Drafted       == Event("DRAFT", "mapping_compiled", <<>>)
Evaluated     == Event("EVALUATED", "particle_surface_computed", <<>>)
Accepted(s)   == Event("ACCEPTED", "decision-value-met", s)
Refining(s)   == Event("REFINING", "diagnostic_actions_emitted", s)
Unsettled(r)  == Event("UNRESOLVED", r, <<>>)

UnresolvedReason == IF Unuseful # {} THEN "unresolved-decision-criteria"
                    ELSE "marginal-value-insufficient"

\* A sequence that continues another by one element is the other, appended to.
LEMMA AppendIs ==
    ASSUME NEW S, NEW s \in Seq(S), NEW e \in S, NEW t \in Seq(S), Len(t) = Len(s) + 1,
           \A i \in 1..Len(s) : t[i] = s[i], t[Len(s) + 1] = e
    PROVE  Append(s, e) = t
  <1> DEFINE r == Append(s, e)
  <1>1. /\ r \in Seq(S) /\ Len(r) = Len(s) + 1 /\ Len(s) \in Nat /\ r[Len(s) + 1] = e
        /\ \A i \in 1..Len(s) : r[i] = s[i]
    BY AppendProperties
  <1> HIDE DEF r
  <1>2. \A i \in 1..Len(r) : i \in 1..Len(s) \/ i = Len(s) + 1
    BY <1>1
  <1>3. \A i \in 1..Len(r) : r[i] = t[i]
    BY <1>1, <1>2
  <1>4. r = t
    BY <1>1, <1>3, SeqEqual
  <1> QED
    BY <1>4 DEF r

\* What an event adds to a ledger.
LEMMA Appended ==
    ASSUME NEW a, NEW b, NEW c
    PROVE  /\ Append(<<>>, a) = <<a>>
           /\ Append(<<a>>, b) = <<a, b>>
           /\ Append(<<a, b>>, c) = <<a, b, c>>
  <1> DEFINE S == {a, b, c}
  <1>1. /\ <<a>> \in Seq(S) /\ <<a, b>> \in Seq(S) /\ <<a, b, c>> \in Seq(S)
        /\ b \in S /\ c \in S
    OBVIOUS
  <1>2. Append(<<a>>, b) = <<a, b>>
    <2>1. /\ Len(<<a, b>>) = Len(<<a>>) + 1 /\ <<a, b>>[Len(<<a>>) + 1] = b
          /\ \A i \in 1..Len(<<a>>) : <<a, b>>[i] = <<a>>[i]
      OBVIOUS
    <2> QED
      BY <1>1, <2>1, AppendIs
  <1>3. Append(<<a, b>>, c) = <<a, b, c>>
    <2>1. /\ Len(<<a, b, c>>) = Len(<<a, b>>) + 1 /\ <<a, b, c>>[Len(<<a, b>>) + 1] = c
          /\ \A i \in 1..Len(<<a, b>>) : <<a, b, c>>[i] = <<a, b>>[i]
      OBVIOUS
    <2> QED
      BY <1>1, <2>1, AppendIs
  <1> QED
    BY <1>2, <1>3

LEMMA AppendedFourth ==
    ASSUME NEW a, NEW b, NEW c, NEW d
    PROVE  Append(<<a, b, c>>, d) = <<a, b, c, d>>
  <1> DEFINE S == {a, b, c, d}
  <1>1. <<a, b, c>> \in Seq(S) /\ <<a, b, c, d>> \in Seq(S) /\ d \in S
    OBVIOUS
  <1>2. /\ Len(<<a, b, c, d>>) = Len(<<a, b, c>>) + 1
        /\ <<a, b, c, d>>[Len(<<a, b, c>>) + 1] = d
        /\ \A i \in 1..Len(<<a, b, c>>) : <<a, b, c, d>>[i] = <<a, b, c>>[i]
    OBVIOUS
  <1> QED
    BY <1>1, <1>2, AppendIs

\* How a round ends: accepted if the surface is useful, with its ranked actions
\* and one stop, and a ledger that tells the same.
EndedWith(s) ==
    /\ actions = Append(s, "stop")
    /\ \/ /\ Useful /\ accepted = TRUE /\ stop_reason = "decision-value-met"
          /\ ledger = <<Drafted, Evaluated, Accepted(s)>>
       \/ /\ ~Useful /\ accepted = FALSE /\ stop_reason = UnresolvedReason
          /\ ledger = <<Drafted, Evaluated, Refining(s), Unsettled(stop_reason)>>

\* What the ledger holds at each place of the loop.
LoopInv ==
    /\ max_actions \in Nat
    /\ loop \in {"draft", "evaluate", "accept", "refine", "unresolved", "ended", "raised"}
    /\ loop # "ended" => accepted = FALSE
    /\ loop \in {"draft", "raised"} => ledger = <<>>
    /\ loop = "evaluate" => ledger = <<Drafted>>
    /\ loop \in {"accept", "refine"} => ledger = <<Drafted, Evaluated>>
    /\ loop = "accept" => Useful
    /\ loop \in {"refine", "unresolved"} => ~Useful
    /\ loop = "unresolved" => ledger = <<Drafted, Evaluated, Refining(actions)>>
    /\ loop \in {"accept", "refine", "unresolved"} => actions \in decision_actions
    /\ loop = "ended" => \E s \in decision_actions : EndedWith(s)

\* What the round reads does not change, so neither does what follows from it.
LEMMA InputsFixed ==
    ASSUME UNCHANGED wave_inputs
    PROVE  /\ Useful' = Useful /\ Unuseful' = Unuseful
           /\ decision_actions' = decision_actions
           /\ UnresolvedReason' = UnresolvedReason /\ max_actions' = max_actions
  <1>1. axis' = axis /\ gain' = gain /\ ess_ok' = ess_ok /\ max_actions' = max_actions
    BY DEF wave_inputs
  <1>2. Unuseful' = Unuseful
    BY <1>1 DEF Unuseful, _axis_useful
  <1>3. Useful' = Useful
    BY <1>1, <1>2 DEF Useful
  <1>4. Proposed' = Proposed
    BY <1>1, <1>2 DEF Proposed
  <1>5. \A k, l : RanksBefore(k, l)' = RanksBefore(k, l)
    BY <1>1 DEF RanksBefore
  <1>6. decision_actions' = decision_actions
    BY <1>1, <1>4, <1>5 DEF decision_actions
  <1> QED
    BY <1>1, <1>2, <1>3, <1>6 DEF UnresolvedReason

\* A step of the loop keeps the account.
LEMMA LoopStep == ASSUME LoopInv, WaveNext PROVE LoopInv'
  <1>1. CASE Draft
    <2>1. /\ ledger = <<>> /\ ledger' = Append(ledger, Drafted) /\ loop' = "evaluate"
          /\ UNCHANGED wave_inputs
      BY <1>1 DEF LoopInv, Draft, record, Drafted, Event
    <2>u. /\ Useful' = Useful /\ decision_actions' = decision_actions
          /\ UnresolvedReason' = UnresolvedReason /\ max_actions' = max_actions
      BY <2>1, InputsFixed
    <2>2. ledger' = <<Drafted>>
      BY <2>1, Appended
    <2> QED
      BY <1>1, <2>1, <2>2, <2>u DEF LoopInv, Draft
  <1>2. CASE EvaluateSurface
    <2>1. /\ ledger = <<Drafted>> /\ ledger' = Append(ledger, Evaluated)
          /\ loop' = IF Useful THEN "accept" ELSE "refine"
          /\ actions' \in decision_actions /\ UNCHANGED <<wave_inputs, accepted, stop_reason>>
      BY <1>2 DEF LoopInv, EvaluateSurface, record, Evaluated, Event
    <2>u. /\ Useful' = Useful /\ decision_actions' = decision_actions
          /\ UnresolvedReason' = UnresolvedReason /\ max_actions' = max_actions
      BY <2>1, InputsFixed
    <2>2. ledger' = <<Drafted, Evaluated>>
      BY <2>1, Appended
    <2>3. accepted = FALSE /\ max_actions \in Nat
      BY <1>2 DEF LoopInv, EvaluateSurface
    <2> QED
      BY <2>1, <2>2, <2>3, <2>u DEF LoopInv
  <1>3. CASE Accept
    <2>1. /\ ledger = <<Drafted, Evaluated>> /\ ledger' = Append(ledger, Accepted(actions))
          /\ Useful /\ actions \in decision_actions /\ max_actions \in Nat
          /\ loop' = "ended" /\ accepted' = TRUE /\ stop_reason' = "decision-value-met"
          /\ actions' = Append(actions, "stop") /\ UNCHANGED wave_inputs
      BY <1>3 DEF LoopInv, Accept, record, Accepted, Event
    <2>u. /\ Useful' = Useful /\ decision_actions' = decision_actions
          /\ UnresolvedReason' = UnresolvedReason /\ max_actions' = max_actions
      BY <2>1, InputsFixed
    <2>2. ledger' = <<Drafted, Evaluated, Accepted(actions)>>
      BY <2>1, Appended
    <2>3. \E s \in decision_actions' : EndedWith(s)'
      BY <2>1, <2>2, <2>u DEF EndedWith
    <2> QED
      BY <2>1, <2>3, <2>u DEF LoopInv
  <1>4. CASE Refine
    <2>1. /\ ledger = <<Drafted, Evaluated>> /\ ledger' = Append(ledger, Refining(actions))
          /\ ~Useful /\ actions \in decision_actions /\ max_actions \in Nat /\ accepted = FALSE
          /\ loop' = "unresolved" /\ UNCHANGED <<wave_inputs, actions, accepted, stop_reason>>
      BY <1>4 DEF LoopInv, Refine, record, Refining, Event
    <2>u. /\ Useful' = Useful /\ decision_actions' = decision_actions
          /\ UnresolvedReason' = UnresolvedReason /\ max_actions' = max_actions
      BY <2>1, InputsFixed
    <2>2. ledger' = <<Drafted, Evaluated, Refining(actions)>>
      BY <2>1, Appended
    <2> QED
      BY <2>1, <2>2, <2>u DEF LoopInv
  <1>5. CASE Unresolved
    <2>1. /\ ledger = <<Drafted, Evaluated, Refining(actions)>>
          /\ ledger' = Append(ledger, Unsettled(stop_reason')) /\ stop_reason' = UnresolvedReason
          /\ ~Useful /\ actions \in decision_actions /\ max_actions \in Nat /\ accepted = FALSE
          /\ loop' = "ended" /\ actions' = Append(actions, "stop")
          /\ UNCHANGED <<wave_inputs, accepted>>
      BY <1>5 DEF LoopInv, Unresolved, record, Unsettled, Event, UnresolvedReason
    <2>u. /\ Useful' = Useful /\ decision_actions' = decision_actions
          /\ UnresolvedReason' = UnresolvedReason /\ max_actions' = max_actions
      BY <2>1, InputsFixed
    <2>r. Append(<<Drafted, Evaluated, Refining(actions)>>, Unsettled(stop_reason'))
            = <<Drafted, Evaluated, Refining(actions), Unsettled(stop_reason')>>
      BY AppendedFourth, Zenon
    <2>2. ledger' = <<Drafted, Evaluated, Refining(actions), Unsettled(stop_reason')>>
      BY <2>1, <2>r
    <2>3. \E s \in decision_actions' : EndedWith(s)'
      BY <2>1, <2>2, <2>u DEF EndedWith
    <2> QED
      BY <2>1, <2>3, <2>u DEF LoopInv
  <1> QED
    BY <1>1, <1>2, <1>3, <1>4, <1>5 DEF WaveNext

\* A step that leaves the loop alone keeps it, and so does the loop that raises.
LEMMA LoopElsewhere == ASSUME LoopInv, UNCHANGED wave_vars PROVE LoopInv'
  <1>1. UNCHANGED <<wave_inputs, ledger, actions, accepted, stop_reason, loop>>
    BY DEF wave_vars, wave_inputs
  <1>2. \A s : EndedWith(s)' = EndedWith(s)
    BY <1>1, InputsFixed DEF EndedWith
  <1> QED
    BY <1>1, <1>2, InputsFixed DEF LoopInv

-----------------------------------------------------------------------------
(* The replay *)

RebuildStart(entries) == [ok |-> TRUE, states |-> <<>>, actions |-> <<>>,
                          accepted |-> FALSE, terminal |-> ""]
RebuildStep(entries, n, r) ==
    LET e == entries[n]
    IN  [ok       |-> r.ok /\ r.terminal = "",
         states   |-> Append(r.states, e.state),
         actions  |-> IF e.state = "REFINING" THEN r.actions \o e.actions ELSE r.actions,
         accepted |-> r.accepted \/ e.state = "ACCEPTED",
         terminal |-> IF e.state \in WaveTerminals THEN e.reason ELSE r.terminal]
Rebuilds == INSTANCE NatRecursion WITH Start <- RebuildStart, Step <- RebuildStep

\* What a replay rebuilds is what its recursion says.
LEMMA RebuiltFacts ==
    ASSUME NEW entries
    PROVE  /\ Rebuilt(entries)[0] = RebuildStart(entries)
           /\ \A n \in Nat : Rebuilt(entries)[n + 1] = RebuildStep(entries, n + 1, Rebuilt(entries)[n])
  <1> DEFINE Is(s) == s = [n \in Nat |-> IF n = 0 THEN RebuildStart(entries)
                                         ELSE RebuildStep(entries, n, s[n - 1])]
             upto == Rebuilt(entries)
  <1>1. PICK f : Rebuilds!IsRecursion(entries, f)
    BY Rebuilds!RecursionExists
  <1>2. Is(f)
    BY <1>1 DEF Rebuilds!IsRecursion, Rebuilds!At
  <1>3. Is(upto)
    BY <1>2 DEF Rebuilt, RebuildStart, RebuildStep
  <1> HIDE DEF upto
  <1>4. ASSUME NEW n \in Nat PROVE upto[n + 1] = RebuildStep(entries, n + 1, upto[n])
    <2>1. n + 1 \in Nat /\ n + 1 # 0 /\ (n + 1) - 1 = n
      OBVIOUS
    <2>2. upto[n + 1] = RebuildStep(entries, n + 1, upto[(n + 1) - 1])
      BY <1>3, <2>1
    <2> QED
      BY <2>1, <2>2
  <1>5. upto[0] = RebuildStart(entries)
    BY <1>3
  <1> QED
    BY <1>4, <1>5 DEF upto

Result(ok, states, emitted, verdict, terminal) ==
    [ok |-> ok, states |-> states, actions |-> emitted, accepted |-> verdict,
     terminal |-> terminal]

\* A replay that has met no end yet.
Open(states, emitted) == Result(TRUE, states, emitted, FALSE, "")

\* Names for the two ways a sequence grows, which the provers leave alone.
Extended(s, e)   == Append(s, e)
Joined(s, t) == s \o t

\* What one event adds to a replay that has met no end yet.
LEMMA RebuildEvent ==
    ASSUME NEW entries, NEW n, NEW states, NEW emitted
    PROVE  RebuildStep(entries, n, Open(states, emitted)) =
               Result(TRUE, Extended(states, entries[n].state),
                      IF entries[n].state = "REFINING" THEN Joined(emitted, entries[n].actions)
                                                       ELSE emitted,
                      IF entries[n].state = "ACCEPTED" THEN TRUE ELSE FALSE,
                      IF entries[n].state \in WaveTerminals THEN entries[n].reason ELSE "")
  <1> DEFINE r == Open(states, emitted)
             e == entries[n]
             q == RebuildStep(entries, n, r)
  <1>1. /\ r.ok = TRUE /\ r.states = states /\ r.actions = emitted /\ r.accepted = FALSE
        /\ r.terminal = ""
    BY DEF Open, Result
  <1> HIDE DEF r
  <1>2. q = [ok       |-> r.ok /\ r.terminal = "",
             states   |-> Extended(r.states, e.state),
             actions  |-> IF e.state = "REFINING" THEN Joined(r.actions, e.actions) ELSE r.actions,
             accepted |-> r.accepted \/ e.state = "ACCEPTED",
             terminal |-> IF e.state \in WaveTerminals THEN e.reason ELSE r.terminal]
    BY Zenon DEF RebuildStep, Extended, Joined
  <1>3. (r.ok /\ r.terminal = "") = TRUE
    BY <1>1
  <1>4. (r.accepted \/ e.state = "ACCEPTED") = IF e.state = "ACCEPTED" THEN TRUE ELSE FALSE
    BY <1>1
  <1> HIDE DEF q, e
  <1>5. q = Result(TRUE, Extended(states, e.state),
                   IF e.state = "REFINING" THEN Joined(emitted, e.actions) ELSE emitted,
                   IF e.state = "ACCEPTED" THEN TRUE ELSE FALSE, IF e.state \in WaveTerminals THEN e.reason ELSE "")
    BY <1>1, <1>2, <1>3, <1>4, Zenon DEF Result
  <1> QED
    BY <1>5 DEF q, e, r

\* The fields the events of the loop are told apart by.
LEMMA EventFields ==
    /\ Drafted.state = "DRAFT" /\ Evaluated.state = "EVALUATED"
    /\ \A s : /\ Accepted(s).state = "ACCEPTED" /\ Accepted(s).reason = "decision-value-met"
              /\ Refining(s).state = "REFINING" /\ Refining(s).actions = s
    /\ \A r : Unsettled(r).state = "UNRESOLVED" /\ Unsettled(r).reason = r
    /\ "DRAFT" \notin WaveTerminals /\ "EVALUATED" \notin WaveTerminals
    /\ "REFINING" \notin WaveTerminals
    /\ "ACCEPTED" \in WaveTerminals /\ "UNRESOLVED" \in WaveTerminals
  BY DEF Drafted, Evaluated, Accepted, Refining, Unsettled, Event, WaveTerminals

\* What a state adds to the states met so far.
LEMMA ExtendedIs ==
    ASSUME NEW a, NEW b, NEW c
    PROVE  /\ Extended(<<>>, a) = <<a>>
           /\ Extended(<<a>>, b) = <<a, b>>
           /\ Extended(<<a, b>>, c) = <<a, b, c>>
  BY Appended DEF Extended

\* An event that ends nothing leaves the replay open.
LEMMA OpenEvent ==
    ASSUME NEW entries, NEW n, NEW states, NEW emitted,
           entries[n].state \notin WaveTerminals
    PROVE  RebuildStep(entries, n, Open(states, emitted)) =
               Open(Extended(states, entries[n].state),
                    IF entries[n].state = "REFINING" THEN Joined(emitted, entries[n].actions)
                                                     ELSE emitted)
  <1>1. (IF entries[n].state = "ACCEPTED" THEN TRUE ELSE FALSE) = FALSE
    BY DEF WaveTerminals
  <1>2. (IF entries[n].state \in WaveTerminals THEN entries[n].reason ELSE "") = ""
    OBVIOUS
  <1> QED
    BY <1>1, <1>2, RebuildEvent, Zenon DEF Open

\* An event that ends the round settles its verdict and its reason.
LEMMA AcceptedEvent ==
    ASSUME NEW entries, NEW n, NEW states, NEW emitted, entries[n].state = "ACCEPTED"
    PROVE  RebuildStep(entries, n, Open(states, emitted)) =
               Result(TRUE, Extended(states, "ACCEPTED"), emitted, TRUE, entries[n].reason)
  <1>1. (IF entries[n].state = "ACCEPTED" THEN TRUE ELSE FALSE) = TRUE
    OBVIOUS
  <1>2. /\ (IF entries[n].state \in WaveTerminals THEN entries[n].reason ELSE "") = entries[n].reason
        /\ (IF entries[n].state = "REFINING" THEN Joined(emitted, entries[n].actions) ELSE emitted)
             = emitted
    BY DEF WaveTerminals
  <1> QED
    BY <1>1, <1>2, RebuildEvent, Zenon

LEMMA UnresolvedEvent ==
    ASSUME NEW entries, NEW n, NEW states, NEW emitted, entries[n].state = "UNRESOLVED"
    PROVE  RebuildStep(entries, n, Open(states, emitted)) =
               Result(TRUE, Extended(states, "UNRESOLVED"), emitted, FALSE, entries[n].reason)
  <1>1. (IF entries[n].state = "ACCEPTED" THEN TRUE ELSE FALSE) = FALSE
    OBVIOUS
  <1>2. /\ (IF entries[n].state \in WaveTerminals THEN entries[n].reason ELSE "") = entries[n].reason
        /\ (IF entries[n].state = "REFINING" THEN Joined(emitted, entries[n].actions) ELSE emitted)
             = emitted
    BY DEF WaveTerminals
  <1> QED
    BY <1>1, <1>2, RebuildEvent, Zenon

\* Both ledgers begin with a draft and its evaluation.
LEMMA RebuiltEvaluated ==
    ASSUME NEW entries, entries[1] = Drafted, entries[2] = Evaluated
    PROVE  Rebuilt(entries)[2] = Open(<<"DRAFT", "EVALUATED">>, <<>>)
  <1>1. Rebuilt(entries)[0] = Open(<<>>, <<>>)
    BY RebuiltFacts DEF RebuildStart, Open, Result
  <1>2. /\ Rebuilt(entries)[1] = RebuildStep(entries, 1, Rebuilt(entries)[0])
        /\ Rebuilt(entries)[2] = RebuildStep(entries, 2, Rebuilt(entries)[1])
    <2>1. 0 + 1 = 1 /\ 1 + 1 = 2 /\ 0 \in Nat /\ 1 \in Nat
      OBVIOUS
    <2> QED
      BY <2>1, RebuiltFacts
  <1>4. Extended(<<>>, "DRAFT") = <<"DRAFT">> /\ Extended(<<"DRAFT">>, "EVALUATED") = <<"DRAFT", "EVALUATED">>
    BY ExtendedIs
  <1>5. Rebuilt(entries)[1] = Open(<<"DRAFT">>, <<>>)
    <2>1. RebuildStep(entries, 1, Open(<<>>, <<>>))
            = Open(Extended(<<>>, "DRAFT"), <<>>)
      BY EventFields, OpenEvent
    <2> QED
      BY <1>1, <1>2, <1>4, <2>1
  <1>6. RebuildStep(entries, 2, Open(<<"DRAFT">>, <<>>))
          = Open(Extended(<<"DRAFT">>, "EVALUATED"), <<>>)
    BY EventFields, OpenEvent
  <1> QED
    BY <1>2, <1>4, <1>5, <1>6

\* An accepted round replays as accepted.
LEMMA ReplayAccepted ==
    ASSUME NEW s
    PROVE  replay_wave_ledger(<<Drafted, Evaluated, Accepted(s)>>) =
               Result(TRUE, <<"DRAFT", "EVALUATED", "ACCEPTED">>, <<>>, TRUE, "decision-value-met")
  <1> DEFINE l == <<Drafted, Evaluated, Accepted(s)>>
  <1>1. l[1] = Drafted /\ l[2] = Evaluated /\ l[3] = Accepted(s) /\ Len(l) = 3
    OBVIOUS
  <1> HIDE DEF l
  <1>2. Rebuilt(l)[2] = Open(<<"DRAFT", "EVALUATED">>, <<>>)
    BY <1>1, RebuiltEvaluated
  <1>3. Rebuilt(l)[3] = RebuildStep(l, 3, Rebuilt(l)[2])
    <2>1. 2 + 1 = 3 /\ 2 \in Nat
      OBVIOUS
    <2> QED
      BY <2>1, RebuiltFacts
  <1>4. RebuildStep(l, 3, Open(<<"DRAFT", "EVALUATED">>, <<>>))
          = Result(TRUE, Extended(<<"DRAFT", "EVALUATED">>, "ACCEPTED"), <<>>, TRUE, "decision-value-met")
    <2>1. l[3].state = "ACCEPTED" /\ l[3].reason = "decision-value-met"
      BY <1>1, EventFields
    <2> QED
      BY <2>1, AcceptedEvent
  <1>5. Extended(<<"DRAFT", "EVALUATED">>, "ACCEPTED") = <<"DRAFT", "EVALUATED", "ACCEPTED">>
    BY ExtendedIs
  <1>6. replay_wave_ledger(l) = Rebuilt(l)[3]
    BY <1>1 DEF replay_wave_ledger
  <1> QED
    BY <1>2, <1>3, <1>4, <1>5, <1>6 DEF l

\* A refined round replays as unresolved, with the refinements it emitted.
LEMMA ReplayUnresolved ==
    ASSUME NEW S, NEW s \in Seq(S), NEW reason
    PROVE  replay_wave_ledger(<<Drafted, Evaluated, Refining(s), Unsettled(reason)>>) =
               Result(TRUE, <<"DRAFT", "EVALUATED", "REFINING", "UNRESOLVED">>, s, FALSE, reason)
  <1> DEFINE l == <<Drafted, Evaluated, Refining(s), Unsettled(reason)>>
             three == <<"DRAFT", "EVALUATED", "REFINING">>
  <1>1. /\ l[1] = Drafted /\ l[2] = Evaluated /\ l[3] = Refining(s) /\ l[4] = Unsettled(reason)
        /\ Len(l) = 4
    OBVIOUS
  <1> HIDE DEF l
  <1>2. Rebuilt(l)[2] = Open(<<"DRAFT", "EVALUATED">>, <<>>)
    BY <1>1, RebuiltEvaluated
  <1>3. /\ Rebuilt(l)[3] = RebuildStep(l, 3, Rebuilt(l)[2])
        /\ Rebuilt(l)[4] = RebuildStep(l, 4, Rebuilt(l)[3])
    <2>1. 2 + 1 = 3 /\ 3 + 1 = 4 /\ 2 \in Nat /\ 3 \in Nat
      OBVIOUS
    <2> QED
      BY <2>1, RebuiltFacts
  <1>4. Rebuilt(l)[3] = Open(three, s)
    <2>1. RebuildStep(l, 3, Open(<<"DRAFT", "EVALUATED">>, <<>>))
            = Open(Extended(<<"DRAFT", "EVALUATED">>, "REFINING"), Joined(<<>>, s))
      BY <1>1, EventFields, OpenEvent
    <2>2. Extended(<<"DRAFT", "EVALUATED">>, "REFINING") = three
      BY ExtendedIs
    <2>3. Joined(<<>>, s) = s
      BY DEF Joined
    <2> QED
      BY <1>2, <1>3, <2>1, <2>2, <2>3
  <1>5. Rebuilt(l)[4] = Result(TRUE, <<"DRAFT", "EVALUATED", "REFINING", "UNRESOLVED">>, s, FALSE, reason)
    <2>1. RebuildStep(l, 4, Open(three, s))
            = Result(TRUE, Extended(three, "UNRESOLVED"), s, FALSE, reason)
      <3>1. l[4].state = "UNRESOLVED" /\ l[4].reason = reason
        BY <1>1, EventFields
      <3> QED
        BY <3>1, UnresolvedEvent
    <2>2. Extended(three, "UNRESOLVED") = <<"DRAFT", "EVALUATED", "REFINING", "UNRESOLVED">>
      BY AppendedFourth, Zenon DEF Extended
    <2> QED
      BY <1>3, <1>4, <2>1, <2>2
  <1>6. replay_wave_ledger(l) = Rebuilt(l)[4]
    BY <1>1 DEF replay_wave_ledger
  <1> QED
    BY <1>5, <1>6 DEF l

-----------------------------------------------------------------------------
(* The authority *)

\* The loop starts as a draft, and is kept by every step of the authority.
LEMMA LoopInductive ==
    /\ Init => LoopInv
    /\ LoopInv /\ [Next]_vars => LoopInv'
  <1>1. Init => LoopInv
    BY WaveAssumption DEF Init, WaveInit, LoopInv
  <1>2. ASSUME LoopInv, RunLoop PROVE LoopInv'
    BY <1>2, LoopStep DEF RunLoop
  <1>3. ASSUME LoopInv, LoopRaises PROVE LoopInv'
    <2>1. /\ ledger = <<>> /\ ledger' = ledger /\ loop' = "raised" /\ accepted' = FALSE
          /\ max_actions' \in Nat
      BY <1>3 DEF LoopInv, LoopRaises, wave_inputs
    <2> QED
      BY <2>1 DEF LoopInv
  <1>4. ASSUME LoopInv, [Next]_vars, ~RunLoop, ~LoopRaises PROVE LoopInv'
    <2>1. UNCHANGED wave_vars
      BY <1>4 DEF Next, vars, ExpectedFailures, Schema, FactorIR, ParticleSurface, Diagnostics,
                  LoopDone, Ledger, Replay, Uncaught, Publish, PublishError, Exited
    <2> QED
      BY <1>4, <2>1, LoopElsewhere
  <1> QED
    BY <1>1, <1>2, <1>3, <1>4

\* What the account of the loop says of a finished round.
LEMMA EndedReplay == LoopInv => ReplayAgrees
  <1> SUFFICES ASSUME LoopInv, loop = "ended" PROVE ReplayAgrees
    BY DEF ReplayAgrees
  <1>1. max_actions \in Nat
    BY DEF LoopInv
  <1>2. PICK s \in decision_actions : EndedWith(s)
    BY DEF LoopInv
  <1>3. s \in Seq(Proposed)
    BY <1>1, RankedType
  <1>4. CASE accepted
    <2>1. /\ accepted = TRUE /\ stop_reason = "decision-value-met"
          /\ ledger = <<Drafted, Evaluated, Accepted(s)>>
      BY <1>2, <1>4 DEF EndedWith
    <2>2. replay_wave_ledger(ledger) =
            Result(TRUE, <<"DRAFT", "EVALUATED", "ACCEPTED">>, <<>>, TRUE, "decision-value-met")
      BY <2>1, ReplayAccepted
    <2> DEFINE r == replay_wave_ledger(ledger)
    <2>3. /\ r.ok = TRUE /\ r.states = <<"DRAFT", "EVALUATED", "ACCEPTED">> /\ r.actions = <<>>
          /\ r.accepted = TRUE /\ r.terminal = "decision-value-met"
      BY <2>2 DEF Result
    <2> HIDE DEF r
    <2>4. r \in {replay_wave_ledger(ledger)}
      BY DEF r
    <2>5. r.accepted = accepted /\ r.ok
      BY <2>1, <2>3
    <2> QED
      BY <1>4, <2>1, <2>3, <2>4, <2>5 DEF ReplayAgrees
  <1>5. CASE ~accepted
    <2>1. /\ accepted = FALSE /\ actions = Append(s, "stop")
          /\ ledger = <<Drafted, Evaluated, Refining(s), Unsettled(stop_reason)>>
      BY <1>2, <1>5 DEF EndedWith
    <2>2. replay_wave_ledger(ledger) =
            Result(TRUE, <<"DRAFT", "EVALUATED", "REFINING", "UNRESOLVED">>, s, FALSE, stop_reason)
      BY <1>3, <2>1, ReplayUnresolved
    <2> DEFINE r == replay_wave_ledger(ledger)
    <2>3. /\ r.ok = TRUE /\ r.states = <<"DRAFT", "EVALUATED", "REFINING", "UNRESOLVED">>
          /\ r.actions = s /\ r.accepted = FALSE /\ r.terminal = stop_reason
      BY <2>2 DEF Result
    <2> HIDE DEF r
    <2>4. r \in {replay_wave_ledger(ledger)}
      BY DEF r
    <2>5. r.accepted = accepted /\ r.ok /\ Append(r.actions, "stop") = actions
      BY <2>1, <2>3
    <2> QED
      BY <1>5, <2>3, <2>4, <2>5 DEF ReplayAgrees
  <1> QED
    BY <1>4, <1>5

LEMMA EndedVerdict == LoopInv => VerdictFitsActions
  <1> SUFFICES ASSUME LoopInv, loop = "ended" PROVE VerdictFitsActions
    BY DEF VerdictFitsActions
  <1>1. max_actions \in Nat
    BY DEF LoopInv
  <1>2. PICK s \in decision_actions : EndedWith(s)
    BY DEF LoopInv
  <1>3. s \in Seq(Proposed) /\ actions = Append(s, "stop")
    BY <1>1, <1>2, RankedType DEF EndedWith
  <1>4. /\ DOMAIN s = 1..Len(s) /\ Len(s) \in Nat /\ DOMAIN actions = 1..(Len(s) + 1)
        /\ Len(actions) = Len(s) + 1 /\ actions[Len(s) + 1] = "stop"
        /\ \A i \in 1..Len(s) : actions[i] = s[i] /\ s[i] \in Proposed
    BY <1>3
  <1>5. {i \in DOMAIN actions : actions[i] = "stop"} = {Len(actions)}
    BY <1>4, ProposedFacts
  <1>6. accepted => "measure" \notin Range(actions)
    <2> SUFFICES ASSUME accepted, NEW i \in DOMAIN actions, actions[i] = "measure" PROVE FALSE
      BY DEF Range
    <2>1. "measure" \notin Proposed
      BY <1>2, ProposedFacts DEF EndedWith, Useful
    <2>2. i \in 1..Len(s)
      BY <1>4
    <2> QED
      BY <1>4, <2>1, <2>2
  <1>7. stop_reason = "marginal-value-insufficient" => ~ess_ok
    BY <1>2 DEF EndedWith, Useful, UnresolvedReason
  <1> QED
    BY <1>5, <1>6, <1>7 DEF VerdictFitsActions

(* Each component of the provenance stands for the work it names, and none *)
(* is recorded before its stage; past the expected failures, no mapping    *)
(* that had to fail compiles.                                              *)
Stages == {"expected failures", "authority error", "schema", "factor", "surface", "diagnostics",
           "loop", "ledger", "replay", "publish", "exit"}

AuthorityInv ==
    /\ stage \in Stages
    /\ stage \in {"expected failures", "authority error"} => components = {}
    /\ stage \notin {"expected failures", "authority error", "exit"} => ExpectedFailuresFail
    /\ stage \in {"schema", "factor"} => "factor_ir" \notin components
    /\ stage \in {"schema", "factor", "surface"} => "particle_surface" \notin components
    /\ stage \notin {"replay", "publish", "exit"} => "wave_ledger" \notin components
    /\ stage \notin {"publish", "exit"} => "wave_replay" \notin components
    /\ invoked \subseteq Components
    /\ \A c \in components \ {"wave_ledger", "wave_replay"} : c \in invoked
    /\ "wave_loop" \in components => loop = "ended"
    /\ "wave_ledger" \in components /\ loop = "ended" => "wave_ledger" \in invoked
    /\ "wave_replay" \in components /\ ledger # <<>> => "wave_replay" \in invoked
    /\ "factor_ir" \in components => DOMAIN compiled = Legal
    /\ "particle_surface" \in components => surface = Legal
    /\ stage = "publish" => replay = IF ledger = <<>> THEN NoReplay ELSE replay_wave_ledger(ledger)
    /\ exit_code = 0 => stage = "exit" /\ SuccessIsComplete

\* The command starts with nothing recorded.
LEMMA AuthorityInit == Init => AuthorityInv
  <1> SUFFICES ASSUME Init PROVE AuthorityInv
    OBVIOUS
  <1>1. stage = "expected failures" /\ components = {} /\ invoked = {}
    BY DEF Init
  <1>2. exit_code # 0
    <2>1. exit_code = -1
      BY DEF Init
    <2> QED
      BY <2>1
  <1> QED
    BY <1>1, <1>2 DEF AuthorityInv, Stages

\* What the stages read of the mappings does not change.
LEMMA MappingFixed ==
    ASSUME mapping' = mapping
    PROVE  Legal' = Legal /\ ExpectedFailuresFail' = ExpectedFailuresFail
  BY DEF Legal, ExpectedFailuresFail

\* A mapping that fails both ways is compiled as nothing.
LEMMA FailedIsNothing ==
    ASSUME ExpectedFailuresFail, NEW m \in Mappings \ Legal
    PROVE  CompiledAs(mapping[m]) = {}
  BY DEF ExpectedFailuresFail, CompiledAs

\* No step before the last one leaves a successful exit behind.
LEMMA NotExited ==
    ASSUME AuthorityInv, stage # "exit", exit_code' = exit_code
    PROVE  exit_code' # 0
  BY DEF AuthorityInv

\* What a stage keeps of the authority while it does its own work.
LEMMA LoopStageKeeps ==
    ASSUME AuthorityInv, stage = "loop", loop # "ended", UNCHANGED authority_vars
    PROVE  AuthorityInv'
  <1>1. /\ mapping' = mapping /\ stage' = "loop" /\ components' = components /\ invoked' = invoked
        /\ compiled' = compiled /\ surface' = surface /\ replay' = replay /\ exit_code' = exit_code
    BY DEF authority_vars
  <1>2. Legal' = Legal /\ ExpectedFailuresFail' = ExpectedFailuresFail
    BY <1>1, MappingFixed
  <1>3. exit_code' # 0
    BY <1>1, NotExited
  <1> QED
    BY <1>1, <1>2, <1>3 DEF AuthorityInv, Stages

\* A step of the command keeps the account.
LEMMA AuthorityStep == ASSUME LoopInv, AuthorityInv, Next PROVE AuthorityInv'
  <1>1. CASE ExpectedFailures
    <2>1. /\ mapping' = mapping /\ components' = components /\ invoked' = invoked
          /\ compiled' = compiled /\ surface' = surface /\ exit_code' = exit_code
          /\ stage = "expected failures" /\ loop' = loop /\ ledger' = ledger
          /\ stage' = IF ExpectedFailuresFail THEN "schema" ELSE "authority error"
      BY <1>1 DEF ExpectedFailures, wave_vars
    <2>2. Legal' = Legal /\ ExpectedFailuresFail' = ExpectedFailuresFail
      BY <2>1, MappingFixed
    <2>3. exit_code' # 0
      BY <2>1, NotExited
    <2> QED
      BY <2>1, <2>2, <2>3 DEF AuthorityInv, Stages, Components
  <1>2. CASE Schema
    <2>1. /\ mapping' = mapping /\ compiled' = compiled /\ surface' = surface
          /\ exit_code' = exit_code /\ stage = "schema" /\ stage' = "factor"
          /\ loop' = loop /\ ledger' = ledger
          /\ components' \in {components, components \cup {"joint_schema"}}
          /\ invoked' = invoked \cup {"joint_schema"}
      BY <1>2 DEF Schema, _record, Invokes, wave_vars
    <2>2. Legal' = Legal /\ ExpectedFailuresFail' = ExpectedFailuresFail
      BY <2>1, MappingFixed
    <2>3. exit_code' # 0
      BY <2>1, NotExited
    <2> QED
      BY <2>1, <2>2, <2>3 DEF AuthorityInv, Stages, Components
  <1>3. CASE FactorIR
    <2>1. PICK done \in SUBSET Compilable :
              /\ compiled' = [m \in done |-> CHOOSE k \in CompiledAs(mapping[m]) : TRUE]
              /\ components' = components \cup {c \in {"factor_ir"} : done = Legal}
      BY <1>3 DEF FactorIR, _record
    <2>2. /\ mapping' = mapping /\ surface' = surface
          /\ exit_code' = exit_code /\ stage = "factor" /\ stage' = "surface"
          /\ loop' = loop /\ ledger' = ledger
          /\ invoked' = invoked \cup {"factor_ir"}
      BY <1>3 DEF FactorIR, Invokes, wave_vars
    <2>3. Legal' = Legal /\ ExpectedFailuresFail' = ExpectedFailuresFail
      BY <2>2, MappingFixed
    <2>4. exit_code' # 0
      BY <2>2, NotExited
    <2>5. /\ DOMAIN compiled' = done
          /\ components' \subseteq components \cup {"factor_ir"} /\ components \subseteq components'
          /\ "factor_ir" \in components' => done = Legal
      BY <2>1, <2>2 DEF AuthorityInv
    <2> QED
      BY <2>2, <2>3, <2>4, <2>5 DEF AuthorityInv, Stages, Components
  <1>4. CASE ParticleSurface
    <2>1. /\ mapping' = mapping /\ compiled' = compiled /\ exit_code' = exit_code
          /\ stage = "surface" /\ stage' = "diagnostics"
          /\ loop' = loop /\ ledger' = ledger
          /\ \/ /\ surface' = Legal \/ components' = components
                /\ components' \in {components, components \cup {"particle_surface"}}
                /\ invoked' = invoked \cup {"particle_surface"}
             \/ components' = components /\ invoked' = invoked
      BY <1>4 DEF ParticleSurface, _record, Invokes, wave_vars
    <2>2. Legal' = Legal /\ ExpectedFailuresFail' = ExpectedFailuresFail
      BY <2>1, MappingFixed
    <2>3. exit_code' # 0
      BY <2>1, NotExited
    <2> QED
      BY <2>1, <2>2, <2>3 DEF AuthorityInv, Stages, Components
  <1>5. CASE Diagnostics
    <2>1. /\ mapping' = mapping /\ compiled' = compiled /\ surface' = surface
          /\ exit_code' = exit_code /\ stage = "diagnostics" /\ stage' = "loop"
          /\ loop' = loop /\ ledger' = ledger
          /\ \/ /\ components' \in {components, components \cup {"wave_diagnostics"}}
                /\ invoked' = invoked \cup {"wave_diagnostics"}
             \/ components' = components /\ invoked' = invoked
      BY <1>5 DEF Diagnostics, _record, Invokes, wave_vars
    <2>2. Legal' = Legal /\ ExpectedFailuresFail' = ExpectedFailuresFail
      BY <2>1, MappingFixed
    <2>3. exit_code' # 0
      BY <2>1, NotExited
    <2> QED
      BY <2>1, <2>2, <2>3 DEF AuthorityInv, Stages, Components
  <1>6. CASE LoopRaises
    BY <1>6, LoopStageKeeps DEF LoopRaises
  <1>7. CASE RunLoop
    <2>1. loop # "ended"
      BY <1>7 DEF RunLoop, WaveNext, Draft, EvaluateSurface, Accept, Refine, Unresolved
    <2> QED
      BY <1>7, <2>1, LoopStageKeeps DEF RunLoop
  <1>8. CASE LoopDone
    <2>1. /\ mapping' = mapping /\ compiled' = compiled /\ surface' = surface
          /\ exit_code' = exit_code /\ stage = "loop" /\ stage' = "ledger"
          /\ loop' = loop /\ ledger' = ledger
          /\ components' = components \cup {c \in {"wave_loop"} : loop = "ended"}
          /\ invoked' = invoked \cup {"wave_loop"}
      BY <1>8 DEF LoopDone, _record, Invokes, wave_vars
    <2>2. Legal' = Legal /\ ExpectedFailuresFail' = ExpectedFailuresFail
      BY <2>1, MappingFixed
    <2>3. exit_code' # 0
      BY <2>1, NotExited
    <2> QED
      BY <2>1, <2>2, <2>3 DEF AuthorityInv, Stages, Components
  <1>9. CASE Ledger
    <2>1. /\ mapping' = mapping /\ compiled' = compiled /\ surface' = surface
          /\ exit_code' = exit_code /\ stage = "ledger" /\ stage' = "replay"
          /\ loop' = loop /\ ledger' = ledger
          /\ components' = components \cup {"wave_ledger"}
          /\ invoked' = invoked \cup {c \in {"wave_ledger"} : loop = "ended"}
      BY <1>9 DEF Ledger, _record, wave_vars
    <2>2. Legal' = Legal /\ ExpectedFailuresFail' = ExpectedFailuresFail
      BY <2>1, MappingFixed
    <2>3. exit_code' # 0
      BY <2>1, NotExited
    <2> QED
      BY <2>1, <2>2, <2>3 DEF AuthorityInv, Stages, Components
  <1>10. CASE Replay
    <2>1. /\ mapping' = mapping /\ compiled' = compiled /\ surface' = surface
          /\ exit_code' = exit_code /\ stage = "replay" /\ stage' = "publish"
          /\ loop' = loop /\ ledger' = ledger
          /\ components' \in {components, components \cup {"wave_replay"}}
          /\ invoked' = invoked \cup {c \in {"wave_replay"} : ledger # <<>>}
      BY <1>10 DEF Replay, _record, wave_vars
    <2>2. Legal' = Legal /\ ExpectedFailuresFail' = ExpectedFailuresFail
      BY <2>1, MappingFixed
    <2>3. exit_code' # 0
      BY <2>1, NotExited
    <2>4. replay' = IF ledger' = <<>> THEN NoReplay ELSE replay_wave_ledger(ledger')
      BY <1>10, <2>1 DEF Replay
    <2> QED
      BY <2>1, <2>2, <2>3, <2>4 DEF AuthorityInv, Stages, Components
  <1>11. CASE Uncaught
    <2>1. /\ mapping' = mapping /\ components' = components /\ invoked' = invoked
          /\ compiled' = compiled /\ surface' = surface /\ exit_code' = 1
          /\ stage \in {"expected failures", "surface"} /\ stage' = "exit"
          /\ loop' = loop /\ ledger' = ledger
      BY <1>11 DEF Uncaught, wave_vars
    <2>2. Legal' = Legal
      BY <2>1, MappingFixed
    <2>3. exit_code' # 0
      <3>1. exit_code' = 1
        BY <2>1
      <3> QED
        BY <3>1
    <2> QED
      BY <2>1, <2>2, <2>3 DEF AuthorityInv, Stages, Components
  <1>12. CASE PublishError
    <2>1. /\ mapping' = mapping /\ components' = components /\ invoked' = invoked
          /\ compiled' = compiled /\ surface' = surface /\ exit_code' = 2
          /\ stage = "authority error" /\ stage' = "exit"
          /\ loop' = loop /\ ledger' = ledger
      BY <1>12 DEF PublishError, wave_vars
    <2>2. Legal' = Legal
      BY <2>1, MappingFixed
    <2>3. exit_code' # 0
      <3>1. exit_code' = 2
        BY <2>1
      <3> QED
        BY <3>1
    <2> QED
      BY <2>1, <2>2, <2>3 DEF AuthorityInv, Stages, Components
  <1>13. CASE Publish
    <2>1. /\ mapping' = mapping /\ components' = components /\ invoked' = invoked
          /\ compiled' = compiled /\ surface' = surface /\ replay' = replay
          /\ stage = "publish" /\ wave_vars' = wave_vars /\ stage' = "exit"
          /\ printed' = IF accepted THEN "result-found" ELSE "insufficient-information"
          /\ exit_code' = IF components # Components THEN 3 ELSE IF ledger = <<>> THEN 4 ELSE 0
      BY <1>13 DEF Publish
    <2>2. /\ Legal' = Legal /\ loop' = loop /\ ledger' = ledger
          /\ ExpectedFailuresFail' = ExpectedFailuresFail
      BY <2>1, MappingFixed DEF wave_vars
    <2>3. ASSUME exit_code' = 0 PROVE SuccessIsComplete'
      <3>1. components = Components /\ ledger # <<>>
        BY <2>1, <2>3
      <3>2. loop = "ended"
        BY <3>1 DEF AuthorityInv, Components
      <3>3. invoked' = Components
        BY <2>1, <3>1, <3>2 DEF AuthorityInv, Components
      <3>4. surface' = Legal' /\ DOMAIN compiled' = Legal'
        BY <2>1, <2>2, <3>1 DEF AuthorityInv, Components
      <3>5. \A m \in Mappings \ Legal' : CompiledAs(mapping[m])' = {}
        <4>1. ExpectedFailuresFail
          BY <2>1 DEF AuthorityInv
        <4>2. \A m \in Mappings \ Legal : CompiledAs(mapping[m]) = {}
          BY <4>1, FailedIsNothing
        <4> QED
          BY <2>1, <2>2, <4>2
      <3>6. replay = replay_wave_ledger(ledger)
        BY <2>1, <3>1 DEF AuthorityInv
      <3>7. replay.ok /\ replay.accepted = accepted
        BY <3>2, <3>6, EndedReplay DEF ReplayAgrees
      <3>8. replay'.ok /\ (printed' = "result-found" <=> replay'.accepted)
        BY <2>1, <3>7
      <3> QED
        BY <3>3, <3>4, <3>5, <3>8 DEF SuccessIsComplete
    <2> QED
      BY <2>1, <2>2, <2>3 DEF AuthorityInv, Stages, Components
  <1>14. CASE Exited
    <2>1. /\ mapping' = mapping /\ components' = components /\ invoked' = invoked
          /\ compiled' = compiled /\ surface' = surface /\ replay' = replay
          /\ stage' = stage /\ stage = "exit" /\ wave_vars' = wave_vars /\ printed' = printed
          /\ exit_code' = exit_code
      BY <1>14 DEF Exited, vars, authority_vars
    <2>2. Legal' = Legal /\ loop' = loop /\ ledger' = ledger
      BY <2>1, MappingFixed DEF wave_vars
    <2>3. SuccessIsComplete => SuccessIsComplete'
      BY <2>1, <2>2 DEF SuccessIsComplete, CompiledAs
    <2> QED
      BY <2>1, <2>2, <2>3 DEF AuthorityInv, Stages, Components
  <1> QED
    BY <1>1, <1>2, <1>3, <1>4, <1>5, <1>6, <1>7, <1>8, <1>9, <1>10, <1>11, <1>12, <1>13, <1>14 DEF Next

-----------------------------------------------------------------------------
(* The theorems *)

\* The round's account and the authority's hold throughout.
LEMMA AccountsInductive ==
    ASSUME LoopInv, AuthorityInv, [Next]_vars PROVE LoopInv' /\ AuthorityInv'
  <1>1. LoopInv'
    BY LoopInductive
  <1>2. CASE Next
    BY <1>1, <1>2, AuthorityStep
  <1>3. CASE UNCHANGED vars
    <2>1. CASE stage = "exit"
      BY <1>1, <1>3, <2>1, AuthorityStep DEF Next, Exited
    <2>2. CASE stage # "exit"
      <3>1. /\ mapping' = mapping /\ components' = components /\ invoked' = invoked
            /\ compiled' = compiled /\ surface' = surface /\ replay' = replay
            /\ stage' = stage /\ loop' = loop /\ ledger' = ledger /\ exit_code' = exit_code
        BY <1>3 DEF vars, wave_vars, authority_vars
      <3>2. Legal' = Legal /\ ExpectedFailuresFail' = ExpectedFailuresFail
        BY <3>1, MappingFixed
      <3>3. exit_code' # 0
        BY <2>2, <3>1, NotExited
      <3>4. stage = "publish" =>
                replay' = IF ledger' = <<>> THEN NoReplay ELSE replay_wave_ledger(ledger')
        BY <3>1 DEF AuthorityInv
      <3> QED
        BY <1>1, <3>1, <3>2, <3>3, <3>4 DEF AuthorityInv, Stages, Components
    <2> QED
      BY <2>1, <2>2
  <1> QED
    BY <1>1, <1>2, <1>3

\* The ledger tells, event by event, what the round has come to, wherever the
\* round stands and whatever the stages around it do.
THEOREM LoopHolds == Spec => [](LoopInv /\ AuthorityInv)
  <1>1. Init => LoopInv /\ AuthorityInv
    BY AuthorityInit, LoopInductive
  <1>2. LoopInv /\ AuthorityInv /\ [Next]_vars => (LoopInv /\ AuthorityInv)'
    BY AccountsInductive
  <1> QED
    BY <1>1, <1>2, PTL DEF Spec

\* replay_wave_ledger rebuilds from the ledger the verdict, the reason and the
\* refinements run_wave_loop returns, for any axes, diagnostics and budget.
THEOREM ReplayCorrect == Spec => []ReplayAgrees
  <1> QED
    BY LoopHolds, EndedReplay, PTL

\* run_wave_loop never returns a verdict its own actions contradict: nothing is
\* measured on an accepted surface, and a round ends in exactly one stop.
THEOREM VerdictCorrect == Spec => []VerdictFitsActions
  <1> QED
    BY LoopHolds, EndedVerdict, PTL

\* The command exits with success only with every stage run, a surface of every
\* legal mapping and of no mapping that had to fail, and a verdict that is the
\* one its ledger replays to.
THEOREM SuccessCorrect == Spec => []SuccessIsComplete
  <1>1. AuthorityInv => SuccessIsComplete
    BY DEF AuthorityInv, SuccessIsComplete
  <1> QED
    BY <1>1, LoopHolds, PTL
=============================================================================
