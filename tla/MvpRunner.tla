----------------------------- MODULE MvpRunner ------------------------------
(***************************************************************************)
(* The script runner of the wave MVP.  One run compiles the fixture,       *)
(* evaluates a surface, chooses one typed action and concludes; a regime   *)
(* split evaluates a second surface.  Its ledger is projected onto the     *)
(* search ledger, sanitized and replayed by search_replay.  The replay     *)
(* command runs the fixture twice more and compares the ledgers.           *)
(*                                                                         *)
(* A surface is what the choice of the action reads of the diagnostics and *)
(* what its evaluations record; it is a function of the fixture and of     *)
(* where the number of particles and the seed come from.  Of the numbers   *)
(* an event records the replay tells apart those JSON has and those it has *)
(* not: NaN and the infinities.                                            *)
(***************************************************************************)
EXTENDS Integers, Sequences

CONSTANT MaxRounds     \* bound on max_rounds of the fixtures

\* The numbers of an event; an evaluation that raises records none.
Recordings == {"finite", "non-finite", "none"}

Surfaces == [failing : BOOLEAN,    \* some axis misses its tolerance
             bimodal : BOOLEAN,    \* some axis has several modes
             residual : BOOLEAN,   \* the worst failing axis leaves half unexplained
             spread : BOOLEAN,     \* the particles are not all alike
             first : Recordings,   \* diagnostics and decision of the first round
             second : Recordings]  \* and of the round a regime split opens

\* Fixtures that parse.  Their numbers are the domains, tolerances and bounds.
Fixtures == [adapters : BOOLEAN, particles : BOOLEAN, ablatable : BOOLEAN,
             max_rounds : 1..MaxRounds,
             split : {"none", "unknown variable", "known variable"},
             numbers : {"finite", "non-finite"}]

\* The candidates of the projection: the run itself and its regimes.
Candidates  == 0..2
NoCandidate == -1

VARIABLES fixture, surface, ledger, action, status, pc,
          drawn,       \* where the particle count and the seed come from
          saved,       \* of the runs that are over: ledger and particles
          outcome      \* of the replay command

vars == <<fixture, surface, drawn, ledger, action, status, pc, saved, outcome>>

Init ==
    /\ fixture \in Fixtures /\ surface \in Surfaces
    /\ ledger = <<>> /\ action = "" /\ status = "" /\ pc = "start"
    /\ saved = <<>> /\ outcome = ""
    /\ drawn = IF fixture.particles THEN "fixture" ELSE "run default"

event(state, candidate, round, numbers) ==
    [state |-> state, candidate |-> candidate, round |-> round, numbers |-> numbers]

push_events(events) == ledger' = ledger \o events

\* The branches of _select_action are tried in order.
select_action(s) ==
    IF ~s.failing /\ ~s.bimodal THEN "stop"
    ELSE IF s.bimodal /\ fixture.split # "none" THEN "split_regime"
    ELSE IF s.failing /\ s.residual THEN "add_interaction"
    ELSE IF s.spread THEN "measure"
    ELSE IF fixture.ablatable THEN "minimize" ELSE "stop"

-----------------------------------------------------------------------------
\* Without the adapters the fixture asks for, the run refuses to start.
Unavailable ==
    /\ pc = "start" /\ ~fixture.adapters
    /\ status' = "integration_unavailable" /\ pc' = "exit"
    /\ UNCHANGED <<fixture, surface, drawn, ledger, action, saved, outcome>>

Compile ==
    /\ pc = "start" /\ fixture.adapters
    /\ push_events(<<event("COMPILE", 0, 0, fixture.numbers)>>)
    /\ pc' = "evaluate"
    /\ UNCHANGED <<fixture, surface, drawn, action, status, saved, outcome>>

\* The replay reads no further than the first event with a number it refuses:
\* the widths an action repeats from the diagnostics count with the evaluation.
Evaluate ==
    /\ pc = "evaluate" /\ surface.first # "none"
    /\ action' = select_action(surface)
    /\ push_events(<<event("EVALUATE", 0, 1, surface.first), event("ACTION", 0, 1, "finite")>>)
    /\ pc' = "conclude"
    /\ UNCHANGED <<fixture, surface, drawn, status, saved, outcome>>

\* The histogram of a marginal raises when an outcome is not finite.
EvaluationRaises ==
    /\ pc = "evaluate" /\ surface.first = "none"
    /\ pc' = "raised"
    /\ UNCHANGED <<fixture, surface, drawn, ledger, action, status, saved, outcome>>

Concludes(events, verdict) ==
    /\ pc = "conclude"
    /\ push_events(events) /\ status' = verdict /\ pc' = "project"
    /\ UNCHANGED <<fixture, surface, drawn, action, saved, outcome>>

ConcludeStop ==
    /\ action = "stop"
    /\ Concludes(<<event("RESULT", 0, 1, "finite")>>, "result-found")

\* The second surface is evaluated and recorded; its decision is not read.
Split ==
    /\ action = "split_regime" /\ fixture.split = "known variable"
    /\ 2 <= fixture.max_rounds /\ surface.second # "none"
    /\ Concludes(<<event("EXPAND", 0, 2, "finite"), event("EVALUATE", 0, 2, surface.second),
                   event("RESULT", 0, 2, "finite")>>,
                 "budget-exhausted")

SplitRaises ==
    /\ pc = "conclude"
    /\ action = "split_regime" /\ fixture.split = "known variable"
    /\ 2 <= fixture.max_rounds /\ surface.second = "none"
    /\ push_events(<<event("EXPAND", 0, 2, "finite")>>)
    /\ pc' = "raised"
    /\ UNCHANGED <<fixture, surface, drawn, action, status, saved, outcome>>

\* No round is left for the split, or max_seconds are over.
SplitOverBudget ==
    /\ action = "split_regime" /\ fixture.split = "known variable"
    /\ Concludes(<<event("STOP", 0, 1, "finite")>>, "budget-exhausted")

ConcludeUnresolved ==
    /\ action # "stop" /\ ~(action = "split_regime" /\ fixture.split = "known variable")
    /\ Concludes(<<event("STOP", 0, 1, "finite")>>, "insufficient-information")

-----------------------------------------------------------------------------
Retargeted == {"EVALUATE", "ACTION", "RESULT"}

\* Fault: what follows an EXPAND stays with the run's own candidate.
CandidateNotRetargeted(p, e) ==
    IF e.state = "STOP" THEN NoCandidate
    ELSE IF e.state = "EXPAND" THEN p.regimes + 1 ELSE e.candidate

\* An EXPAND opens a regime; what follows up to its result is about the regime.
CandidateOf(p, e) ==
    IF e.state = "STOP" THEN NoCandidate
    ELSE IF e.state = "EXPAND" THEN p.regimes + 1
    ELSE IF e.state \in Retargeted /\ p.regime # 0 THEN p.regime ELSE e.candidate

\* An entry carries the numbers of its event and the hash of what it carries.
add_entry(state, c, e) ==
    [state |-> state, candidate |-> c, round |-> e.round, numbers |-> e.numbers,
     payload_hash |-> e.numbers]

Entries(p, e, c) ==
    LET validate == IF c \in p.validated THEN <<>> ELSE <<add_entry("VALIDATE", c, e)>>
        evaluate == validate \o <<add_entry("EVALUATE", c, e)>>
    IN CASE e.state = "COMPILE"  -> <<add_entry("SEED", c, e)>>
         [] e.state = "EVALUATE" -> evaluate
         [] e.state = "ACTION"   -> (IF c \in p.evaluated THEN <<>> ELSE evaluate)
                                        \o <<add_entry("RANK", c, e)>>
         [] OTHER                -> <<add_entry(e.state, c, e)>>

\* _project_wave_ledger_to_search_schema
ProjectEvent(events, n, p) ==
    LET e    == events[n]
        c    == CandidateOf(p, e)
        seen == {d \in {c} : e.state \in {"EVALUATE", "ACTION"}}
    IN [entries   |-> p.entries \o Entries(p, e, c),
        validated |-> p.validated \cup seen,
        evaluated |-> p.evaluated \cup seen,
        regimes   |-> IF e.state = "EXPAND" THEN p.regimes + 1 ELSE p.regimes,
        regime    |-> IF e.state = "EXPAND" THEN c
                      ELSE IF e.state = "RESULT" THEN 0 ELSE p.regime]

EmptyProjection == [entries |-> <<>>, validated |-> {}, evaluated |-> {},
                    regimes |-> 0, regime |-> 0]

Projection(events) ==
    LET upto[n \in Nat] == IF n = 0 THEN EmptyProjection
                           ELSE ProjectEvent(events, n, upto[n - 1])
    IN  upto[Len(events)]

Projected(events) == Projection(events).entries

\* Numbers that JSON has not become text; the hashes stay as they are.
sanitize_for_json(entries) ==
    [n \in DOMAIN entries |->
        IF entries[n].numbers = "non-finite" THEN [entries[n] EXCEPT !.numbers = "text"]
        ELSE entries[n]]

\* The digest the replay takes of an entry is the hash the entry came with; it
\* takes none of a number that JSON has not.
HashMatches(entry) == entry.numbers # "non-finite" /\ entry.payload_hash = entry.numbers

Search == INSTANCE SearchReplay WITH replayed <- saved, Rounds <- 0..2

Replayed(events) == Search!Replays(sanitize_for_json(Projected(events)))

\* The run ends with the replay of the projected ledger, which raises when it
\* does not accept an entry or finds another hash.
Project ==
    /\ pc = "project"
    /\ LET entries == sanitize_for_json(Projected(ledger))
       IN  pc' = IF /\ \A n \in DOMAIN entries : HashMatches(entries[n])
                    /\ Search!Replays(entries).ok
                 THEN "over" ELSE "raised"
    /\ UNCHANGED <<fixture, surface, drawn, ledger, action, status, saved, outcome>>

Recorded == [ledger |-> ledger, drawn |-> drawn]

\* Fault: the defaults of the replay overwrite the particles of the fixture.
RerunOverwriting ==
    /\ pc = "over" /\ Len(saved) < 2 /\ \A i \in DOMAIN saved : saved[i] = Recorded
    /\ saved' = Append(saved, Recorded)
    /\ ledger' = <<>> /\ action' = "" /\ status' = "" /\ pc' = "start"
    /\ drawn' = "replay default"
    /\ surface' \in Surfaces
    /\ UNCHANGED <<fixture, outcome>>

\* The run command writes the ledger; the replay command runs the fixture again,
\* and a second time when the ledgers agree.  Where the fixture leaves the
\* particles open, the replay fills in other defaults than the run did.
Rerun ==
    /\ pc = "over" /\ Len(saved) < 2 /\ \A i \in DOMAIN saved : saved[i] = Recorded
    /\ saved' = Append(saved, Recorded)
    /\ ledger' = <<>> /\ action' = "" /\ status' = "" /\ pc' = "start"
    /\ \/ fixture.particles /\ UNCHANGED <<surface, drawn>>
       \/ /\ ~fixture.particles
          /\ drawn' = "replay default"
          /\ surface' \in Surfaces
    /\ UNCHANGED <<fixture, outcome>>

\* The command writes and compares sanitized ledgers; a run that was replayed to
\* its end recorded nothing that the sanitizing changes.
Compare ==
    /\ pc = "over" /\ Len(saved) > 0
    /\ outcome' = IF saved[Len(saved)] = Recorded THEN "ok"
                  ELSE IF Len(saved) = 1 THEN "ledger_mismatch" ELSE "non_deterministic"
    /\ Len(saved) = 2 \/ saved[1] # Recorded
    /\ pc' = "exit"
    /\ UNCHANGED <<fixture, surface, drawn, ledger, action, status, saved>>

Exited == pc \in {"exit", "raised"} /\ UNCHANGED vars

Next == \/ Unavailable \/ Compile \/ Evaluate \/ EvaluationRaises \/ ConcludeStop \/ Split
        \/ SplitRaises \/ SplitOverBudget \/ ConcludeUnresolved \/ Project \/ Rerun
        \/ Compare \/ Exited

Spec == Init /\ [][Next]_vars

-----------------------------------------------------------------------------
NonFinite(events) == \E n \in DOMAIN events : events[n].numbers = "non-finite"

\* A run that concluded raises in the replay of its projected ledger when, and
\* only when, an event recorded a number that JSON has not: the transitions are
\* accepted whatever the run did, and no candidate is left to evaluate.
ProjectionReplays ==
    pc \in {"over", "raised"} /\ status # "" =>
        /\ pc = "raised" <=> NonFinite(ledger)
        /\ pc = "over" => Search!pending_candidates(Replayed(ledger).replay) = {}

\* A replay of the same fixture differs from the saved ledger for two reasons
\* only: the fixture leaves the particles open, and then it always differs; or
\* the run came to a regime split it had rounds for, where the clock decides.
ReplayDivergesWithCause ==
    /\ outcome = "ok" => fixture.particles
    /\ outcome = "ledger_mismatch" =>
           ~fixture.particles \/ (action = "split_regime" /\ fixture.split = "known variable"
                                                         /\ fixture.max_rounds >= 2)
    /\ outcome = "non_deterministic" =>
           action = "split_regime" /\ fixture.split = "known variable" /\ fixture.max_rounds >= 2
=============================================================================
