---------------------------- MODULE SearchReplay ----------------------------
(***************************************************************************)
(* What replay_search_ledger accepts.  It reads the entries of an exported *)
(* ledger in order and keeps what it has seen of every candidate; an entry *)
(* it does not accept makes it raise.  Its specification is therefore the  *)
(* contract of everything that writes such a ledger: the search loop and   *)
(* the projection of the wave runner's ledger.                             *)
(*                                                                         *)
(* Hashes, identifiers and revisions of the entries are not modelled: the  *)
(* ledger makes them from the entry and its place.  The wave runner makes  *)
(* the hashes of its projection itself, and MvpRunner checks those.        *)
(***************************************************************************)
EXTENDS Integers, Sequences

CONSTANTS Candidates, NoCandidate,
          Rounds         \* the round indices an entry may carry

VARIABLE replayed

States == {"SEED", "EXPAND", "MINIMIZE", "VALIDATE", "EVALUATE", "REJECT",
           "RANK", "RESULT", "STOP"}
Activations == {"SEED", "EXPAND", "MINIMIZE"}
Terminals   == {"RESULT", "STOP"}

Events == [candidate : Candidates \cup {NoCandidate}, state : States, round : Rounds]

EmptyReplay == [activated |-> {}, validated |-> {}, evaluated |-> {}, rejected |-> {},
                ranked |-> {}, terminal |-> FALSE, round |-> 0]

Completed(r) == r.evaluated \cup r.rejected

\* The candidates a checkpoint hands over as activated and not yet evaluated.
pending_candidates(r) == r.activated \ Completed(r)

Transition(r, e) ==
    \/ e.state \in Activations /\ e.candidate # NoCandidate /\ e.candidate \notin r.activated
    \/ e.state = "VALIDATE" /\ e.candidate \in r.activated \ (Completed(r) \cup r.validated)
    \/ e.state \in {"EVALUATE", "REJECT"} /\ e.candidate \in r.validated \ Completed(r)
    \/ e.state = "RANK" /\ e.candidate \in r.evaluated \ r.ranked
    \/ e.state = "RESULT" /\ e.candidate \in Completed(r)
    \/ e.state = "STOP" /\ e.candidate = NoCandidate

Accepts(r, e) == ~r.terminal /\ e.round >= r.round /\ Transition(r, e)

\* The candidate of e joins s when e is in one of the states.
Joins(s, e, states) == s \cup {c \in {e.candidate} : e.state \in states}

After(r, e) ==
    [activated |-> Joins(r.activated, e, Activations),
     validated |-> Joins(r.validated, e, {"VALIDATE"}),
     evaluated |-> Joins(r.evaluated, e, {"EVALUATE"}),
     rejected  |-> Joins(r.rejected, e, {"REJECT"}),
     ranked    |-> Joins(r.ranked, e, {"RANK"}),
     terminal  |-> e.state \in Terminals,
     round     |-> e.round]

Init == replayed = EmptyReplay
Next == \E e \in Events : Accepts(replayed, e) /\ replayed' = After(replayed, e)
Spec == Init /\ [][Next]_replayed

\* A whole ledger replays when every entry is accepted after those before it.
ReplayEntry(ledger, n, before) ==
    [ok     |-> before.ok /\ Accepts(before.replay, ledger[n]),
     replay |-> After(before.replay, ledger[n])]

Replays(ledger) ==
    LET upto[n \in Nat] == IF n = 0 THEN [ok |-> TRUE, replay |-> EmptyReplay]
                           ELSE ReplayEntry(ledger, n, upto[n - 1])
    IN  upto[Len(ledger)]
=============================================================================
