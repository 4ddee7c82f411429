-------------------------- MODULE MvpRunnerProofs ---------------------------
(***************************************************************************)
(* Theorems about MvpRunner, for every fixture, every surface and every    *)
(* bound on the rounds.                                                    *)
(*                                                                         *)
(* The projection and the replay of a ledger read it from the start, entry *)
(* by entry.  What they make of a longer ledger is therefore one step away *)
(* from what they made of it before (ProjectionOfAppend, ReplayOfAppend),  *)
(* and a run that records an event takes the replay of its projection a    *)
(* few steps on: Follows says what the two have seen at each place.        *)
(*                                                                         *)
(* The sanitizing changes numbers only, which the transitions do not read; *)
(* and the hash of an entry is found again unless its number was changed   *)
(* (Sanitized).  Carries follows the numbers from events to entries.       *)
(*                                                                         *)
(* RunInv is the inductive invariant: the place a run is at determines its *)
(* ledger, but for the split the clock decides, and the runs that are over *)
(* chose the action the run at hand chooses, or drew other particles.      *)
(***************************************************************************)
EXTENDS MvpRunner, SequenceTheorems, TLAPS

-----------------------------------------------------------------------------
(* Reading one more entry *)

ProjectionStart(events) == EmptyProjection
Projections == INSTANCE NatRecursion WITH Start <- ProjectionStart, Step <- ProjectEvent

ReplayStart(l) == [ok |-> TRUE, replay |-> Search!EmptyReplay]
Readings == INSTANCE NatRecursion WITH Start <- ReplayStart, Step <- Search!ReplayEntry

\* A projection is the last value of its recursion.
LEMMA ProjectionIsRecursion ==
    ASSUME NEW events
    PROVE  \E f : Projections!IsRecursion(events, f) /\ Projection(events) = f[Len(events)]
  <1> DEFINE Is(s) == s = [n \in Nat |-> IF n = 0 THEN EmptyProjection
                                         ELSE ProjectEvent(events, n, s[n - 1])]
             upto  == CHOOSE s : Is(s)
  <1>1. PICK f : Projections!IsRecursion(events, f)
    BY Projections!RecursionExists
  <1>2. Is(f)
    BY <1>1 DEF Projections!IsRecursion, Projections!At, ProjectionStart
  <1>3. Is(upto)
    BY <1>2
  <1>4. Projection(events) = upto[Len(events)]
    BY DEF Projection
  <1> HIDE DEF upto
  <1>5. Projections!IsRecursion(events, upto)
    BY <1>3 DEF Projections!IsRecursion, Projections!At, ProjectionStart
  <1> QED
    BY <1>4, <1>5

LEMMA ReplayIsRecursion ==
    ASSUME NEW l
    PROVE  \E f : Readings!IsRecursion(l, f) /\ Search!Replays(l) = f[Len(l)]
  <1> DEFINE Is(s) == s = [n \in Nat |-> IF n = 0 THEN [ok |-> TRUE, replay |-> Search!EmptyReplay]
                                         ELSE Search!ReplayEntry(l, n, s[n - 1])]
             upto  == CHOOSE s : Is(s)
  <1>1. PICK f : Readings!IsRecursion(l, f)
    BY Readings!RecursionExists
  <1>2. Is(f)
    BY <1>1 DEF Readings!IsRecursion, Readings!At, ReplayStart
  <1>3. Is(upto)
    BY <1>2
  <1>4. Search!Replays(l) = upto[Len(l)]
    BY DEF Search!Replays
  <1> HIDE DEF upto
  <1>5. Readings!IsRecursion(l, upto)
    BY <1>3 DEF Readings!IsRecursion, Readings!At, ReplayStart
  <1> QED
    BY <1>4, <1>5

\* What the projection makes of an event after it has read p.
Projecting(p, e) == ProjectEvent(<<e>>, 1, p)

LEMMA ProjectionOfAppend ==
    ASSUME NEW S, NEW events \in Seq(S), NEW e \in S, NEW longer, longer = Append(events, e)
    PROVE  Projection(longer) = Projecting(Projection(events), e)
  <1> DEFINE m == Len(events)
  <1>1. /\ m \in Nat /\ Len(longer) = m + 1 /\ longer[m + 1] = e
        /\ \A n \in 1..m : longer[n] = events[n]
    OBVIOUS
  <1>2. PICK f : Projections!IsRecursion(events, f) /\ Projection(events) = f[m]
    BY ProjectionIsRecursion
  <1>3. PICK g : Projections!IsRecursion(longer, g) /\ Projection(longer) = g[Len(longer)]
    BY ProjectionIsRecursion
  <1> HIDE DEF m
  <1>4. \A n \in 1..m : \A p : ProjectEvent(longer, n, p) = ProjectEvent(events, n, p)
    <2>1. SUFFICES ASSUME NEW n \in 1..m, NEW p
                   PROVE  ProjectEvent(longer, n, p) = ProjectEvent(events, n, p)
      OBVIOUS
    <2>2. longer[n] = events[n]
      BY <1>1
    <2> QED
      BY <2>2, Zenon DEF ProjectEvent
  <1>5. g[m] = f[m]
    <2>1. Projections!SameSteps(longer, events, m)
      BY <1>4 DEF Projections!SameSteps, ProjectionStart
    <2> QED
      BY <1>1, <1>2, <1>3, <2>1, Projections!RecursionsAgree
  <1>6. g[m + 1] = ProjectEvent(longer, m + 1, g[m])
    BY <1>1, <1>3, Projections!RecursionSteps
  <1>7. \A p : ProjectEvent(longer, m + 1, p) = ProjectEvent(<<e>>, 1, p)
    BY <1>1 DEF ProjectEvent
  <1> QED
    BY <1>1, <1>2, <1>3, <1>5, <1>6, <1>7 DEF Projecting

\* What the replay makes of an entry after it has read r.
Reading(r, e) == [ok     |-> r.ok /\ Search!Accepts(r.replay, e),
                  replay |-> Search!After(r.replay, e)]

LEMMA ReplayOfAppend ==
    ASSUME NEW S, NEW l \in Seq(S), NEW e \in S, NEW longer, longer = Append(l, e)
    PROVE  Search!Replays(longer) = Reading(Search!Replays(l), e)
  <1> DEFINE m == Len(l)
  <1>1. /\ m \in Nat /\ Len(longer) = m + 1 /\ longer[m + 1] = e
        /\ \A n \in 1..m : longer[n] = l[n]
    OBVIOUS
  <1>2. PICK f : Readings!IsRecursion(l, f) /\ Search!Replays(l) = f[m]
    BY ReplayIsRecursion
  <1>3. PICK g : Readings!IsRecursion(longer, g) /\ Search!Replays(longer) = g[Len(longer)]
    BY ReplayIsRecursion
  <1> HIDE DEF m
  <1>4. \A n \in 1..m : \A r : Search!ReplayEntry(longer, n, r) = Search!ReplayEntry(l, n, r)
    BY <1>1 DEF Search!ReplayEntry
  <1>5. g[m] = f[m]
    <2>1. Readings!SameSteps(longer, l, m)
      BY <1>4 DEF Readings!SameSteps, ReplayStart
    <2> QED
      BY <1>1, <1>2, <1>3, <2>1, Readings!RecursionsAgree
  <1>6. g[m + 1] = Search!ReplayEntry(longer, m + 1, g[m])
    BY <1>1, <1>3, Readings!RecursionSteps
  <1> QED
    BY <1>1, <1>2, <1>3, <1>5, <1>6 DEF Reading, Search!ReplayEntry

-----------------------------------------------------------------------------
(* What the projection and the replay have seen of a ledger *)

Entry == [state : {"COMPILE", "EXPAND", "EVALUATE", "ACTION", "RESULT", "STOP"},
          candidate : Int, round : Int, numbers : Recordings]

\* The entries of the projection.
Added == [state : {"SEED", "EXPAND", "VALIDATE", "EVALUATE", "RANK", "RESULT", "STOP"},
          candidate : Int, round : Int, numbers : Recordings, payload_hash : Recordings]

Sealed(entries) == \A n \in DOMAIN entries : entries[n].payload_hash = entries[n].numbers

\* The entries show whether an event holds a number that JSON has not.
Carries(l, entries) == Sealed(entries) /\ (NonFinite(l) <=> NonFinite(entries))

\* The projection of the ledger so far, which the replay accepts.
ReadsAs(l, p, r) ==
    \E entries \in Seq(Added) : /\ Projection(l) = p /\ p.entries = entries
                                /\ Search!Replays(entries) = [ok |-> TRUE, replay |-> r]
                                /\ Carries(l, entries)

\* What the replay has seen: activated, validated, evaluated and ranked
\* candidates and the round, before any result or stop.
Seen(A, V, E, K, n) ==
    [activated |-> A, validated |-> V, evaluated |-> E, rejected |-> {},
     ranked |-> K, terminal |-> FALSE, round |-> n]

\* Both have read the ledger and know the same candidates; those in V were
\* validated and evaluated, k regimes were opened and g is the open one, if any.
Follows(l, A, V, K, n, k, g) ==
    \E p : /\ ReadsAs(l, p, Seen(A, V, V, K, n))
           /\ p.validated = V /\ p.evaluated = V /\ p.regimes = k /\ p.regime = g

\* Every hash of the entries is found again.
Verified(entries) == \A n \in DOMAIN entries : HashMatches(entries[n])

\* The ledger has been read to its end and no candidate is left; its hashes are
\* found again unless an event holds a number that JSON has not.
Ended(l) == /\ Replayed(l).ok
            /\ Search!pending_candidates(Replayed(l).replay) = {}
            /\ Verified(sanitize_for_json(Projected(l))) <=> ~NonFinite(l)

\* What one more entry changes.
LEMMA NonFiniteOfAppend ==
    ASSUME NEW S, NEW s \in Seq(S), NEW e \in S, NEW longer, longer = Append(s, e)
    PROVE  NonFinite(longer) <=> NonFinite(s) \/ e.numbers = "non-finite"
  <1>1. /\ Len(s) \in Nat /\ DOMAIN s = 1..Len(s) /\ DOMAIN longer = 1..(Len(s) + 1)
        /\ longer[Len(s) + 1] = e /\ \A n \in 1..Len(s) : longer[n] = s[n]
    OBVIOUS
  <1>2. \A n \in 1..(Len(s) + 1) : n \in 1..Len(s) \/ n = Len(s) + 1
    BY <1>1
  <1>3. 1..Len(s) \subseteq 1..(Len(s) + 1) /\ Len(s) + 1 \in 1..(Len(s) + 1)
    BY <1>1
  <1> QED
    BY <1>1, <1>2, <1>3 DEF NonFinite

\* An entry carries the numbers of its event and their hash.
Carried(a, e) == a.numbers = e.numbers /\ a.payload_hash = e.numbers

LEMMA SealedOfAppend ==
    ASSUME NEW S, NEW s \in Seq(S), NEW a \in S, NEW longer, longer = Append(s, a),
           Sealed(s), NEW e, Carried(a, e)
    PROVE  Sealed(longer)
  <1>1. /\ Len(s) \in Nat /\ DOMAIN s = 1..Len(s) /\ DOMAIN longer = 1..(Len(s) + 1)
        /\ longer[Len(s) + 1] = a /\ \A n \in 1..Len(s) : longer[n] = s[n]
    OBVIOUS
  <1>2. \A n \in 1..(Len(s) + 1) : n \in 1..Len(s) \/ n = Len(s) + 1
    BY <1>1
  <1> QED
    BY <1>1, <1>2 DEF Sealed, Carried

\* Sanitized entries replay as they did, but for the hashes of what was changed.
LEMMA Sanitized ==
    ASSUME NEW s \in Seq(Added), Sealed(s)
    PROVE  /\ Search!Replays(sanitize_for_json(s)) = Search!Replays(s)
           /\ Verified(sanitize_for_json(s)) <=> ~NonFinite(s)
  <1> DEFINE clean == sanitize_for_json(s)
             m     == Len(s)
  <1>1. m \in Nat /\ DOMAIN s = 1..m /\ \A n \in 1..m : s[n] \in Added
    OBVIOUS
  <1>2. /\ DOMAIN clean = 1..m
        /\ \A n \in 1..m : /\ s[n].numbers = "non-finite" =>
                                 clean[n] = [s[n] EXCEPT !.numbers = "text"]
                           /\ s[n].numbers # "non-finite" => clean[n] = s[n]
    BY <1>1 DEF sanitize_for_json
  <1>3. Len(clean) = m
    BY <1>1, <1>2 DEF sanitize_for_json
  <1> HIDE DEF clean, m
  <1>4. ASSUME NEW n \in 1..m
        PROVE  /\ clean[n].state = s[n].state /\ clean[n].candidate = s[n].candidate
               /\ clean[n].round = s[n].round
               /\ HashMatches(clean[n]) <=> s[n].numbers # "non-finite"
    <2>1. /\ s[n].payload_hash = s[n].numbers /\ s[n].numbers # "text" /\ s[n] \in Added
      BY <1>1, <1>4 DEF Sealed, Added, Recordings
    <2>2. CASE s[n].numbers = "non-finite"
      BY <1>2, <1>4, <2>1, <2>2 DEF HashMatches, Added
    <2>3. CASE s[n].numbers # "non-finite"
      BY <1>2, <1>4, <2>1, <2>3 DEF HashMatches
    <2> QED
      BY <2>2, <2>3
  <1>5. Verified(clean) <=> ~NonFinite(s)
    BY <1>1, <1>2, <1>4 DEF Verified, NonFinite
  <1>6. PICK f : Readings!IsRecursion(s, f) /\ Search!Replays(s) = f[m]
    BY ReplayIsRecursion DEF m
  <1>7. PICK g : Readings!IsRecursion(clean, g) /\ Search!Replays(clean) = g[m]
    BY <1>3, ReplayIsRecursion
  <1>8. \A n \in 1..m : \A r : Search!ReplayEntry(clean, n, r) = Search!ReplayEntry(s, n, r)
    <2>1. SUFFICES ASSUME NEW n \in 1..m, NEW r
                   PROVE  Search!ReplayEntry(clean, n, r) = Search!ReplayEntry(s, n, r)
      OBVIOUS
    <2>2. Search!Accepts(r.replay, clean[n]) = Search!Accepts(r.replay, s[n])
      BY <1>4 DEF Search!Accepts, Search!Transition
    <2>3. Search!After(r.replay, clean[n]) = Search!After(r.replay, s[n])
      BY <1>4 DEF Search!After, Search!Joins
    <2> QED
      BY <2>2, <2>3 DEF Search!ReplayEntry
  <1>9. g[m] = f[m]
    <2>1. Readings!SameSteps(clean, s, m)
      BY <1>8 DEF Readings!SameSteps, ReplayStart
    <2> QED
      BY <1>1, <1>6, <1>7, <2>1, Readings!RecursionsAgree
  <1> QED
    BY <1>5, <1>6, <1>7, <1>9 DEF clean

LEMMA ConcatOne ==
    ASSUME NEW S, NEW s \in Seq(S), NEW a \in S
    PROVE  s \o <<a>> = Append(s, a)
  BY AppendIsConcat

LEMMA ConcatTwo ==
    ASSUME NEW S, NEW s \in Seq(S), NEW a \in S, NEW b \in S,
           NEW once, once = Append(s, a), NEW y, y = Append(once, b)
    PROVE  s \o <<a, b>> = y /\ once \in Seq(S) /\ y \in Seq(S)
  <1> DEFINE x == s \o <<a, b>>
  <1>1. <<a, b>> \in Seq(S) /\ Len(<<a, b>>) = 2
    OBVIOUS
  <1>2. /\ x \in Seq(S) /\ y \in Seq(S) /\ Len(x) = Len(s) + 2 /\ Len(y) = Len(s) + 2
        /\ Len(s) \in Nat
    BY <1>1
  <1>3. ASSUME NEW i \in 1..(Len(s) + 2) PROVE x[i] = y[i]
    <2>1. x[i] = IF i <= Len(s) THEN s[i] ELSE <<a, b>>[i - Len(s)]
      BY <1>1, ConcatProperties
    <2>2. y[i] = IF i <= Len(s) THEN s[i] ELSE IF i = Len(s) + 1 THEN a ELSE b
      BY <1>2
    <2>3. i <= Len(s) \/ i - Len(s) = 1 \/ i - Len(s) = 2
      BY <1>2
    <2> QED
      BY <1>2, <2>1, <2>2, <2>3
  <1> HIDE DEF x
  <1>4. x = y
    BY <1>2, <1>3, SeqEqual
  <1> QED
    BY <1>2, <1>4 DEF x

\* One event of a run's ledger and what the projection makes of it.
Moved(p, e, c, added) ==
    LET seen == IF e.state \in {"EVALUATE", "ACTION"} THEN {c} ELSE {}
    IN  [entries   |-> p.entries \o added,
         validated |-> p.validated \cup seen,
         evaluated |-> p.evaluated \cup seen,
         regimes   |-> IF e.state = "EXPAND" THEN p.regimes + 1 ELSE p.regimes,
         regime    |-> IF e.state = "EXPAND" THEN c
                       ELSE IF e.state = "RESULT" THEN 0 ELSE p.regime]

LEMMA ProjectingIs ==
    ASSUME NEW p, NEW e, NEW c, c = CandidateOf(p, e)
    PROVE  Projecting(p, e) = Moved(p, e, c, Entries(p, e, c))
  <1>1. {d \in {c} : e.state \in {"EVALUATE", "ACTION"}} =
        IF e.state \in {"EVALUATE", "ACTION"} THEN {c} ELSE {}
    OBVIOUS
  <1>2. <<e>>[1] = e
    OBVIOUS
  <1> QED
    BY <1>1, <1>2 DEF Projecting, ProjectEvent, Moved

LEMMA ReadingAccepted ==
    ASSUME NEW r, NEW e, Search!Accepts(r, e)
    PROVE  Reading([ok |-> TRUE, replay |-> r], e) = [ok |-> TRUE, replay |-> Search!After(r, e)]
  <1> DEFINE read == [ok |-> TRUE, replay |-> r]
  <1>1. read.ok = TRUE /\ read.replay = r
    OBVIOUS
  <1> HIDE DEF read
  <1>2. (read.ok /\ Search!Accepts(read.replay, e)) = TRUE
    BY <1>1, Zenon
  <1>3. Reading(read, e) = [ok |-> TRUE, replay |-> Search!After(r, e)]
    BY <1>1, <1>2, Zenon DEF Reading
  <1> QED
    BY <1>3 DEF read

LEMMA ReadsOne ==
    ASSUME NEW l \in Seq(Entry), NEW e \in Entry, NEW p, NEW r, ReadsAs(l, p, r),
           NEW c, c = CandidateOf(p, e),
           NEW a \in Added, Entries(p, e, c) = <<a>>, Carried(a, e), Search!Accepts(r, a)
    PROVE  ReadsAs(Append(l, e), Moved(p, e, c, <<a>>), Search!After(r, a))
  <1>1. PICK s \in Seq(Added) : /\ Projection(l) = p /\ p.entries = s
                                /\ Search!Replays(s) = [ok |-> TRUE, replay |-> r]
                                /\ Carries(l, s)
    BY DEF ReadsAs
  <1>2. PICK longer : longer = Append(l, e)
    OBVIOUS
  <1>3. PICK t : t = Append(s, a)
    OBVIOUS
  <1>4. t = s \o <<a>> /\ t \in Seq(Added)
    BY <1>3, ConcatOne
  <1>5. PICK q : q = Moved(p, e, c, <<a>>)
    OBVIOUS
  <1>6. Projection(longer) = Projecting(p, e)
    BY <1>1, <1>2, ProjectionOfAppend
  <1>7. Projection(longer) = q
    BY <1>5, <1>6, ProjectingIs
  <1>8. q.entries = t
    BY <1>1, <1>4, <1>5 DEF Moved
  <1>9. Search!Replays(t) = Reading(Search!Replays(s), a)
    BY <1>3, ReplayOfAppend
  <1>10. Search!Replays(t) = [ok |-> TRUE, replay |-> Search!After(r, a)]
    BY <1>1, <1>9, ReadingAccepted
  <1>11. Carries(longer, t)
    <2>1. Sealed(t)
      BY <1>1, <1>3, SealedOfAppend DEF Carries
    <2>2. NonFinite(longer) <=> NonFinite(l) \/ e.numbers = "non-finite"
      BY <1>2, NonFiniteOfAppend
    <2>3. NonFinite(t) <=> NonFinite(s) \/ a.numbers = "non-finite"
      BY <1>3, NonFiniteOfAppend
    <2> QED
      BY <1>1, <2>1, <2>2, <2>3 DEF Carries, Carried
  <1>12. ReadsAs(longer, q, Search!After(r, a))
    BY <1>4, <1>7, <1>8, <1>10, <1>11 DEF ReadsAs
  <1> QED
    BY <1>2, <1>5, <1>12

LEMMA ReadsTwo ==
    ASSUME NEW l \in Seq(Entry), NEW e \in Entry, NEW p, NEW r, ReadsAs(l, p, r),
           NEW c, c = CandidateOf(p, e),
           NEW a \in Added, NEW b \in Added, Entries(p, e, c) = <<a, b>>,
           Carried(a, e), Carried(b, e),
           Search!Accepts(r, a), Search!Accepts(Search!After(r, a), b)
    PROVE  ReadsAs(Append(l, e), Moved(p, e, c, <<a, b>>), Search!After(Search!After(r, a), b))
  <1>1. PICK s \in Seq(Added) : /\ Projection(l) = p /\ p.entries = s
                                /\ Search!Replays(s) = [ok |-> TRUE, replay |-> r]
                                /\ Carries(l, s)
    BY DEF ReadsAs
  <1>2. PICK longer : longer = Append(l, e)
    OBVIOUS
  <1>3. PICK once : once = Append(s, a)
    OBVIOUS
  <1>4. PICK t : t = Append(once, b)
    OBVIOUS
  <1>5. t = s \o <<a, b>> /\ once \in Seq(Added) /\ t \in Seq(Added)
    <2>1. once \in Seq(Added)
      BY <1>3
    <2>2. t \in Seq(Added)
      BY <1>4, <2>1
    <2>3. s \o <<a, b>> = t
      BY <1>3, <1>4, ConcatTwo
    <2> QED
      BY <2>1, <2>2, <2>3
  <1>6. PICK q : q = Moved(p, e, c, <<a, b>>)
    OBVIOUS
  <1>7. Projection(longer) = Projecting(p, e)
    BY <1>1, <1>2, ProjectionOfAppend
  <1>8. Projection(longer) = q
    BY <1>6, <1>7, ProjectingIs
  <1>9. q.entries = t
    BY <1>1, <1>5, <1>6 DEF Moved
  <1>10. Search!Replays(once) = [ok |-> TRUE, replay |-> Search!After(r, a)]
    <2>1. Search!Replays(once) = Reading(Search!Replays(s), a)
      BY <1>3, <1>5, ReplayOfAppend
    <2> QED
      BY <1>1, <2>1, ReadingAccepted
  <1>11. Search!Replays(t) = [ok |-> TRUE, replay |-> Search!After(Search!After(r, a), b)]
    <2>1. Search!Replays(t) = Reading(Search!Replays(once), b)
      BY <1>4, <1>5, ReplayOfAppend
    <2> QED
      BY <1>10, <2>1, ReadingAccepted
  <1>12. Carries(longer, t)
    <2>1. Sealed(once)
      BY <1>1, <1>3, SealedOfAppend DEF Carries
    <2>2. Sealed(t)
      BY <1>4, <1>5, <2>1, SealedOfAppend
    <2>3. NonFinite(longer) <=> NonFinite(l) \/ e.numbers = "non-finite"
      BY <1>2, NonFiniteOfAppend
    <2>4. NonFinite(once) <=> NonFinite(s) \/ a.numbers = "non-finite"
      BY <1>3, NonFiniteOfAppend
    <2>5. NonFinite(t) <=> NonFinite(once) \/ b.numbers = "non-finite"
      BY <1>4, <1>5, NonFiniteOfAppend
    <2> QED
      BY <1>1, <2>2, <2>3, <2>4, <2>5 DEF Carries, Carried
  <1>13. ReadsAs(longer, q, Search!After(Search!After(r, a), b))
    BY <1>5, <1>8, <1>9, <1>11, <1>12 DEF ReadsAs
  <1> QED
    BY <1>2, <1>6, <1>13

\* How a replay that has accepted all entries so far goes on.
LEMMA JoinsIs ==
    ASSUME NEW x, NEW e, NEW T
    PROVE  Search!Joins(x, e, T) = IF e.state \in T THEN x \cup {e.candidate} ELSE x
  BY DEF Search!Joins

\* The entries a replay takes next, and what it has seen with one of them.
Due(A, V, E, K, n, e) ==
    /\ e.round >= n
    /\ \/ e.state \in {"SEED", "EXPAND"} /\ e.candidate # NoCandidate /\ e.candidate \notin A
       \/ e.state = "VALIDATE" /\ e.candidate \in A \ (E \cup V)
       \/ e.state = "EVALUATE" /\ e.candidate \in V \ E
       \/ e.state = "RANK" /\ e.candidate \in E \ K

SeenWith(A, V, E, K, e) ==
    Seen(IF e.state \in {"SEED", "EXPAND"} THEN A \cup {e.candidate} ELSE A,
         IF e.state = "VALIDATE" THEN V \cup {e.candidate} ELSE V,
         IF e.state = "EVALUATE" THEN E \cup {e.candidate} ELSE E,
         IF e.state = "RANK" THEN K \cup {e.candidate} ELSE K, e.round)

LEMMA ReplayTakes ==
    ASSUME NEW A, NEW V, NEW E, NEW K, NEW n, NEW e, Due(A, V, E, K, n, e)
    PROVE  /\ Search!Accepts(Seen(A, V, E, K, n), e)
           /\ Search!After(Seen(A, V, E, K, n), e) = SeenWith(A, V, E, K, e)
  <1>1. /\ e.state \in {"SEED", "EXPAND", "VALIDATE", "EVALUATE", "RANK"}
        /\ e.state \in Search!Activations <=> e.state \in {"SEED", "EXPAND"}
        /\ (e.state \in Search!Terminals) = FALSE /\ e.state # "REJECT"
    BY DEF Search!Activations, Search!Terminals, Due
  <1>2. Search!After(Seen(A, V, E, K, n), e) = SeenWith(A, V, E, K, e)
    BY <1>1, JoinsIs DEF Search!After, Seen, SeenWith
  <1>3. Search!Accepts(Seen(A, V, E, K, n), e)
    BY <1>1 DEF Search!Accepts, Search!Transition, Search!Completed, Seen, Due
  <1> QED
    BY <1>2, <1>3

\* A result or a stop after which every activated candidate is evaluated.
Closes(V, n, e) ==
    /\ e.round >= n
    /\ \/ e.state = "RESULT" /\ e.candidate \in V
       \/ e.state = "STOP" /\ e.candidate = NoCandidate

LEMMA ReplayEnds ==
    ASSUME NEW V, NEW K, NEW n, NEW e, Closes(V, n, e)
    PROVE  /\ Search!Accepts(Seen(V, V, V, K, n), e)
           /\ Search!pending_candidates(Search!After(Seen(V, V, V, K, n), e)) = {}
  <1>1. e.state \notin Search!Activations /\ e.state \notin {"VALIDATE", "EVALUATE"}
    BY DEF Search!Activations, Closes
  <1>2. LET r == Search!After(Seen(V, V, V, K, n), e) IN r.activated = V /\ r.evaluated = V
    BY <1>1, JoinsIs DEF Search!After, Seen
  <1>3. Search!pending_candidates(Search!After(Seen(V, V, V, K, n), e)) = {}
    BY <1>2 DEF Search!pending_candidates, Search!Completed
  <1>4. Search!Accepts(Seen(V, V, V, K, n), e)
    BY DEF Search!Accepts, Search!Transition, Search!Completed, Seen, Closes
  <1> QED
    BY <1>3, <1>4

-----------------------------------------------------------------------------
(* One event of a run at a time *)

\* Nothing has been read.
LEMMA FollowsNothing == Follows(<<>>, {}, {}, {}, 0, 0, 0)
  <1>1. Len(<<>>) = 0
    OBVIOUS
  <1>2. Projection(<<>>) = EmptyProjection
    BY <1>1, ProjectionIsRecursion, Projections!RecursionSteps DEF ProjectionStart
  <1>3. Search!Replays(<<>>) = [ok |-> TRUE, replay |-> Search!EmptyReplay]
    BY <1>1, ReplayIsRecursion, Readings!RecursionSteps DEF ReplayStart
  <1>4. Search!EmptyReplay = Seen({}, {}, {}, {}, 0)
    BY DEF Search!EmptyReplay, Seen
  <1>5. <<>> \in Seq(Added) /\ Carries(<<>>, <<>>)
    BY DEF Carries, Sealed, NonFinite
  <1>6. ReadsAs(<<>>, EmptyProjection, Seen({}, {}, {}, {}, 0))
    BY <1>2, <1>3, <1>4, <1>5 DEF ReadsAs, EmptyProjection
  <1> QED
    BY <1>6 DEF Follows, EmptyProjection

\* The run compiles its fixture: its candidate is the seed.
LEMMA FollowsCompile ==
    ASSUME NEW l \in Seq(Entry), Follows(l, {}, {}, {}, 0, 0, 0), NEW x \in Recordings
    PROVE  Follows(Append(l, event("COMPILE", 0, 0, x)), {0}, {}, {}, 0, 0, 0)
  <1>1. PICK p : /\ ReadsAs(l, p, Seen({}, {}, {}, {}, 0))
                 /\ p.validated = {} /\ p.evaluated = {} /\ p.regimes = 0 /\ p.regime = 0
    BY DEF Follows
  <1>2. PICK e \in Entry : /\ e = event("COMPILE", 0, 0, x) /\ e.numbers = x
                           /\ e.state = "COMPILE" /\ e.candidate = 0 /\ e.round = 0
    <2> DEFINE y == event("COMPILE", 0, 0, x)
    <2>1. y \in Entry /\ y.state = "COMPILE" /\ y.candidate = 0 /\ y.round = 0 /\ y.numbers = x
      BY DEF event, Entry
    <2> QED
      BY <2>1
  <1>4. 0 = CandidateOf(p, e)
    BY <1>1, <1>2 DEF CandidateOf
  <1>5. PICK a \in Added : /\ a = add_entry("SEED", 0, e) /\ Carried(a, e)
                           /\ a.state = "SEED" /\ a.candidate = 0 /\ a.round = 0
    <2> DEFINE y == add_entry("SEED", 0, e)
    <2>1. /\ y \in Added /\ y.state = "SEED" /\ y.candidate = 0 /\ y.round = 0
          /\ y.numbers = e.numbers /\ y.payload_hash = e.numbers
      BY <1>2 DEF add_entry, Added
    <2> QED
      BY <2>1 DEF Carried
  <1>6. Entries(p, e, 0) = <<a>>
    BY <1>2, <1>5 DEF Entries
  <1>7. /\ Search!Accepts(Seen({}, {}, {}, {}, 0), a)
        /\ Search!After(Seen({}, {}, {}, {}, 0), a) = Seen({0}, {}, {}, {}, 0)
    <2>1. Due({}, {}, {}, {}, 0, a)
      BY <1>5 DEF Due, NoCandidate
    <2>2. SeenWith({}, {}, {}, {}, a) = Seen({0}, {}, {}, {}, 0)
      BY <1>5 DEF SeenWith
    <2> QED
      BY <2>1, <2>2, ReplayTakes
  <1>8. ReadsAs(Append(l, e), Moved(p, e, 0, <<a>>), Seen({0}, {}, {}, {}, 0))
    BY <1>1, <1>2, <1>4, <1>5, <1>6, <1>7, ReadsOne
  <1>9. LET q == Moved(p, e, 0, <<a>>) IN
        q.validated = {} /\ q.evaluated = {} /\ q.regimes = 0 /\ q.regime = 0
    BY <1>1, <1>2 DEF Moved
  <1> QED
    BY <1>2, <1>8, <1>9 DEF Follows

\* Candidate g, activated and not among V, makes it W.
Adds(g, A, V, W) == g \in A /\ g \notin V /\ W = V \cup {g}

\* A surface is evaluated: the seed or the regime that is open.
LEMMA FollowsEvaluate ==
    ASSUME NEW l \in Seq(Entry), NEW A, NEW V, NEW K, NEW n \in Int, NEW k, NEW g \in Int,
           Follows(l, A, V, K, n, k, g), NEW m \in Int, m >= n,
           NEW x \in Recordings, NEW longer, longer = Append(l, event("EVALUATE", 0, m, x)),
           NEW W, Adds(g, A, V, W)
    PROVE  Follows(longer, A, W, K, m, k, g)
  <1>a. g \in A /\ g \notin V /\ W = V \cup {g}
    BY DEF Adds
  <1>1. PICK p : /\ ReadsAs(l, p, Seen(A, V, V, K, n))
                 /\ p.validated = V /\ p.evaluated = V /\ p.regimes = k /\ p.regime = g
    BY DEF Follows
  <1>2. PICK e \in Entry : /\ e = event("EVALUATE", 0, m, x) /\ e.numbers = x
                           /\ e.state = "EVALUATE" /\ e.candidate = 0 /\ e.round = m
    <2> DEFINE y == event("EVALUATE", 0, m, x)
    <2>1. y \in Entry /\ y.state = "EVALUATE" /\ y.candidate = 0 /\ y.round = m /\ y.numbers = x
      BY DEF event, Entry
    <2> QED
      BY <2>1
  <1>4. g = CandidateOf(p, e)
    BY <1>1, <1>2 DEF CandidateOf, Retargeted
  <1>5. PICK a \in Added : /\ a = add_entry("VALIDATE", g, e) /\ Carried(a, e)
                           /\ a.state = "VALIDATE" /\ a.candidate = g /\ a.round = m
    <2> DEFINE y == add_entry("VALIDATE", g, e)
    <2>1. /\ y \in Added /\ y.state = "VALIDATE" /\ y.candidate = g /\ y.round = m
          /\ y.numbers = e.numbers /\ y.payload_hash = e.numbers
      BY <1>2 DEF add_entry, Added
    <2> QED
      BY <2>1 DEF Carried
  <1>6. PICK b \in Added : /\ b = add_entry("EVALUATE", g, e) /\ Carried(b, e)
                           /\ b.state = "EVALUATE" /\ b.candidate = g /\ b.round = m
    <2> DEFINE y == add_entry("EVALUATE", g, e)
    <2>1. /\ y \in Added /\ y.state = "EVALUATE" /\ y.candidate = g /\ y.round = m
          /\ y.numbers = e.numbers /\ y.payload_hash = e.numbers
      BY <1>2 DEF add_entry, Added
    <2> QED
      BY <2>1 DEF Carried
  <1>7. Entries(p, e, g) = <<a, b>>
    <2>1. g \notin p.validated
      BY <1>1, <1>a
    <2>2. Entries(p, e, g) = <<a>> \o <<b>>
      BY <1>2, <1>5, <1>6, <2>1 DEF Entries
    <2>3. <<a>> \o <<b>> = <<a, b>>
      <3>1. <<a>> \in Seq(Added) /\ <<a, b>> \in Seq(Added) /\ <<a, b>> = Append(<<a>>, b)
        OBVIOUS
      <3> QED
        BY <3>1, ConcatOne
    <2> QED
      BY <2>2, <2>3
  <1>8. /\ Search!Accepts(Seen(A, V, V, K, n), a)
        /\ Search!After(Seen(A, V, V, K, n), a) = Seen(A, V \cup {g}, V, K, m)
    <2>1. Due(A, V, V, K, n, a)
      BY <1>5, <1>a DEF Due
    <2>2. SeenWith(A, V, V, K, a) = Seen(A, V \cup {g}, V, K, m)
      BY <1>5 DEF SeenWith
    <2> QED
      BY <2>1, <2>2, ReplayTakes
  <1>9. /\ Search!Accepts(Seen(A, V \cup {g}, V, K, m), b)
        /\ Search!After(Seen(A, V \cup {g}, V, K, m), b) = Seen(A, V \cup {g}, V \cup {g}, K, m)
    <2>1. Due(A, V \cup {g}, V, K, m, b)
      BY <1>6, <1>a DEF Due
    <2>2. SeenWith(A, V \cup {g}, V, K, b) = Seen(A, V \cup {g}, V \cup {g}, K, m)
      BY <1>6 DEF SeenWith
    <2> QED
      BY <2>1, <2>2, ReplayTakes
  <1>10. ReadsAs(Append(l, e), Moved(p, e, g, <<a, b>>), Seen(A, V \cup {g}, V \cup {g}, K, m))
    BY <1>1, <1>2, <1>4, <1>5, <1>6, <1>7, <1>8, <1>9, ReadsTwo
  <1>11. LET q == Moved(p, e, g, <<a, b>>) IN
         q.validated = V \cup {g} /\ q.evaluated = V \cup {g} /\ q.regimes = k /\ q.regime = g
    BY <1>1, <1>2 DEF Moved
  <1> QED
    BY <1>2, <1>10, <1>11, <1>a DEF Follows

\* The action that follows an evaluation ranks its candidate.
LEMMA FollowsAction ==
    ASSUME NEW l \in Seq(Entry), NEW A, NEW V, NEW K, NEW n \in Int, NEW k, NEW g \in Int,
           Follows(l, A, V, K, n, k, g), NEW m \in Int, m >= n, g \in V \ K,
           NEW x \in Recordings, NEW longer, longer = Append(l, event("ACTION", 0, m, x))
    PROVE  Follows(longer, A, V, K \cup {g}, m, k, g)
  <1>1. PICK p : /\ ReadsAs(l, p, Seen(A, V, V, K, n))
                 /\ p.validated = V /\ p.evaluated = V /\ p.regimes = k /\ p.regime = g
    BY DEF Follows
  <1>2. PICK e \in Entry : /\ e = event("ACTION", 0, m, x) /\ e.numbers = x
                           /\ e.state = "ACTION" /\ e.candidate = 0 /\ e.round = m
    <2> DEFINE y == event("ACTION", 0, m, x)
    <2>1. y \in Entry /\ y.state = "ACTION" /\ y.candidate = 0 /\ y.round = m /\ y.numbers = x
      BY DEF event, Entry
    <2> QED
      BY <2>1
  <1>4. g = CandidateOf(p, e)
    BY <1>1, <1>2 DEF CandidateOf, Retargeted
  <1>5. PICK a \in Added : /\ a = add_entry("RANK", g, e) /\ Carried(a, e)
                           /\ a.state = "RANK" /\ a.candidate = g /\ a.round = m
    <2> DEFINE y == add_entry("RANK", g, e)
    <2>1. /\ y \in Added /\ y.state = "RANK" /\ y.candidate = g /\ y.round = m
          /\ y.numbers = e.numbers /\ y.payload_hash = e.numbers
      BY <1>2 DEF add_entry, Added
    <2> QED
      BY <2>1 DEF Carried
  <1>6. Entries(p, e, g) = <<a>>
    <2>1. Entries(p, e, g) = <<>> \o <<a>>
      BY <1>1, <1>2, <1>5 DEF Entries
    <2> QED
      BY <2>1
  <1>7. /\ Search!Accepts(Seen(A, V, V, K, n), a)
        /\ Search!After(Seen(A, V, V, K, n), a) = Seen(A, V, V, K \cup {g}, m)
    <2>1. Due(A, V, V, K, n, a)
      BY <1>5 DEF Due
    <2>2. SeenWith(A, V, V, K, a) = Seen(A, V, V, K \cup {g}, m)
      BY <1>5 DEF SeenWith
    <2> QED
      BY <2>1, <2>2, ReplayTakes
  <1>8. ReadsAs(Append(l, e), Moved(p, e, g, <<a>>), Seen(A, V, V, K \cup {g}, m))
    BY <1>1, <1>2, <1>4, <1>5, <1>6, <1>7, ReadsOne
  <1>9. LET q == Moved(p, e, g, <<a>>) IN
        q.validated = V /\ q.evaluated = V /\ q.regimes = k /\ q.regime = g
    BY <1>1, <1>2 DEF Moved
  <1> QED
    BY <1>2, <1>8, <1>9 DEF Follows

\* Candidate c, the one after k, joins A, which becomes B.
Opens(c, k, A, B) == c = k + 1 /\ c \notin A /\ B = A \cup {c}

\* An expansion opens the next regime.
LEMMA FollowsExpand ==
    ASSUME NEW l \in Seq(Entry), NEW A, NEW V, NEW K, NEW n \in Int, NEW k \in Nat, NEW g,
           Follows(l, A, V, K, n, k, g), NEW m \in Int, m >= n,
           NEW x \in Recordings, NEW longer, longer = Append(l, event("EXPAND", 0, m, x)),
           NEW c, NEW B, Opens(c, k, A, B)
    PROVE  Follows(longer, B, V, K, m, c, c)
  <1>1. PICK p : /\ ReadsAs(l, p, Seen(A, V, V, K, n))
                 /\ p.validated = V /\ p.evaluated = V /\ p.regimes = k /\ p.regime = g
    BY DEF Follows
  <1>c. c \in Int /\ c # NoCandidate /\ c = k + 1 /\ c \notin A /\ B = A \cup {c}
    BY DEF NoCandidate, Opens
  <1>2. PICK e \in Entry : /\ e = event("EXPAND", 0, m, x) /\ e.numbers = x
                           /\ e.state = "EXPAND" /\ e.candidate = 0 /\ e.round = m
    <2> DEFINE y == event("EXPAND", 0, m, x)
    <2>1. y \in Entry /\ y.state = "EXPAND" /\ y.candidate = 0 /\ y.round = m /\ y.numbers = x
      BY DEF event, Entry
    <2> QED
      BY <2>1
  <1>4. c = CandidateOf(p, e)
    BY <1>1, <1>2, <1>c DEF CandidateOf
  <1>5. PICK a \in Added : /\ a = add_entry("EXPAND", c, e) /\ Carried(a, e)
                           /\ a.state = "EXPAND" /\ a.candidate = c /\ a.round = m
    <2> DEFINE y == add_entry("EXPAND", c, e)
    <2>1. /\ y \in Added /\ y.state = "EXPAND" /\ y.candidate = c /\ y.round = m
          /\ y.numbers = e.numbers /\ y.payload_hash = e.numbers
      BY <1>2, <1>c DEF add_entry, Added
    <2> QED
      BY <2>1 DEF Carried
  <1>6. Entries(p, e, c) = <<a>>
    BY <1>2, <1>5 DEF Entries
  <1>7. /\ Search!Accepts(Seen(A, V, V, K, n), a)
        /\ Search!After(Seen(A, V, V, K, n), a) = Seen(A \cup {c}, V, V, K, m)
    <2>1. Due(A, V, V, K, n, a)
      BY <1>5, <1>c DEF Due
    <2>2. SeenWith(A, V, V, K, a) = Seen(A \cup {c}, V, V, K, m)
      BY <1>5 DEF SeenWith
    <2> QED
      BY <2>1, <2>2, ReplayTakes
  <1>8. ReadsAs(Append(l, e), Moved(p, e, c, <<a>>), Seen(A \cup {c}, V, V, K, m))
    BY <1>1, <1>4, <1>5, <1>6, <1>7, ReadsOne
  <1>9. LET q == Moved(p, e, c, <<a>>) IN
        q.validated = V /\ q.evaluated = V /\ q.regimes = c /\ q.regime = c
    BY <1>1, <1>2, <1>c DEF Moved
  <1>10. Follows(Append(l, e), A \cup {c}, V, K, m, c, c)
    BY <1>8, <1>9 DEF Follows
  <1> QED
    BY <1>2, <1>10, <1>c

\* A result of the candidate at hand, or a stop, ends the ledger.
LEMMA FollowsEnd ==
    ASSUME NEW l \in Seq(Entry), NEW V, NEW K, NEW n \in Int, NEW k, NEW g \in Int,
           Follows(l, V, V, K, n, k, g), NEW m \in Int, m >= n,
           NEW state \in {"RESULT", "STOP"}, state = "RESULT" => g \in V,
           NEW x \in Recordings, NEW longer, longer = Append(l, event(state, 0, m, x))
    PROVE  Ended(longer)
  <1>1. PICK p : /\ ReadsAs(l, p, Seen(V, V, V, K, n))
                 /\ p.validated = V /\ p.evaluated = V /\ p.regimes = k /\ p.regime = g
    BY DEF Follows
  <1>2. PICK e \in Entry : /\ e = event(state, 0, m, x) /\ e.numbers = x
                           /\ e.state = state /\ e.candidate = 0 /\ e.round = m
    <2> DEFINE y == event(state, 0, m, x)
    <2>1. y \in Entry /\ y.state = state /\ y.candidate = 0 /\ y.round = m /\ y.numbers = x
      BY DEF event, Entry
    <2> QED
      BY <2>1
  <1>3. PICK c \in Int : c = IF state = "STOP" THEN NoCandidate ELSE g
    BY DEF NoCandidate
  <1>4. c = CandidateOf(p, e)
    BY <1>1, <1>2, <1>3 DEF CandidateOf, Retargeted
  <1>5. PICK a \in Added : /\ a = add_entry(state, c, e) /\ Carried(a, e)
                           /\ a.state = state /\ a.candidate = c /\ a.round = m
    <2> DEFINE y == add_entry(state, c, e)
    <2>1. /\ y \in Added /\ y.state = state /\ y.candidate = c /\ y.round = m
          /\ y.numbers = e.numbers /\ y.payload_hash = e.numbers
      BY <1>2 DEF add_entry, Added
    <2> QED
      BY <2>1 DEF Carried
  <1>6. Entries(p, e, c) = <<a>>
    BY <1>2, <1>5 DEF Entries
  <1>7. /\ Search!Accepts(Seen(V, V, V, K, n), a)
        /\ Search!pending_candidates(Search!After(Seen(V, V, V, K, n), a)) = {}
    <2>1. Closes(V, n, a)
      BY <1>3, <1>5 DEF Closes
    <2> QED
      BY <2>1, ReplayEnds
  <1>8. longer = Append(l, e)
    BY <1>2
  <1>9. ReadsAs(longer, Moved(p, e, c, <<a>>), Search!After(Seen(V, V, V, K, n), a))
    BY <1>1, <1>4, <1>5, <1>6, <1>7, <1>8, ReadsOne
  <1>10. PICK entries \in Seq(Added) :
            /\ Projected(longer) = entries /\ Carries(longer, entries)
            /\ Search!Replays(entries) =
                  [ok |-> TRUE, replay |-> Search!After(Seen(V, V, V, K, n), a)]
    BY <1>9 DEF ReadsAs, Projected
  <1>11. Ended(longer)
    <2>1. /\ Replayed(longer) = Search!Replays(entries)
          /\ Verified(sanitize_for_json(entries)) <=> ~NonFinite(entries)
      BY <1>10, Sanitized DEF Carries, Replayed
    <2> QED
      BY <1>7, <1>10, <2>1 DEF Ended, Carries
  <1> QED
    BY <1>11

-----------------------------------------------------------------------------
(* The ledgers of a run *)

Typed == fixture \in Fixtures /\ surface \in Surfaces

Compiled == Append(<<>>, event("COMPILE", 0, 0, fixture.numbers))
Assessed == Append(Compiled, event("EVALUATE", 0, 1, surface.first))
Decided  == Append(Assessed, event("ACTION", 0, 1, "finite"))
Found    == Append(Decided, event("RESULT", 0, 1, "finite"))
Stopped  == Append(Decided, event("STOP", 0, 1, "finite"))
Expanded == Append(Decided, event("EXPAND", 0, 2, "finite"))
Split2   == Append(Expanded, event("EVALUATE", 0, 2, surface.second))
SplitUp  == Append(Split2, event("RESULT", 0, 2, "finite"))

\* They are the ledgers of one fixture and one surface.
LEMMA LedgersKept ==
    ASSUME UNCHANGED <<fixture, surface>>
    PROVE  /\ Typed' = Typed /\ Compiled' = Compiled /\ Decided' = Decided
           /\ Found' = Found /\ Stopped' = Stopped /\ SplitUp' = SplitUp
  BY DEF Typed, Compiled, Assessed, Decided, Found, Stopped, Expanded, Split2, SplitUp

LEMMA NumbersTyped ==
    ASSUME Typed
    PROVE  /\ fixture.numbers \in Recordings /\ surface.first \in Recordings
           /\ surface.second \in Recordings /\ "finite" \in Recordings
  BY DEF Typed, Fixtures, Surfaces, Recordings

LEMMA EventTypes ==
    ASSUME Typed
    PROVE  /\ event("COMPILE", 0, 0, fixture.numbers) \in Entry
           /\ event("EVALUATE", 0, 1, surface.first) \in Entry
           /\ event("ACTION", 0, 1, "finite") \in Entry
           /\ event("RESULT", 0, 1, "finite") \in Entry
           /\ event("STOP", 0, 1, "finite") \in Entry
           /\ event("EXPAND", 0, 2, "finite") \in Entry
           /\ event("EVALUATE", 0, 2, surface.second) \in Entry
           /\ event("RESULT", 0, 2, "finite") \in Entry
  BY NumbersTyped DEF event, Entry

LEMMA LedgerTypes ==
    ASSUME Typed
    PROVE  /\ Compiled \in Seq(Entry) /\ Assessed \in Seq(Entry) /\ Decided \in Seq(Entry)
           /\ Found \in Seq(Entry) /\ Stopped \in Seq(Entry)
           /\ Expanded \in Seq(Entry) /\ Split2 \in Seq(Entry) /\ SplitUp \in Seq(Entry)
  <1>1. \A l \in Seq(Entry), e \in Entry : Append(l, e) \in Seq(Entry)
    OBVIOUS
  <1>2. <<>> \in Seq(Entry)
    OBVIOUS
  <1>3. Compiled \in Seq(Entry)
    BY <1>1, <1>2, EventTypes DEF Compiled
  <1>4. Decided \in Seq(Entry) /\ Assessed \in Seq(Entry)
    BY <1>1, <1>3, EventTypes DEF Decided, Assessed
  <1>5. Found \in Seq(Entry) /\ Stopped \in Seq(Entry) /\ Expanded \in Seq(Entry)
    BY <1>1, <1>4, EventTypes DEF Found, Stopped, Expanded
  <1>6. Split2 \in Seq(Entry) /\ SplitUp \in Seq(Entry)
    BY <1>1, <1>5, EventTypes DEF Split2, SplitUp
  <1> QED
    BY <1>3, <1>4, <1>5, <1>6

\* The replay accepts each of them and knows of no candidate left.
LEMMA LedgersEnd ==
    ASSUME Typed
    PROVE  Ended(Found) /\ Ended(Stopped) /\ Ended(SplitUp)
  <1>1. Follows(Compiled, {0}, {}, {}, 0, 0, 0)
    <2>1. <<>> \in Seq(Entry)
      OBVIOUS
    <2> QED
      BY <2>1, NumbersTyped, FollowsNothing, FollowsCompile DEF Compiled
  <1>2. Follows(Assessed, {0}, {0}, {}, 1, 0, 0)
    <2>1. Assessed = Append(Compiled, event("EVALUATE", 0, 1, surface.first))
      BY DEF Assessed
    <2>2. Adds(0, {0}, {}, {0})
      BY DEF Adds
    <2>3. ASSUME NEW A, NEW V, NEW K, NEW n \in Int, NEW k, NEW g \in Int,
                 Follows(Compiled, A, V, K, n, k, g), NEW W, Adds(g, A, V, W), NEW m \in Int,
                 m >= n, NEW x \in Recordings,
                 Assessed = Append(Compiled, event("EVALUATE", 0, m, x))
          PROVE  Follows(Assessed, A, W, K, m, k, g)
      BY <2>3, LedgerTypes, FollowsEvaluate
    <2> QED
      BY <1>1, <2>1, <2>2, <2>3, NumbersTyped
  <1>3. Follows(Decided, {0}, {0}, {0}, 1, 0, 0)
    <2>1. Decided = Append(Assessed, event("ACTION", 0, 1, "finite"))
      BY DEF Decided
    <2>2. {} \cup {0} = {0} /\ 0 \in {0} \ {}
      OBVIOUS
    <2>3. ASSUME NEW A, NEW V, NEW K, NEW n \in Int, NEW k, NEW g \in Int,
                 Follows(Assessed, A, V, K, n, k, g), NEW m \in Int, m >= n, g \in V \ K,
                 NEW x \in Recordings, Decided = Append(Assessed, event("ACTION", 0, m, x))
          PROVE  Follows(Decided, A, V, K \cup {g}, m, k, g)
      BY <2>3, LedgerTypes, FollowsAction
    <2>4. Follows(Decided, {0}, {0}, {} \cup {0}, 1, 0, 0)
      BY <1>2, <2>1, <2>2, <2>3, NumbersTyped
    <2> QED
      BY <2>2, <2>4
  <1>4. Ended(Found) /\ Ended(Stopped)
    <2>1. ASSUME NEW state \in {"RESULT", "STOP"}, NEW longer,
                 longer = Append(Decided, event(state, 0, 1, "finite"))
          PROVE  Ended(longer)
      <3>1. ASSUME NEW V, NEW K, NEW n \in Int, NEW k, NEW g \in V, g \in Int,
                   Follows(Decided, V, V, K, n, k, g), NEW m \in Int, m >= n,
                   NEW x \in Recordings, longer = Append(Decided, event(state, 0, m, x))
            PROVE  Ended(longer)
        BY <3>1, LedgerTypes, FollowsEnd
      <3>2. 0 \in {0}
        OBVIOUS
      <3> QED
        BY <1>3, <2>1, <3>1, <3>2, NumbersTyped
    <2> QED
      BY <2>1 DEF Found, Stopped
  <1>5. Follows(Expanded, {0, 1}, {0}, {0}, 2, 1, 1)
    <2>1. Expanded = Append(Decided, event("EXPAND", 0, 2, "finite"))
      BY DEF Expanded
    <2>2. Opens(1, 0, {0}, {0, 1})
      BY DEF Opens
    <2>3. ASSUME NEW A, NEW V, NEW K, NEW n \in Int, NEW k \in Nat, NEW g,
                 Follows(Decided, A, V, K, n, k, g), NEW c, NEW B, Opens(c, k, A, B),
                 NEW m \in Int, m >= n, NEW x \in Recordings,
                 Expanded = Append(Decided, event("EXPAND", 0, m, x))
          PROVE  Follows(Expanded, B, V, K, m, c, c)
      BY <2>3, LedgerTypes, FollowsExpand
    <2> QED
      BY <1>3, <2>1, <2>2, <2>3, NumbersTyped
  <1>6. Follows(Split2, {0, 1}, {0, 1}, {0}, 2, 1, 1)
    <2>1. Split2 = Append(Expanded, event("EVALUATE", 0, 2, surface.second))
      BY DEF Split2
    <2>2. Adds(1, {0, 1}, {0}, {0, 1})
      BY DEF Adds
    <2>3. ASSUME NEW A, NEW V, NEW K, NEW n \in Int, NEW k, NEW g \in Int,
                 Follows(Expanded, A, V, K, n, k, g), NEW W, Adds(g, A, V, W), NEW m \in Int,
                 m >= n, NEW x \in Recordings,
                 Split2 = Append(Expanded, event("EVALUATE", 0, m, x))
          PROVE  Follows(Split2, A, W, K, m, k, g)
      BY <2>3, LedgerTypes, FollowsEvaluate
    <2> QED
      BY <1>5, <2>1, <2>2, <2>3, NumbersTyped
  <1>7. Ended(SplitUp)
    <2>1. SplitUp = Append(Split2, event("RESULT", 0, 2, "finite"))
      BY DEF SplitUp
    <2>2. 1 \in {0, 1} /\ "RESULT" \in {"RESULT", "STOP"}
      OBVIOUS
    <2>3. ASSUME NEW V, NEW K, NEW n \in Int, NEW k, NEW g \in V, g \in Int,
                 Follows(Split2, V, V, K, n, k, g), NEW m \in Int, m >= n,
                 NEW x \in Recordings, SplitUp = Append(Split2, event("RESULT", 0, m, x))
          PROVE  Ended(SplitUp)
      BY <2>2, <2>3, LedgerTypes, FollowsEnd
    <2> QED
      BY <1>6, <2>1, <2>2, <2>3, NumbersTyped
  <1> QED
    BY <1>4, <1>7

-----------------------------------------------------------------------------
(* What a run has recorded wherever it is *)

Runs == [ledger : Seq(Entry), drawn : {"fixture", "run default", "replay default"}]

\* The rounds of the fixture leave it to the clock whether the split is made.
SplitsInTime(a) ==
    a = "split_regime" /\ fixture.split = "known variable" /\ fixture.max_rounds >= 2

\* The ledgers a run that chose action a can conclude with.
ConcludedBy(a, l) == \/ a = "stop" /\ l = Found
                     \/ a # "stop" /\ l = Stopped
                     \/ SplitsInTime(a) /\ l = SplitUp

\* The run at hand: its ledger is the one of the place it is at, it has a verdict
\* once it concluded, and it is over when its replay found every hash again.
AtHand ==
    /\ pc \in {"start", "evaluate", "conclude", "project", "over", "raised", "exit"}
    /\ pc = "start" => ledger = <<>>
    /\ pc = "evaluate" => ledger = Compiled
    /\ pc = "conclude" => ledger = Decided
    /\ pc \in {"conclude", "project", "over"} => action = select_action(surface)
    /\ pc \in {"project", "over"} => ConcludedBy(action, ledger) /\ status # ""
    /\ pc \in {"start", "evaluate", "conclude"} => status = ""
    /\ pc = "over" => ~NonFinite(ledger)
    /\ pc = "raised" /\ status # "" => NonFinite(ledger)

\* The runs that are over, when the fixture gives the particles: all of them
\* chose the action the run at hand chooses.
SameParticles ==
    /\ drawn = "fixture"
    /\ \A i \in DOMAIN saved : /\ saved[i].drawn = "fixture"
                               /\ ConcludedBy(select_action(surface), saved[i].ledger)

\* And when it does not: the defaults of the replay are not those of the run, so
\* a third run is never made.
OtherParticles ==
    /\ Len(saved) <= 1
    /\ Len(saved) = 0 => drawn = "run default"
    /\ Len(saved) # 0 => drawn = "replay default"
    /\ \A i \in DOMAIN saved : saved[i].drawn = "run default"

Past == /\ saved \in Seq(Runs)
        /\ fixture.particles => SameParticles
        /\ ~fixture.particles => OtherParticles

RunInv ==
    /\ Typed
    /\ AtHand
    /\ Past
    /\ outcome # "" => pc = "exit"
    /\ ReplayDivergesWithCause

LEMMA ConcatThree ==
    ASSUME NEW S, NEW s \in Seq(S), NEW a \in S, NEW b \in S, NEW c \in S,
           NEW once, once = Append(s, a), NEW twice, twice = Append(once, b),
           NEW z, z = Append(twice, c)
    PROVE  s \o <<a, b, c>> = z
  <1>1. <<a, b>> \in Seq(S) /\ <<c>> \in Seq(S) /\ <<a, b, c>> = Append(<<a, b>>, c)
    OBVIOUS
  <1>2. s \o <<a, b>> = twice /\ twice \in Seq(S)
    BY ConcatTwo
  <1>3. <<a, b, c>> = <<a, b>> \o <<c>>
    BY <1>1, ConcatOne
  <1>4. s \o (<<a, b>> \o <<c>>) = (s \o <<a, b>>) \o <<c>>
    BY <1>1, ConcatAssociative
  <1>5. twice \o <<c>> = z
    BY <1>2, ConcatOne
  <1> QED
    BY <1>2, <1>3, <1>4, <1>5

\* What the events of a step make of the ledger they are pushed to.
LEMMA Recording ==
    ASSUME Typed
    PROVE  /\ <<>> \o <<event("COMPILE", 0, 0, fixture.numbers)>> = Compiled
           /\ Compiled \o <<event("EVALUATE", 0, 1, surface.first),
                           event("ACTION", 0, 1, "finite")>> = Decided
           /\ Decided \o <<event("RESULT", 0, 1, "finite")>> = Found
           /\ Decided \o <<event("STOP", 0, 1, "finite")>> = Stopped
           /\ Decided \o <<event("EXPAND", 0, 2, "finite"), event("EVALUATE", 0, 2, surface.second),
                          event("RESULT", 0, 2, "finite")>> = SplitUp
  <1>1. <<>> \in Seq(Entry)
    OBVIOUS
  <1>2. <<>> \o <<event("COMPILE", 0, 0, fixture.numbers)>> = Compiled
    BY <1>1, EventTypes, ConcatOne DEF Compiled
  <1>3. Compiled \o <<event("EVALUATE", 0, 1, surface.first),
                      event("ACTION", 0, 1, "finite")>> = Decided
    BY EventTypes, LedgerTypes, ConcatTwo DEF Assessed, Decided
  <1>4. /\ Decided \o <<event("RESULT", 0, 1, "finite")>> = Found
        /\ Decided \o <<event("STOP", 0, 1, "finite")>> = Stopped
    BY EventTypes, LedgerTypes, ConcatOne DEF Found, Stopped
  <1>5. Decided \o <<event("EXPAND", 0, 2, "finite"), event("EVALUATE", 0, 2, surface.second),
                     event("RESULT", 0, 2, "finite")>> = SplitUp
    BY EventTypes, LedgerTypes, ConcatThree DEF Expanded, Split2, SplitUp
  <1> QED
    BY <1>2, <1>3, <1>4, <1>5

\* Two ledgers the same action concludes with differ by the split only.
LEMMA ClockDecides ==
    ASSUME NEW a, NEW l, NEW m, ConcludedBy(a, l), ConcludedBy(a, m), l # m
    PROVE  SplitsInTime(a)
  BY DEF ConcludedBy

LEMMA Concluding ==
    ASSUME Typed, NEW a, NEW l, ConcludedBy(a, l)
    PROVE  l \in Seq(Entry) /\ Ended(l)
  BY LedgersEnd, LedgerTypes DEF ConcludedBy

LEMMA PastKept ==
    ASSUME Past, UNCHANGED <<fixture, surface, drawn, saved>>
    PROVE  Past'
  BY LedgersKept DEF Past, SameParticles, OtherParticles, ConcludedBy, SplitsInTime, select_action

LEMMA RunInvHoldsFirst == Init => RunInv
  <1> SUFFICES ASSUME Init PROVE RunInv
    OBVIOUS
  <1>1. saved \in Seq(Runs) /\ Len(saved) = 0 /\ DOMAIN saved = {}
    <2>1. saved = <<>>
      BY DEF Init
    <2>2. <<>> \in Seq(Runs) /\ Len(<<>>) = 0 /\ DOMAIN <<>> = {}
      OBVIOUS
    <2> QED
      BY <2>1, <2>2
  <1>2. AtHand /\ Typed
    BY DEF Init, AtHand, Typed
  <1>3. Past
    <2>1. /\ fixture.particles => drawn = "fixture"
          /\ ~fixture.particles => drawn = "run default"
      BY Zenon DEF Init
    <2>2. ASSUME drawn = "fixture" PROVE SameParticles
      BY <1>1, <2>2 DEF SameParticles
    <2>3. ASSUME drawn = "run default" PROVE OtherParticles
      <3>1. Len(saved) <= 1 /\ ~(Len(saved) # 0)
        BY <1>1
      <3>2. \A i \in DOMAIN saved : saved[i].drawn = "run default"
        BY <1>1
      <3> QED
        BY <2>3, <3>1, <3>2 DEF OtherParticles
    <2> QED
      BY <1>1, <2>1, <2>2, <2>3, Zenon DEF Past
  <1> QED
    BY <1>2, <1>3 DEF Init, RunInv, ReplayDivergesWithCause

\* A step that only changes the run at hand.
LEMMA RunInvWithin ==
    ASSUME RunInv, UNCHANGED <<fixture, surface, drawn, saved, outcome>>, outcome = "", AtHand'
    PROVE  RunInv'
  <1>1. Past' /\ Typed'
    BY PastKept, LedgersKept DEF RunInv
  <1> QED
    BY <1>1 DEF RunInv, ReplayDivergesWithCause

\* The command runs the fixture once more.
LEMMA RunInvRerun ==
    ASSUME RunInv, Rerun
    PROVE  RunInv'
  <1>1. /\ saved \in Seq(Runs) /\ saved' = Append(saved, Recorded)
        /\ fixture' = fixture /\ outcome' = outcome /\ outcome = ""
        /\ ConcludedBy(select_action(surface), ledger)
        /\ \A i \in DOMAIN saved : saved[i] = Recorded
    BY DEF RunInv, Past, AtHand, Rerun
  <1>2. AtHand' /\ Typed'
    <2>1. AtHand'
      BY DEF AtHand, Rerun
    <2>2. surface' \in Surfaces /\ fixture' \in Fixtures
      BY DEF RunInv, Typed, Rerun
    <2> QED
      BY <2>1, <2>2 DEF Typed
  <1>3. Len(saved) \in Nat /\ DOMAIN saved = 1..Len(saved)
    <2>1. saved \in Seq(Runs)
      BY <1>1
    <2> QED
      BY <2>1
  <1>4. ASSUME drawn \in {"fixture", "run default", "replay default"}
        PROVE  /\ saved' \in Seq(Runs) /\ Len(saved') = Len(saved) + 1
               /\ DOMAIN saved' = 1..(Len(saved) + 1)
               /\ \A i \in DOMAIN saved : saved'[i] = saved[i]
               /\ saved'[Len(saved) + 1].ledger = ledger
               /\ saved'[Len(saved) + 1].drawn = drawn
               /\ Len(saved) \in Nat /\ DOMAIN saved = 1..Len(saved)
    <2>1. PICK r \in Runs : r = Recorded /\ r.ledger = ledger /\ r.drawn = drawn
      <3>1. ledger \in Seq(Entry)
        BY <1>1, Concluding DEF RunInv
      <3> DEFINE x == Recorded
      <3>2. x \in Runs /\ x.ledger = ledger /\ x.drawn = drawn
        BY <1>4, <3>1 DEF Recorded, Runs
      <3> QED
        BY <3>2
    <2>2. saved' = Append(saved, r) /\ saved \in Seq(Runs)
      BY <1>1, <2>1
    <2>3. /\ saved' \in Seq(Runs) /\ Len(saved') = Len(saved) + 1 /\ Len(saved) \in Nat
          /\ DOMAIN saved' = 1..(Len(saved) + 1) /\ DOMAIN saved = 1..Len(saved)
          /\ \A i \in 1..Len(saved) : saved'[i] = saved[i]
          /\ saved'[Len(saved) + 1] = r
      BY <2>2
    <2> QED
      BY <2>1, <2>3
  <1>5. CASE fixture.particles
    <2>1. SameParticles /\ surface' = surface /\ drawn' = drawn
      BY <1>5, Zenon DEF RunInv, Past, Rerun
    <2>2. drawn = "fixture"
      BY <2>1 DEF SameParticles
    <2>3. ASSUME NEW i \in DOMAIN saved'
          PROVE  /\ saved'[i].drawn = "fixture"
                 /\ ConcludedBy(select_action(surface), saved'[i].ledger)
      <3>1. i \in DOMAIN saved \/ i = Len(saved) + 1
        <4>1. i \in 1..(Len(saved) + 1) /\ DOMAIN saved = 1..Len(saved) /\ Len(saved) \in Nat
          BY <1>4, <2>2
        <4> QED
          BY <4>1
      <3>2. CASE i \in DOMAIN saved
        BY <1>4, <2>1, <2>2, <3>2 DEF SameParticles
      <3>3. CASE i = Len(saved) + 1
        BY <1>1, <1>4, <2>2, <3>3
      <3> QED
        BY <3>1, <3>2, <3>3
    <2>4. SameParticles'
      BY <1>1, <2>1, <2>2, <2>3, LedgersKept DEF SameParticles, ConcludedBy, SplitsInTime, select_action
    <2>5. Past'
      BY <1>1, <1>4, <1>5, <2>2, <2>4, Zenon DEF Past
    <2> QED
      BY <1>1, <1>2, <2>5 DEF RunInv, ReplayDivergesWithCause
  <1>6. CASE ~fixture.particles
    <2>1. OtherParticles /\ drawn' = "replay default"
      BY <1>6, Zenon DEF RunInv, Past, Rerun
    <2>2. Len(saved) = 0 /\ drawn = "run default"
      <3>1. CASE Len(saved) = 0
        BY <2>1, <3>1 DEF OtherParticles
      <3>2. CASE Len(saved) # 0
        <4>1. 1 \in DOMAIN saved
          BY <1>3, <3>2
        <4>2. saved[1].drawn = drawn
          <5>1. saved[1] = Recorded
            BY <1>1, <4>1
          <5> QED
            BY <5>1 DEF Recorded
        <4>3. saved[1].drawn = "run default" /\ drawn = "replay default"
          BY <2>1, <3>2, <4>1 DEF OtherParticles
        <4> QED
          BY <4>2, <4>3
      <3> QED
        BY <3>1, <3>2
    <2>3. /\ Len(saved') = 0 + 1 /\ DOMAIN saved' = 1..(0 + 1)
          /\ saved'[0 + 1].drawn = "run default"
      BY <1>4, <2>2
    <2>4. OtherParticles'
      <3>1. Len(saved') <= 1 /\ Len(saved') # 0
        <4>1. Len(saved') = 0 + 1
          BY <2>3
        <4> QED
          BY <4>1
      <3>2. ASSUME NEW i \in DOMAIN saved' PROVE saved'[i].drawn = "run default"
        <4>1. i \in 1..(0 + 1)
          BY <2>3
        <4>2. i = 0 + 1
          BY <4>1
        <4> QED
          BY <2>3, <4>2
      <3> QED
        BY <2>1, <3>1, <3>2 DEF OtherParticles
    <2>5. Past'
      BY <1>1, <1>4, <1>6, <2>2, <2>4, Zenon DEF Past
    <2> QED
      BY <1>1, <1>2, <2>5 DEF RunInv, ReplayDivergesWithCause
  <1> QED
    BY <1>5, <1>6

\* The command compares the run at hand with the one before it.
LEMMA RunInvCompare ==
    ASSUME RunInv, Compare
    PROVE  RunInv'
  <1> DEFINE last == saved[Len(saved)]
             a    == select_action(surface)
  <1>1. /\ UNCHANGED <<fixture, surface, drawn, action, saved>> /\ pc' = "exit"
        /\ outcome' = IF last = Recorded THEN "ok"
                      ELSE IF Len(saved) = 1 THEN "ledger_mismatch" ELSE "non_deterministic"
        /\ Past /\ action = a /\ ConcludedBy(a, ledger)
    BY DEF Compare, RunInv, AtHand
  <1>2. last \in Runs /\ Len(saved) \in DOMAIN saved /\ Len(saved) # 0
    <2>1. saved \in Seq(Runs)
      BY DEF RunInv, Past
    <2>2. Len(saved) > 0
      BY DEF Compare
    <2> QED
      BY <2>1, <2>2
  <1>3. ASSUME last # Recorded, fixture.particles
        PROVE  SplitsInTime(action)
    <2>1. SameParticles
      BY <1>1, <1>3, Zenon DEF Past
    <2>2. last.drawn = drawn /\ ConcludedBy(a, last.ledger)
      BY <1>2, <2>1 DEF SameParticles
    <2>3. last = [ledger |-> last.ledger, drawn |-> last.drawn]
      BY <1>2 DEF Runs
    <2>4. last.ledger # ledger
      BY <1>3, <2>2, <2>3 DEF Recorded
    <2> QED
      BY <1>1, <2>2, <2>4, ClockDecides
  <1>4. ASSUME ~fixture.particles
        PROVE  last # Recorded /\ Len(saved) = 1
    <2>1. OtherParticles
      BY <1>1, <1>4, Zenon DEF Past
    <2>2. Len(saved) <= 1 /\ Len(saved) \in Nat
      <3>1. saved \in Seq(Runs)
        BY DEF RunInv, Past
      <3>2. Len(saved) \in Nat
        BY <3>1
      <3>3. Len(saved) <= 1
        BY <2>1 DEF OtherParticles
      <3> QED
        BY <3>2, <3>3
    <2>3. last.drawn = "run default" /\ drawn = "replay default"
      BY <1>2, <2>1 DEF OtherParticles
    <2>4. last # Recorded
      <3>1. Recorded.drawn = drawn
        BY DEF Recorded
      <3> HIDE DEF last
      <3> QED
        BY <2>3, <3>1
    <2>5. Len(saved) = 1
      <3>1. Len(saved) # 0
        BY <1>2
      <3>2. \A k \in Nat : k <= 1 /\ k # 0 => k = 1
        OBVIOUS
      <3> QED
        BY <2>2, <3>1, <3>2
    <2> QED
      BY <2>4, <2>5
  <1>5. Past' /\ Typed'
    BY <1>1, PastKept, LedgersKept DEF RunInv
  <1>6. AtHand'
    BY <1>1 DEF AtHand
  <1>7. /\ outcome' = "ok" => fixture.particles
        /\ outcome' = "ledger_mismatch" => ~fixture.particles \/ SplitsInTime(action)
        /\ outcome' = "non_deterministic" => SplitsInTime(action)
    <2>1. /\ outcome' = "ok" => last = Recorded
          /\ outcome' = "ledger_mismatch" => last # Recorded
          /\ outcome' = "non_deterministic" => last # Recorded /\ Len(saved) # 1
      BY <1>1
    <2> HIDE DEF last
    <2> QED
      BY <1>3, <1>4, <2>1, Zenon
  <1>8. ReplayDivergesWithCause'
    BY <1>1, <1>7, Zenon DEF ReplayDivergesWithCause, SplitsInTime
  <1> QED
    BY <1>1, <1>5, <1>6, <1>8 DEF RunInv

LEMMA RunInvHoldsNext == RunInv /\ [Next]_vars => RunInv'
  <1> SUFFICES ASSUME RunInv, [Next]_vars PROVE RunInv'
    OBVIOUS
  <1>0. ASSUME pc # "exit" PROVE outcome = ""
    BY <1>0 DEF RunInv
  <1>1. CASE Unavailable
    <2>1. AtHand'
      BY <1>1 DEF Unavailable, AtHand
    <2> QED
      BY <1>0, <1>1, <2>1, RunInvWithin DEF Unavailable
  <1>2. CASE Compile
    <2>1. /\ pc' = "evaluate" /\ ledger = <<>> /\ status = "" /\ Typed
          /\ ledger' = ledger \o <<event("COMPILE", 0, 0, fixture.numbers)>>
          /\ UNCHANGED <<fixture, surface, status>>
      BY <1>2 DEF Compile, RunInv, AtHand, push_events
    <2>2. ledger' = Compiled'
      BY <2>1, Recording, LedgersKept
    <2>3. AtHand'
      BY <2>1, <2>2 DEF AtHand
    <2> QED
      BY <1>0, <1>2, <2>3, RunInvWithin DEF Compile
  <1>3. CASE Evaluate
    <2>1. /\ pc' = "conclude" /\ ledger = Compiled /\ action' = select_action(surface) /\ Typed
          /\ ledger' = ledger \o <<event("EVALUATE", 0, 1, surface.first),
                                 event("ACTION", 0, 1, "finite")>>
          /\ UNCHANGED <<fixture, surface, status>> /\ status = ""
      BY <1>3 DEF Evaluate, RunInv, AtHand, push_events
    <2>2. ledger' = Decided'
      BY <2>1, Recording, LedgersKept
    <2>3. AtHand'
      BY <2>1, <2>2 DEF AtHand, select_action
    <2> QED
      BY <1>0, <1>3, <2>3, RunInvWithin DEF Evaluate
  <1>4. ASSUME NEW events, NEW verdict, Concludes(events, verdict), verdict # "",
               ConcludedBy(action, Decided \o events)
        PROVE  RunInv'
    <2>1. /\ pc = "conclude" /\ pc' = "project" /\ ledger' = Decided \o events
          /\ UNCHANGED <<action, surface, fixture>> /\ status' # ""
          /\ action = select_action(surface)
      BY <1>4 DEF Concludes, RunInv, AtHand, push_events
    <2>2. ConcludedBy(action, ledger)'
      BY <1>4, <2>1, LedgersKept DEF ConcludedBy, SplitsInTime
    <2>3. AtHand'
      BY <2>1, <2>2 DEF AtHand, select_action
    <2> QED
      BY <1>0, <1>4, <2>1, <2>3, RunInvWithin DEF Concludes
  <1>5. CASE ConcludeStop
    BY <1>4, <1>5, Recording DEF ConcludeStop, ConcludedBy, RunInv
  <1>6. CASE Split
    BY <1>4, <1>6, Recording DEF Split, ConcludedBy, SplitsInTime, RunInv
  <1>7. CASE SplitOverBudget
    BY <1>4, <1>7, Recording DEF SplitOverBudget, ConcludedBy, RunInv
  <1>8. CASE ConcludeUnresolved
    BY <1>4, <1>8, Recording DEF ConcludeUnresolved, ConcludedBy, RunInv
  <1>9. CASE Project
    <2>1. /\ ConcludedBy(action, ledger) /\ action = select_action(surface) /\ Typed
          /\ UNCHANGED <<fixture, surface, ledger, action, status>> /\ status # ""
      BY <1>9 DEF Project, RunInv, AtHand
    <2>2. pc' = IF /\ Verified(sanitize_for_json(Projected(ledger)))
                   /\ Replayed(ledger).ok
                THEN "over" ELSE "raised"
      BY <1>9 DEF Project, Verified, Replayed
    <2>3. Ended(ledger)
      BY <2>1, Concluding
    <2>4. pc' = IF NonFinite(ledger) THEN "raised" ELSE "over"
      BY <2>2, <2>3 DEF Ended
    <2>5. ConcludedBy(action, ledger)'
      BY <2>1, LedgersKept DEF ConcludedBy, SplitsInTime
    <2>6. NonFinite(ledger)' = NonFinite(ledger)
      BY <2>1 DEF NonFinite
    <2>7. AtHand'
      BY <2>1, <2>4, <2>5, <2>6 DEF AtHand, select_action
    <2> QED
      BY <1>0, <1>9, <2>7, RunInvWithin DEF Project
  <1>10. CASE Rerun
    BY <1>10, RunInvRerun
  <1>11. CASE Compare
    BY <1>11, RunInvCompare
  <1>12. ASSUME EvaluationRaises \/ SplitRaises PROVE RunInv'
    <2>1. /\ UNCHANGED <<fixture, surface, drawn, status, saved, outcome>> /\ pc' = "raised"
          /\ status = "" /\ pc # "exit"
      BY <1>12 DEF EvaluationRaises, SplitRaises, RunInv, AtHand
    <2>2. AtHand'
      BY <2>1 DEF AtHand
    <2> QED
      BY <1>0, <2>1, <2>2, RunInvWithin
  <1>13. CASE UNCHANGED vars
    <2>1. Past' /\ Typed'
      BY <1>13, PastKept, LedgersKept DEF vars, RunInv
    <2>2. AtHand'
      BY <1>13, LedgersKept
         DEF vars, RunInv, AtHand, select_action, ConcludedBy, SplitsInTime, NonFinite
    <2> QED
      BY <1>13, <2>1, <2>2 DEF vars, RunInv, ReplayDivergesWithCause
  <1> QED
    BY <1>1, <1>2, <1>3, <1>5, <1>6, <1>7, <1>8, <1>9, <1>10, <1>11, <1>12,
       <1>13 DEF Next, Exited

LEMMA RunInvHolds == Spec => []RunInv
  BY RunInvHoldsFirst, RunInvHoldsNext, PTL DEF Spec

\* The replay of search_replay accepts the transitions of whatever a run recorded
\* and is left with no candidate, for every fixture, every surface and every bound
\* on the rounds; the one thing it raises for is a number that JSON has not, whose
\* hash the runner took before it turned the number into text.
THEOREM ProjectionReplayed == Spec => []ProjectionReplays
  <1>1. ASSUME RunInv PROVE ProjectionReplays
    <2>1. ASSUME pc = "over" PROVE ~NonFinite(ledger) /\ Ended(ledger)
      BY <1>1, <2>1, Concluding DEF RunInv, AtHand
    <2>2. ASSUME pc = "raised", status # "" PROVE NonFinite(ledger)
      BY <1>1, <2>2 DEF RunInv, AtHand
    <2> QED
      BY <2>1, <2>2 DEF ProjectionReplays, Ended
  <1> QED
    BY <1>1, RunInvHolds, PTL

\* A replay that differs from the saved ledger has one of two causes: a fixture
\* that leaves the particles open, or a split that the clock decides.
THEOREM DivergenceExplained == Spec => []ReplayDivergesWithCause
  <1>1. RunInv => ReplayDivergesWithCause
    BY DEF RunInv
  <1> QED
    BY <1>1, RunInvHolds, PTL
=============================================================================
