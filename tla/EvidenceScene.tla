---------------------------- MODULE EvidenceScene ---------------------------
(***************************************************************************)
(* From source text to a settled scene (evidence.py, scenes.py): sources   *)
(* are cut into atomic propositions, each typed and given two confidences; *)
(* the admissible ones become events, and what they contradict, claim or   *)
(* leave open is kept apart.                                               *)
(*                                                                         *)
(* A passage is a model value; Reading[passage] holds what the patterns of *)
(* the code find in it:                                                    *)
(*   kind      the type _default_classification gives it                   *)
(*   direct    it describes an act of record, which the text instantiates  *)
(*   speaker   it names who speaks, or carries the speaker of the one      *)
(*             before it                                                   *)
(*   context   it holds a cue of context-only material                     *)
(*   cue       the type its wording has for _safe_scene_type, or NoCue     *)
(*   stance    the status it attributes to a topic, or NoStance            *)
(*   time      the time it states, or NoTime                               *)
(*   disputes  it says that a date or time is disputed                     *)
(***************************************************************************)
EXTENDS Integers, Sequences, FiniteSets

CONSTANTS Reading, NoCue, NoStance, NoTime

FactTypes == {"observed_event", "primary_record"}
Positions == {"rhetoric", "evaluation"}

\* What the wording of a fact may turn it into (_safe_scene_type).
CueTypes == {"omission", "rhetoric", "forecast", "attributed_statement"}

----------------------------------------------------------------------------
(* Propositions.                                                           *)

\* The three dispositions compile gives a source.
Disposition(source) ==
    IF source.relevance # {} THEN "admitted" ELSE IF source.declared THEN "excluded" ELSE "unassessed"

relevance_for(r, kind, declared) ==
    IF declared = {} THEN {}
    ELSE IF kind \in Positions \cup {"forecast"} \/ r.context THEN {"context_only"} ELSE declared

create_proposition(source, i) ==
    LET passage == source.passages[i]
        r       == Reading[passage]
        kind    == IF r.kind = "primary_record" /\ source.speaker /\ r.context
                   THEN "attributed_statement" ELSE r.kind
    IN  [id        |-> <<source.id, i>>,
         source    |-> source.id,
         passage   |-> passage,
         kind      |-> kind,
         speaker   |-> source.speaker \/ (kind # "omission" /\ r.speaker),
         relevance |-> relevance_for(r, kind, source.relevance),
         truth     |-> r.kind = "observed_event" \/ (r.kind = "primary_record" /\ r.direct)]

segment_propositions(source) == [i \in DOMAIN source.passages |-> create_proposition(source, i)]

----------------------------------------------------------------------------
(* The scene.  fields maps the id of an atom to the fact the caller bound. *)

AtomsOf(propositions) == {propositions[i] : i \in DOMAIN propositions}

SafeType(atom) ==
    LET cue == Reading[atom.passage].cue
    IN  IF atom.kind \in FactTypes /\ cue # NoCue THEN cue ELSE atom.kind

\* Facts by their wording whose truth nobody settled.
ClaimedOnly(atoms) == {a \in atoms : SafeType(a) \in FactTypes /\ ~a.truth}

\* Fault: the type the classifier gave is trusted.
settlement_as_classified(atoms) == {[a EXCEPT !.truth = a.truth \/ a \in ClaimedOnly(atoms)] : a \in atoms}

\* The atoms as the settler sees them: the safer type, and the support of the
\* record for a claim.
Settlement(atoms) ==
    {[a EXCEPT !.kind = SafeType(a), !.truth = a.truth \/ a \in ClaimedOnly(atoms)] : a \in atoms}

event_fact_admissibility(atom) == atom.kind \in FactTypes /\ atom.truth

Admissible(atoms) == {a \in Settlement(atoms) : event_fact_admissibility(a)}

\* The other sources that state the same, as fact.
independent_support(atom, atoms) ==
    {b.id : b \in {c \in Admissible(atoms) : c.passage = atom.passage /\ c.source # atom.source}}

\* The key of an event is what the caller bound, or its own claim.
Slot(atom, fields) == <<fields[atom.id].key, fields[atom.id].field>>

\* Fault: only a later value contests an earlier one.
contested_from_second(atoms, fields) ==
    {a.id : a \in {b \in Admissible(atoms) :
        /\ b.id \in DOMAIN fields
        /\ \E c \in Admissible(atoms) :
               /\ c.id \in DOMAIN fields /\ c.id # b.id
               /\ c.id[1] = b.id[1] /\ c.id[2] < b.id[2]
               /\ Slot(c, fields) = Slot(b, fields)
               /\ fields[c.id].value # fields[b.id].value}}

\* Atoms bound to one slot with different values.
Contested(atoms, fields) ==
    {a.id : a \in {b \in Admissible(atoms) :
        /\ b.id \in DOMAIN fields
        /\ \E c \in Admissible(atoms) :
               /\ c.id \in DOMAIN fields
               /\ Slot(c, fields) = Slot(b, fields)
               /\ fields[c.id].value # fields[b.id].value}}

Event(atom, atoms, contested) ==
    LET claimed == {a.id : a \in ClaimedOnly(atoms)}
    IN  [support |-> atom.id,
         status  |-> IF atom.id \in contested THEN "contested"
                     ELSE IF atom.id \in claimed THEN "claimed_only" ELSE "confirmed",
         counter |-> IF atom.id \in contested THEN contested \ {atom.id} ELSE {}]

\* Topics on which the sources take two stances or, where one says that the
\* date is disputed, give two times.
source_disputes(atoms) ==
    LET stances  == {a \in atoms : Reading[a.passage].stance # NoStance}
        timed(a) == {b \in atoms \ {a} : Reading[b.passage].time # NoTime}
    IN  {<<Reading[a.passage].stance[1], "status">> : a \in {b \in stances : \E c \in stances :
             /\ Reading[c.passage].stance[1] = Reading[b.passage].stance[1]
             /\ Reading[c.passage].stance[2] # Reading[b.passage].stance[2]}}
        \cup {<<"date", "time">> : a \in {d \in atoms : /\ Reading[d.passage].disputes
                                            /\ \E b, c \in timed(d) :
                                                 Reading[b.passage].time # Reading[c.passage].time}}

reconstruct_event_scene(atoms, fields) ==
    LET settled   == Settlement(atoms)
        contested == Contested(atoms, fields)
    IN  [events    |-> {Event(a, atoms, contested) : a \in Admissible(atoms)},
         positions |-> {[atom |-> a.id, support |-> independent_support(a, atoms)] :
                            a \in {b \in settled : b.kind \in Positions}},
         excluded  |-> {a.id : a \in {b \in settled : b.kind \notin Positions \cup {"omission"}
                                                      /\ ~event_fact_admissibility(b)}},
         unknowns  |-> {a.passage : a \in {b \in settled : b.kind = "omission"}},
         disputes  |-> {Slot(a, fields) : a \in {b \in Admissible(atoms) : b.id \in contested}}
                       \cup source_disputes(atoms)]
=============================================================================
