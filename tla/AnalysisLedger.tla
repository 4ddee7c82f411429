--------------------------- MODULE AnalysisLedger ---------------------------
(***************************************************************************)
(* The append-only analysis ledger (ledger.py).  An entry names its record *)
(* by type and stable id; the revisions of one record form one line, each  *)
(* superseding the one before it.                                          *)
(***************************************************************************)
EXTENDS Integers, Sequences

CONSTANT NoRevision     \* supersedes_revision_id of a first revision

first_revision(id)       == [id |-> id, sequence |-> 1, supersedes |-> NoRevision]
next_revision(id, after) == [id |-> id, sequence |-> after.sequence + 1, supersedes |-> after.id]

\* _new_revision hashes the time: no two of its revisions have the same id.
Stamp(tick) == <<"time", tick>>

Entry(type, id, revision) == [type |-> type, id |-> id, revision |-> revision]

\* The entries of the same record as e that stand before position n.
Earlier(entries, e, n) ==
    {i \in 1..Len(entries) : i < n /\ entries[i].type = e.type /\ entries[i].id = e.id}

\* i is the position of the latest of a set of entries.
IsLatest(i, positions) == i \in positions /\ \A j \in positions : j <= i

\* revision may follow the entries at the given positions.
Continues(entries, positions, revision) ==
    \/ /\ positions = {}
       /\ revision.sequence = 1
       /\ revision.supersedes = NoRevision
    \/ \E i \in positions :
           /\ IsLatest(i, positions)
           /\ revision.sequence = entries[i].revision.sequence + 1
           /\ revision.supersedes = entries[i].revision.id

IsRecorded(entries, revision) == \E i \in 1..Len(entries) : entries[i].revision.id = revision.id

\* Fault: a later revision need only count one further.
admits_any_predecessor(entries, e) ==
    LET before == Earlier(entries, e, Len(entries) + 1)
    IN  /\ ~IsRecorded(entries, e.revision)
        /\ \/ Continues(entries, before, e.revision)
           \/ \E i \in before : e.revision.sequence = entries[i].revision.sequence + 1

Admits(entries, e) ==
    /\ ~IsRecorded(entries, e.revision)
    /\ Continues(entries, Earlier(entries, e, Len(entries) + 1), e.revision)

(* The revisions of every record form one line, without a gap, a branch or *)
(* a second start, and no revision is recorded twice (AnalysisLedger       *)
(* append).                                                                *)
Linear(entries) ==
    /\ \A i \in 1..Len(entries) :
           Continues(entries, Earlier(entries, entries[i], i), entries[i].revision)
    /\ \A i \in 1..Len(entries), j \in 1..Len(entries) :
           entries[i].revision.id = entries[j].revision.id => i = j
=============================================================================
