------------------------- MODULE SessionStoreProofs -------------------------
(***************************************************************************)
(* Theorems about SessionStore, for any number of commands, any use of     *)
(* pids, overlapping or one at a time.                                     *)
(*                                                                         *)
(* What a process renames is what it wrote only because the temporary file *)
(* is its own from the exclusive open to the rename: SInv adds who owns    *)
(* which temporary file, that running processes have different pids, and   *)
(* that a document other processes can see names published commands only.  *)
(* SequentialInv is about commands run one at a time: what one is about to *)
(* write is one step from the document that is there.                      *)
(***************************************************************************)
EXTENDS SessionHistory, TLAPS

\* The commands a document speaks of.
Named(d) == IF d \in Documents THEN Range(d.log) \cup {d.session} ELSE {}

\* A command whose document was renamed into place.
Published == {"answering", "done", "unanswered", "crashed"}

\* Running processes have pids of their own.
PidsDiffer ==
    \A p, q \in Processes : pc[p] \in Running /\ pc[q] \in Running /\ PidOf[p] = PidOf[q] => p = q

\* The temporary file a process writes is its own, complete once synced.
TmpIsOwned ==
    \A p \in Processes : pc[p] \in {"writing", "synced"} =>
        /\ tmp[PidOf[p]].by = {p}
        /\ pc[p] = "synced" => tmp[PidOf[p]].content = held[p]

\* A process past its loading holds a document.
HoldsDocument ==
    \A p \in Processes : pc[p] \in {"ready", "writing", "synced"} =>
        p \notin Readers /\ held[p] \in Documents

\* Documents that others can see name published commands only.
OnlyPublished ==
    /\ \A c \in Named(file) : pc[c] \in Published
    /\ \A p \in Processes : \A c \in Named(held[p]) : c = p \/ pc[c] \in Published

\* What every step needs of the store it starts from.
SInv ==
    /\ TypeOK
    /\ DocumentIsWhole
    /\ TmpIsAccountedFor
    /\ PidsDiffer
    /\ TmpIsOwned
    /\ HoldsDocument
    /\ OnlyPublished

-----------------------------------------------------------------------------
(* Documents *)

\* A fresh session, and a session with one more command, are documents.
LEMMA DocumentFacts ==
    /\ \A p \in Starts : /\ [session |-> p, log |-> <<>>] \in Documents
                         /\ Named([session |-> p, log |-> <<>>]) = {p}
    /\ \A d \in Documents, p \in Writers :
           /\ [d EXCEPT !.log = Append(@, p)] \in Documents
           /\ Named([d EXCEPT !.log = Append(@, p)]) = Named(d) \cup {p}
    /\ \A d \in Documents : Named(d) \subseteq Starts \cup Writers
    /\ Named(NoDocument) = {}
  <1>1. ASSUME NEW p \in Starts
        PROVE  /\ [session |-> p, log |-> <<>>] \in Documents
               /\ Named([session |-> p, log |-> <<>>]) = {p}
    <2>1. [session |-> p, log |-> <<>>] \in Documents
      BY DEF Documents
    <2>2. Range(<<>>) = {}
      BY DEF Range
    <2> QED
      BY <2>1, <2>2 DEF Named
  <1>2. ASSUME NEW d \in Documents, NEW p \in Writers
        PROVE  /\ [d EXCEPT !.log = Append(@, p)] \in Documents
               /\ Named([d EXCEPT !.log = Append(@, p)]) = Named(d) \cup {p}
    <2> DEFINE e == [d EXCEPT !.log = Append(@, p)]
    <2>1. /\ d.log \in Seq(Writers) /\ d.session \in Starts
          /\ e \in Documents /\ e.log = Append(d.log, p) /\ e.session = d.session
      BY DEF Documents
    <2>2. Range(Append(d.log, p)) = Range(d.log) \cup {p}
      <3>1. /\ DOMAIN Append(d.log, p) = 1..(Len(d.log) + 1)
            /\ DOMAIN d.log = 1..Len(d.log) /\ Len(d.log) \in Nat
            /\ \A i \in DOMAIN d.log : Append(d.log, p)[i] = d.log[i]
            /\ Append(d.log, p)[Len(d.log) + 1] = p
        BY <2>1
      <3> DEFINE s == Append(d.log, p)
      <3> HIDE DEF s
      <3>2. ASSUME NEW x \in Range(s) PROVE x \in Range(d.log) \cup {p}
        <4>1. PICK i \in DOMAIN s : x = s[i]
          BY DEF Range
        <4> QED
          BY <3>1, <4>1 DEF s, Range
      <3>3. ASSUME NEW x \in Range(d.log) PROVE x \in Range(s)
        <4>1. PICK i \in DOMAIN d.log : x = d.log[i]
          BY DEF Range
        <4>2. i \in DOMAIN s /\ s[i] = x
          BY <3>1, <4>1 DEF s
        <4> QED
          BY <4>2 DEF Range
      <3>4. p \in Range(s)
        <4>1. Len(d.log) + 1 \in DOMAIN s /\ s[Len(d.log) + 1] = p
          BY <3>1 DEF s
        <4> QED
          BY <4>1 DEF Range
      <3> QED
        BY <3>2, <3>3, <3>4 DEF s
    <2> HIDE DEF e
    <2>3. Named(e) = Named(d) \cup {p}
      BY <2>1, <2>2 DEF Named
    <2> QED
      BY <2>1, <2>3 DEF e
  <1>3. ASSUME NEW d \in Documents PROVE Named(d) \subseteq Starts \cup Writers
    <2>1. d.log \in Seq(Writers) /\ d.session \in Starts
      BY DEF Documents
    <2>2. Range(d.log) \subseteq Writers
      BY <2>1 DEF Range
    <2> QED
      BY <2>1, <2>2 DEF Named
  <1> QED
    BY <1>1, <1>2, <1>3, SentinelAssumption DEF Named

-----------------------------------------------------------------------------
(* What the steps have in common *)

\* The invariant holds of an empty disk.
LEMMA StoreInit == Init => SInv
  <1> SUFFICES ASSUME Init PROVE SInv
    OBVIOUS
  <1>1. TypeOK
    BY DEF Init, TypeOK, Contents, NoTmp
  <1>2. DocumentIsWhole /\ TmpIsAccountedFor
    BY SentinelAssumption DEF Init, DocumentIsWhole, TmpIsAccountedFor
  <1>3. \A p \in Processes : pc[p] = "idle" /\ held[p] = NoDocument
    BY DEF Init
  <1>4. PidsDiffer /\ TmpIsOwned /\ HoldsDocument
    BY <1>3 DEF PidsDiffer, TmpIsOwned, HoldsDocument, Running
  <1>5. OnlyPublished
    BY <1>3, DocumentFacts DEF Init, OnlyPublished
  <1> QED
    BY <1>1, <1>2, <1>4, <1>5 DEF SInv

\* A step moves one process.
LEMMA Moves ==
    ASSUME TypeOK, NEW p \in Processes, NEW from, NEW to, Goes(p, from, to)
    PROVE  /\ pc[p] = from /\ pc'[p] = to
           /\ \A q \in Processes : q # p => pc'[q] = pc[q]
  BY DEF Goes, TypeOK

\* A command begins under a pid no running process has; a running one keeps its.
LEMMA PidsStayApart ==
    ASSUME SInv, NEW p \in Processes, MayBegin(p) \/ pc[p] \in Running,
           \A q \in Processes : q # p => pc'[q] = pc[q]
    PROVE  PidsDiffer'
  BY DEF SInv, PidsDiffer, MayBegin

\* A step that touches no other process's document, and publishes only what it
\* holds, keeps unpublished commands out of sight.
LEMMA PublishedStays ==
    ASSUME SInv, NEW p \in Processes,
           \A q \in Processes : q # p => pc'[q] = pc[q] /\ held'[q] = held[q],
           pc[p] \in Published => pc'[p] \in Published,
           \A c \in Named(held'[p]) : c = p \/ pc[c] \in Published,
           \/ file' = file
           \/ file' = held[p] /\ pc'[p] \in Published
    PROVE  OnlyPublished'
  <1>1. \A d : Named(d) \subseteq Processes
    BY DocumentFacts DEF Named, Processes
  <1>2. \A c \in Processes : pc[c] \in Published => pc'[c] \in Published
    OBVIOUS
  <1>3. \A c \in Named(file') : pc'[c] \in Published
    BY <1>1, <1>2 DEF SInv, OnlyPublished
  <1>4. \A q \in Processes : \A c \in Named(held'[q]) : c = q \/ pc'[c] \in Published
    BY <1>1, <1>2 DEF SInv, OnlyPublished
  <1> QED
    BY <1>3, <1>4 DEF OnlyPublished

-----------------------------------------------------------------------------
(* The steps *)

\* How a command begins: the document is checked or loaded, and what the process
\* holds from then on names itself and published commands.
Begins(p) ==
    /\ MayBegin(p)
    /\ pc[p] = "idle" /\ pc'[p] \in {"ready", "refused", "failed", "answering"}
    /\ pc'[p] = "ready" => p \notin Readers /\ held'[p] \in Documents
    /\ held'[p] \in Documents \cup {NoDocument}
    /\ \A c \in Named(held'[p]) : c = p \/ pc[c] \in Published
    /\ pc' = [pc EXCEPT ![p] = pc'[p]]
    /\ held' = [held EXCEPT ![p] = held'[p]]
    /\ UNCHANGED <<file, tmp>>

\* start, apply, finalize, inspect and replay begin like that.
LEMMA BeginForms ==
    ASSUME SInv, NEW p \in Processes, Begin(p)
    PROVE  Begins(p)
  <1>1. /\ TypeOK /\ file # Torn
        /\ \A c \in Named(file) : pc[c] \in Published
        /\ \A c \in Named(held[p]) : c = p \/ pc[c] \in Published
    BY DEF SInv, DocumentIsWhole, OnlyPublished
  <1>2. file # NoDocument => file \in Documents
    BY <1>1 DEF TypeOK, Contents
  <1>3. /\ DOMAIN pc = Processes /\ DOMAIN held = Processes
        /\ held[p] \in Documents \cup {NoDocument}
        /\ \A v : [pc EXCEPT ![p] = v][p] = v /\ [held EXCEPT ![p] = v][p] = v
        /\ [held EXCEPT ![p] = held[p]] = held
    BY <1>1 DEF TypeOK
  <1>4. CASE p \in Starts /\ CheckAbsent(p)
    <2>1. p \notin Readers /\ [session |-> p, log |-> <<>>] \in Documents
          /\ Named([session |-> p, log |-> <<>>]) = {p}
      BY <1>4, DocumentFacts, StoreAssumption
    <2>2. CASE Goes(p, "idle", "refused") /\ UNCHANGED held
      BY <1>1, <1>3, <1>4, <2>2 DEF CheckAbsent, Goes, Begins
    <2>3. CASE /\ Goes(p, "idle", "ready")
               /\ held' = [held EXCEPT ![p] = [session |-> p, log |-> <<>>]]
      BY <1>3, <1>4, <2>1, <2>3 DEF CheckAbsent, Goes, Begins
    <2> QED
      BY <1>4, <2>2, <2>3 DEF CheckAbsent
  <1>5. CASE p \in Writers /\ LoadAndRun(p)
    <2>1. CASE Goes(p, "idle", "failed") /\ UNCHANGED held
      BY <1>1, <1>3, <1>5, <2>1 DEF LoadAndRun, Goes, Begins
    <2>2. CASE /\ file # NoDocument
               /\ Goes(p, "idle", "ready")
               /\ \E recorded \in {file, [file EXCEPT !.log = Append(@, p)]} :
                     held' = [held EXCEPT ![p] = recorded]
      <3>1. PICK recorded \in {file, [file EXCEPT !.log = Append(@, p)]} :
                held' = [held EXCEPT ![p] = recorded]
        BY <2>2
      <3>2. recorded \in Documents /\ Named(recorded) \subseteq Named(file) \cup {p}
        BY <1>2, <1>5, <2>2, <3>1, DocumentFacts
      <3>3. p \notin Readers
        BY <1>5, StoreAssumption
      <3> QED
        BY <1>1, <1>3, <1>5, <2>2, <3>1, <3>2, <3>3 DEF LoadAndRun, Goes, Begins
    <2> QED
      BY <1>5, <2>1, <2>2 DEF LoadAndRun
  <1>6. CASE p \in Readers /\ LoadAndRead(p)
    BY <1>1, <1>2, <1>3, <1>6 DEF LoadAndRead, Goes, Begins
  <1> QED
    BY <1>4, <1>5, <1>6 DEF Begin

\* A beginning keeps the invariant.
LEMMA BeginKeeps == ASSUME SInv, NEW p \in Processes, Begins(p) PROVE SInv'
  <1>1. /\ TypeOK /\ UNCHANGED <<file, tmp>> /\ pc[p] = "idle"
        /\ \A q \in Processes : q # p => pc'[q] = pc[q] /\ held'[q] = held[q]
    BY DEF SInv, TypeOK, Begins
  <1>2. TypeOK'
    BY <1>1 DEF TypeOK, Begins, Running, Stopped
  <1>3. DocumentIsWhole' /\ TmpIsAccountedFor'
    BY <1>1 DEF SInv, DocumentIsWhole, TmpIsAccountedFor
  <1>4. PidsDiffer'
    BY <1>1, PidsStayApart DEF Begins
  <1>5. TmpIsOwned' /\ HoldsDocument'
    BY <1>1 DEF SInv, TmpIsOwned, HoldsDocument, Begins
  <1>6. OnlyPublished'
    BY <1>1, PublishedStays DEF Begins, Published
  <1> QED
    BY <1>2, <1>3, <1>4, <1>5, <1>6 DEF SInv

\* A process that stops, or answers, without touching a file keeps the invariant.
LEMMA StopKeeps ==
    ASSUME SInv, NEW p \in Processes, UNCHANGED <<file, tmp, held>>,
           \/ CommandFails(p) \/ Answer(p) \/ Crash(p)
           \/ Goes(p, "ready", "failed")
    PROVE  SInv'
  <1>1. /\ TypeOK /\ pc' = [pc EXCEPT ![p] = pc'[p]]
        /\ \A q \in Processes : q # p => pc'[q] = pc[q]
        /\ pc[p] \in Running
        /\ pc'[p] \in {"failed", "done", "unanswered", "crashed"}
        /\ pc[p] \in Published => pc'[p] \in Published
        /\ pc[p] \in {"writing", "synced"} => pc'[p] = "crashed"
    <2>1. TypeOK
      BY DEF SInv
    <2>2. PICK from, to : /\ Goes(p, from, to)
                          /\ \/ from = "ready" /\ to = "failed"
                             \/ from = "answering" /\ to \in {"done", "unanswered"}
                             \/ from \in Running /\ to = "crashed"
      BY DEF CommandFails, Answer, Crash
    <2>3. /\ pc[p] = from /\ pc'[p] = to /\ pc' = [pc EXCEPT ![p] = to]
          /\ \A q \in Processes : q # p => pc'[q] = pc[q]
      BY <2>1, <2>2, Moves DEF Goes
    <2> QED
      BY <2>1, <2>2, <2>3 DEF Running, Published
  <1>2. TypeOK'
    BY <1>1 DEF TypeOK, Stopped
  <1>3. DocumentIsWhole' /\ TmpIsAccountedFor'
    <2>1. \A q \in Processes : pc[q] \in {"writing", "synced", "crashed"}
                               => pc'[q] \in {"writing", "synced", "crashed"}
      BY <1>1 DEF Running
    <2> QED
      BY <2>1 DEF SInv, DocumentIsWhole, TmpIsAccountedFor
  <1>4. PidsDiffer'
    BY <1>1, PidsStayApart
  <1>5. TmpIsOwned' /\ HoldsDocument'
    BY <1>1 DEF SInv, TmpIsOwned, HoldsDocument
  <1>6. OnlyPublished'
    BY <1>1, PublishedStays DEF SInv, OnlyPublished
  <1> QED
    BY <1>2, <1>3, <1>4, <1>5, <1>6 DEF SInv

\* The exclusive open keeps the invariant: the sibling belongs to the process.
LEMMA OpenKeeps == ASSUME SInv, NEW p \in Processes, p \notin Readers, OpenTmp(p) PROVE SInv'
  <1>t. TypeOK
    BY DEF SInv
  <1>1. CASE Goes(p, "ready", "failed") /\ UNCHANGED tmp
    BY <1>1, StopKeeps DEF OpenTmp
  <1>2. CASE /\ tmp[PidOf[p]] = NoTmp
             /\ Goes(p, "ready", "writing")
             /\ tmp' = [tmp EXCEPT ![PidOf[p]] = [content |-> Torn, by |-> {p}]]
    <2>1. /\ UNCHANGED <<file, held>> /\ pc[p] = "ready" /\ pc'[p] = "writing"
          /\ \A q \in Processes : q # p => pc'[q] = pc[q]
          /\ pc' = [pc EXCEPT ![p] = "writing"]
      BY <1>t, <1>2, Moves DEF OpenTmp, Goes
    <2>2. /\ PidOf \in [Processes -> Pids]
          /\ tmp'[PidOf[p]] = [content |-> Torn, by |-> {p}]
          /\ \A n \in Pids : n # PidOf[p] => tmp'[n] = tmp[n]
      BY <1>t, <1>2, StoreAssumption DEF TypeOK, Processes
    <2>3. TypeOK'
      BY <1>t, <1>2, <2>1 DEF TypeOK, Contents, Running
    <2>4. DocumentIsWhole'
      BY <2>1 DEF SInv, DocumentIsWhole
    <2>5. TmpIsAccountedFor'
      BY <2>1, <2>2 DEF SInv, TmpIsAccountedFor
    <2>6. PidsDiffer'
      BY <2>1, PidsStayApart DEF Running
    <2>7. TmpIsOwned'
      BY <2>1, <2>2 DEF SInv, TmpIsOwned, PidsDiffer, Running
    <2>8. HoldsDocument'
      BY <2>1 DEF SInv, HoldsDocument
    <2>9. OnlyPublished'
      BY <2>1, PublishedStays DEF SInv, OnlyPublished, Published
    <2> QED
      BY <2>3, <2>4, <2>5, <2>6, <2>7, <2>8, <2>9 DEF SInv
  <1> QED
    BY <1>1, <1>2 DEF OpenTmp

\* Writing and syncing keeps the invariant: the sibling is now complete.
LEMMA WriteKeeps == ASSUME SInv, NEW p \in Processes, Write(p) PROVE SInv'
  <1>t. TypeOK
    BY DEF SInv
  <1>1. /\ UNCHANGED <<file, held>> /\ pc[p] = "writing" /\ pc'[p] = "synced"
        /\ \A q \in Processes : q # p => pc'[q] = pc[q]
        /\ pc' = [pc EXCEPT ![p] = "synced"]
    BY <1>t, Moves DEF Write, Goes
  <1>2. held[p] \in Documents /\ tmp[PidOf[p]].by = {p} /\ PidOf[p] \in Pids
    BY <1>1, StoreAssumption DEF SInv, HoldsDocument, TmpIsOwned, Processes
  <1>3. /\ tmp' = [tmp EXCEPT ![PidOf[p]] = [content |-> held[p], by |-> {p}]]
        /\ tmp'[PidOf[p]] = [content |-> held[p], by |-> {p}]
        /\ \A n \in Pids : n # PidOf[p] => tmp'[n] = tmp[n]
    <2>1. tmp[PidOf[p]] \in [content : Contents, by : SUBSET Processes]
      BY <1>t, <1>2 DEF TypeOK
    <2>2. [tmp[PidOf[p]] EXCEPT !.content = held[p]] = [content |-> held[p], by |-> {p}]
      BY <1>2, <2>1
    <2>3. tmp' = [tmp EXCEPT ![PidOf[p]] = [tmp[PidOf[p]] EXCEPT !.content = held[p]]]
      BY DEF Write
    <2> QED
      BY <1>t, <1>2, <2>2, <2>3 DEF TypeOK
  <1>4. TypeOK'
    BY <1>t, <1>1, <1>2, <1>3 DEF TypeOK, Contents, Running
  <1>5. DocumentIsWhole'
    BY <1>1 DEF SInv, DocumentIsWhole
  <1>6. TmpIsAccountedFor'
    BY <1>1, <1>3 DEF SInv, TmpIsAccountedFor
  <1>7. PidsDiffer'
    BY <1>1, PidsStayApart DEF Running
  <1>8. TmpIsOwned'
    BY <1>1, <1>3, StoreAssumption DEF SInv, TmpIsOwned, PidsDiffer, Running, Processes
  <1>9. HoldsDocument'
    BY <1>1 DEF SInv, HoldsDocument
  <1>10. OnlyPublished'
    BY <1>1, PublishedStays DEF SInv, OnlyPublished, Published
  <1> QED
    BY <1>4, <1>5, <1>6, <1>7, <1>8, <1>9, <1>10 DEF SInv

\* The rename and the clean-up after a failure both end the sibling; the rename
\* publishes the document the process holds.
LEMMA EndKeeps ==
    ASSUME SInv, NEW p \in Processes, WriteFails(p) \/ Replace(p)
    PROVE  SInv'
  <1>t. TypeOK
    BY DEF SInv
  <1>1. /\ UNCHANGED held /\ pc[p] \in {"writing", "synced"}
        /\ tmp' = [tmp EXCEPT ![PidOf[p]] = NoTmp]
        /\ \/ file' = file /\ Goes(p, pc[p], "failed")
           \/ file' = tmp[PidOf[p]].content /\ Goes(p, "synced", "answering")
    BY DEF WriteFails, Replace, Goes
  <1>2. /\ \A q \in Processes : q # p => pc'[q] = pc[q]
        /\ pc' = [pc EXCEPT ![p] = pc'[p]]
        /\ pc'[p] \in {"failed", "answering"}
        /\ \/ file' = file
           \/ file' = held[p] /\ pc'[p] \in Published
    BY <1>t, <1>1, Moves DEF SInv, TmpIsOwned, Goes, Published
  <1>3. held[p] \in Documents /\ PidOf \in [Processes -> Pids]
    BY <1>1, StoreAssumption DEF SInv, HoldsDocument, Processes
  <1>4. tmp'[PidOf[p]] = NoTmp /\ \A n \in Pids : n # PidOf[p] => tmp'[n] = tmp[n]
    BY <1>t, <1>1, <1>3 DEF TypeOK
  <1>5. TypeOK'
    <2>1. tmp' \in [Pids -> [content : Contents, by : SUBSET Processes]]
      BY <1>t, <1>1 DEF TypeOK, NoTmp, Contents
    <2> QED
      BY <1>t, <1>1, <1>2, <1>3, <2>1 DEF TypeOK, Contents, Running, Stopped
  <1>6. DocumentIsWhole'
    BY <1>2, <1>3, SentinelAssumption DEF SInv, DocumentIsWhole
  <1>7. TmpIsAccountedFor'
    BY <1>2, <1>4 DEF SInv, TmpIsAccountedFor
  <1>8. PidsDiffer'
    BY <1>1, <1>2, PidsStayApart DEF Running
  <1>9. TmpIsOwned'
    BY <1>1, <1>2, <1>3, <1>4 DEF SInv, TmpIsOwned, PidsDiffer, Running
  <1>10. HoldsDocument'
    BY <1>1, <1>2 DEF SInv, HoldsDocument
  <1>11. OnlyPublished'
    BY <1>1, <1>2, PublishedStays DEF SInv, OnlyPublished, Published
  <1> QED
    BY <1>5, <1>6, <1>7, <1>8, <1>9, <1>10, <1>11 DEF SInv

\* The invariant is inductive.
LEMMA StoreStep == ASSUME SInv, [Next]_vars PROVE SInv'
  <1>1. CASE UNCHANGED vars
    BY <1>1 DEF vars, SInv, TypeOK, DocumentIsWhole, TmpIsAccountedFor, PidsDiffer,
                TmpIsOwned, HoldsDocument, OnlyPublished
  <1>2. ASSUME NEW p \in Processes, Begin(p) \/ Proceed(p) \/ Fail(p) \/ Crash(p)
        PROVE  SInv'
    <2>1. CASE Crash(p)
      BY <2>1, StopKeeps DEF Crash
    <2>2. CASE Answer(p)
      BY <2>2, StopKeeps DEF Answer
    <2>3. CASE Begin(p)
      BY <2>3, BeginForms, BeginKeeps
    <2>4. CASE p \notin Readers /\ CommandFails(p)
      BY <2>4, StopKeeps DEF CommandFails
    <2>5. CASE p \notin Readers /\ OpenTmp(p)
      BY <2>5, OpenKeeps
    <2>6. CASE Write(p)
      BY <2>6, WriteKeeps
    <2>7. CASE WriteFails(p) \/ Replace(p)
      BY <2>7, EndKeeps
    <2> QED
      BY <1>2, <2>1, <2>2, <2>3, <2>4, <2>5, <2>6, <2>7 DEF Proceed, Fail
  <1> QED
    BY <1>1, <1>2 DEF Next

-----------------------------------------------------------------------------
(* What holds of every use of the store *)

\* The inductive invariant holds of every use of the session document.
THEOREM StoreInvariant == Spec => []SInv
  BY StoreInit, StoreStep, PTL DEF Spec

\* The disk and the processes are well typed.
THEOREM StoreTypes == Spec => []TypeOK
  <1>1. SInv => TypeOK
    BY DEF SInv
  <1> QED
    BY <1>1, StoreInvariant, PTL

\* However many commands overlap, fail or are killed, the session path never
\* holds a half-written document (_write_session_document).
THEOREM WholeDocument == Spec => []DocumentIsWhole
  <1>1. SInv => DocumentIsWhole
    BY DEF SInv
  <1> QED
    BY <1>1, StoreInvariant, PTL

\* Every temporary file has a process that is writing it or was killed doing so
\* (_write_session_document's clean-up).
THEOREM AccountedTmp == Spec => []TmpIsAccountedFor
  <1>1. SInv => TmpIsAccountedFor
    BY DEF SInv
  <1> QED
    BY <1>1, StoreInvariant, PTL

\* A command that failed or was refused is in no document anyone can load.
THEOREM NothingUnpublished == Spec => []UnpublishedIsInvisible
  <1>1. ASSUME SInv PROVE UnpublishedIsInvisible
    <2>1. file # NoDocument => file \in Documents
      BY <1>1 DEF SInv, TypeOK, Contents, DocumentIsWhole
    <2>2. \A q \in Readers : q \in Processes /\ (held[q] # NoDocument => held[q] \in Documents)
      BY <1>1 DEF SInv, TypeOK, Processes
    <2>3. \A d \in Documents : /\ Range(d.log) \cup {d.session} = Named(d)
                               /\ Named(d) \cap Readers = {}
      BY DocumentFacts, StoreAssumption DEF Named
    <2> QED
      BY <1>1, <2>1, <2>2, <2>3 DEF SInv, OnlyPublished, UnpublishedIsInvisible, Published
  <1> QED
    BY <1>1, StoreInvariant, PTL
-----------------------------------------------------------------------------
(* Commands that run one at a time *)

Loaded(p)    == pc[p] \in {"ready", "writing", "synced"}
Replaced(p)  == pc[p] \in {"answering", "done", "unanswered"}

\* The document has the command, or a --force start replaced it.
Kept(p) == file # NoDocument /\ (p \in Named(file) \/ file.session \in Forced)

\* What a command is about to write is one step from the document that is there:
\* a start is alone or forced, a writer adds to the document it loaded, or does not.
Carries(p) ==
    \/ /\ p \in Starts /\ (p \in Forced \/ file = NoDocument)
       /\ held[p] = [session |-> p, log |-> <<>>]
    \/ /\ p \in Writers /\ file # NoDocument
       /\ held[p] \in {file, [file EXCEPT !.log = Append(@, p)]}

SequentialInv ==
    ~overlapped =>
        /\ \A p \in Processes : Loaded(p) => Carries(p)
        /\ \A p \in Starts \cup Writers : Replaced(p) /\ Recorded(p) => Kept(p)

\* A document that is on the disk is one.
LEMMA FileIsDocument == ASSUME SInv, file # NoDocument PROVE file \in Documents
  BY DEF SInv, TypeOK, Contents, DocumentIsWhole

\* It has everything the document has, and the same session.
LEMMA CarriesAll ==
    ASSUME SInv, NEW p \in Writers, file # NoDocument,
           NEW d \in {file, [file EXCEPT !.log = Append(@, p)]}
    PROVE  d.session = file.session /\ Named(file) \subseteq Named(d)
  <1>1. file \in Documents
    BY FileIsDocument
  <1>2. CASE d = file
    BY <1>2
  <1>3. CASE d = [file EXCEPT !.log = Append(@, p)]
    <2>1. Named(d) = Named(file) \cup {p}
      BY <1>1, <1>3, DocumentFacts
    <2>2. d.session = file.session
      BY <1>1, <1>3 DEF Documents
    <2> QED
      BY <2>1, <2>2
  <1> QED
    BY <1>2, <1>3

\* A step that replaces and loads no document keeps what is saved.
LEMMA QuietStep ==
    ASSUME SequentialInv, UNCHANGED <<file, held>>, overlapped' = FALSE => overlapped = FALSE,
           overlapped \in BOOLEAN, overlapped' \in BOOLEAN,
           \A q \in Processes : (Loaded(q)' => Loaded(q)) /\ (Replaced(q)' => Replaced(q))
    PROVE  SequentialInv'
  <1> SUFFICES ASSUME ~overlapped' 
               PROVE  /\ \A p \in Processes : Loaded(p)' => Carries(p)'
                      /\ \A p \in Starts \cup Writers : Replaced(p)' /\ Recorded(p)' => Kept(p)'
    BY DEF SequentialInv
  <1>1. /\ \A p \in Processes : Loaded(p) => Carries(p)
        /\ \A p \in Starts \cup Writers : Replaced(p) /\ Recorded(p) => Kept(p)
    BY DEF SequentialInv
  <1>2. \A p : (Carries(p) => Carries(p)') /\ (Recorded(p)' => Recorded(p)) /\ (Kept(p) => Kept(p)')
    BY DEF Carries, Recorded, Kept, Named
  <1> QED
    BY <1>1, <1>2 DEF Processes

\* A rename that runs alone puts a document there that has everything saved.
LEMMA ReplaceStep ==
    ASSUME SInv, SequentialInv, ~overlapped, ~Overlap(pc'),
           NEW p \in Processes, p \notin Readers, Replace(p)
    PROVE  /\ \A q \in Processes : Loaded(q)' => Carries(q)'
           /\ \A q \in Starts \cup Writers : Replaced(q)' /\ Recorded(q)' => Kept(q)'
  <1>t. TypeOK
    BY DEF SInv
  <1>1. /\ pc[p] = "synced" /\ pc'[p] = "answering" /\ \A q \in Processes : q # p => pc'[q] = pc[q]
        /\ UNCHANGED held
    BY <1>t, Moves DEF Replace, Goes
  <1>2. file' = held[p] /\ held[p] \in Documents
    BY <1>1 DEF Replace, SInv, TmpIsOwned, HoldsDocument
  <1>3. Carries(p)
    BY <1>1 DEF SequentialInv, Loaded
  <1>4. \A q \in Processes : ~Loaded(q)'
    <2>1. ASSUME NEW q \in Processes, q # p PROVE pc'[q] \notin Running
      BY <1>1, <2>1 DEF Overlap, Running
    <2>2. ~Loaded(p)'
      BY <1>1 DEF Loaded
    <2> QED
      BY <2>1, <2>2 DEF Loaded, Running
  <1>5. file' # NoDocument /\ file' \in Documents
    BY <1>2, SentinelAssumption
  <1>6. \A q \in Starts \cup Writers : Recorded(q)' => Recorded(q)
    BY <1>1 DEF Recorded
  <1>7. ASSUME NEW q \in Starts \cup Writers, Replaced(q)', Recorded(q)'
        PROVE  Kept(q)'
    <2>1. CASE q = p
      <3>1. q \in Named(held[p])
        <4>1. Recorded(p)
          BY <1>6, <1>7, <2>1
        <4>2. held[p].session = p \/ p \in Range(held[p].log)
          BY <1>3, <4>1, StoreAssumption DEF Carries, Recorded
        <4> QED
          BY <1>2, <2>1, <4>2 DEF Named
      <3> QED
        BY <1>2, <1>5, <3>1 DEF Kept, Named
    <2>2. CASE q # p
      <3>1. q \in Processes /\ Replaced(q)
        BY <1>1, <1>7, <2>2 DEF Replaced, Processes
      <3>2. Kept(q)
        BY <1>6, <1>7, <3>1 DEF SequentialInv
      <3>3. CASE p \in Starts
        BY <1>2, <1>3, <1>5, <3>2, <3>3, StoreAssumption DEF Carries, Kept
      <3>4. CASE p \in Writers
        <4>1. held[p].session = file.session /\ Named(file) \subseteq Named(held[p])
          BY <1>3, <3>4, StoreAssumption, CarriesAll DEF Carries
        <4>2. q \in Named(held[p]) \/ held[p].session \in Forced
          BY <3>2, <4>1 DEF Kept
        <4> QED
          BY <1>2, <1>5, <4>2 DEF Kept, Named
      <3> QED
        BY <3>3, <3>4 DEF Processes
    <2> QED
      BY <2>1, <2>2
  <1> QED
    BY <1>4, <1>7

\* A command that begins loads what it will not lose.
LEMMA BeginStep ==
    ASSUME SInv, SequentialInv, ~overlapped, NEW p \in Processes, Begin(p)
    PROVE  /\ \A q \in Processes : Loaded(q)' => Carries(q)'
           /\ \A q \in Starts \cup Writers : Replaced(q)' /\ Recorded(q)' => Kept(q)'
  <1>t. TypeOK
    BY DEF SInv
  <1>1. Begins(p)
    BY BeginForms
  <1>2. /\ \A q \in Processes : q # p => pc'[q] = pc[q] /\ held'[q] = held[q]
        /\ UNCHANGED file
        /\ pc'[p] \in {"ready", "refused", "failed", "answering"}
    BY <1>1, <1>t DEF Begins, TypeOK
  <1>3. Loaded(p)' => Carries(p)'
    <2>1. SUFFICES ASSUME pc'[p] = "ready" PROVE Carries(p)'
      BY <1>2 DEF Loaded
    <2>2. CASE p \in Starts /\ CheckAbsent(p)
      <3>1. /\ held' = [held EXCEPT ![p] = [session |-> p, log |-> <<>>]]
            /\ file = NoDocument \/ p \in Forced
        BY <1>t, <2>1, <2>2 DEF CheckAbsent, Goes, TypeOK
      <3>2. held'[p] = [session |-> p, log |-> <<>>]
        BY <1>t, <3>1 DEF TypeOK
      <3> QED
        BY <1>2, <2>2, <3>1, <3>2 DEF Carries
    <2>3. CASE p \in Writers /\ LoadAndRun(p)
      <3>1. /\ file # NoDocument
            /\ \E recorded \in {file, [file EXCEPT !.log = Append(@, p)]} :
                   held' = [held EXCEPT ![p] = recorded]
        BY <1>t, <2>1, <2>3 DEF LoadAndRun, Goes, TypeOK
      <3>2. file \in Documents
        BY <3>1, FileIsDocument
      <3>3. held'[p] \in {file, [file EXCEPT !.log = Append(@, p)]}
        BY <1>t, <3>1 DEF TypeOK
      <3> QED
        BY <1>2, <2>3, <3>1, <3>3 DEF Carries
    <2>4. CASE p \in Readers /\ LoadAndRead(p)
      BY <1>t, <2>1, <2>4 DEF LoadAndRead, Goes, TypeOK
    <2> QED
      BY <2>2, <2>3, <2>4 DEF Begin
  <1>4. p \in Starts \cup Writers => ~Replaced(p)'
    <2>1. CASE p \in Starts /\ CheckAbsent(p)
      BY <1>t, <2>1 DEF CheckAbsent, Goes, TypeOK, Replaced
    <2>2. CASE p \in Writers /\ LoadAndRun(p)
      BY <1>t, <2>2 DEF LoadAndRun, Goes, TypeOK, Replaced
    <2>3. CASE p \in Readers
      BY <2>3, StoreAssumption
    <2> QED
      BY <2>1, <2>2, <2>3 DEF Begin
  <1>5. ASSUME NEW q \in Processes, q # p
        PROVE  /\ Loaded(q)' => Carries(q)'
               /\ q \in Starts \cup Writers /\ Replaced(q)' /\ Recorded(q)' => Kept(q)'
    <2>1. /\ Loaded(q) => Carries(q)
          /\ q \in Starts \cup Writers /\ Replaced(q) /\ Recorded(q) => Kept(q)
      BY DEF SequentialInv
    <2>2. /\ Loaded(q)' => Loaded(q)
          /\ Replaced(q)' => Replaced(q)
          /\ Carries(q) => Carries(q)'
          /\ Recorded(q)' => Recorded(q)
          /\ Kept(q) => Kept(q)'
      BY <1>2, <1>5 DEF Loaded, Replaced, Carries, Recorded, Kept, Named
    <2> QED
      BY <2>1, <2>2
  <1> QED
    BY <1>3, <1>4, <1>5 DEF Processes

LEMMA SequentialStep ==
    ASSUME SInv, SequentialInv, overlapped \in BOOLEAN, [HistoryNext]_<<vars, overlapped>>
    PROVE  SequentialInv' /\ overlapped' \in BOOLEAN
  <1>t. TypeOK
    BY DEF SInv
  <1>1. CASE UNCHANGED <<vars, overlapped>>
    BY <1>1, QuietStep DEF vars, Loaded, Replaced
  <1>2. CASE HistoryNext
    <2>1. overlapped' = (overlapped \/ Overlap(pc')) /\ overlapped' \in BOOLEAN
      BY <1>2 DEF HistoryNext
    <2>2. SUFFICES ASSUME ~overlapped' PROVE SequentialInv'
      BY <2>1 DEF SequentialInv
    <2>3. ~overlapped /\ ~Overlap(pc')
      BY <2>1, <2>2
    <2>4. CASE UNCHANGED vars
      BY <2>1, <2>3, <2>4, QuietStep DEF vars, Loaded, Replaced
    <2>5. ASSUME NEW p \in Processes, Begin(p) \/ Proceed(p) \/ Fail(p) \/ Crash(p)
          PROVE  SequentialInv'
      <3>1. CASE Begin(p)
        BY <2>3, <3>1, BeginStep DEF SequentialInv
      <3>2. CASE p \notin Readers /\ Replace(p)
        BY <2>3, <3>2, ReplaceStep DEF SequentialInv
      <3>3. ASSUME UNCHANGED <<file, held>>, NEW from, NEW to, Goes(p, from, to),
                   to \in {"failed", "crashed", "writing", "synced", "done", "unanswered"},
                   to \in {"writing", "synced"} => from \in {"ready", "writing"},
                   to \in {"done", "unanswered"} => from = "answering"
            PROVE  SequentialInv'
        <4>1. pc[p] = from /\ pc'[p] = to /\ \A q \in Processes : q # p => pc'[q] = pc[q]
          BY <1>t, <3>3, Moves
        <4>2. \A q \in Processes : (Loaded(q)' => Loaded(q)) /\ (Replaced(q)' => Replaced(q))
          BY <3>3, <4>1 DEF Loaded, Replaced
        <4> QED
          BY <2>1, <2>3, <3>3, <4>2, QuietStep
      <3>4. CASE OpenTmp(p)
        BY <3>3, <3>4 DEF OpenTmp
      <3>5. CASE Write(p)
        BY <3>3, <3>5 DEF Write
      <3>6. CASE Answer(p)
        BY <3>3, <3>6 DEF Answer
      <3>7. CASE CommandFails(p) \/ WriteFails(p)
        BY <3>3, <3>7 DEF CommandFails, WriteFails
      <3>8. CASE Crash(p)
        BY <3>3, <3>8 DEF Crash
      <3> QED
        BY <2>5, <3>1, <3>2, <3>4, <3>5, <3>6, <3>7, <3>8 DEF Proceed, Fail
    <2> QED
      BY <1>2, <2>4, <2>5 DEF HistoryNext, Next
  <1> QED
    BY <1>1, <1>2

LEMMA SequentialInvariant == HistorySpec => [](SInv /\ SequentialInv /\ overlapped \in BOOLEAN)
  <1>1. HistoryInit => SInv /\ SequentialInv /\ overlapped \in BOOLEAN
    <2>1. HistoryInit => \A p \in Processes : ~Loaded(p) /\ ~Replaced(p)
      BY DEF HistoryInit, Init, Loaded, Replaced
    <2> QED
      BY <2>1, StoreInit DEF HistoryInit, SequentialInv, Processes
  <1>2. SInv /\ [HistoryNext]_<<vars, overlapped>> => SInv'
    <2>1. [HistoryNext]_<<vars, overlapped>> => [Next]_vars
      BY DEF HistoryNext
    <2> QED
      BY <2>1, StoreStep
  <1>3. /\ SInv /\ SequentialInv /\ overlapped \in BOOLEAN
        /\ [HistoryNext]_<<vars, overlapped>>
        => SequentialInv' /\ (overlapped \in BOOLEAN)'
    BY SequentialStep
  <1> QED
    BY <1>1, <1>2, <1>3, PTL DEF HistorySpec

(* Used one command at a time, the store forgets no saved command, whatever *)
(* was killed or failed before: what is renamed over the document was read  *)
(* from it (_command_apply, _command_finalize, _command_start).             *)
THEOREM SequentialUse == HistorySpec => []SequentialUseKeepsSaved
  <1>1. ASSUME SInv, SequentialInv PROVE SequentialUseKeepsSaved
    <2>1. SUFFICES ASSUME ~overlapped, NEW p \in Starts \cup Writers, Saved(p), Recorded(p)
                   PROVE  /\ file # NoDocument
                          /\ p = file.session \/ p \in Range(file.log) \/ file.session \in Forced
      BY DEF SequentialUseKeepsSaved, SavedIsKept
    <2>2. Kept(p)
      BY <1>1, <2>1 DEF SequentialInv, Replaced, Saved
    <2>3. file \in Documents
      BY <1>1, <2>2, FileIsDocument DEF Kept
    <2> QED
      BY <2>2, <2>3 DEF Kept, Named
  <1> QED
    BY <1>1, SequentialInvariant, PTL

\* What a process does to the document other than renaming its own over it.
LEMMA OnlyRenamesWrite ==
    ASSUME NEW p \in Processes, Begin(p) \/ Proceed(p) \/ Fail(p) \/ Crash(p)
    PROVE  UNCHANGED file \/ (p \notin Readers /\ Replace(p))
  <1>1. CASE Begin(p)
    BY <1>1 DEF Begin, CheckAbsent, LoadAndRun, LoadAndRead
  <1>2. CASE Proceed(p)
    BY <1>2 DEF Proceed, OpenTmp, Write, Answer
  <1>3. CASE Fail(p) \/ Crash(p)
    BY <1>3 DEF Fail, CommandFails, WriteFails, Crash
  <1> QED
    BY <1>1, <1>2, <1>3

(* Used one command at a time, the store is the document SessionDocument    *)
(* describes: a command checks or loads, opens, writes and renames, may be  *)
(* killed anywhere between, and changes the document in one step or none.   *)
THEOREM SequentialUseAtomic == HistorySpec => SequentialUseIsAtomic
  <1>1. HistoryInit => Document!Init
    BY DEF HistoryInit, Init, Document!Init
  <1>2. ASSUME SInv, SequentialInv, overlapped \in BOOLEAN,
               [HistoryNext]_<<vars, overlapped>>, ~overlapped'
        PROVE  [Document!Next]_file
    <2>1. CASE UNCHANGED <<vars, overlapped>>
      BY <2>1 DEF vars
    <2>2. CASE HistoryNext
      <3>1. ~overlapped
        BY <1>2, <2>2 DEF HistoryNext
      <3>2. CASE UNCHANGED vars
        BY <3>2 DEF vars
      <3>3. ASSUME NEW p \in Processes, p \notin Readers, Replace(p)
            PROVE  [Document!Next]_file
        <4>1. pc[p] = "synced"
          BY <3>3 DEF Replace, Goes
        <4>2. file' = held[p]
          BY <1>2, <3>3, <4>1 DEF Replace, SInv, TmpIsOwned
        <4>3. Carries(p)
          BY <1>2, <3>1, <4>1 DEF SequentialInv, Loaded
        <4>4. CASE p \in Starts
          BY <4>2, <4>3, <4>4, StoreAssumption DEF Carries, Document!Next, Document!Start
        <4>5. CASE p \in Writers
          BY <4>2, <4>3, <4>5, StoreAssumption DEF Carries, Document!Next, Document!Record
        <4> QED
          BY <3>3, <4>4, <4>5 DEF Processes
      <3>4. ASSUME NEW p \in Processes, Begin(p) \/ Proceed(p) \/ Fail(p) \/ Crash(p)
            PROVE  [Document!Next]_file
        BY <3>3, <3>4, OnlyRenamesWrite
      <3> QED
        BY <2>2, <3>2, <3>4 DEF HistoryNext, Next
    <2> QED
      BY <1>2, <2>1, <2>2
  <1>3. SInv /\ SequentialInv /\ overlapped \in BOOLEAN /\ [HistoryNext]_<<vars, overlapped>>
        => [~overlapped' => [Document!Next]_file]_<<vars, overlapped>>
    BY <1>2
  <1> QED
    BY <1>1, <1>3, SequentialInvariant, PTL DEF HistorySpec, SequentialUseIsAtomic
=============================================================================
