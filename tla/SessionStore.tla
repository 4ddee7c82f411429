---------------------------- MODULE SessionStore ----------------------------
(***************************************************************************)
(* The session document on disk and the CLI processes that use it.  Every  *)
(* command is a process of its own: start checks that the document is      *)
(* absent, apply and finalize read it, and all three then write a sibling  *)
(* temporary file and rename it over the document.  There is no lock.      *)
(* A process may be killed between any two of these steps.                 *)
(*                                                                         *)
(* A document is the session's start command and the commands recorded in  *)
(* its trajectory, in order.                                               *)
(***************************************************************************)
EXTENDS Integers, Sequences, FiniteSets, SequencesExt

CONSTANTS
    Starts,        \* start commands
    Forced,        \* those given --force
    Writers,       \* apply and finalize commands
    Readers,       \* inspect and replay commands
    Pids,          \* each stands for the temporary file name it leads to
    PidOf,         \* the pid of a process; a pid is used again once it is free
    NoDocument, Torn

ASSUME StoreAssumption ==
    /\ Forced \subseteq Starts
    /\ Starts \cap Writers = {} /\ Starts \cap Readers = {} /\ Writers \cap Readers = {}
    /\ PidOf \in [Starts \cup Writers \cup Readers -> Pids]

Processes == Starts \cup Writers \cup Readers
Documents == [session : Starts, log : Seq(Writers)]

ASSUME SentinelAssumption == /\ NoDocument \notin Documents /\ Torn \notin Documents
                             /\ NoDocument # Torn

VARIABLES
    file,          \* the document at session_path
    tmp,           \* the temporary files: content and the process that made it
    held,          \* the document a process is about to write
    pc             \* where each process is

vars == <<file, tmp, held, pc>>

Running == {"ready", "writing", "synced", "answering"}
Stopped == {"done", "refused", "failed", "unanswered", "crashed"}

NoTmp == [content |-> NoDocument, by |-> {}]

Init ==
    /\ file = NoDocument
    /\ tmp = [n \in Pids |-> NoTmp]
    /\ held = [p \in Processes |-> NoDocument]
    /\ pc = [p \in Processes |-> "idle"]

Goes(p, from, to) == pc[p] = from /\ pc' = [pc EXCEPT ![p] = to]

MayBegin(p) ==
    \A q \in Processes : pc[q] \in Running => PidOf[q] # PidOf[p]

-----------------------------------------------------------------------------
(* start: the existence check and the fresh session *)

\* Fault: an existing document is not looked for.
CheckNothing(p) ==
    /\ MayBegin(p)
    /\ Goes(p, "idle", "ready")
    /\ held' = [held EXCEPT ![p] = [session |-> p, log |-> <<>>]]
    /\ UNCHANGED <<file, tmp>>

CheckAbsent(p) ==
    /\ MayBegin(p)
    /\ \/ /\ file # NoDocument /\ p \notin Forced
          /\ Goes(p, "idle", "refused")
          /\ UNCHANGED held
       \/ /\ file = NoDocument \/ p \in Forced
          /\ Goes(p, "idle", "ready")
          /\ held' = [held EXCEPT ![p] = [session |-> p, log |-> <<>>]]
    /\ UNCHANGED <<file, tmp>>

\* Fault: the command is run on the session as it started.
LoadAndRunAfresh(p) ==
    /\ MayBegin(p)
    /\ file # NoDocument
    /\ Goes(p, "idle", "ready")
    /\ held' = [held EXCEPT ![p] = [file EXCEPT !.log = <<p>>]]
    /\ UNCHANGED <<file, tmp>>

(* apply and finalize: load, rehydrate and run.  The command is recorded, *)
(* except a finalize of a session that is no longer active.               *)
LoadAndRun(p) ==
    /\ MayBegin(p)
    /\ \/ /\ file = NoDocument
          /\ Goes(p, "idle", "failed")
          /\ UNCHANGED held
       \/ /\ file # NoDocument
          /\ Goes(p, "idle", "ready")
          /\ \E recorded \in {file, [file EXCEPT !.log = Append(@, p)]} :
                held' = [held EXCEPT ![p] = recorded]
    /\ UNCHANGED <<file, tmp>>

(* inspect and replay: load and answer. *)
LoadAndRead(p) ==
    /\ MayBegin(p)
    /\ Goes(p, "idle", IF file = NoDocument THEN "failed" ELSE "answering")
    /\ held' = [held EXCEPT ![p] = file]
    /\ UNCHANGED <<file, tmp>>

\* Anything before the write raises: bad input, a kernel that cannot be
\* loaded, a finalize whose recording fails.
CommandFails(p) ==
    /\ Goes(p, "ready", "failed")
    /\ UNCHANGED <<file, tmp, held>>

-----------------------------------------------------------------------------
(* _write_session_document *)

\* Fault: the command waits for a temporary file of its name to go away.
OpenTmpWaiting(p) ==
    /\ tmp[PidOf[p]] = NoTmp
    /\ Goes(p, "ready", "writing")
    /\ tmp' = [tmp EXCEPT ![PidOf[p]] = [content |-> Torn, by |-> {p}]]
    /\ UNCHANGED <<file, held>>

\* O_EXCL: a file left by a killed process of the same pid is an error.
OpenTmp(p) ==
    /\ \/ /\ tmp[PidOf[p]] = NoTmp
          /\ Goes(p, "ready", "writing")
          /\ tmp' = [tmp EXCEPT ![PidOf[p]] = [content |-> Torn, by |-> {p}]]
       \/ /\ tmp[PidOf[p]] # NoTmp
          /\ Goes(p, "ready", "failed")
          /\ UNCHANGED tmp
    /\ UNCHANGED <<file, held>>

\* Fault: the rename may overtake the bytes.
WriteWithoutSync(p) ==
    /\ Goes(p, "writing", "synced")
    /\ UNCHANGED <<file, tmp, held>>

\* Fault: the document is written in place.
WriteInPlace(p) ==
    /\ Goes(p, "writing", "synced")
    /\ file' = held[p]
    /\ tmp' = [tmp EXCEPT ![PidOf[p]].content = held[p]]
    /\ UNCHANGED held

\* write, flush and fsync.
Write(p) ==
    /\ Goes(p, "writing", "synced")
    /\ tmp' = [tmp EXCEPT ![PidOf[p]].content = held[p]]
    /\ UNCHANGED <<file, held>>

\* Fault: the half-written sibling is left behind.
WriteFailsUncleaned(p) ==
    /\ pc[p] \in {"writing", "synced"}
    /\ Goes(p, pc[p], "failed")
    /\ UNCHANGED <<file, tmp, held>>

\* The write, the sync or the rename raises: the sibling is removed.
WriteFails(p) ==
    /\ pc[p] \in {"writing", "synced"}
    /\ Goes(p, pc[p], "failed")
    /\ tmp' = [tmp EXCEPT ![PidOf[p]] = NoTmp]
    /\ UNCHANGED <<file, held>>

\* os.replace
Replace(p) ==
    /\ Goes(p, "synced", "answering")
    /\ file' = tmp[PidOf[p]].content
    /\ tmp' = [tmp EXCEPT ![PidOf[p]] = NoTmp]
    /\ UNCHANGED held

-----------------------------------------------------------------------------
\* _output: an output that cannot be written turns a saved command into an error.
Answer(p) ==
    /\ Goes(p, "answering", "done") \/ Goes(p, "answering", "unanswered")
    /\ UNCHANGED <<file, tmp, held>>

\* The process is killed; its temporary file stays.
Crash(p) ==
    /\ pc[p] \in Running
    /\ Goes(p, pc[p], "crashed")
    /\ UNCHANGED <<file, tmp, held>>

Begin(p) ==
    \/ p \in Starts /\ CheckAbsent(p)
    \/ p \in Writers /\ LoadAndRun(p)
    \/ p \in Readers /\ LoadAndRead(p)

Proceed(p) ==
    \/ p \notin Readers /\ (OpenTmp(p) \/ Write(p) \/ Replace(p))
    \/ Answer(p)

Fail(p) == p \notin Readers /\ (CommandFails(p) \/ WriteFails(p))

AllStopped == \A p \in Processes : pc[p] \in Stopped

Next ==
    \/ \E p \in Processes : Begin(p) \/ Proceed(p) \/ Fail(p) \/ Crash(p)
    \/ AllStopped /\ UNCHANGED vars

Spec == Init /\ [][Next]_vars

\* The operating system keeps running a process that has begun; nothing makes a
\* command begin, fail or crash.
Fairness == \A p \in Processes : WF_vars(Proceed(p))
FairSpec == Spec /\ Fairness

-----------------------------------------------------------------------------
(* Properties *)

Contents == Documents \cup {NoDocument, Torn}

\* The type invariant of the store.
TypeOK ==
    /\ file \in Contents
    /\ tmp \in [Pids -> [content : Contents, by : SUBSET Processes]]
    /\ held \in [Processes -> Documents \cup {NoDocument}]
    /\ pc \in [Processes -> {"idle"} \cup Running \cup Stopped]

\* Whatever command is killed or fails, and whenever, the session path holds
\* no document or a complete one (agent_cli.py:_write_session_document).
DocumentIsWhole == file # Torn

\* A temporary file belongs to a process that is writing it or was killed while
\* it did: a command that fails, or is refused, leaves none behind.
TmpIsAccountedFor ==
    \A n \in Pids : tmp[n] # NoTmp =>
        \E p \in Processes : /\ tmp[n].by = {p} /\ PidOf[p] = n
                             /\ pc[p] \in {"writing", "synced", "crashed"}

\* A command that stopped before its rename, other than by being killed, is in
\* no document a reader can load.
UnpublishedIsInvisible ==
    \A p \in Processes : pc[p] \in {"failed", "refused"} =>
        /\ file # NoDocument => p \notin Range(file.log) \cup {file.session}
        /\ \A q \in Readers : held[q] # NoDocument =>
              p \notin Range(held[q].log) \cup {held[q].session}

Saved(p) == pc[p] \in {"done", "unanswered"}
Recorded(p) == held[p] # NoDocument /\ (p \in Starts \/ p \in Range(held[p].log))

\* A saved command is in the document, unless a --force start replaced it.
SavedIsKept ==
    \A p \in Starts \cup Writers : Saved(p) /\ Recorded(p) =>
        /\ file # NoDocument
        /\ \/ p = file.session \/ p \in Range(file.log)
           \/ file.session \in Forced

\* Every command that begins ends, whatever files earlier ones left behind: in
\* the end none is running (a process runs one command).
CommandsEnd == <>[](\A p \in Processes : pc[p] \notin Running)

-----------------------------------------------------------------------------
(* What the documents say, and concurrent commands do not keep *)

\* agent-decomposition-runtime/spec.md: every attempted action and runtime
\* result is appended to an ordered trajectory.
SavedActionsAreKept ==
    \A p \in Writers : Saved(p) /\ Recorded(p) => p \in Range(file.log)
=============================================================================
