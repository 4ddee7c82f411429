--------------------------- MODULE SessionHistory ---------------------------
(***************************************************************************)
(* The session store with a history variable, for what holds only of       *)
(* commands that are run one at a time.                                    *)
(***************************************************************************)
EXTENDS SessionStore

VARIABLE overlapped    \* has a command begun while another was running?

Overlap(state) == \E p, q \in Processes : p # q /\ state[p] \in Running /\ state[q] \in Running

HistoryInit == Init /\ overlapped = FALSE

HistoryNext ==
    /\ Next
    /\ overlapped' = (overlapped \/ Overlap(pc'))

HistorySpec ==
    HistoryInit /\ [][HistoryNext]_<<vars, overlapped>> /\ Fairness

\* As long as commands run one at a time, the way README.md drives the CLI, a
\* command that was saved stays saved, whichever of them were killed on the way.
SequentialUseKeepsSaved == ~overlapped => SavedIsKept

Document == INSTANCE SessionDocument WITH document <- file

\* As long as they do, the check, the load, the temporary file and the rename of
\* a command come to one step on the document that is there: what is renamed into
\* place is that document with the command, or a session that may be started on it.
SequentialUseIsAtomic ==
    /\ Document!Init
    /\ [][~overlapped' => [Document!Next]_file]_<<vars, overlapped>>
=============================================================================
