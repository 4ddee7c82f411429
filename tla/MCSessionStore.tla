--------------------------- MODULE MCSessionStore ---------------------------
(***************************************************************************)
(* A handful of CLI processes on one session document.  The pid of a       *)
(* killed process is used again by a later one.                            *)
(***************************************************************************)
EXTENDS SessionHistory

CONSTANTS s1, s2, w1, w2, r1, pid1, pid2, pid3

TwoStarts   == {s1, s2}
TwoWriters  == {w1, w2}
OneReader   == {r1}
ForcedStart == {s2}
NoProcess   == {}
ThreePids   == {pid1, pid2, pid3}

\* s1 and w2 run under one pid, one after the other, and so do s2 and w1.
PidsUsed == [p \in Processes |-> CASE p \in {s1, w2} -> pid1
                                  [] p \in {s2, w1} -> pid2
                                  [] OTHER -> pid3]
=============================================================================
