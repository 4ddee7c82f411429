-------------------------- MODULE SearchLoopProofs --------------------------
(***************************************************************************)
(* Theorems about SearchLoop, for every payload, budget and grading.       *)
(*                                                                         *)
(* The queue, what is left of the round and the candidate at hand hold the *)
(* activated candidates that are not evaluated yet, each once (QueueInv),  *)
(* and the ledger records exactly what the sets of the loop say            *)
(* (RecordedInv).  With both, every event the loop records is one the      *)
(* replay accepts, and a checkpoint reads the pending candidates off it.   *)
(***************************************************************************)
EXTENDS SearchLoop, TLAPS, FiniteSetTheorems

-----------------------------------------------------------------------------
(* Sequences *)

LEMMA Appended ==
    ASSUME NEW S, NEW s \in Seq(S), NEW e
    PROVE  /\ Len(s) \in Nat /\ DOMAIN s = 1..Len(s)
           /\ DOMAIN Append(s, e) = 1..(Len(s) + 1) /\ Len(Append(s, e)) = Len(s) + 1
           /\ \A i \in 1..Len(s) : Append(s, e)[i] = s[i]
           /\ Append(s, e)[Len(s) + 1] = e
  <1> DEFINE T == S \cup {e}
  <1>1. s \in Seq(T) /\ e \in T
    OBVIOUS
  <1> HIDE DEF T
  <1> QED
    BY <1>1

LEMMA AppendToQueue ==
    ASSUME NEW S, NEW q \in Seq(S), NEW e \in S
    PROVE  /\ Append(q, e) \in Seq(S)
           /\ Range(Append(q, e)) = Range(q) \cup {e}
           /\ IsInjective(q) /\ e \notin Range(q) => IsInjective(Append(q, e))
  <1> DEFINE t == Append(q, e)
             n == Len(q)
  <1>1. /\ n \in Nat /\ DOMAIN q = 1..n /\ t \in Seq(S) /\ DOMAIN t = 1..(n + 1)
        /\ \A i \in 1..n : t[i] = q[i]
        /\ t[n + 1] = e
    OBVIOUS
  <1> HIDE DEF t, n
  <1>2. 1..(n + 1) = (1..n) \cup {n + 1}
    BY <1>1
  <1>3. Range(t) = Range(q) \cup {e}
    BY <1>1, <1>2 DEF Range
  <1>4. ASSUME IsInjective(q), e \notin Range(q) PROVE IsInjective(t)
    BY <1>1, <1>2, <1>4 DEF IsInjective, Range
  <1> QED
    BY <1>1, <1>3, <1>4 DEF t

LEMMA TakeFromQueue ==
    ASSUME NEW S, NEW q \in Seq(S), q # <<>>
    PROVE  /\ Head(q) \in S /\ Tail(q) \in Seq(S)
           /\ Range(q) = Range(Tail(q)) \cup {Head(q)}
           /\ IsInjective(q) => IsInjective(Tail(q)) /\ Head(q) \notin Range(Tail(q))
  <1> DEFINE t == Tail(q)
             n == Len(q)
  <1>1. /\ n \in Nat \ {0} /\ DOMAIN q = 1..n /\ t \in Seq(S) /\ DOMAIN t = 1..(n - 1)
        /\ \A i \in 1..(n - 1) : t[i] = q[i + 1]
        /\ Head(q) = q[1] /\ q[1] \in S
    OBVIOUS
  <1> HIDE DEF t, n
  <1>2. \A i \in 1..n : i = 1 \/ i - 1 \in 1..(n - 1)
    BY <1>1
  <1>3. \A i \in 1..(n - 1) : i + 1 \in 1..n /\ i + 1 # 1
    BY <1>1
  <1>4. \A i \in 1..n : i = 1 \/ q[i] = t[i - 1]
    BY <1>1, <1>2
  <1>5. Range(q) = Range(t) \cup {q[1]}
    <2>1. ASSUME NEW x \in Range(q) PROVE x \in Range(t) \cup {q[1]}
      BY <1>1, <1>2, <1>4, <2>1 DEF Range
    <2>2. ASSUME NEW x \in Range(t) PROVE x \in Range(q)
      BY <1>1, <1>3, <2>2 DEF Range
    <2>3. q[1] \in Range(q)
      <3>1. 1 \in 1..n
        BY <1>1
      <3> QED
        BY <1>1, <3>1 DEF Range
    <2> QED
      BY <2>1, <2>2, <2>3
  <1>6. ASSUME IsInjective(q) PROVE IsInjective(t) /\ q[1] \notin Range(t)
    <2>1. 1 \in 1..n
      BY <1>1
    <2>2. \A i, j \in 1..(n - 1) : t[i] = t[j] => i = j
      <3> SUFFICES ASSUME NEW i \in 1..(n - 1), NEW j \in 1..(n - 1), t[i] = t[j]
                   PROVE  i = j
        OBVIOUS
      <3>1. q[i + 1] = q[j + 1] /\ i + 1 \in DOMAIN q /\ j + 1 \in DOMAIN q
        BY <1>1, <1>3
      <3>2. i + 1 = j + 1
        BY <1>6, <3>1 DEF IsInjective
      <3> QED
        BY <1>1, <3>2
    <2>3. \A i \in 1..(n - 1) : t[i] # q[1]
      BY <1>1, <1>3, <1>6, <2>1 DEF IsInjective
    <2> QED
      BY <1>1, <2>2, <2>3 DEF IsInjective, Range
  <1> QED
    BY <1>1, <1>5, <1>6 DEF t

LEMMA EmptyQueue == Range(<<>>) = {} /\ IsInjective(<<>>)
  BY DEF Range, IsInjective

-----------------------------------------------------------------------------
(* The replay of what is recorded *)

Activations == {"SEED", "EXPAND", "MINIMIZE"}
Terminals   == {"RESULT", "STOP"}

Event(c, state) == [candidate |-> c, state |-> state, round |-> round_index]

\* The ledger has one event more, and keeps the others.
LEMMA LedgerOneMore ==
    ASSUME TypeOK, NEW c, NEW state, record(c, state)
    PROVE  /\ Len(ledger) \in Nat /\ DOMAIN ledger = 1..Len(ledger)
           /\ DOMAIN ledger' = 1..(Len(ledger) + 1) /\ Len(ledger') = Len(ledger) + 1
           /\ \A i \in 1..Len(ledger) : ledger'[i] = ledger[i]
           /\ ledger'[Len(ledger) + 1] = Event(c, state)
  <1> DEFINE e == Event(c, state)
  <1>1. PICK S : ledger \in Seq(S)
    BY DEF TypeOK
  <1>2. ledger' = Append(ledger, e)
    BY DEF record, Event
  <1> HIDE DEF e
  <1>3. /\ Len(ledger) \in Nat /\ DOMAIN ledger = 1..Len(ledger)
        /\ DOMAIN Append(ledger, e) = 1..(Len(ledger) + 1) /\ Len(Append(ledger, e)) = Len(ledger) + 1
        /\ \A i \in 1..Len(ledger) : Append(ledger, e)[i] = ledger[i]
        /\ Append(ledger, e)[Len(ledger) + 1] = e
    BY <1>1, Appended, Zenon
  <1> QED
    BY <1>2, <1>3 DEF e

\* An event adds its candidate to what is recorded of its state.
LEMMA RecordedOneMore ==
    ASSUME TypeOK, NEW c, NEW state, record(c, state), NEW states
    PROVE  Recorded(states)' = Recorded(states) \cup {d \in {c} : state \in states}
  <1> DEFINE n == Len(ledger)
  <1>1. /\ n \in Nat /\ DOMAIN ledger = 1..n /\ DOMAIN ledger' = 1..(n + 1)
        /\ \A i \in 1..n : ledger'[i] = ledger[i]
        /\ ledger'[n + 1] = Event(c, state)
    BY LedgerOneMore
  <1> HIDE DEF n
  <1>2. 1..(n + 1) = (1..n) \cup {n + 1}
    BY <1>1
  <1>3. {j \in DOMAIN ledger' : ledger'[j].state \in states}
            = {j \in DOMAIN ledger : ledger[j].state \in states} \cup {j \in {n + 1} : state \in states}
    BY <1>1, <1>2 DEF Event
  <1> QED
    BY <1>1, <1>2, <1>3 DEF Recorded, Event

LEMMA ReplayedOneMore ==
    ASSUME TypeOK, NEW c, NEW state, record(c, state), Recorded(Terminals) = {}
    PROVE  Replayed' = Replay!After(Replayed, Event(c, state))
  <1>1. \A states : Recorded(states)' = Recorded(states) \cup {d \in {c} : state \in states}
    BY RecordedOneMore
  <1>2. /\ Replayed'.activated = Replay!Joins(Replayed.activated, Event(c, state), Replay!Activations)
        /\ Replayed'.validated = Replay!Joins(Replayed.validated, Event(c, state), {"VALIDATE"})
        /\ Replayed'.evaluated = Replay!Joins(Replayed.evaluated, Event(c, state), {"EVALUATE"})
        /\ Replayed'.rejected = Replay!Joins(Replayed.rejected, Event(c, state), {"REJECT"})
        /\ Replayed'.ranked = Replay!Joins(Replayed.ranked, Event(c, state), {"RANK"})
    BY <1>1 DEF Replayed, Replay!Joins, Replay!Activations, Event
  <1>3. Replayed'.terminal = (Event(c, state).state \in Replay!Terminals)
    BY <1>1 DEF Replayed, Replay!Terminals, Terminals, Event
  <1>4. Replayed'.round = Event(c, state).round
    <2>1. /\ Len(ledger) \in Nat /\ Len(ledger') = Len(ledger) + 1
          /\ ledger'[Len(ledger')] = Event(c, state)
      BY LedgerOneMore
    <2>2. ledger' # <<>>
      BY <2>1
    <2> QED
      BY <2>1, <2>2 DEF Replayed
  <1> QED
    BY <1>2, <1>3, <1>4 DEF Replayed, Replay!After

-----------------------------------------------------------------------------
(* Types *)

\* A candidate is at hand from its validation to the end of its children.
TypeInv ==
    /\ TypeOK
    /\ pc \in {"evaluate", "rank", "children"} => focus \in Candidates

\* What may be recorded keeps the ledger one of events.
LEMMA LedgerType ==
    ASSUME TypeOK, NEW c \in Candidates \cup {NoCandidate}, NEW state \in Replay!States,
           record(c, state)
    PROVE  ledger' \in Seq([candidate : Candidates \cup {NoCandidate}, round : Rounds,
                            state : {"SEED", "EXPAND", "MINIMIZE", "VALIDATE", "EVALUATE",
                                     "REJECT", "RANK", "RESULT", "STOP"}])
  <1> DEFINE S == [candidate : Candidates \cup {NoCandidate}, round : Rounds,
                   state : {"SEED", "EXPAND", "MINIMIZE", "VALIDATE", "EVALUATE",
                            "REJECT", "RANK", "RESULT", "STOP"}]
  <1>1. Event(c, state) \in S /\ ledger \in Seq(S)
    BY DEF Event, TypeOK, Replay!States
  <1>2. ledger' = Append(ledger, Event(c, state))
    BY DEF record, Event
  <1> HIDE DEF S
  <1>3. ledger' \in Seq(S)
    BY <1>1, <1>2, AppendToQueue
  <1> QED
    BY <1>3 DEF S

LEMMA OfferedType ==
    ASSUME focus \in Candidates
    PROVE  /\ Offered \in Seq(Candidates)
           /\ Len(Offered) \in Nat
           /\ \A i \in 1..Len(Offered) : Offered[i] \in Candidates
  <1>1. Declared \in Seq(Candidates)
    <2>1. Range(Declared) \subseteq Candidates
      BY DEF Candidates
    <2> QED
      BY <2>1, DeclaredAssumption
  <1>2. Ablations[focus] \in Seq(Candidates) /\ Proposals[focus] \in Seq(Candidates)
    <2>1. Ablations[focus] \in Seq(Dynamic) /\ Proposals[focus] \in Seq(Dynamic)
      BY SearchAssumption
    <2>2. Dynamic \subseteq Candidates
      BY DEF Candidates
    <2> QED
      BY <2>1, <2>2
  <1>3. Offered \in Seq(Candidates)
    BY <1>1, <1>2 DEF Offered
  <1> QED
    BY <1>3

LEMMA DeclaredType ==
    /\ Len(Declared) \in Nat /\ DOMAIN Declared = 1..Len(Declared)
    /\ \A i \in 1..Len(Declared) : Declared[i] \in Candidates
  <1>1. Declared \in Seq(Range(Declared))
    BY DeclaredAssumption
  <1> QED
    BY <1>1 DEF Candidates

LEMMA TypeInit == Init => TypeInv
  <1> SUFFICES ASSUME Init PROVE TypeInv
    OBVIOUS
  <1>1. 0 \in Rounds
    <2>1. budget \in SearchBudgets /\ 0..budget.max_rounds \subseteq Rounds
      BY SearchAssumption DEF Init
    <2> QED
      BY <2>1 DEF SearchBudgets
  <1>2. {Formula[c] : c \in Range(Declared)} \subseteq Formulas
    BY SearchAssumption DEF Candidates
  <1>3. DOMAIN evaluations = {} /\ evaluations \in [DOMAIN evaluations -> BOOLEAN]
    BY DEF Init
  <1>4. \A S : <<>> \in Seq(S)
    OBVIOUS
  <1>5. /\ ledger = <<>> /\ queue = <<>> /\ current = <<>> /\ queued = {}
        /\ round_index = 0 /\ focus = NoCandidate /\ stop_reason = ""
        /\ pc = "seeding" /\ budget \in Budgets
        /\ known_formulas = {Formula[c] : c \in Range(Declared)}
    BY DEF Init
  <1>6. at \in Nat \ {0}
    <2>1. at = 1
      BY DEF Init
    <2> QED
      BY <2>1
  <1>7. grade \in [Formulas -> AllGrades]
    BY Zenon DEF Init
  <1> QED
    BY <1>1, <1>2, <1>3, <1>4, <1>5, <1>6, <1>7, Zenon DEF TypeInv, TypeOK

LEMMA TypeStep == TypeInv /\ [Next]_vars => TypeInv'
  <1> SUFFICES ASSUME TypeInv, [Next]_vars PROVE TypeInv'
    OBVIOUS
  <1> USE DEF TypeInv
  <1> DEFINE Events == Seq([candidate : Candidates \cup {NoCandidate}, round : Rounds,
                            state : {"SEED", "EXPAND", "MINIMIZE", "VALIDATE", "EVALUATE",
                                     "REJECT", "RANK", "RESULT", "STOP"}])
  <1>1. CASE RecordSeed
    <2>1. PICK i \in at..Len(Declared) :
              /\ record(Declared[i], "SEED")
              /\ queue' = Append(queue, Declared[i])
              /\ queued' = queued \cup {Declared[i]}
              /\ at' = i + 1
      BY <1>1 DEF RecordSeed
    <2>2. i \in 1..Len(Declared) /\ Declared[i] \in Candidates /\ at' \in Nat \ {0}
      <3>1. at \in Nat \ {0} /\ Len(Declared) \in Nat
        BY DeclaredType DEF TypeOK
      <3>2. i \in 1..Len(Declared) /\ i + 1 \in Nat \ {0}
        BY <3>1
      <3> QED
        BY <2>1, <3>2, DeclaredType
    <2>3. ledger' \in Events
      BY <2>1, <2>2, LedgerType DEF Replay!States
    <2>4. queue' \in Seq(Candidates)
      BY <2>1, <2>2, AppendToQueue DEF TypeOK
    <2> QED
      BY <1>1, <2>1, <2>2, <2>3, <2>4 DEF RecordSeed, TypeOK, payload
  <1>2. CASE SeedsRecorded
    BY <1>2 DEF SeedsRecorded, TypeOK, payload
  <1>3. CASE BeginRound
    <2>1. round_index + 1 \in Rounds
      <3>1. /\ round_index \in Nat /\ budget.max_rounds \in Nat
            /\ 0..budget.max_rounds \subseteq Rounds
        BY SearchAssumption DEF TypeOK, SearchBudgets
      <3>2. round_index + 1 \in 0..budget.max_rounds
        BY <1>3, <3>1 DEF BeginRound
      <3> QED
        BY <3>1, <3>2
    <2>2. <<>> \in Seq(Candidates)
      OBVIOUS
    <2> QED
      BY <1>3, <2>1, <2>2 DEF BeginRound, TypeOK, payload
  <1>4. CASE LeaveRounds
    BY <1>4 DEF LeaveRounds, TypeOK, payload
  <1>5. CASE StopInRound
    <2>1. Head(current) \in Candidates /\ Tail(current) \in Seq(Candidates)
      BY <1>5, TakeFromQueue DEF StopInRound, TypeOK
    <2>2. Append(queue, Head(current)) \in Seq(Candidates)
      BY <2>1, AppendToQueue DEF TypeOK
    <2> QED
      BY <1>5, <2>1, <2>2 DEF StopInRound, TypeOK, payload
  <1>6. CASE Validate
    <2>1. Head(current) \in Candidates /\ Tail(current) \in Seq(Candidates)
      BY <1>6, TakeFromQueue DEF Validate, TypeOK
    <2>2. ledger' \in Events
      BY <1>6, <2>1, LedgerType DEF Validate, Replay!States
    <2> QED
      BY <1>6, <2>1, <2>2 DEF Validate, TypeOK, payload
  <1>7. CASE EndRound
    BY <1>7 DEF EndRound, TypeOK, payload
  <1>8. ASSUME NEW passed \in BOOLEAN, Evaluated(passed), focus \in Candidates
        PROVE  DOMAIN evaluations' \subseteq Candidates /\ evaluations' \in [DOMAIN evaluations' -> BOOLEAN]
    BY <1>8 DEF Evaluated, TypeOK
  <1>9. CASE Reject
    <2>1. focus \in Candidates /\ ledger' \in Events
      BY <1>9, LedgerType DEF Reject, Replay!States
    <2>2. DOMAIN evaluations' \subseteq Candidates /\ evaluations' \in [DOMAIN evaluations' -> BOOLEAN]
      BY <1>8, <1>9, <2>1 DEF Reject
    <2> QED
      BY <1>9, <2>1, <2>2 DEF Reject, TypeOK, payload
  <1>10. CASE Evaluate
    <2>1. focus \in Candidates /\ ledger' \in Events
      BY <1>10, LedgerType DEF Evaluate, Replay!States
    <2>2. DOMAIN evaluations' \subseteq Candidates /\ evaluations' \in [DOMAIN evaluations' -> BOOLEAN]
      BY <1>8, <1>10, <2>1 DEF Evaluate
    <2> QED
      BY <1>10, <2>1, <2>2 DEF Evaluate, TypeOK, payload
  <1>11. CASE Rank
    <2>1. ledger' \in Events
      BY <1>11, LedgerType DEF Rank, Replay!States
    <2>2. at' \in Nat \ {0} /\ pc' \in {"aborted", "children"} /\ focus \in Candidates
      BY <1>11 DEF Rank
    <2> QED
      BY <1>11, <2>1, <2>2 DEF Rank, TypeOK, payload
  <1>12. CASE Activate
    <2>1. PICK i \in 1..Len(Offered) :
              /\ record(Offered[i], IF Passed THEN "MINIMIZE" ELSE "EXPAND")
              /\ queue' = Append(queue, Offered[i])
              /\ queued' = queued \cup {Offered[i]}
              /\ known_formulas' = known_formulas \cup {Formula[Offered[i]]}
              /\ at' = i + 1
      BY <1>12 DEF Activate
    <2>2. Offered[i] \in Candidates /\ Len(Offered) \in Nat
      BY <1>12, OfferedType DEF Activate
    <2>3. ledger' \in Events
      BY <2>1, <2>2, LedgerType DEF Replay!States
    <2>4. queue' \in Seq(Candidates)
      BY <2>1, <2>2, AppendToQueue DEF TypeOK
    <2>5. Formula[Offered[i]] \in Formulas
      BY <2>2, SearchAssumption
    <2>6. at' \in Nat \ {0}
      BY <2>1, <2>2
    <2> QED
      BY <1>12, <2>1, <2>2, <2>3, <2>4, <2>5, <2>6 DEF Activate, TypeOK, payload
  <1>13. CASE RefuseChild
    BY <1>13 DEF RefuseChild, TypeOK, payload
  <1>14. CASE ChildrenDone
    BY <1>14 DEF ChildrenDone, TypeOK, payload
  <1>15. CASE Result
    <2>1. PICK c \in Selectable : record(c, "RESULT") /\ focus' = c
      BY <1>15 DEF Result
    <2>2. c \in Candidates
      BY <2>1 DEF Selectable, minimal_rows, passed_rows, TypeOK
    <2>3. ledger' \in Events
      BY <2>1, <2>2, LedgerType DEF Replay!States
    <2> QED
      BY <1>15, <2>1, <2>2, <2>3 DEF Result, TypeOK, payload
  <1>16. CASE Stop
    <2>1. ledger' \in Events
      BY <1>16, LedgerType DEF Stop, Replay!States
    <2> QED
      BY <1>16, <2>1 DEF Stop, TypeOK, payload
  <1>17. CASE UNCHANGED vars
    BY <1>17 DEF vars, payload, TypeOK
  <1> QED
    BY <1>1, <1>2, <1>3, <1>4, <1>5, <1>6, <1>7, <1>9, <1>10, <1>11, <1>12, <1>13, <1>14,
       <1>15, <1>16, <1>17 DEF Next, Returned

(* The loop's variables are well typed for every payload and budget.       *)
THEOREM TypeCorrect == Spec => []TypeOK
  <1>1. TypeInv => TypeOK
    BY DEF TypeInv
  <1> QED
    BY <1>1, TypeInit, TypeStep, PTL DEF Spec

-----------------------------------------------------------------------------
(* The queue *)

AtHand  == {c \in {focus} : pc = "evaluate"}
Waiting == Range(queue) \cup Range(current)

\* Every activated candidate that is not evaluated waits in one place.
QueueInv ==
    /\ IsInjective(queue) /\ IsInjective(current)
    /\ Range(queue) \cap Range(current) = {}
    /\ AtHand \cap Waiting = {}
    /\ Waiting \cup AtHand = queued \ DOMAIN evaluations
    /\ DOMAIN evaluations \subseteq queued
    /\ pc \in {"seeding", "round"} => current = <<>>
    /\ pc = "seeding" => queued \subseteq {Declared[j] : j \in 1..(at - 1)}

LEMMA QueueInit == Init => QueueInv
  <1> SUFFICES ASSUME Init PROVE QueueInv
    OBVIOUS
  <1>1. DOMAIN evaluations = {} /\ queue = <<>> /\ current = <<>> /\ queued = {} /\ pc = "seeding"
    BY DEF Init
  <1> QED
    BY <1>1, EmptyQueue DEF QueueInv, AtHand, Waiting

\* An activation puts a new candidate at the end of the queue.
LEMMA Activated ==
    ASSUME TypeInv, QueueInv, NEW c \in Candidates, c \notin queued, pc # "evaluate", pc' = pc,
           queue' = Append(queue, c), queued' = queued \cup {c},
           UNCHANGED <<current, evaluations>>
    PROVE  /\ IsInjective(queue)' /\ IsInjective(current)'
           /\ Range(queue)' \cap Range(current)' = {}
           /\ AtHand' = {} /\ Waiting' = queued' \ DOMAIN evaluations'
           /\ DOMAIN evaluations' \subseteq queued'
  <1>1. c \notin Waiting /\ c \notin DOMAIN evaluations
    BY DEF QueueInv
  <1>2. IsInjective(queue') /\ Range(queue') = Range(queue) \cup {c}
    <2>1. queue \in Seq(Candidates) /\ IsInjective(queue) /\ c \notin Range(queue)
      BY <1>1 DEF TypeInv, TypeOK, QueueInv, Waiting
    <2> QED
      BY <2>1, AppendToQueue
  <1> QED
    BY <1>1, <1>2 DEF QueueInv, AtHand, Waiting

\* The next seed is a candidate that was not activated before.
LEMMA NewSeed ==
    ASSUME TypeInv, QueueInv, pc = "seeding", NEW i \in at..Len(Declared)
    PROVE  /\ Declared[i] \in Candidates /\ Declared[i] \notin queued
           /\ {Declared[j] : j \in 1..(at - 1)} \cup {Declared[i]}
                  \subseteq {Declared[j] : j \in 1..((i + 1) - 1)}
  <1>1. at \in Nat \ {0} /\ Len(Declared) \in Nat
    BY DeclaredType DEF TypeInv, TypeOK
  <1>2. /\ i \in 1..Len(Declared)
        /\ \A j \in 1..(at - 1) : j \in 1..i /\ j # i /\ j \in 1..Len(Declared)
        /\ i \in 1..((i + 1) - 1) /\ \A j \in 1..(at - 1) : j \in 1..((i + 1) - 1)
    BY <1>1
  <1>3. IsInjective(Declared) /\ DOMAIN Declared = 1..Len(Declared)
    BY DeclaredAssumption, DeclaredType DEF DeclaredGraph
  <1>4. \A j \in 1..(at - 1) : Declared[j] # Declared[i]
    BY <1>2, <1>3 DEF IsInjective
  <1> QED
    BY <1>2, <1>4, DeclaredType DEF QueueInv

LEMMA QueueStep == TypeInv /\ QueueInv /\ [Next]_vars => QueueInv'
  <1> SUFFICES ASSUME TypeInv, QueueInv, [Next]_vars PROVE QueueInv'
    OBVIOUS
  <1>0. ASSUME UNCHANGED <<queue, current, queued, evaluations>>, pc # "evaluate", pc' # "evaluate",
               pc' \notin {"seeding", "round"} \/ current = <<>>,
               pc' # "seeding"
        PROVE  QueueInv'
    BY <1>0 DEF QueueInv, AtHand, Waiting
  <1>1. CASE RecordSeed
    <2>1. PICK i \in at..Len(Declared) :
              /\ record(Declared[i], "SEED")
              /\ queue' = Append(queue, Declared[i])
              /\ queued' = queued \cup {Declared[i]}
              /\ at' = i + 1
      BY <1>1 DEF RecordSeed
    <2>2. /\ pc = "seeding" /\ pc' = "seeding" /\ UNCHANGED <<current, evaluations>>
      BY <1>1 DEF RecordSeed
    <2>3. /\ Declared[i] \in Candidates /\ Declared[i] \notin queued
          /\ queued' \subseteq {Declared[j] : j \in 1..(at' - 1)}
      BY <2>1, <2>2, NewSeed DEF QueueInv
    <2> QED
      BY <2>1, <2>2, <2>3, Activated DEF QueueInv
  <1>2. CASE SeedsRecorded
    BY <1>0, <1>2 DEF SeedsRecorded, QueueInv
  <1>3. CASE BeginRound
    <2>1. /\ current = <<>> /\ current' = queue /\ queue' = <<>> /\ pc = "round" /\ pc' = "select"
          /\ UNCHANGED <<queued, evaluations>>
      BY <1>3 DEF BeginRound, QueueInv
    <2> QED
      BY <2>1, EmptyQueue DEF QueueInv, AtHand, Waiting
  <1>4. CASE LeaveRounds
    BY <1>0, <1>4 DEF LeaveRounds
  <1>5. CASE StopInRound
    <2>1. /\ current # <<>> /\ queue' = Append(queue, Head(current)) /\ current' = Tail(current)
          /\ pc = "select" /\ pc' = "finish" /\ UNCHANGED <<queued, evaluations>>
      BY <1>5 DEF StopInRound
    <2>2. /\ Head(current) \in Candidates /\ IsInjective(current')
          /\ Range(current) = Range(current') \cup {Head(current)}
          /\ Head(current) \notin Range(current')
      BY <2>1, TakeFromQueue DEF TypeInv, TypeOK, QueueInv
    <2>3. Head(current) \notin Range(queue)
      BY <2>2 DEF QueueInv
    <2>4. IsInjective(queue') /\ Range(queue') = Range(queue) \cup {Head(current)}
      <3>1. queue \in Seq(Candidates) /\ IsInjective(queue)
        BY DEF TypeInv, TypeOK, QueueInv
      <3> QED
        BY <2>1, <2>2, <2>3, <3>1, AppendToQueue
    <2> QED
      BY <2>1, <2>2, <2>3, <2>4 DEF QueueInv, AtHand, Waiting
  <1>6. CASE Validate
    <2>1. /\ current # <<>> /\ focus' = Head(current) /\ current' = Tail(current)
          /\ pc = "select" /\ pc' = "evaluate" /\ UNCHANGED <<queue, queued, evaluations>>
      BY <1>6 DEF Validate
    <2>2. /\ IsInjective(current')
          /\ Range(current) = Range(current') \cup {Head(current)}
          /\ Head(current) \notin Range(current')
      BY <2>1, TakeFromQueue DEF TypeInv, TypeOK, QueueInv
    <2>3. Head(current) \notin Range(queue)
      BY <2>2 DEF QueueInv
    <2> QED
      BY <2>1, <2>2, <2>3 DEF QueueInv, AtHand, Waiting
  <1>7. CASE EndRound
    BY <1>0, <1>7 DEF EndRound
  <1>8. ASSUME NEW passed, Evaluated(passed), pc = "evaluate", pc' \in {"select", "rank"},
               UNCHANGED <<queue, current, queued>>
        PROVE  QueueInv'
    <2>1. DOMAIN evaluations' = DOMAIN evaluations \cup {focus}
      BY <1>8 DEF Evaluated
    <2> QED
      BY <1>8, <2>1 DEF QueueInv, AtHand, Waiting
  <1>9. CASE Reject
    BY <1>8, <1>9 DEF Reject
  <1>10. CASE Evaluate
    BY <1>8, <1>10 DEF Evaluate
  <1>11. CASE Rank
    BY <1>0, <1>11 DEF Rank
  <1>12. CASE Activate
    <2>1. PICK i \in 1..Len(Offered) :
              /\ NextChild(i)
              /\ queue' = Append(queue, Offered[i])
              /\ queued' = queued \cup {Offered[i]}
      BY <1>12 DEF Activate
    <2>2. /\ pc = "children" /\ pc' = pc /\ UNCHANGED <<current, evaluations>>
      BY <1>12 DEF Activate
    <2>3. Offered[i] \in Candidates /\ Offered[i] \notin queued
      BY <2>1, <2>2, OfferedType DEF NextChild, Skipped, TypeInv
    <2> QED
      BY <2>1, <2>2, <2>3, Activated DEF QueueInv
  <1>13. CASE RefuseChild
    BY <1>0, <1>13 DEF RefuseChild
  <1>14. CASE ChildrenDone
    BY <1>0, <1>14 DEF ChildrenDone
  <1>15. CASE Result
    BY <1>0, <1>15 DEF Result
  <1>16. CASE Stop
    BY <1>0, <1>16 DEF Stop
  <1>17. CASE UNCHANGED vars
    BY <1>17 DEF vars, QueueInv, AtHand, Waiting
  <1> QED
    BY <1>1, <1>2, <1>3, <1>4, <1>5, <1>6, <1>7, <1>9, <1>10, <1>11, <1>12, <1>13, <1>14,
       <1>15, <1>16, <1>17 DEF Next, Returned

-----------------------------------------------------------------------------
(* The ledger and its replay *)

\* The ledger records what the sets of the loop say.
RecordedInv ==
    /\ Recorded(Activations) = queued
    /\ Recorded({"VALIDATE"}) = DOMAIN evaluations \cup AtHand
    /\ Recorded({"EVALUATE"}) \cup Recorded({"REJECT"}) = DOMAIN evaluations
    /\ Recorded({"RANK"}) \subseteq Recorded({"EVALUATE"})
    /\ pc = "rank" => focus \in Recorded({"EVALUATE"}) \ Recorded({"RANK"})
    /\ pc # "done" => Recorded(Terminals) = {}
    /\ ledger # <<>> => ledger[Len(ledger)].round <= round_index

LEMMA RecordedInit == Init => RecordedInv /\ Replay!Init
  <1> SUFFICES ASSUME Init PROVE RecordedInv /\ Replay!Init
    OBVIOUS
  <1>1. /\ ledger = <<>> /\ DOMAIN evaluations = {} /\ queued = {} /\ pc = "seeding"
    BY DEF Init
  <1>2. \A states : Recorded(states) = {}
    BY <1>1 DEF Recorded
  <1> QED
    BY <1>1, <1>2
       DEF RecordedInv, AtHand, Terminals, Replay!Init, Replay!EmptyReplay, Replayed

\* The round of the last event is not ahead of the loop's.
LEMMA LastRound ==
    ASSUME TypeInv, RecordedInv
    PROVE  Replayed.round \in Nat /\ Replayed.round <= round_index /\ round_index \in Nat
  <1>1. Rounds \subseteq Nat
    BY SearchAssumption
  <1>2. round_index \in Nat
    BY <1>1 DEF TypeInv, TypeOK
  <1>3. CASE ledger = <<>>
    BY <1>2, <1>3 DEF Replayed
  <1>4. CASE ledger # <<>>
    <2>1. PICK S : ledger \in Seq([candidate : Candidates \cup {NoCandidate}, round : Rounds, state : S])
      BY DEF TypeInv, TypeOK
    <2>2. ledger[Len(ledger)] \in [candidate : Candidates \cup {NoCandidate}, round : Rounds, state : S]
      <3> DEFINE T == [candidate : Candidates \cup {NoCandidate}, round : Rounds, state : S]
      <3>1. ledger \in Seq(T)
        BY <2>1
      <3> HIDE DEF T
      <3>2. ledger[Len(ledger)] \in T
        BY <1>4, <3>1
      <3> QED
        BY <3>2 DEF T
    <2>3. ledger[Len(ledger)].round \in Nat
      BY <1>1, <2>2
    <2> QED
      BY <1>2, <1>4, <2>3 DEF Replayed, RecordedInv
  <1> QED
    BY <1>3, <1>4

\* An event whose transition the replay makes is accepted by it.
LEMMA AcceptedStep ==
    ASSUME TypeInv, RecordedInv, pc # "done", NEW c \in Candidates \cup {NoCandidate},
           NEW state \in Replay!States, record(c, state),
           Replay!Transition(Replayed, Event(c, state))
    PROVE  Replay!Next
  <1>1. Recorded(Terminals) = {}
    BY DEF RecordedInv
  <1>2. Replayed' = Replay!After(Replayed, Event(c, state))
    BY <1>1, ReplayedOneMore DEF TypeInv
  <1>3. Event(c, state) \in Replay!Events
    BY DEF Event, Replay!Events, TypeInv, TypeOK
  <1>4. Replay!Accepts(Replayed, Event(c, state))
    <2>1. Replayed.round \in Nat /\ Replayed.round <= round_index /\ round_index \in Nat
      BY LastRound
    <2>2. Replayed.terminal = FALSE
      BY <1>1 DEF Replayed, Terminals
    <2> QED
      BY <2>1, <2>2 DEF Replay!Accepts, Event
  <1> QED
    BY <1>2, <1>3, <1>4 DEF Replay!Next

\* What an event leaves recorded, and the round it is recorded in.
LEMMA RecordedAfter ==
    ASSUME TypeInv, NEW c, NEW state, record(c, state), round_index' = round_index
    PROVE  /\ Recorded(Activations)' =
                  IF state \in Activations THEN Recorded(Activations) \cup {c} ELSE Recorded(Activations)
           /\ Recorded({"VALIDATE"})' =
                  IF state = "VALIDATE" THEN Recorded({"VALIDATE"}) \cup {c} ELSE Recorded({"VALIDATE"})
           /\ Recorded({"EVALUATE"})' =
                  IF state = "EVALUATE" THEN Recorded({"EVALUATE"}) \cup {c} ELSE Recorded({"EVALUATE"})
           /\ Recorded({"REJECT"})' =
                  IF state = "REJECT" THEN Recorded({"REJECT"}) \cup {c} ELSE Recorded({"REJECT"})
           /\ Recorded({"RANK"})' =
                  IF state = "RANK" THEN Recorded({"RANK"}) \cup {c} ELSE Recorded({"RANK"})
           /\ Recorded(Terminals)' =
                  IF state \in Terminals THEN Recorded(Terminals) \cup {c} ELSE Recorded(Terminals)
           /\ ledger' # <<>> => ledger'[Len(ledger')].round <= round_index'
  <1>1. \A states : Recorded(states)' = Recorded(states) \cup {d \in {c} : state \in states}
    BY RecordedOneMore DEF TypeInv
  <1>2. ledger'[Len(ledger')] = Event(c, state) /\ round_index \in Nat
    <2>1. Rounds \subseteq Nat
      BY SearchAssumption
    <2> QED
      BY <2>1, LedgerOneMore DEF TypeInv, TypeOK
  <1>3. ledger'[Len(ledger')].round <= round_index'
    BY <1>2 DEF Event
  <1>4. ASSUME NEW states
        PROVE  Recorded(states)' = IF state \in states THEN Recorded(states) \cup {c} ELSE Recorded(states)
    BY <1>1
  <1> QED
    BY <1>3, <1>4

\* Which events activate and which end.
LEMMA EventKinds ==
    /\ \A state \in {"SEED", "EXPAND", "MINIMIZE"} : state \in Activations /\ state \notin Terminals
    /\ \A state \in {"VALIDATE", "EVALUATE", "REJECT", "RANK"} :
           state \notin Activations /\ state \notin Terminals
    /\ \A state \in Terminals : state \in {"RESULT", "STOP"} /\ state \notin Activations
  BY DEF Activations, Terminals

LEMMA RecordedStep ==
    TypeInv /\ QueueInv /\ RecordedInv /\ [Next]_vars => RecordedInv' /\ [Replay!Next]_Replayed
  <1> SUFFICES ASSUME TypeInv, QueueInv, RecordedInv, [Next]_vars
               PROVE  RecordedInv' /\ [Replay!Next]_Replayed
    OBVIOUS
  <1> USE DEF Replay!States
  <1>0. ASSUME UNCHANGED <<ledger, queued, evaluations>>, AtHand' = AtHand, pc' # "rank",
               pc # "done", round_index' \in {round_index, round_index + 1}
        PROVE  RecordedInv' /\ [Replay!Next]_Replayed
    <2>1. \A states : Recorded(states)' = Recorded(states)
      BY <1>0 DEF Recorded
    <2>2. Replayed' = Replayed
      BY <1>0, <2>1 DEF Replayed
    <2>3. ledger' # <<>> => ledger'[Len(ledger')].round <= round_index'
      <3>1. Replayed.round \in Nat /\ Replayed.round <= round_index /\ round_index \in Nat
        BY LastRound
      <3>2. ledger # <<>> => Replayed.round = ledger[Len(ledger)].round
        BY DEF Replayed
      <3> QED
        BY <1>0, <3>1, <3>2
    <2> QED
      BY <1>0, <2>1, <2>2, <2>3 DEF RecordedInv
  <1>1. CASE RecordSeed
    <2>1. PICK i \in at..Len(Declared) :
              /\ record(Declared[i], "SEED")
              /\ queued' = queued \cup {Declared[i]}
      BY <1>1 DEF RecordSeed
    <2>2. /\ pc = "seeding" /\ pc' = "seeding" /\ UNCHANGED <<evaluations, round_index>>
      BY <1>1 DEF RecordSeed
    <2>3. Declared[i] \in Candidates /\ Declared[i] \notin queued
      BY <1>1, <2>1, <2>2, NewSeed
    <2>4. Replay!Transition(Replayed, Event(Declared[i], "SEED"))
      BY <2>3, SearchAssumption DEF Replay!Transition, Replay!Activations, Activations, Event,
                                    Replayed, RecordedInv
    <2>5. Replay!Next
      BY <2>1, <2>2, <2>3, <2>4, AcceptedStep
    <2>6. RecordedInv'
      <3>1. /\ Recorded(Activations)' = queued' /\ Recorded(Terminals)' = Recorded(Terminals)
            /\ Recorded({"VALIDATE"})' = Recorded({"VALIDATE"})
            /\ Recorded({"EVALUATE"})' = Recorded({"EVALUATE"})
            /\ Recorded({"REJECT"})' = Recorded({"REJECT"})
            /\ Recorded({"RANK"})' = Recorded({"RANK"})
            /\ ledger' # <<>> => ledger'[Len(ledger')].round <= round_index'
        BY <2>1, <2>2, RecordedAfter, EventKinds DEF RecordedInv
      <3>2. AtHand' = AtHand
        BY <2>2 DEF AtHand
      <3> QED
        BY <2>2, <3>1, <3>2 DEF RecordedInv
    <2> QED
      BY <2>5, <2>6
  <1>2. CASE SeedsRecorded
    BY <1>0, <1>2 DEF SeedsRecorded, AtHand
  <1>3. CASE BeginRound
    BY <1>0, <1>3 DEF BeginRound, AtHand
  <1>4. CASE LeaveRounds
    BY <1>0, <1>4 DEF LeaveRounds, AtHand
  <1>5. CASE StopInRound
    BY <1>0, <1>5 DEF StopInRound, AtHand
  <1>6. CASE Validate
    <2>1. /\ current # <<>> /\ record(Head(current), "VALIDATE") /\ focus' = Head(current)
          /\ pc = "select" /\ pc' = "evaluate" /\ UNCHANGED <<queued, evaluations, round_index>>
      BY <1>6 DEF Validate
    <2>2. /\ Head(current) \in Candidates /\ Head(current) \in Range(current)
      <3>1. current \in Seq(Candidates)
        BY DEF TypeInv, TypeOK
      <3> QED
        BY <2>1, <3>1, TakeFromQueue
    <2>3. Head(current) \in queued \ DOMAIN evaluations
      BY <2>2 DEF QueueInv, Waiting
    <2>4. Replay!Transition(Replayed, Event(Head(current), "VALIDATE"))
      BY <2>1, <2>3 DEF Replay!Transition, Replay!Completed, Replay!Activations, Activations,
                        Event, Replayed, RecordedInv, AtHand
    <2>5. Replay!Next
      BY <2>1, <2>2, <2>4, AcceptedStep
    <2>6. RecordedInv'
      <3>1. /\ Recorded(Activations)' = Recorded(Activations)
            /\ Recorded(Terminals)' = Recorded(Terminals)
            /\ Recorded({"VALIDATE"})' = Recorded({"VALIDATE"}) \cup {Head(current)}
            /\ Recorded({"EVALUATE"})' = Recorded({"EVALUATE"})
            /\ Recorded({"REJECT"})' = Recorded({"REJECT"})
            /\ Recorded({"RANK"})' = Recorded({"RANK"})
            /\ ledger' # <<>> => ledger'[Len(ledger')].round <= round_index'
        BY <2>1, RecordedAfter, EventKinds
      <3>2. AtHand = {} /\ AtHand' = {Head(current)}
        BY <2>1 DEF AtHand, RecordedInv
      <3> QED
        BY <2>1, <3>1, <3>2 DEF RecordedInv
    <2> QED
      BY <2>5, <2>6
  <1>7. CASE EndRound
    BY <1>0, <1>7 DEF EndRound, AtHand
  <1>8. ASSUME NEW state \in {"EVALUATE", "REJECT"}, NEW passed, pc = "evaluate",
               record(focus, state), Evaluated(passed),
               pc' = "select" \/ (pc' = "rank" /\ state = "EVALUATE"),
               UNCHANGED <<queued, round_index, focus>>
        PROVE  RecordedInv' /\ [Replay!Next]_Replayed
    <2>1. focus \in Candidates /\ focus \in AtHand /\ focus \notin DOMAIN evaluations
      BY <1>8 DEF TypeInv, AtHand, QueueInv
    <2>2. DOMAIN evaluations' = DOMAIN evaluations \cup {focus}
      BY <1>8 DEF Evaluated
    <2>3. Replay!Transition(Replayed, Event(focus, state))
      BY <1>8, <2>1 DEF Replay!Transition, Replay!Completed, Replay!Activations, Event,
                        Replayed, RecordedInv
    <2>4. Replay!Next
      BY <1>8, <2>1, <2>3, AcceptedStep
    <2>5. /\ Recorded(Activations)' = Recorded(Activations)
          /\ Recorded(Terminals)' = Recorded(Terminals)
          /\ Recorded({"VALIDATE"})' = Recorded({"VALIDATE"})
          /\ Recorded({"EVALUATE"})' = IF state = "EVALUATE" THEN Recorded({"EVALUATE"}) \cup {focus}
                                       ELSE Recorded({"EVALUATE"})
          /\ Recorded({"REJECT"})' = IF state = "REJECT" THEN Recorded({"REJECT"}) \cup {focus}
                                     ELSE Recorded({"REJECT"})
          /\ Recorded({"RANK"})' = Recorded({"RANK"})
          /\ ledger' # <<>> => ledger'[Len(ledger')].round <= round_index'
      BY <1>8, RecordedAfter, EventKinds
    <2>6. AtHand = {focus} /\ AtHand' = {} /\ focus \notin Recorded({"RANK"})
      BY <1>8, <2>1 DEF AtHand, RecordedInv
    <2> QED
      BY <1>8, <2>2, <2>4, <2>5, <2>6 DEF RecordedInv
  <1>9. CASE Reject
    BY <1>8, <1>9 DEF Reject
  <1>10. CASE Evaluate
    BY <1>8, <1>10 DEF Evaluate
  <1>11. CASE Rank
    <2>1. /\ pc = "rank" /\ pc' \in {"aborted", "children"} /\ record(focus, "RANK")
          /\ UNCHANGED <<queued, evaluations, round_index, focus>>
      BY <1>11 DEF Rank
    <2>2. focus \in Candidates /\ focus \in Recorded({"EVALUATE"}) \ Recorded({"RANK"})
      BY <2>1 DEF TypeInv, RecordedInv
    <2>3. Replay!Transition(Replayed, Event(focus, "RANK"))
      BY <2>2 DEF Replay!Transition, Event, Replayed
    <2>4. Replay!Next
      BY <2>1, <2>2, <2>3, AcceptedStep
    <2>5. RecordedInv'
      <3>1. /\ Recorded(Activations)' = Recorded(Activations)
            /\ Recorded(Terminals)' = Recorded(Terminals)
            /\ Recorded({"VALIDATE"})' = Recorded({"VALIDATE"})
            /\ Recorded({"EVALUATE"})' = Recorded({"EVALUATE"})
            /\ Recorded({"REJECT"})' = Recorded({"REJECT"})
            /\ Recorded({"RANK"})' = Recorded({"RANK"}) \cup {focus}
            /\ ledger' # <<>> => ledger'[Len(ledger')].round <= round_index'
        BY <2>1, <2>2, RecordedAfter, EventKinds
      <3>2. AtHand = {} /\ AtHand' = {}
        BY <2>1, <2>2 DEF AtHand, RecordedInv
      <3> QED
        BY <2>1, <2>2, <3>1, <3>2 DEF RecordedInv
    <2> QED
      BY <2>4, <2>5
  <1>12. CASE Activate
    <2>1. PICK i \in 1..Len(Offered) :
              /\ NextChild(i)
              /\ record(Offered[i], IF Passed THEN "MINIMIZE" ELSE "EXPAND")
              /\ queued' = queued \cup {Offered[i]}
      BY <1>12 DEF Activate
    <2>2. /\ pc = "children" /\ pc' = pc /\ UNCHANGED <<evaluations, round_index>>
      BY <1>12 DEF Activate
    <2>3. Offered[i] \in Candidates /\ Offered[i] \notin queued
      BY <2>1, <2>2, OfferedType DEF NextChild, Skipped, TypeInv
    <2>4. PICK state \in {"MINIMIZE", "EXPAND"} : record(Offered[i], state)
      BY <2>1
    <2>5. Replay!Transition(Replayed, Event(Offered[i], state))
      BY <2>3, SearchAssumption DEF Replay!Transition, Replay!Activations, Activations, Event,
                                    Replayed, RecordedInv
    <2>6. Replay!Next
      BY <2>2, <2>3, <2>4, <2>5, AcceptedStep
    <2>7. RecordedInv'
      <3>1. /\ Recorded(Activations)' = Recorded(Activations) \cup {Offered[i]}
            /\ Recorded(Terminals)' = Recorded(Terminals)
            /\ Recorded({"VALIDATE"})' = Recorded({"VALIDATE"})
            /\ Recorded({"EVALUATE"})' = Recorded({"EVALUATE"})
            /\ Recorded({"REJECT"})' = Recorded({"REJECT"})
            /\ Recorded({"RANK"})' = Recorded({"RANK"})
            /\ ledger' # <<>> => ledger'[Len(ledger')].round <= round_index'
        BY <2>1, <2>2, <2>4, RecordedAfter, EventKinds
      <3>2. AtHand = {} /\ AtHand' = {}
        BY <2>1, <2>2, <2>4 DEF AtHand, RecordedInv
      <3> QED
        BY <2>1, <2>2, <2>4, <3>1, <3>2 DEF RecordedInv
    <2> QED
      BY <2>6, <2>7
  <1>13. CASE RefuseChild
    BY <1>0, <1>13 DEF RefuseChild, AtHand
  <1>14. CASE ChildrenDone
    BY <1>0, <1>14 DEF ChildrenDone, AtHand
  <1>15. ASSUME NEW state \in Terminals, NEW c \in Candidates \cup {NoCandidate},
                record(c, state), pc = "finish", pc' = "done",
                state = "RESULT" => c \in DOMAIN evaluations, state = "STOP" => c = NoCandidate,
                UNCHANGED <<queued, evaluations, round_index>>
         PROVE  RecordedInv' /\ [Replay!Next]_Replayed
    <2>1. Replay!Transition(Replayed, Event(c, state))
      BY <1>15 DEF Replay!Transition, Replay!Completed, Event, Replayed, RecordedInv, Terminals
    <2>2. Replay!Next
      BY <1>15, <2>1, AcceptedStep DEF Terminals
    <2>3. RecordedInv'
      <3>1. /\ Recorded(Activations)' = Recorded(Activations)
            /\ Recorded(Terminals)' = Recorded(Terminals) \cup {c}
            /\ Recorded({"VALIDATE"})' = Recorded({"VALIDATE"})
            /\ Recorded({"EVALUATE"})' = Recorded({"EVALUATE"})
            /\ Recorded({"REJECT"})' = Recorded({"REJECT"})
            /\ Recorded({"RANK"})' = Recorded({"RANK"})
            /\ ledger' # <<>> => ledger'[Len(ledger')].round <= round_index'
        BY <1>15, RecordedAfter, EventKinds
      <3>2. AtHand = {} /\ AtHand' = {}
        BY <1>15 DEF AtHand, RecordedInv
      <3> QED
        BY <1>15, <3>1, <3>2 DEF RecordedInv
    <2> QED
      BY <2>2, <2>3
  <1>16. CASE Result
    <2>1. PICK c \in Selectable : record(c, "RESULT")
      BY <1>16 DEF Result
    <2>2. c \in DOMAIN evaluations /\ c \in Candidates
      BY <2>1 DEF Selectable, minimal_rows, passed_rows, TypeInv, TypeOK
    <2> QED
      BY <1>15, <1>16, <2>1, <2>2 DEF Result, Terminals
  <1>17. CASE Stop
    BY <1>15, <1>17 DEF Stop, Terminals
  <1>18. CASE UNCHANGED vars
    <2>1. \A states : Recorded(states)' = Recorded(states)
      BY <1>18 DEF Recorded, vars
    <2> QED
      BY <1>18, <2>1 DEF vars, RecordedInv, AtHand, Replayed
  <1> QED
    BY <1>1, <1>2, <1>3, <1>4, <1>5, <1>6, <1>7, <1>9, <1>10, <1>11, <1>12, <1>13, <1>14,
       <1>16, <1>17, <1>18 DEF Next, Returned

LoopInv == TypeInv /\ QueueInv /\ RecordedInv

LEMMA LoopInvHolds == Spec => []LoopInv
  <1>1. Init => LoopInv
    BY TypeInit, QueueInit, RecordedInit DEF LoopInv
  <1>2. LoopInv /\ [Next]_vars => LoopInv'
    BY TypeStep, QueueStep, RecordedStep DEF LoopInv
  <1> QED
    BY <1>1, <1>2, PTL DEF Spec

(* The search implements the replay automaton: whatever the payload and    *)
(* the budgets, each event it records is accepted by replay_search_ledger  *)
(* after those before it.                                                  *)
THEOREM SearchImplementsReplay == Spec => ReplayAccepts
  <1>1. Init => Replay!Init
    BY RecordedInit
  <1>2. LoopInv /\ [Next]_vars => [Replay!Next]_Replayed
    BY RecordedStep DEF LoopInv
  <1> QED
    BY <1>1, <1>2, LoopInvHolds, PTL DEF Spec, ReplayAccepts, Replay!Spec

(* A checkpoint hands over exactly the candidates the loop still has to    *)
(* evaluate, at every moment and also after a budget ended a round early.  *)
THEOREM CheckpointCorrect == Spec => []CheckpointKeepsPending
  <1>1. LoopInv => CheckpointKeepsPending
    BY DEF LoopInv, QueueInv, RecordedInv, CheckpointKeepsPending, Replay!pending_candidates,
           Replay!Completed, Replayed, Activations, AtHand, Waiting
  <1> QED
    BY <1>1, LoopInvHolds, PTL

-----------------------------------------------------------------------------
(* The budgets *)

Seeds == {c \in Range(Declared) : IsSeed(c)}

\* An evaluation is admitted before it is made, an activation when it is.
BudgetInv ==
    /\ IsFiniteSet(DOMAIN evaluations) /\ IsFiniteSet(queued)
    /\ Cardinality(DOMAIN evaluations) <= budget.max_candidates
    /\ Cardinality(DOMAIN evaluations) <= budget.max_evaluations
    /\ pc = "evaluate" => ~EvaluationsSpent
    /\ round_index <= budget.max_rounds
    /\ Cardinality(queued) <= budget.max_candidates \/ queued \subseteq Seeds
    /\ pc = "seeding" => queued \subseteq Seeds

LEMMA BudgetType ==
    ASSUME TypeOK
    PROVE  /\ budget.max_candidates \in Nat \ {0} /\ budget.max_evaluations \in Nat \ {0}
           /\ budget.max_rounds \in Nat \ {0} /\ round_index \in Nat
  <1>1. budget \in SearchBudgets /\ Rounds \subseteq Nat
    BY SearchAssumption DEF TypeOK
  <1> QED
    BY <1>1 DEF SearchBudgets, TypeOK

LEMMA BudgetInit == Init => BudgetInv
  <1> SUFFICES ASSUME Init PROVE BudgetInv
    OBVIOUS
  <1>1. /\ DOMAIN evaluations = {} /\ queued = {} /\ round_index = 0 /\ pc = "seeding"
    BY DEF Init
  <1>2. IsFiniteSet({}) /\ Cardinality({}) = 0
    BY FS_EmptySet
  <1>3. TypeOK
    BY TypeInit DEF TypeInv
  <1> QED
    BY <1>1, <1>2, <1>3, BudgetType DEF BudgetInv

LEMMA BudgetStep == LoopInv /\ BudgetInv /\ [Next]_vars => BudgetInv'
  <1> SUFFICES ASSUME LoopInv, BudgetInv, [Next]_vars PROVE BudgetInv'
    OBVIOUS
  <1>0. TypeOK /\ budget' = budget
    BY DEF LoopInv, TypeInv, Next, RecordSeed, SeedsRecorded, BeginRound, LeaveRounds, StopInRound,
           Validate, EndRound, Reject, Evaluate, Rank, Activate, RefuseChild, ChildrenDone, Result,
           Stop, Returned, vars, payload
  <1>1. ASSUME UNCHANGED <<evaluations, queued, round_index>>, pc' # "seeding",
               pc' # "evaluate"
        PROVE  BudgetInv'
    BY <1>0, <1>1 DEF BudgetInv
  <1>2. CASE RecordSeed
    <2>1. PICK i \in at..Len(Declared) :
              IsSeed(Declared[i]) /\ queued' = queued \cup {Declared[i]}
      BY <1>2 DEF RecordSeed
    <2>2. pc = "seeding" /\ pc' = "seeding" /\ UNCHANGED <<evaluations, round_index>>
      BY <1>2 DEF RecordSeed
    <2>3. Declared[i] \in Seeds
      <3>1. at \in Nat \ {0} /\ Len(Declared) \in Nat /\ DOMAIN Declared = 1..Len(Declared)
        BY <1>0, DeclaredType DEF TypeOK
      <3>2. i \in DOMAIN Declared
        BY <3>1
      <3> QED
        BY <2>1, <3>2 DEF Seeds, Range
    <2>4. IsFiniteSet(queued')
      BY <2>1, FS_AddElement DEF BudgetInv
    <2> QED
      BY <1>0, <2>1, <2>2, <2>3, <2>4 DEF BudgetInv
  <1>3. CASE BeginRound
    <2>1. /\ round_index < budget.max_rounds /\ round_index' = round_index + 1 /\ pc' = "select"
          /\ UNCHANGED <<evaluations, queued>>
      BY <1>3 DEF BeginRound
    <2> QED
      BY <1>0, <2>1, BudgetType DEF BudgetInv
  <1>4. CASE Validate
    <2>1. /\ ~EvaluationsSpent /\ pc' = "evaluate" /\ UNCHANGED <<evaluations, queued, round_index>>
      BY <1>4 DEF Validate
    <2> QED
      BY <1>0, <2>1 DEF BudgetInv, EvaluationsSpent
  <1>5. ASSUME NEW passed, Evaluated(passed), pc = "evaluate", pc' \in {"select", "rank"},
               UNCHANGED <<queued, round_index>>
        PROVE  BudgetInv'
    <2>1. DOMAIN evaluations' = DOMAIN evaluations \cup {focus} /\ focus \notin DOMAIN evaluations
      BY <1>5 DEF Evaluated, LoopInv, QueueInv, AtHand
    <2>2. /\ IsFiniteSet(DOMAIN evaluations')
          /\ Cardinality(DOMAIN evaluations') = Cardinality(DOMAIN evaluations) + 1
      BY <2>1, FS_AddElement DEF BudgetInv
    <2>3. /\ Cardinality(DOMAIN evaluations) \in Nat
          /\ ~(Cardinality(DOMAIN evaluations) >= budget.max_candidates)
          /\ ~(Cardinality(DOMAIN evaluations) >= budget.max_evaluations)
      BY <1>5, FS_CardinalityType DEF BudgetInv, EvaluationsSpent
    <2> QED
      BY <1>0, <1>5, <2>2, <2>3, BudgetType DEF BudgetInv
  <1>6. CASE Reject
    BY <1>5, <1>6 DEF Reject
  <1>7. CASE Evaluate
    BY <1>5, <1>7 DEF Evaluate
  <1>8. CASE Activate
    <2>1. PICK i \in 1..Len(Offered) :
              NextChild(i) /\ ~QueueIsFull /\ queued' = queued \cup {Offered[i]}
      BY <1>8 DEF Activate
    <2>2. pc = "children" /\ pc' = pc /\ UNCHANGED <<evaluations, round_index>>
      BY <1>8 DEF Activate
    <2>3. Offered[i] \notin queued
      BY <2>1 DEF NextChild, Skipped
    <2>4. IsFiniteSet(queued') /\ Cardinality(queued') = Cardinality(queued) + 1
      BY <2>1, <2>3, FS_AddElement DEF BudgetInv
    <2>5. Cardinality(queued) \in Nat /\ ~(Cardinality(queued) >= budget.max_candidates)
      BY <2>1, FS_CardinalityType DEF BudgetInv, QueueIsFull
    <2>6. Cardinality(queued') <= budget.max_candidates
      BY <1>0, <2>4, <2>5, BudgetType
    <2> QED
      BY <1>0, <2>2, <2>4, <2>6 DEF BudgetInv
  <1>9. CASE \/ SeedsRecorded \/ LeaveRounds \/ StopInRound \/ EndRound \/ Rank
             \/ RefuseChild \/ ChildrenDone \/ Result \/ Stop
    BY <1>1, <1>9 DEF SeedsRecorded, LeaveRounds, StopInRound, EndRound, Rank, RefuseChild,
                      ChildrenDone, Result, Stop
  <1>10. CASE UNCHANGED vars
    BY <1>10 DEF vars, BudgetInv, EvaluationsSpent
  <1> QED
    BY <1>2, <1>3, <1>4, <1>6, <1>7, <1>8, <1>9, <1>10 DEF Next, Returned

(* No search evaluates or activates more than its budget, nor runs more    *)
(* rounds, whatever the ablations and proposals add to the queue.          *)
THEOREM BudgetCorrect == Spec => []WorkWithinBudget
  <1>1. BudgetInv => WorkWithinBudget
    BY DEF BudgetInv, WorkWithinBudget, Seeds
  <1> QED
    BY <1>1, BudgetInit, BudgetStep, LoopInvHolds, PTL DEF Spec
-----------------------------------------------------------------------------
(* The selection *)

Tried(p) == {c \in Range(Declared) : Kind[c] = "ablate" /\ Parent[c] = p} \subseteq queued

\* A child is activated after its parent was evaluated, so a candidate that
\* passes has no ablation that passed before; it may replace its parent among
\* the minimal rows.
MinimalInv ==
    /\ pc \in {"rank", "children"} => focus \in DOMAIN evaluations
    /\ \A c \in queued : IsSeed(c) \/ Parent[c] \in DOMAIN evaluations
    /\ \A c \in passed_rows : \E m \in minimal_rows :
           Shrinking => Size[Formula[m]] <= Size[Formula[c]]

\* Until a budget ends the search, a candidate that passed has its declared
\* ablations activated, one by one while it is at hand.
TriedInv ==
    stop_reason = "" /\ pc # "aborted" =>
        /\ \A p \in passed_rows : Tried(p) \/ (p = focus /\ pc \in {"rank", "children"})
        /\ pc = "children" /\ Passed =>
               \A j \in 1..Len(Declared) :
                   /\ j < at /\ Kind[Declared[j]] = "ablate" /\ Parent[Declared[j]] = focus
                   => Declared[j] \in queued

\* What the stop reason says at each place of the loop.
ReasonInv ==
    /\ pc \in {"seeding", "round"} => stop_reason = ""
    /\ pc \in {"select", "evaluate", "rank", "children"} =>
           \/ stop_reason = ""
           \/ stop_reason = "budget-exhausted" /\ QueueIsFull
    /\ pc = "finish" =>
           \/ stop_reason = "" /\ queue = <<>> /\ current = <<>>
           \/ stop_reason = "budget-exhausted" /\ (queue # <<>> \/ QueueIsFull)
    /\ pc = "aborted" => stop_reason \in {"", "budget-exhausted"}
    /\ pc = "done" =>
           \/ stop_reason = "result-found" /\ queue = <<>> /\ current = <<>>
           \/ stop_reason = "insufficient-information" /\ queue = <<>> /\ current = <<>>
                  /\ passed_rows = {}
           \/ stop_reason = "budget-exhausted" /\ (queue # <<>> \/ QueueIsFull)

LEMMA SizeType ==
    ASSUME TypeOK, NEW c \in passed_rows
    PROVE  c \in Candidates /\ Size[Formula[c]] \in Nat
  BY SearchAssumption, MintedAssumption DEF TypeOK, passed_rows

LEMMA Concatenated ==
    ASSUME NEW S, NEW s \in Seq(S), NEW t \in Seq(S)
    PROVE  /\ Len(s) \in Nat /\ Len(s \o t) \in Nat /\ Len(s) <= Len(s \o t)
           /\ \A i \in 1..Len(s) : i \in 1..Len(s \o t) /\ (s \o t)[i] = s[i]
           /\ \A i \in 1..Len(s \o t) : (s \o t)[i] \in Range(s) \cup Range(t)
  <1> DEFINE m == Len(s)
             n == Len(t)
             u == s \o t
  <1>1. /\ m \in Nat /\ n \in Nat /\ Len(u) = m + n /\ DOMAIN s = 1..m /\ DOMAIN t = 1..n
        /\ \A i \in 1..(m + n) : u[i] = IF i <= m THEN s[i] ELSE t[i - m]
    OBVIOUS
  <1> HIDE DEF m, n, u
  <1>2. \A i \in 1..m : i \in 1..(m + n) /\ i <= m
    BY <1>1
  <1>3. \A i \in 1..(m + n) : i \in 1..m \/ (~(i <= m) /\ i - m \in 1..n)
    BY <1>1
  <1>4. \A i \in 1..(m + n) : u[i] \in Range(s) \cup Range(t)
    BY <1>1, <1>2, <1>3 DEF Range
  <1>5. m + n \in Nat /\ m <= m + n
    BY <1>1
  <1> QED
    BY <1>1, <1>2, <1>4, <1>5 DEF m, u

\* The declared candidates come first, and what follows is made for the focus.
LEMMA OfferedIs ==
    ASSUME focus \in Candidates
    PROVE  /\ Len(Declared) \in Nat /\ Len(Offered) \in Nat /\ Len(Declared) <= Len(Offered)
           /\ \A i \in 1..Len(Declared) : i \in 1..Len(Offered) /\ Offered[i] = Declared[i]
           /\ \A i \in 1..Len(Offered) :
                  Offered[i] \in Range(Declared) \/ Parent[Offered[i]] = focus
  <1>1. /\ Declared \in Seq(Candidates)
        /\ Ablations[focus] \in Seq(Candidates) /\ Proposals[focus] \in Seq(Candidates)
    <2>1. Ablations[focus] \in Seq(Dynamic) /\ Proposals[focus] \in Seq(Dynamic)
      BY SearchAssumption
    <2>2. Dynamic \subseteq Candidates /\ Range(Declared) \subseteq Candidates
      BY DEF Candidates
    <2> QED
      BY <2>1, <2>2, DeclaredAssumption
  <1>2. PICK made \in {Ablations[focus], Proposals[focus], <<>>} : Offered = Declared \o made
    BY DEF Offered
  <1>3. made \in Seq(Candidates)
    <2>1. <<>> \in Seq(Candidates)
      OBVIOUS
    <2> QED
      BY <1>1, <2>1, Zenon
  <1>4. \A c \in Range(made) : Parent[c] = focus
    <2>1. Range(<<>>) = {}
      BY EmptyQueue
    <2> QED
      BY <2>1, MintedAssumption
  <1> QED
    BY <1>1, <1>2, <1>3, <1>4, Concatenated

LEMMA OfferedIsOwn ==
    ASSUME focus \in Candidates, NEW i \in 1..Len(Offered), IsChild(Offered[i])
    PROVE  Parent[Offered[i]] = focus
  BY OfferedIs DEF IsChild

LEMMA MinimalInit == Init => MinimalInv
  <1> SUFFICES ASSUME Init PROVE MinimalInv
    OBVIOUS
  <1>1. DOMAIN evaluations = {} /\ queued = {} /\ pc = "seeding"
    BY DEF Init
  <1> QED
    BY <1>1 DEF MinimalInv, passed_rows

LEMMA MinimalStep == LoopInv /\ MinimalInv /\ [Next]_vars => MinimalInv'
  <1> SUFFICES ASSUME LoopInv, MinimalInv, [Next]_vars PROVE MinimalInv'
    OBVIOUS
  <1>0. ASSUME evaluations' = evaluations
        PROVE  passed_rows' = passed_rows /\ minimal_rows' = minimal_rows
    BY <1>0 DEF passed_rows, minimal_rows
  <1>1. ASSUME UNCHANGED <<evaluations, queued>>,
               pc' \notin {"rank", "children"} \/ (pc \in {"rank", "children"} /\ focus' = focus)
        PROVE  MinimalInv'
    BY <1>0, <1>1 DEF MinimalInv
  <1>2. CASE RecordSeed
    <2>1. PICK i \in at..Len(Declared) :
              IsSeed(Declared[i]) /\ queued' = queued \cup {Declared[i]}
      BY <1>2 DEF RecordSeed
    <2>2. evaluations' = evaluations /\ pc' = "seeding"
      BY <1>2 DEF RecordSeed
    <2> QED
      BY <1>0, <2>1, <2>2 DEF MinimalInv
  <1>3. CASE Activate
    <2>1. PICK i \in 1..Len(Offered) : NextChild(i) /\ queued' = queued \cup {Offered[i]}
      BY <1>3 DEF Activate
    <2>2. /\ pc = "children" /\ pc' = "children" /\ UNCHANGED <<evaluations, focus>>
          /\ focus \in DOMAIN evaluations /\ focus \in Candidates
      BY <1>3 DEF Activate, MinimalInv, LoopInv, TypeInv
    <2>3. Parent[Offered[i]] = focus
      BY <2>1, <2>2, OfferedIsOwn DEF NextChild, Skipped
    <2> QED
      BY <1>0, <2>1, <2>2, <2>3 DEF MinimalInv
  <1>4. ASSUME NEW passed \in BOOLEAN, Evaluated(passed), pc = "evaluate",
               pc' \in {"select", "rank"}, UNCHANGED <<queued, focus>>
        PROVE  MinimalInv'
    <2>1. /\ DOMAIN evaluations' = DOMAIN evaluations \cup {focus}
          /\ focus \notin DOMAIN evaluations /\ focus \in queued /\ focus \in Candidates
          /\ evaluations'[focus] = passed
          /\ \A c \in DOMAIN evaluations : c # focus /\ evaluations'[c] = evaluations[c]
      BY <1>4 DEF Evaluated, LoopInv, QueueInv, TypeInv, AtHand
    <2>2. CASE ~passed
      <3>1. passed_rows' = passed_rows
        BY <2>1, <2>2 DEF passed_rows
      <3>2. minimal_rows' = minimal_rows
        BY <3>1 DEF minimal_rows
      <3> QED
        BY <1>4, <2>1, <3>1, <3>2 DEF MinimalInv
    <2>3. CASE passed
      <3>1. passed_rows' = passed_rows \cup {focus}
        BY <2>1, <2>3 DEF passed_rows
      <3>2. \A d \in passed_rows' : Kind[d] = "ablate" => Parent[d] # focus
        <4> SUFFICES ASSUME NEW d \in passed_rows', Kind[d] = "ablate", Parent[d] = focus
                     PROVE  FALSE
          OBVIOUS
        <4>1. d \in queued
          BY <2>1, <3>1 DEF passed_rows, LoopInv, QueueInv
        <4>2. ~IsSeed(d)
          BY <2>1, SearchAssumption DEF IsSeed
        <4> QED
          BY <2>1, <4>1, <4>2 DEF MinimalInv
      <3>3. focus \in minimal_rows'
        BY <3>1, <3>2 DEF minimal_rows
      <3>4. \A m \in minimal_rows : m \in minimal_rows' \/ (Kind[focus] = "ablate" /\ Parent[focus] = m)
        BY <3>1 DEF minimal_rows
      <3>5. ASSUME NEW c \in passed_rows'
            PROVE  \E m \in minimal_rows' : Shrinking => Size[Formula[m]] <= Size[Formula[c]]
        <4>0. \A d \in passed_rows' : Size[Formula[d]] \in Nat /\ d \in Candidates
          BY <2>1, <3>1, SizeType, SearchAssumption, MintedAssumption DEF LoopInv, TypeInv
        <4>1. CASE c = focus
          BY <3>3, <4>0, <4>1
        <4>2. CASE c \in passed_rows
          <5>1. PICK m \in minimal_rows : Shrinking => Size[Formula[m]] <= Size[Formula[c]]
            BY <4>2 DEF MinimalInv
          <5>2. CASE m \in minimal_rows'
            BY <5>1, <5>2
          <5>3. CASE Kind[focus] = "ablate" /\ Parent[focus] = m
            <6>1. Shrinking => Size[Formula[focus]] <= Size[Formula[m]]
              BY <2>1, <5>3 DEF Shrinking
            <6>2. /\ Size[Formula[focus]] \in Nat /\ Size[Formula[m]] \in Nat
                  /\ Size[Formula[c]] \in Nat
              BY <3>1, <4>0 DEF minimal_rows
            <6>3. Shrinking => Size[Formula[focus]] <= Size[Formula[c]]
              BY <5>1, <6>1, <6>2
            <6> QED
              BY <3>3, <6>3
          <5> QED
            BY <3>4, <5>2, <5>3
        <4> QED
          BY <3>1, <4>1, <4>2
      <3> QED
        BY <1>4, <2>1, <3>5 DEF MinimalInv
    <2> QED
      BY <2>2, <2>3
  <1>5. CASE Reject
    BY <1>4, <1>5 DEF Reject
  <1>6. CASE Evaluate
    BY <1>4, <1>6 DEF Evaluate
  <1>7. CASE \/ SeedsRecorded \/ BeginRound \/ LeaveRounds \/ StopInRound \/ Validate
             \/ EndRound \/ Rank \/ RefuseChild \/ ChildrenDone \/ Result \/ Stop
    BY <1>1, <1>7 DEF SeedsRecorded, BeginRound, LeaveRounds, StopInRound, Validate, EndRound,
                      Rank, RefuseChild, ChildrenDone, Result, Stop
  <1>8. CASE UNCHANGED vars
    BY <1>0, <1>8 DEF vars, MinimalInv
  <1> QED
    BY <1>2, <1>3, <1>5, <1>6, <1>7, <1>8 DEF Next, Returned

LEMMA TriedInit == Init => TriedInv
  <1> SUFFICES ASSUME Init PROVE TriedInv
    OBVIOUS
  <1>1. DOMAIN evaluations = {} /\ pc = "seeding"
    BY DEF Init
  <1> QED
    BY <1>1 DEF TriedInv, passed_rows

\* A declared ablation of a candidate that passed is skipped only when it was
\* activated before.
LEMMA SkippedIsQueued ==
    ASSUME LoopInv, Passed, focus \in Candidates, NEW j \in 1..Len(Declared),
           Kind[Declared[j]] = "ablate", Parent[Declared[j]] = focus, Skipped(Offered[j])
    PROVE  Declared[j] \in queued
  <1>1. Offered[j] = Declared[j] /\ Declared[j] \in Range(Declared)
    BY OfferedIs, DeclaredType DEF Range
  <1>2. IsChild(Declared[j])
    BY DEF IsChild
  <1>3. ~IsKnown(Declared[j])
    BY <1>1, SearchAssumption DEF IsKnown
  <1> QED
    BY <1>1, <1>2, <1>3 DEF Skipped, LoopInv, QueueInv

\* Where an index of the declared candidates may lie: not before the first,
\* before, between or at the marks, or from the mark on.
LEMMA NoneBefore == ASSUME NEW n \in Nat PROVE \A j \in 1..n : ~(j < 1)
  OBVIOUS

LEMMA IndexIsNat == ASSUME NEW n \in Nat PROVE \A i \in 1..n : i \in Nat
  OBVIOUS

LEMMA BeforeBetweenOrAt ==
    ASSUME NEW a \in Nat, NEW n \in Nat, NEW i \in Nat, NEW j \in 1..n, j < i + 1
    PROVE  j < a \/ j \in a..(i - 1) \/ j = i
  OBVIOUS

LEMMA FromTheMark ==
    ASSUME NEW a \in Nat, NEW m \in Nat, NEW n \in Nat, m <= n, NEW j \in 1..m, ~(j < a)
    PROVE  j \in a..n
  OBVIOUS

LEMMA TriedStep == LoopInv /\ MinimalInv /\ TriedInv /\ [Next]_vars => TriedInv'
  <1> SUFFICES ASSUME LoopInv, MinimalInv, TriedInv, [Next]_vars,
                      stop_reason' = "", pc' # "aborted"
               PROVE  TriedInv'
    BY DEF TriedInv
  <1>0. ASSUME evaluations' = evaluations PROVE passed_rows' = passed_rows
    BY <1>0 DEF passed_rows
  <1>1. ASSUME NEW p, Tried(p), queued \subseteq queued' PROVE Tried(p)'
    BY <1>1 DEF Tried
  <1>2. ASSUME evaluations' = evaluations, queued \subseteq queued', stop_reason = "",
               pc \notin {"rank", "children", "aborted"}, pc' # "children"
        PROVE  TriedInv'
    BY <1>0, <1>1, <1>2 DEF TriedInv
  <1>3. CASE RecordSeed \/ SeedsRecorded \/ BeginRound \/ LeaveRounds \/ Validate \/ EndRound
    <2>1. /\ evaluations' = evaluations /\ queued \subseteq queued'
          /\ pc \in {"seeding", "round", "select"} /\ pc' # "children"
      BY <1>3 DEF RecordSeed, SeedsRecorded, BeginRound, LeaveRounds, Validate, EndRound
    <2>2. stop_reason = ""
      BY <1>3 DEF RecordSeed, SeedsRecorded, BeginRound, LeaveRounds, Validate, EndRound
    <2> QED
      BY <1>2, <2>1, <2>2
  <1>4. CASE StopInRound \/ RefuseChild \/ Result \/ Stop
    BY <1>4 DEF StopInRound, RefuseChild, Result, Stop
  <1>5. ASSUME NEW passed \in BOOLEAN, Evaluated(passed), pc = "evaluate",
               pc' = "rank" \/ (pc' = "select" /\ ~passed), UNCHANGED <<queued, focus, stop_reason>>
        PROVE  TriedInv'
    <2>1. /\ DOMAIN evaluations' = DOMAIN evaluations \cup {focus}
          /\ evaluations'[focus] = passed
          /\ \A c \in DOMAIN evaluations : c = focus \/ evaluations'[c] = evaluations[c]
      BY <1>5 DEF Evaluated
    <2>2. passed_rows' \subseteq passed_rows \cup {c \in {focus} : passed}
      BY <2>1 DEF passed_rows
    <2>3. \A p \in passed_rows : Tried(p)
      BY <1>5 DEF TriedInv
    <2>4. \A p \in passed_rows : Tried(p)'
      BY <1>1, <1>5, <2>3
    <2>5. CASE pc' = "rank"
      BY <1>5, <2>2, <2>4, <2>5 DEF TriedInv
    <2>6. CASE pc' = "select" /\ ~passed
      BY <2>2, <2>4, <2>6 DEF TriedInv
    <2> QED
      BY <1>5, <2>5, <2>6
  <1>6. CASE Reject
    BY <1>5, <1>6 DEF Reject
  <1>7. CASE Evaluate
    BY <1>5, <1>7 DEF Evaluate
  <1>8. CASE Rank
    <2>1. /\ pc = "rank" /\ pc' = "children" /\ at' = 1
          /\ UNCHANGED <<queued, evaluations, stop_reason, focus>>
      BY <1>8 DEF Rank
    <2>2. \A p \in passed_rows : p = focus \/ Tried(p)'
      BY <1>1, <2>1 DEF TriedInv
    <2>3. \A j \in 1..Len(Declared) : ~(j < 1)
      BY NoneBefore, DeclaredType
    <2> QED
      BY <1>0, <2>1, <2>2, <2>3 DEF TriedInv
  <1>9. ASSUME pc = "children"
        PROVE  /\ focus \in Candidates /\ at \in Nat \ {0} /\ Len(Declared) \in Nat
               /\ Len(Offered) \in Nat /\ Len(Declared) <= Len(Offered)
               /\ focus \in passed_rows <=> Passed
    <2>1. focus \in Candidates /\ at \in Nat \ {0}
      BY <1>9 DEF LoopInv, TypeInv, TypeOK
    <2> QED
      BY <2>1, OfferedIs DEF passed_rows, Passed
  <1>10. CASE Activate
    <2>1. PICK i \in 1..Len(Offered) :
              NextChild(i) /\ queued' = queued \cup {Offered[i]} /\ at' = i + 1
      BY <1>10 DEF Activate
    <2>2. /\ pc = "children" /\ pc' = "children"
          /\ UNCHANGED <<evaluations, focus, stop_reason>>
      BY <1>10 DEF Activate
    <2>3. \A p \in passed_rows : p = focus \/ Tried(p)'
      BY <1>1, <2>1, <2>2 DEF TriedInv
    <2>4. ASSUME Passed, NEW j \in 1..Len(Declared), j < i + 1,
                 Kind[Declared[j]] = "ablate", Parent[Declared[j]] = focus
          PROVE  Declared[j] \in queued'
      <3>1. CASE j < at
        BY <2>1, <2>2, <2>4, <3>1 DEF TriedInv
      <3>2. CASE j \in at..(i - 1)
        <4>1. Skipped(Offered[j])
          BY <2>1, <3>2 DEF NextChild
        <4> QED
          BY <1>9, <2>1, <2>2, <2>4, <4>1, SkippedIsQueued
      <3>3. CASE j = i
        BY <1>9, <2>1, <2>2, <3>3, OfferedIs
      <3>4. j < at \/ j \in at..(i - 1) \/ j = i
        <4>1. at \in Nat /\ Len(Offered) \in Nat /\ Len(Declared) \in Nat
          BY <1>9, <2>2
        <4>2. i \in Nat
          BY <4>1, IndexIsNat
        <4> QED
          BY <2>4, <4>1, <4>2, BeforeBetweenOrAt
      <3> QED
        BY <3>1, <3>2, <3>3, <3>4
    <2>5. Passed' = Passed
      BY <2>2 DEF Passed
    <2> QED
      BY <1>0, <2>1, <2>2, <2>3, <2>4, <2>5 DEF TriedInv
  <1>11. CASE ChildrenDone
    <2>1. /\ pc = "children" /\ pc' = "select"
          /\ \A i \in at..Len(Offered) : Skipped(Offered[i])
          /\ UNCHANGED <<queued, evaluations, focus, stop_reason, at>>
      BY <1>11 DEF ChildrenDone
    <2>2. ASSUME Passed PROVE Tried(focus)
      <3> SUFFICES ASSUME NEW c \in Range(Declared), Kind[c] = "ablate", Parent[c] = focus
                   PROVE  c \in queued
        BY DEF Tried
      <3>1. PICK j \in 1..Len(Declared) : Declared[j] = c
        BY DeclaredType DEF Range
      <3>2. CASE j < at
        BY <2>1, <2>2, <3>1, <3>2 DEF TriedInv
      <3>3. CASE ~(j < at)
        <4>1. j \in at..Len(Offered)
          <5>1. /\ at \in Nat /\ Len(Declared) \in Nat /\ Len(Offered) \in Nat
                /\ Len(Declared) <= Len(Offered)
            BY <1>9, <2>1
          <5> QED
            BY <3>3, <5>1, FromTheMark
        <4>2. Skipped(Offered[j])
          BY <2>1, <4>1
        <4> QED
          BY <1>9, <2>1, <2>2, <3>1, <4>2, SkippedIsQueued
      <3> QED
        BY <3>2, <3>3
    <2>3. \A p \in passed_rows : Tried(p)
      BY <1>9, <2>1, <2>2 DEF TriedInv
    <2>4. \A p \in passed_rows : Tried(p)'
      BY <1>1, <2>1, <2>3
    <2> QED
      BY <1>0, <2>1, <2>4 DEF TriedInv
  <1>12. CASE UNCHANGED vars
    <2>1. passed_rows' = passed_rows /\ Passed' = Passed /\ \A p : Tried(p)' = Tried(p)
      BY <1>12 DEF vars, passed_rows, Passed, Tried
    <2> QED
      BY <1>12, <2>1 DEF vars, TriedInv
  <1> QED
    BY <1>3, <1>4, <1>6, <1>7, <1>8, <1>10, <1>11, <1>12 DEF Next, Returned

LEMMA ReasonInit == Init => ReasonInv
  BY DEF Init, ReasonInv

LEMMA ReasonStep == LoopInv /\ MinimalInv /\ ReasonInv /\ [Next]_vars => ReasonInv'
  <1> SUFFICES ASSUME LoopInv, MinimalInv, ReasonInv, [Next]_vars PROVE ReasonInv'
    OBVIOUS
  <1>0. budget' = budget
    BY DEF Next, RecordSeed, SeedsRecorded, BeginRound, LeaveRounds, StopInRound,
           Validate, EndRound, Reject, Evaluate, Rank, Activate, RefuseChild, ChildrenDone, Result,
           Stop, Returned, vars, payload
  <1>1. ASSUME queued' = queued PROVE QueueIsFull' = QueueIsFull
    BY <1>0, <1>1 DEF QueueIsFull
  <1>2. CASE RecordSeed \/ SeedsRecorded \/ BeginRound
    <2>1. /\ pc' \in {"seeding", "round", "select"}
          /\ stop_reason' = stop_reason /\ pc \in {"seeding", "round"}
      BY <1>2 DEF RecordSeed, SeedsRecorded, BeginRound
    <2> QED
      BY <2>1 DEF ReasonInv
  <1>3. CASE LeaveRounds
    <2>1. current = <<>>
      BY <1>3 DEF LeaveRounds, LoopInv, QueueInv
    <2> QED
      BY <1>3, <2>1 DEF LeaveRounds, ReasonInv
  <1>4. CASE StopInRound
    <2>1. queue \in Seq(Candidates) /\ queue' = Append(queue, Head(current))
      BY <1>4 DEF StopInRound, LoopInv, TypeInv, TypeOK
    <2>2. queue' # <<>>
      BY <2>1
    <2> QED
      BY <1>4, <2>2 DEF StopInRound, ReasonInv
  <1>5. CASE Validate \/ EndRound \/ Reject \/ Evaluate \/ Rank \/ ChildrenDone
    <2>1. /\ pc \in {"select", "evaluate", "rank", "children"}
          /\ UNCHANGED <<queued, stop_reason>>
          /\ \/ pc' \in {"select", "evaluate", "rank", "children", "aborted"}
             \/ pc' = "round" /\ stop_reason = ""
             \/ pc' = "finish" /\ stop_reason # ""
      BY <1>5 DEF Validate, EndRound, Reject, Evaluate, Rank, ChildrenDone
    <2> QED
      BY <1>1, <2>1 DEF ReasonInv
  <1>6. CASE Activate
    <2>1. ~QueueIsFull /\ pc = "children" /\ pc' = "children" /\ stop_reason' = stop_reason
      BY <1>6 DEF Activate
    <2> QED
      BY <2>1 DEF ReasonInv
  <1>7. CASE RefuseChild
    BY <1>1, <1>7 DEF RefuseChild, ReasonInv
  <1>8. CASE Result
    BY <1>8 DEF Result, ReasonInv
  <1>9. CASE Stop
    <2>1. minimal_rows = {} => passed_rows = {}
      BY DEF MinimalInv
    <2>2. UNCHANGED <<evaluations, queued, queue, current>>
      BY <1>9 DEF Stop
    <2>3. passed_rows' = passed_rows
      BY <2>2 DEF passed_rows
    <2> QED
      BY <1>1, <1>9, <2>1, <2>2, <2>3 DEF Stop, ReasonInv
  <1>10. CASE UNCHANGED vars
    BY <1>1, <1>10 DEF vars, ReasonInv, passed_rows
  <1> QED
    BY <1>2, <1>3, <1>4, <1>5, <1>6, <1>7, <1>8, <1>9, <1>10 DEF Next, Returned

SelectionInv == MinimalInv /\ TriedInv /\ ReasonInv /\ SelectedIsMinimal

\* What is selected is fixed in the step that selects it.
LEMMA SelectedStep == LoopInv /\ SelectionInv /\ [Next]_vars => SelectedIsMinimal'
  <1> SUFFICES ASSUME LoopInv, SelectionInv, [Next]_vars, stop_reason' = "result-found"
               PROVE  SelectedIsMinimal'
    BY DEF SelectedIsMinimal
  <1>1. CASE Result
    <2>1. PICK c \in Selectable : focus' = c
      BY <1>1 DEF Result
    <2>2. /\ stop_reason = "" /\ pc = "finish" /\ evaluations' = evaluations
      BY <1>1 DEF Result
    <2>3. passed_rows' = passed_rows
      BY <2>2 DEF passed_rows
    <2>4. c \in minimal_rows /\ c \in passed_rows
      BY <2>1 DEF Selectable, minimal_rows
    <2>5. DOMAIN evaluations = queued
      <3>1. queue = <<>> /\ current = <<>>
        BY <2>2 DEF SelectionInv, ReasonInv
      <3> QED
        BY <2>2, <3>1, EmptyQueue DEF LoopInv, QueueInv, Waiting, AtHand
    <2>6. ASSUME NEW d \in Range(Declared), Kind[d] = "ablate", Parent[d] = c
          PROVE  d \in DOMAIN evaluations \ passed_rows
      <3>1. Tried(c)
        BY <2>2, <2>4 DEF SelectionInv, TriedInv
      <3>2. d \in queued
        BY <2>6, <3>1 DEF Tried
      <3>3. d \notin passed_rows
        BY <2>4, <2>6 DEF minimal_rows
      <3> QED
        BY <2>5, <3>2, <3>3
    <2>7. ASSUME Shrinking, NEW d \in passed_rows
          PROVE  Size[Formula[c]] <= Size[Formula[d]]
      <3>1. PICK m \in minimal_rows : Size[Formula[m]] <= Size[Formula[d]]
        BY <2>7 DEF SelectionInv, MinimalInv
      <3>2. Size[Formula[c]] <= Size[Formula[m]]
        BY <2>1 DEF Selectable
      <3>3. /\ Size[Formula[c]] \in Nat /\ Size[Formula[m]] \in Nat /\ Size[Formula[d]] \in Nat
        BY <2>4, <2>7, SizeType DEF minimal_rows, LoopInv, TypeInv
      <3> QED
        BY <3>1, <3>2, <3>3
    <2> QED
      BY <2>1, <2>2, <2>3, <2>4, <2>6, <2>7 DEF SelectedIsMinimal, Shrinking
  <1>2. CASE UNCHANGED vars
    BY <1>2 DEF SelectionInv, SelectedIsMinimal, vars, passed_rows, Shrinking
  <1>3. pc # "done" => stop_reason \in {"", "budget-exhausted"}
    BY DEF SelectionInv, ReasonInv, LoopInv, TypeInv, TypeOK
  <1>4. CASE \/ RecordSeed \/ SeedsRecorded \/ BeginRound \/ LeaveRounds \/ StopInRound
             \/ Validate \/ EndRound \/ Reject \/ Evaluate \/ Rank
             \/ Activate \/ RefuseChild \/ ChildrenDone \/ Stop
    BY <1>3, <1>4 DEF RecordSeed, SeedsRecorded, BeginRound, LeaveRounds, StopInRound,
           Validate, EndRound, Reject, Evaluate, Rank, Activate, RefuseChild, ChildrenDone, Stop
  <1> QED
    BY <1>1, <1>2, <1>4 DEF Next, Returned

LEMMA SelectionInvHolds == Spec => []SelectionInv
  <1>1. Init => SelectionInv
    BY MinimalInit, TriedInit, ReasonInit DEF SelectionInv, SelectedIsMinimal, Init
  <1>2. LoopInv /\ SelectionInv /\ [Next]_vars => SelectionInv'
    BY MinimalStep, TriedStep, ReasonStep, SelectedStep DEF SelectionInv
  <1> QED
    BY <1>1, <1>2, LoopInvHolds, PTL DEF Spec

(* The selected candidate passed, none of its declared ablations did and   *)
(* all were tried, and none that passed is smaller when ablations shrink:  *)
(* in whichever round and order the candidates pass.                       *)
THEOREM SelectionCorrect == Spec => []SelectedIsMinimal
  <1>1. SelectionInv => SelectedIsMinimal
    BY DEF SelectionInv
  <1> QED
    BY <1>1, SelectionInvHolds, PTL

(* The stop reason of a finished search is true: nothing is pending after  *)
(* a result or for want of information, and a budget that stopped it left  *)
(* something behind.                                                       *)
THEOREM StopCorrect == Spec => []StopIsHonest
  <1>1. LoopInv /\ SelectionInv => StopIsHonest
    <2> SUFFICES ASSUME LoopInv, SelectionInv, pc = "done" PROVE StopIsHonest
      BY DEF StopIsHonest
    <2>1. Replay!pending_candidates(Replayed) = Range(queue) \cup Range(current)
      <3>1. CheckpointKeepsPending
        BY DEF LoopInv, QueueInv, RecordedInv, CheckpointKeepsPending,
               Replay!pending_candidates, Replay!Completed, Replayed, Activations, AtHand, Waiting
      <3> QED
        BY <3>1 DEF CheckpointKeepsPending
    <2>2. queue # <<>> => Range(queue) # {}
      <3>1. queue \in Seq(Candidates)
        BY DEF LoopInv, TypeInv, TypeOK
      <3> SUFFICES ASSUME queue # <<>> PROVE Head(queue) \in Range(queue)
        OBVIOUS
      <3>2. Range(queue) = Range(Tail(queue)) \cup {Head(queue)}
        BY <3>1, TakeFromQueue
      <3> QED
        BY <3>2
    <2> QED
      BY <2>1, <2>2, EmptyQueue DEF StopIsHonest, SelectionInv, ReasonInv
  <1> QED
    BY <1>1, LoopInvHolds, SelectionInvHolds, PTL
=============================================================================
