---------------------------- MODULE AgentSession ----------------------------
(***************************************************************************)
(* What a session of the runtime promises its client: a plan of actions,   *)
(* the state they lead to, and a standing.  There is no trajectory in it,  *)
(* no digest, no budget and no failing call.                               *)
(*                                                                         *)
(* An action joins the plan under a ticket above all tickets before it and *)
(* is executed on the present state.  An action taken back is gone, and    *)
(* the state is that of the actions that stay, executed from the start.    *)
(* A session that is no longer active stays as it is.                      *)
(***************************************************************************)
EXTENDS Integers

CONSTANTS Ops, KernelStates, InitialState, NoState,
          Validates(_, _), Execute(_, _), Verdict(_),
          Tickets        \* the numbers actions may get, in the order they are given out

VARIABLES plan,          \* the actions in force, by ticket
          issued,        \* the tickets given out so far
          state, status

session == <<plan, issued, state, status>>

\* The state after executing the actions in force up to each ticket.
Executed(actions) ==
    LET after[n \in Nat] ==
            IF n = 0 THEN InitialState
            ELSE IF n \in DOMAIN actions /\ after[n - 1] # NoState
                 THEN Execute(actions[n], after[n - 1]) ELSE after[n - 1]
    IN  after

\* s is what the actions lead to.
LeadTo(actions, s) == s \in KernelStates /\ \A n \in Tickets :
    (\A t \in DOMAIN actions : t <= n) => Executed(actions)[n] = s

Init ==
    /\ plan = [t \in {} |-> InitialState] /\ issued = {}
    /\ state = InitialState
    /\ status \in {"active", "partial"}     \* a budget may be used up by the start

\* What an active session may do about its standing on any call: go on or stop.
GoesOnOrStops == status' \in {"active", "partial"}

Perform(t, op) ==
    /\ status = "active"
    /\ Validates(op, state)
    /\ \A u \in issued : u < t
    /\ issued' = issued \cup {t}
    /\ DOMAIN plan' = DOMAIN plan \cup {t}
    /\ \A u \in DOMAIN plan' : plan'[u] = IF u = t THEN op ELSE plan[u]
    /\ state' = Execute(op, state) /\ LeadTo(plan', state')
    /\ GoesOnOrStops

TakeBack(t) ==
    /\ status = "active"
    /\ t \in DOMAIN plan
    /\ plan' = [u \in DOMAIN plan \ {t} |-> plan[u]]
    /\ LeadTo(plan', state')
    /\ UNCHANGED issued
    /\ GoesOnOrStops

\* A certificate is about the state the client sees; a stop without one needs
\* no reason here, the budgets are the runtime's.
Settle ==
    /\ status = "active"
    /\ status' \in {"partial", "insufficient"} \cup
                   {s \in {"certified"} : Verdict(state) = "certified"}
    /\ UNCHANGED <<plan, issued, state>>

Next == \/ \E t \in Tickets, op \in Ops : Perform(t, op)
        \/ \E t \in Tickets : TakeBack(t)
        \/ Settle

Spec == Init /\ [][Next]_session
=============================================================================
