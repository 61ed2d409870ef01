----------------------------- MODULE AgentCall -----------------------------
(***************************************************************************)
(* What the daemon promises to a caller that asks an agent for something   *)
(* (its logs, the token of one of its services) and waits: the call ends,  *)
(* and what it returns was said by the agent of the container it asked,    *)
(* unless that container's id has been given to another one since.         *)
(***************************************************************************)
CONSTANT Calls

VARIABLES pending,   \* the calls that wait
          answered,  \* the calls that returned what the agent said
          said,      \* the calls their own agent has replied to
          replaced   \* the calls whose container's id was given again

callVars == <<pending, answered, said, replaced>>

Init == pending = {} /\ answered = {} /\ said = {} /\ replaced = {}

Ask(t) == /\ t \notin pending \cup answered
          /\ pending' = pending \cup {t}
          /\ UNCHANGED <<answered, said, replaced>>

(* The agent may speak before, during or after the wait. *)
Reply(t) == said' = said \cup {t} /\ UNCHANGED <<pending, answered, replaced>>

(* Their container is another one from now on. *)
Replace(S) == replaced' = replaced \cup S /\ UNCHANGED <<pending, answered, said>>

Return(t) == /\ t \in pending /\ t \in said \cup replaced
             /\ pending' = pending \ {t}
             /\ answered' = answered \cup {t}
             /\ UNCHANGED <<said, replaced>>

(* One call fails, or all of them do because the process ends. *)
Fail(S) == /\ S # {} /\ S \subseteq pending
           /\ pending' = pending \ S
           /\ UNCHANGED <<answered, said, replaced>>

Next == \/ \E t \in Calls : Ask(t) \/ Reply(t) \/ Return(t)
        \/ \E S \in SUBSET Calls : Replace(S) \/ Fail(S)

Ends(t) == Return(t) \/ \E S \in SUBSET Calls : t \in S /\ Fail(S)

Safety == Init /\ [][Next]_callVars

Spec == Safety /\ \A t \in Calls : WF_callVars(Ends(t))
=============================================================================
