----------------------------- MODULE RemoteCall -----------------------------
(***************************************************************************)
(* What the daemon's code takes a call of the Proxmox API to be: it is      *)
(* carried out at most once, an answer says that it was, and a failure      *)
(* leaves that open.  The tickets, the refusals and the repetitions behind  *)
(* it are not seen (see ProxmoxSession).                                    *)
(***************************************************************************)
CONSTANT Calls

VARIABLE phase

(* A call that was answered is of no more interest.                          *)
Phases == {"idle", "asked", "carriedOut", "failed"}

Init == phase = [c \in Calls |-> "idle"]

Move(c, from, to) == /\ phase[c] \in from
                     /\ phase' = [phase EXCEPT ![c] = to]

(* The code asks for several calls at once, or for one.                      *)
Ask(S) == /\ S # {} /\ \A c \in S : phase[c] = "idle"
          /\ phase' = [c \in Calls |-> IF c \in S THEN "asked" ELSE phase[c]]

CarryOut(c) == Move(c, {"asked"}, "carriedOut")
Answer(c)   == Move(c, {"carriedOut"}, "idle")
Fail(c)     == Move(c, {"asked", "carriedOut"}, "failed")

(* The code that asked has caught the failure.                               *)
Catch(c) == Move(c, {"failed"}, "idle")

(* The process that asked has ended.                                         *)
Forget == phase' = [c \in Calls |-> "idle"]

Next == \/ \E c \in Calls : CarryOut(c) \/ Answer(c) \/ Fail(c) \/ Catch(c)
        \/ \E S \in SUBSET Calls : Ask(S)
        \/ Forget

Spec == Init /\ [][Next]_phase
=============================================================================
