--------------------------- MODULE ProxmoxSession ---------------------------
(***************************************************************************)
(* The daemon's session with Proxmox (proxmox/ProxmoxConnection.ts, `call`  *)
(* and `getAuthKeys` of proxmox/apiTools.ts).  There is one ticket in the   *)
(* process, shared by all calls and logged in for by whichever call is      *)
(* answered 401: several may do so at once, each repeats its request with   *)
(* the ticket it was given, and nothing limits how often.                   *)
(*                                                                          *)
(* Tickets are numbered as Proxmox issues them; they expire in that order.  *)
(***************************************************************************)
EXTENDS Naturals

CONSTANTS
  Calls,       \* the places of the code where a call may be under way
  Startup,     \* the login of the constructor
  MaxFaults,   \* bound: calls and logins that fail
  MaxExpired   \* bound: only tickets up to this one expire

ASSUME SessionAssumption ==
  Startup \notin Calls /\ MaxFaults \in Nat /\ MaxExpired \in Nat

VARIABLES
  ticket,   \* authCookie and csrfPreventionToken; 0 is ''
  issued,   \* Proxmox: the last ticket issued
  expired,  \* the last ticket that Proxmox does not take any more
  rpc,      \* the calls, each with the ticket it carries or was given
  faults    \* how many calls and logins have failed

vars == <<ticket, issued, expired, rpc, faults>>

Stages == {"idle", "sent", "login", "granted", "served", "failed"}

TypeOK ==
  /\ issued \in 0 .. MaxExpired + 1 /\ expired \in 0 .. issued
  /\ ticket \in 0 .. issued
  /\ rpc \in [Calls \cup {Startup} -> [at : Stages, ticket : 0 .. issued]]
  /\ rpc[Startup].at \notin {"sent", "served"}
  /\ faults \in 0 .. MaxFaults

At(stage, t) == [at |-> stage, ticket |-> t]

NoCall == At("idle", 0)

(* The constructor does not wait for connect().                              *)
Init ==
  /\ ticket = 0 /\ issued = 0 /\ expired = 0 /\ faults = 0
  /\ rpc = [c \in Calls \cup {Startup} |-> IF c = Startup THEN At("login", 0) ELSE NoCall]

-----------------------------------------------------------------------------
Becomes(c, stage, t) == rpc' = [rpc EXCEPT ![c] = At(stage, t)]

Rests == UNCHANGED <<ticket, issued, expired, faults>>

(* The options of a request are built at once, with the ticket there is; a   *)
(* handler may make several calls before it waits.                           *)
Call(S) == /\ S # {} /\ \A c \in S : rpc[c] = NoCall
           /\ rpc' = [c \in DOMAIN rpc |-> IF c \in S THEN At("sent", ticket) ELSE rpc[c]]
           /\ Rests

(* The answer has come and the code goes on.                                 *)
Return(c) == rpc[c].at = "served" /\ Becomes(c, "idle", 0) /\ Rests

Serve(c) == /\ rpc[c].at = "sent" /\ rpc[c].ticket > expired
            /\ Becomes(c, "served", 0)
            /\ Rests

(* 401: nothing was done, and call awaits getAuthKeys.                       *)
Deny(c) == /\ rpc[c].at = "sent" /\ rpc[c].ticket <= expired
           /\ Becomes(c, "login", 0)
           /\ Rests

(* Proxmox answers a login: a ticket is on its way.  Those that will never   *)
(* expire share a number.                                                    *)
Grant(c) == /\ rpc[c].at = "login"
            /\ issued' = IF issued > MaxExpired THEN issued ELSE issued + 1
            /\ Becomes(c, "granted", issued')
            /\ UNCHANGED <<ticket, expired, faults>>

(* Mutant: what is made again is the request as it was.                      *)
LoggedInOldOptions(c) == /\ rpc[c].at = "granted"
                         /\ ticket' = rpc[c].ticket
                         /\ IF c = Startup THEN Becomes(c, "idle", 0)
                                           ELSE Becomes(c, "sent", expired)
                         /\ UNCHANGED <<issued, expired, faults>>

(* Mutant: the login of the constructor is followed by a call, too.          *)
LoggedInAlways(c) == /\ rpc[c].at = "granted"
                     /\ ticket' = rpc[c].ticket
                     /\ Becomes(c, "sent", rpc[c].ticket)
                     /\ UNCHANGED <<issued, expired, faults>>

(* It is kept, whichever came before it, and the call is made again with it. *)
LoggedIn(c) == /\ rpc[c].at = "granted"
               /\ ticket' = rpc[c].ticket
               /\ IF c = Startup THEN Becomes(c, "idle", 0)
                                 ELSE Becomes(c, "sent", rpc[c].ticket)
               /\ UNCHANGED <<issued, expired, faults>>

(* Mutant: a call that failed is made again, as one that was denied.         *)
CallFailsAndRepeats(c) == /\ faults < MaxFaults
                          /\ rpc[c].at \in {"sent", "login", "granted", "served"}
                          /\ faults' = faults + 1
                          /\ Becomes(c, IF c = Startup THEN "failed" ELSE "sent", ticket)
                          /\ UNCHANGED <<ticket, issued, expired>>

(* The request, the login or an answer is lost, or the login is refused:     *)
(* call throws, whether or not Proxmox has carried it out.                   *)
CallFails(c) == /\ faults < MaxFaults
                /\ rpc[c].at \in {"sent", "login", "granted", "served"}
                /\ faults' = faults + 1
                /\ Becomes(c, "failed", 0)
                /\ UNCHANGED <<ticket, issued, expired>>

Expire == /\ \E t \in (expired + 1) .. issued : t <= MaxExpired /\ expired' = t
          /\ UNCHANGED <<ticket, issued, rpc, faults>>

(* Who called catches it (createContainerInProxmox, deleteContainer).        *)
Catch(c) == rpc[c].at = "failed" /\ c # Startup /\ Becomes(c, "idle", 0) /\ Rests

(* Or nobody does, which ends the process; it is started again.              *)
Die == /\ \E c \in DOMAIN rpc : rpc[c].at = "failed"
       /\ ticket' = 0
       /\ rpc' = [c \in DOMAIN rpc |-> IF c = Startup THEN At("login", 0) ELSE NoCall]
       /\ UNCHANGED <<issued, expired, faults>>

(* What becomes of a call or a login.                                        *)
Progress(c) == Serve(c) \/ Deny(c) \/ Grant(c) \/ LoggedIn(c)

Next == \/ \E S \in SUBSET Calls : Call(S)
        \/ \E c \in Calls : Return(c) \/ Catch(c)
        \/ \E c \in Calls \cup {Startup} : Progress(c) \/ CallFails(c)
        \/ Expire \/ Die

Spec == Init /\ [][Next]_vars

(* Proxmox and the daemon go on; nobody has to call, and nothing to fail.    *)
FairSpec == /\ Spec
            /\ \A c \in Calls \cup {Startup} : WF_vars(Progress(c) \/ Return(c) \/ Catch(c))
            /\ WF_vars(Die)

-----------------------------------------------------------------------------
(* A call as the code that makes it sees it.                                 *)
phase == [c \in Calls |->
  CASE rpc[c].at \in {"sent", "login", "granted"} -> "asked"
    [] rpc[c].at = "served" -> "carriedOut"
    [] OTHER -> rpc[c].at]

Remote == INSTANCE RemoteCall

(* However often it is made again, a call is carried out at most once, and   *)
(* answered only if it was: the retry after 401 may not repeat a creation, a *)
(* deletion or a restoration (apiTools.ts:57-80).                            *)
ImplementsRemoteCall == Remote!Spec

(* The retry has no bound, yet calls end once tickets stop expiring, also    *)
(* when many of them are refused and log in at once, and the last login to   *)
(* be answered is not the last one made (apiTools.ts:61-66, 250-271).        *)
CallsEnd == \A c \in Calls : rpc[c] # NoCall ~> rpc[c] = NoCall
=============================================================================
