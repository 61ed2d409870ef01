---------------------------- MODULE SessionProofs ----------------------------
(***************************************************************************)
(* Theorems about ProxmoxSession, for all values of its constants: its      *)
(* types, and that behind the tickets, the refusals and the repetitions a   *)
(* call is what RemoteCall says it is.                                      *)
(***************************************************************************)
EXTENDS ProxmoxSession, TLAPS

All == Calls \cup {Startup}

Rpc(n) == [at : Stages, ticket : 0 .. n]

LEMMA AtType ==
  ASSUME NEW n \in Nat, NEW stage \in Stages, NEW t \in 0 .. n
  PROVE  At(stage, t) \in Rpc(n)
BY DEF At, Rpc

LEMMA RpcGrows ==
  ASSUME NEW n \in Nat, NEW m \in Nat, n <= m
  PROVE  Rpc(n) \subseteq Rpc(m)
BY DEF Rpc

(* What TypeOK says of the numbers.                                          *)
LEMMA Numbers ==
  ASSUME TypeOK
  PROVE  issued \in Nat /\ expired \in Nat /\ ticket \in Nat
BY SessionAssumption DEF TypeOK

LEMMA BecomesType ==
  ASSUME TypeOK, NEW c \in All, NEW stage \in Stages, NEW n \in Nat, issued <= n,
         NEW t \in 0 .. n, Becomes(c, stage, t)
  PROVE  rpc' \in [All -> Rpc(n)]
<1>1. rpc \in [All -> Rpc(n)]
  BY Numbers, RpcGrows DEF TypeOK, All, Rpc
<1>2. At(stage, t) \in Rpc(n)
  BY AtType
<1> QED
  BY <1>1, <1>2 DEF Becomes

LEMMA InitTypes == Init => TypeOK
<1> SUFFICES ASSUME Init  PROVE TypeOK
  OBVIOUS
<1>1. At("login", 0) \in Rpc(0) /\ At("idle", 0) \in Rpc(0)
  BY AtType DEF Stages
<1>2. rpc \in [All -> Rpc(0)] /\ rpc[Startup] = At("login", 0)
  BY <1>1 DEF Init, All, NoCall
<1> QED
  BY <1>2, SessionAssumption DEF Init, TypeOK, All, Rpc, At

(* The login of the constructor is never a call.                             *)
LEMMA StartupStage ==
  ASSUME TypeOK, NEW c \in All, NEW stage, NEW t, Becomes(c, stage, t),
         c = Startup => stage \notin {"sent", "served"}
  PROVE  rpc'[Startup].at \notin {"sent", "served"}
BY DEF TypeOK, Becomes, All, At

LEMMA ProgressTypes ==
  ASSUME TypeOK, NEW c \in All, Progress(c)
  PROVE  TypeOK'
<1> USE Numbers
<1>1. rpc[c] \in Rpc(issued)
  BY DEF TypeOK, All, Rpc
<1>2. CASE Serve(c)
  <2>1. rpc' \in [All -> Rpc(issued)]
    BY <1>2, BecomesType DEF Serve, Stages
  <2>2. rpc'[Startup].at \notin {"sent", "served"}
    BY <1>2, StartupStage DEF Serve, TypeOK
  <2> QED
    BY <1>2, <2>1, <2>2 DEF Serve, Rests, TypeOK, All, Rpc
<1>3. CASE Deny(c)
  <2>1. rpc' \in [All -> Rpc(issued)]
    BY <1>3, BecomesType DEF Deny, Stages
  <2>2. rpc'[Startup].at \notin {"sent", "served"}
    BY <1>3, StartupStage DEF Deny
  <2> QED
    BY <1>3, <2>1, <2>2 DEF Deny, Rests, TypeOK, All, Rpc
<1>4. CASE Grant(c)
  <2>1. issued' \in 0 .. MaxExpired + 1 /\ issued <= issued'
    BY <1>4, SessionAssumption DEF Grant, TypeOK
  <2>2. rpc' \in [All -> Rpc(issued')]
    BY <1>4, <2>1, SessionAssumption, BecomesType DEF Grant, Stages
  <2>3. rpc'[Startup].at \notin {"sent", "served"}
    BY <1>4, StartupStage DEF Grant
  <2>4. ticket' \in 0 .. issued' /\ expired' \in 0 .. issued'
    BY <1>4, <2>1, SessionAssumption DEF Grant, TypeOK
  <2> QED
    BY <1>4, <2>1, <2>2, <2>3, <2>4 DEF Grant, TypeOK, All, Rpc
<1>5. CASE LoggedIn(c)
  <2>0. rpc[c].ticket \in 0 .. issued
    BY <1>1 DEF Rpc
  <2>1. rpc' \in [All -> Rpc(issued)]
    BY <1>5, <2>0, BecomesType DEF LoggedIn, Stages
  <2>2. rpc'[Startup].at \notin {"sent", "served"}
    BY <1>5, StartupStage DEF LoggedIn
  <2> QED
    BY <1>5, <2>0, <2>1, <2>2 DEF LoggedIn, TypeOK, All, Rpc
<1> QED
  BY <1>2, <1>3, <1>4, <1>5 DEF Progress

LEMMA CallTypes ==
  ASSUME TypeOK, NEW S \in SUBSET Calls, Call(S)
  PROVE  TypeOK'
<1>1. At("sent", ticket) \in Rpc(issued)
  BY Numbers, AtType DEF TypeOK, Stages
<1>2. rpc' \in [All -> Rpc(issued)] /\ rpc'[Startup] = rpc[Startup]
  BY <1>1, SessionAssumption DEF Call, TypeOK, All, Rpc
<1> QED
  BY <1>2 DEF Call, Rests, TypeOK, All, Rpc

LEMMA EndTypes ==
  ASSUME TypeOK, NEW c \in All, CallFails(c) \/ (c \in Calls /\ (Return(c) \/ Catch(c)))
  PROVE  TypeOK'
<1>1. PICK stage \in {"failed", "idle"} : Becomes(c, stage, 0)
  BY DEF CallFails, Return, Catch
<1>2. rpc' \in [All -> Rpc(issued)]
  BY <1>1, Numbers, BecomesType DEF Stages
<1>3. rpc'[Startup].at \notin {"sent", "served"}
  BY <1>1, StartupStage
<1>4. UNCHANGED <<ticket, issued, expired>> /\ faults' \in 0 .. MaxFaults
  BY SessionAssumption DEF CallFails, Return, Catch, Rests, TypeOK
<1> QED
  BY <1>2, <1>3, <1>4 DEF TypeOK, All, Rpc

LEMMA ExpireTypes == TypeOK /\ Expire => TypeOK'
BY Numbers DEF TypeOK, Expire

LEMMA DieTypes == TypeOK /\ Die => TypeOK'
<1> SUFFICES ASSUME TypeOK, Die  PROVE TypeOK'
  OBVIOUS
<1>1. At("login", 0) \in Rpc(issued) /\ At("idle", 0) \in Rpc(issued)
  BY Numbers, AtType DEF Stages
<1>2. rpc' \in [All -> Rpc(issued)] /\ rpc'[Startup] = At("login", 0)
  BY <1>1 DEF Die, NoCall, TypeOK, All
<1> QED
  BY <1>2, Numbers DEF Die, TypeOK, All, Rpc, At

LEMMA StepTypes == TypeOK /\ [Next]_vars => TypeOK'
<1>1. ASSUME TypeOK, UNCHANGED vars  PROVE TypeOK'
  BY <1>1 DEF vars, TypeOK
<1> QED
  BY <1>1, CallTypes, ProgressTypes, EndTypes, ExpireTypes, DieTypes DEF Next, All

(* Every ticket in use was issued, and the login of the constructor is never *)
(* taken for a call that may be made again (ProxmoxConnection.ts:77-80).     *)
THEOREM TypesCorrect == Spec => []TypeOK
BY InitTypes, StepTypes, PTL DEF Spec

-----------------------------------------------------------------------------
(* What a stage of a call is to the code that made it.                       *)
PhaseOf(stage) == CASE stage \in {"sent", "login", "granted"} -> "asked"
                    [] stage = "served" -> "carriedOut"
                    [] OTHER -> stage

LEMMA PhaseIs == phase = [c \in Calls |-> PhaseOf(rpc[c].at)]
BY DEF phase, PhaseOf

(* One call moves, or none does if it is the login of the constructor.       *)
LEMMA BecomesMaps ==
  ASSUME TypeOK, NEW c \in All, NEW stage \in Stages, NEW t, Becomes(c, stage, t)
  PROVE  phase' = [d \in Calls |-> IF d = c THEN PhaseOf(stage) ELSE phase[d]]
<1>1. \A d \in Calls : rpc'[d] = IF d = c THEN At(stage, t) ELSE rpc[d]
  BY DEF TypeOK, Becomes, All
<1>2. \A d \in Calls : PhaseOf(rpc'[d].at) = IF d = c THEN PhaseOf(stage) ELSE PhaseOf(rpc[d].at)
  BY <1>1 DEF At
<1>3. phase' = [d \in Calls |-> PhaseOf(rpc'[d].at)]
  BY DEF phase, PhaseOf
<1> QED
  BY <1>2, <1>3, PhaseIs

(* A move of RemoteCall, written point by point.                             *)
LEMMA MoveIs ==
  ASSUME NEW c \in Calls, NEW to, NEW from, phase[c] \in from,
         phase' = [d \in Calls |-> IF d = c THEN to ELSE phase[d]]
  PROVE  Remote!Move(c, from, to)
<1>1. phase = [d \in Calls |-> phase[d]]
  BY DEF phase
<1>2. phase' = [phase EXCEPT ![c] = to]
  BY <1>1
<1> QED
  BY <1>2 DEF Remote!Move

Maps == [Remote!Next]_phase

LEMMA StartupMaps ==
  ASSUME TypeOK, NEW stage \in Stages, NEW t, Becomes(Startup, stage, t)
  PROVE  Maps
<1>1. phase' = [d \in Calls |-> IF d = Startup THEN PhaseOf(stage) ELSE phase[d]]
  BY BecomesMaps DEF All
<1>2. phase = [d \in Calls |-> phase[d]]
  BY DEF phase
<1>3. phase' = phase
  BY <1>1, <1>2, SessionAssumption
<1> QED
  BY <1>3 DEF Maps

(* Refused, logging in, sent again: still asked.                             *)
LEMMA StillAsked ==
  ASSUME TypeOK, NEW c \in Calls, NEW stage \in {"sent", "login", "granted"}, NEW t,
         rpc[c].at \in {"sent", "login", "granted"}, Becomes(c, stage, t)
  PROVE  Maps
<1>1. PhaseOf(stage) = "asked" /\ PhaseOf(rpc[c].at) = "asked"
  BY DEF PhaseOf
<1>2. phase' = [d \in Calls |-> IF d = c THEN "asked" ELSE phase[d]]
  BY <1>1, BecomesMaps DEF All, Stages
<1>3. phase[c] = "asked" /\ phase = [d \in Calls |-> phase[d]]
  BY <1>1, PhaseIs
<1>4. phase' = phase
  BY <1>2, <1>3
<1> QED
  BY <1>4 DEF Maps

LEMMA ProgressMaps ==
  ASSUME TypeOK, NEW c \in All, Progress(c)
  PROVE  Maps
<1>1. CASE c = Startup
  <2>1. PICK stage \in {"served", "login", "granted", "idle", "sent"}, t \in {0, issued'} :
           Becomes(Startup, stage, t)
    BY <1>1 DEF Progress, Serve, Deny, Grant, LoggedIn
  <2> QED
    BY <2>1, StartupMaps DEF Stages
<1>2. CASE c \in Calls
  <2>0. c # Startup
    BY <1>2, SessionAssumption
  <2>1. CASE Serve(c)
    <3>1. phase' = [d \in Calls |-> IF d = c THEN "carriedOut" ELSE phase[d]]
      BY <2>1, BecomesMaps DEF Serve, Stages, PhaseOf
    <3>2. phase[c] \in {"asked"}
      BY <1>2, <2>1, PhaseIs DEF Serve, PhaseOf
    <3> QED
      BY <1>2, <3>1, <3>2, MoveIs DEF Maps, Remote!Next, Remote!CarryOut
  <2>2. CASE Deny(c)
    BY <1>2, <2>2, StillAsked DEF Deny
  <2>3. CASE Grant(c)
    BY <1>2, <2>3, StillAsked DEF Grant
  <2>4. CASE LoggedIn(c)
    BY <1>2, <2>0, <2>4, StillAsked DEF LoggedIn
  <2> QED
    BY <2>1, <2>2, <2>3, <2>4 DEF Progress
<1> QED
  BY <1>1, <1>2 DEF All

LEMMA EndMaps ==
  ASSUME TypeOK, NEW c \in All, CallFails(c) \/ (c \in Calls /\ (Return(c) \/ Catch(c)))
  PROVE  Maps
<1>1. CASE c = Startup
  <2>1. Becomes(Startup, "failed", 0) \/ Becomes(Startup, "idle", 0)
    BY <1>1 DEF CallFails, Return, Catch
  <2> QED
    BY <2>1, StartupMaps DEF Stages
<1>2. CASE c \in Calls /\ CallFails(c)
  <2>1. phase' = [d \in Calls |-> IF d = c THEN "failed" ELSE phase[d]]
    BY <1>2, BecomesMaps DEF CallFails, Stages, PhaseOf
  <2>2. phase[c] \in {"asked", "carriedOut"}
    BY <1>2, PhaseIs DEF CallFails, PhaseOf
  <2> QED
    BY <1>2, <2>1, <2>2, MoveIs DEF Maps, Remote!Next, Remote!Fail
<1>3. CASE c \in Calls /\ Return(c)
  <2>1. phase' = [d \in Calls |-> IF d = c THEN "idle" ELSE phase[d]]
    BY <1>3, BecomesMaps DEF Return, Stages, PhaseOf
  <2>2. phase[c] \in {"carriedOut"}
    BY <1>3, PhaseIs DEF Return, PhaseOf
  <2> QED
    BY <1>3, <2>1, <2>2, MoveIs DEF Maps, Remote!Next, Remote!Answer
<1>4. CASE c \in Calls /\ Catch(c)
  <2>1. phase' = [d \in Calls |-> IF d = c THEN "idle" ELSE phase[d]]
    BY <1>4, BecomesMaps DEF Catch, Stages, PhaseOf
  <2>2. phase[c] \in {"failed"}
    BY <1>4, PhaseIs DEF Catch, PhaseOf
  <2> QED
    BY <1>4, <2>1, <2>2, MoveIs DEF Maps, Remote!Next, Remote!Catch
<1> QED
  BY <1>1, <1>2, <1>3, <1>4 DEF All

LEMMA CallMaps ==
  ASSUME TypeOK, NEW S \in SUBSET Calls, Call(S)
  PROVE  Maps
<1>1. \A c \in Calls : rpc'[c] = IF c \in S THEN At("sent", ticket) ELSE rpc[c]
  BY DEF Call, TypeOK
<1>2. \A c \in Calls : PhaseOf(rpc'[c].at) = IF c \in S THEN "asked" ELSE PhaseOf(rpc[c].at)
  BY <1>1 DEF At, PhaseOf
<1>3. phase' = [c \in Calls |-> PhaseOf(rpc'[c].at)]
  BY DEF phase, PhaseOf
<1>4. phase' = [c \in Calls |-> IF c \in S THEN "asked" ELSE phase[c]]
  BY <1>2, <1>3, PhaseIs
<1>5. \A c \in S : phase[c] = "idle"
  BY PhaseIs DEF Call, NoCall, At, PhaseOf
<1>6. Remote!Ask(S)
  BY <1>4, <1>5 DEF Call, Remote!Ask
<1> QED
  BY <1>6 DEF Maps, Remote!Next

LEMMA DieMaps == TypeOK /\ Die => Maps
<1> SUFFICES ASSUME TypeOK, Die  PROVE Maps
  OBVIOUS
<1>1. \A c \in Calls : rpc'[c].at = "idle"
  BY SessionAssumption DEF Die, NoCall, At, TypeOK
<1>2. phase' = [c \in Calls |-> PhaseOf(rpc'[c].at)]
  BY DEF phase, PhaseOf
<1>3. phase' = [c \in Calls |-> "idle"]
  BY <1>1, <1>2 DEF PhaseOf
<1> QED
  BY <1>3 DEF Maps, Remote!Next, Remote!Forget

(* A call that is repeated after every 401 is still carried out at most      *)
(* once, and answered only if it was, however many log in at once and in     *)
(* whatever order their tickets come (apiTools.ts:28-81, 250-271).           *)
THEOREM SessionImplementsRemoteCall == Spec => ImplementsRemoteCall
<1>1. Init => Remote!Init
  <2> SUFFICES ASSUME Init  PROVE Remote!Init
    OBVIOUS
  <2>1. \A c \in Calls : rpc[c].at = "idle"
    BY SessionAssumption DEF Init, NoCall, At
  <2> QED
    BY <2>1, PhaseIs DEF Remote!Init, PhaseOf
<1>2. TypeOK /\ [Next]_vars => Maps
  <2>1. ASSUME rpc' = rpc  PROVE Maps
    BY <2>1 DEF Maps, phase
  <2> QED
    BY <2>1, CallMaps, ProgressMaps, EndMaps, DieMaps DEF Next, All, Expire, vars
<1> QED
  BY <1>1, <1>2, TypesCorrect, PTL DEF Spec, ImplementsRemoteCall, Remote!Spec, Maps
=============================================================================
