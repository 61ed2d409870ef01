----------------------------- MODULE AgentProofs -----------------------------
(***************************************************************************)
(* Theorems about AgentConnection, and with it AgentInit and ConfigStore,    *)
(* for all values of the constants.                                         *)
(***************************************************************************)
EXTENDS AgentConnection, TLAPS

-----------------------------------------------------------------------------
(* Types, one group of variables after the other.                            *)

(* The configuration.                                                        *)
LEMMA ConfigureTypes ==
  ASSUME ConfigTypeOK, NEW c \in Callers, Arrive(c) \/ ConfigStep(c)
  PROVE  ConfigTypeOK'
<1>1. CASE Arrive(c)
  BY <1>1 DEF ConfigTypeOK, Arrive, Calls
<1>2. CASE SetField(c)
  <2>1. call[c] \in Puts
    BY <1>2 DEF ConfigTypeOK, SetField, Calls, Idle
  <2>2. PICK f \in Fields : call[c] \in [at : {"read"}, field : {f}, value : Values(f)]
    BY <2>1 DEF Puts
  <2>3. [row.config EXCEPT ![call[c].field] = call[c].value] \in Config
    BY <2>2 DEF ConfigTypeOK, Config, Fields, Values
  <2> QED
    BY <1>2, <2>3 DEF ConfigTypeOK, SetField, Calls
<1>3. CASE UpdateConfig(c)
  BY <1>3 DEF ConfigTypeOK, UpdateConfig, Calls, Idle, Puts
<1> QED
  BY <1>1, <1>2, <1>3 DEF ConfigStep

LEMMA DropCallsTypes == ConfigTypeOK /\ DropCalls => ConfigTypeOK'
BY DEF ConfigTypeOK, DropCalls, Calls

LEMMA HandlerUpdates ==
  ASSUME NEW h \in Handlers
  PROVE  /\ [h EXCEPT !.live = FALSE] \in Handlers
         /\ \A place \in {"rename", "answer"} : [h EXCEPT !.at = place] \in Handlers
BY DEF Handlers

LEMMA ForsakenTypes == handlers \subseteq Handlers => Forsaken \subseteq Handlers
BY HandlerUpdates DEF Forsaken

LEMMA StartTypes == InitTypeOK /\ Start => InitTypeOK'
BY DEF InitTypeOK, Start, BecomeAgent

LEMMA RunTypes ==
  ASSUME ConfigTypeOK, InitTypeOK, RunStep
  PROVE  InitTypeOK'
<1>1. CASE FetchCommands
  <2> DEFINE list == GetConfig("init_commands")
  <2>1. list # None => list \subseteq Commands
    <3> SUFFICES ASSUME list # None  PROVE list \subseteq Commands
      OBVIOUS
    <3>1. list = row.config["init_commands"]
      BY DEF GetConfig
    <3>2. row.config \in Config
      BY DEF ConfigTypeOK
    <3>3. row.config["init_commands"] \in CommandLists \cup {None}
      BY <3>2 DEF Config
    <3> QED
      BY <3>1, <3>3 DEF Commands
  <2>2. CASE list = None
    BY <1>1, <2>2 DEF FetchCommands, InitTypeOK, RunFails, BecomeAgent, fileVars
  <2>3. CASE list # None
    <3>1. running' = running \cup list /\ begun' = begun \cup list /\ pc' = "hostname"
      BY <1>1, <2>3 DEF FetchCommands
    <3>2. handlers' = handlers \cup {[at |-> "find", live |-> TRUE]}
      BY <1>1, <2>3 DEF FetchCommands
    <3>3. handlers' \subseteq Handlers
      <4>1. [at |-> "find", live |-> TRUE] \in Handlers
        BY DEF Handlers
      <4> QED
        BY <3>2, <4>1 DEF InitTypeOK
    <3>4. UNCHANGED <<fileVars, known>>
      BY <1>1 DEF FetchCommands
    <3> HIDE DEF list
    <3> QED
      BY <2>1, <2>3, <3>1, <3>3, <3>4 DEF InitTypeOK, fileVars
  <2> QED
    BY <2>2, <2>3
<1>2. CASE FetchFails
  BY <1>2 DEF FetchFails, InitTypeOK, RunFails, BecomeAgent, fileVars
<1>3. CASE SetHostname
  BY <1>3 DEF SetHostname, InitTypeOK, Hostnames
<1>4. CASE HostnameFails
  BY <1>4, ForsakenTypes DEF HostnameFails, InitTypeOK, fileVars
<1>5. CASE Install
  BY <1>5 DEF Install, InitTypeOK, BecomeAgent
<1>6. CASE InstallFails
  BY <1>6 DEF InstallFails, InitTypeOK, RunFails, BecomeAgent
<1> QED
  BY <1>1, <1>2, <1>3, <1>4, <1>5, <1>6 DEF RunStep

LEMMA EndedTypes == InitTypeOK /\ Ended => InitTypeOK' /\ pc' = "off"
<1> SUFFICES ASSUME InitTypeOK, Ended
             PROVE  InitTypeOK' /\ pc' = "off"
  OBVIOUS
<1>1. ProcessEnds
  BY DEF Ended, Crash, Reboot, CommandFails
<1>2. handlers' \subseteq Handlers /\ running' = {} /\ begun' = begun /\ pc' = "off" /\ known' = known
  BY <1>1, ForsakenTypes DEF ProcessEnds, InitTypeOK
<1>3. /\ hostname' \in Hostnames /\ pveName' = pveName /\ conf' = conf /\ mark' = mark
      /\ vscodeDir' \in BOOLEAN
  BY DEF Ended, Crash, Reboot, CommandFails, fileVars, InitTypeOK
<1> QED
  BY <1>2, <1>3 DEF InitTypeOK

LEMMA HandlerTypes ==
  ASSUME InitTypeOK, NEW h \in handlers, HandlerStep(h)
  PROVE  InitTypeOK'
<1>1. \A place \in {"rename", "answer"} : [h EXCEPT !.at = place] \in Handlers
  BY HandlerUpdates DEF InitTypeOK
<1>2. handlers' \subseteq Handlers /\ pveName' \in Hostnames
  BY <1>1 DEF HandlerStep, FindContainer, ChangeCTHostname, AnswerLost, Advance,
              InitTypeOK, Hostnames, fileVars
<1> QED
  BY <1>2 DEF HandlerStep, FindContainer, ChangeCTHostname, AnswerLost, InitTypeOK, fileVars

LEMMA InsertTypes == InitTypeOK /\ InsertRow => InitTypeOK'
BY DEF InitTypeOK, InsertRow, fileVars

LEMMA CommandEndsTypes ==
  ASSUME NEW x \in Commands, InitTypeOK, CommandEnds(x)
  PROVE  InitTypeOK'
BY DEF InitTypeOK, CommandEnds, fileVars

(* Whoever is an Agent stays one until the process ends.                     *)
LEMMA FirstRunTypes ==
  ASSUME ConfigTypeOK, InitTypeOK, FirstRun
  PROVE  InitTypeOK' /\ (pc = "agent" => pc' = "agent")
<1>1. CASE Start
  BY <1>1, StartTypes DEF Start
<1>2. CASE RunStep
  BY <1>2, RunTypes DEF RunStep, FetchCommands, FetchFails, SetHostname, HostnameFails,
                        Install, InstallFails
<1>3. CASE InsertRow
  BY <1>3, InsertTypes DEF InsertRow
<1>4. ASSUME NEW x \in Commands, CommandEnds(x)
      PROVE  InitTypeOK' /\ (pc = "agent" => pc' = "agent")
  BY <1>4, CommandEndsTypes DEF CommandEnds
<1>5. ASSUME NEW h \in handlers, HandlerStep(h)
      PROVE  InitTypeOK' /\ (pc = "agent" => pc' = "agent")
  BY <1>5, HandlerTypes DEF HandlerStep, FindContainer, ChangeCTHostname, AnswerLost
<1> QED
  BY <1>1, <1>2, <1>3, <1>4, <1>5 DEF FirstRun

(* The connection; at least one socket must be open for most steps.          *)
LinkTypeOK ==
  /\ sock \in Sockets \cup {None} /\ timer \in BOOLEAN
  /\ timer => sock = None /\ pc = "agent"
  /\ sock # None => pc = "agent"
  /\ clients \subseteq Sockets /\ closing \subseteq clients
  /\ heard \subseteq clients /\ checking \subseteq Sockets
  /\ broken \subseteq (clients \cup {sock}) \ {None}
  /\ silent \subseteq broken
  /\ drops \in 0 .. MaxDrops

LEMMA LinkTypes ==
  ASSUME LinkTypeOK, Link
  PROVE  LinkTypeOK'
<1>0. pc' = pc
  BY DEF Link, initVars
<1>1. CASE Dial
  BY <1>0, <1>1, ConnectionAssumption DEF LinkTypeOK, Dial, Unused
<1>2. CASE Refused
  BY <1>0, <1>2, ConnectionAssumption DEF LinkTypeOK, Refused, Reconnect
<1>3. CASE AgentCloses
  BY <1>0, <1>3, ConnectionAssumption DEF LinkTypeOK, AgentCloses, Reconnect
<1>4. CASE Upgrade
  BY <1>0, <1>4, ConnectionAssumption DEF LinkTypeOK, Upgrade
<1>5. CASE Drop
  BY <1>0, <1>5, ConnectionAssumption DEF LinkTypeOK, Drop
<1>6. ASSUME NEW s \in Sockets, CheckIP(s)  PROVE LinkTypeOK'
  BY <1>0, <1>6 DEF LinkTypeOK, CheckIP
<1>7. ASSUME NEW s \in Sockets, DaemonCloses(s)  PROVE LinkTypeOK'
  BY <1>0, <1>7, ConnectionAssumption DEF LinkTypeOK, DaemonCloses
<1> QED
  BY <1>1, <1>2, <1>3, <1>4, <1>5, <1>6, <1>7 DEF Link

LEMMA InitTypes == Init => TypeOK
<1> SUFFICES ASSUME Init  PROVE TypeOK
  OBVIOUS
<1>1. ConfigTypeOK
  BY ConfigAssumption DEF Init, ConfigInit, ConfigTypeOK, Calls
<1>2. InitTypeOK
  BY DEF Init, InitInit, InitTypeOK, Hostnames
<1>3. LinkTypeOK
  <2>1. drops \in 0 .. MaxDrops
    BY ConnectionAssumption DEF Init
  <2> QED
    BY <2>1 DEF Init, LinkTypeOK
<1> QED
  BY <1>1, <1>2, <1>3 DEF TypeOK, LinkTypeOK

LEMMA StepTypes == TypeOK /\ [Next]_vars => TypeOK'
<1> SUFFICES ASSUME ConfigTypeOK, InitTypeOK, LinkTypeOK, [Next]_vars
             PROVE  ConfigTypeOK' /\ InitTypeOK' /\ LinkTypeOK'
  BY DEF TypeOK, LinkTypeOK
<1>1. CASE Configure
  <2>1. InitTypeOK' /\ LinkTypeOK'
    BY <1>1 DEF Configure, initVars, fileVars, linkVars, InitTypeOK, LinkTypeOK
  <2> QED
    BY <1>1, <2>1, ConfigureTypes DEF Configure
<1>2. CASE FirstRun
  <2>1. ConfigTypeOK'
    BY <1>2 DEF FirstRun, configVars, ConfigTypeOK
  <2>2. LinkTypeOK'
    BY <1>2, FirstRunTypes DEF FirstRun, linkVars, LinkTypeOK
  <2> QED
    BY <1>2, <2>1, <2>2, FirstRunTypes
<1>3. CASE ProcessDies
  <2>1. ConfigTypeOK'
    BY <1>3 DEF ProcessDies, configVars, ConfigTypeOK
  <2>2. Ended
    BY <1>3 DEF ProcessDies, Ended
  <2>3. drops' \in 0 .. MaxDrops
    BY <1>3, ConnectionAssumption DEF ProcessDies, HangupTold, HangupUntold, LinkTypeOK
  <2>4. Hangup /\ silent' \subseteq clients \cap (silent \cup {sock})
    BY <1>3 DEF ProcessDies, HangupTold, HangupUntold
  <2>5. LinkTypeOK'
    BY <2>3, <2>4, ConnectionAssumption DEF Hangup, LinkTypeOK
  <2> QED
    BY <2>1, <2>2, <2>5, EndedTypes
<1>4. CASE Link
  <2>1. ConfigTypeOK' /\ InitTypeOK'
    BY <1>4 DEF Link, configVars, initVars, fileVars, ConfigTypeOK, InitTypeOK
  <2> QED
    BY <1>4, <2>1, LinkTypes
<1>5. CASE DaemonDies
  <2>1. InitTypeOK'
    BY <1>5 DEF DaemonDies, fileVars, InitTypeOK
  <2>2. LinkTypeOK'
    BY <1>5, ConnectionAssumption DEF DaemonDies, LinkTypeOK
  <2> QED
    BY <1>5, <2>1, <2>2, DropCallsTypes DEF DaemonDies
<1>6. CASE UNCHANGED vars
  BY <1>6 DEF vars, configVars, initVars, fileVars, linkVars,
              ConfigTypeOK, InitTypeOK, LinkTypeOK
<1> QED
  BY <1>1, <1>2, <1>3, <1>4, <1>5, <1>6 DEF Next

(* Every variable keeps its type, and neither end holds a socket that the    *)
(* other could not have (the agent's first run, its connection, the          *)
(* configuration).                                                           *)
THEOREM TypesCorrect == Spec => []TypeOK
BY InitTypes, StepTypes, PTL DEF Spec

-----------------------------------------------------------------------------
(* The mark is left by the last step of a run whose earlier steps have       *)
(* written the file and started the commands; from the request for the       *)
(* hostname on, both are done.                                               *)
Begun == \E list \in CommandLists \ {None} : list \subseteq begun

Past == mark \/ pc \in {"hostname", "install"}

RunInv == Past => conf = "daemon" /\ Begun

LEMMA InitRun == Init => RunInv
BY DEF Init, InitInit, RunInv, Past

(* What is begun stays begun.                                                *)
LEMMA BegunGrows == begun \subseteq begun' /\ Begun => Begun'
BY DEF Begun

LEMMA RunStepRun ==
  ASSUME TypeOK, RunInv, RunStep
  PROVE  RunInv'
<1>1. CASE FetchCommands
  <2> DEFINE list == GetConfig("init_commands")
  <2>1. CASE list = None
    BY <1>1, <2>1, BegunGrows DEF FetchCommands, RunInv, Past, RunFails, BecomeAgent, fileVars
  <2>2. CASE list # None
    <3>1. list = row.config["init_commands"] /\ row.config \in Config
      BY <2>2 DEF GetConfig, TypeOK, ConfigTypeOK
    <3>2. list \in CommandLists \ {None}
      BY <2>2, <3>1 DEF Config
    <3>3. begun' = begun \cup list /\ conf' = conf /\ conf = "daemon"
      BY <1>1, <2>2 DEF FetchCommands, fileVars
    <3> HIDE DEF list
    <3> QED
      BY <3>2, <3>3 DEF RunInv, Begun
  <2> QED
    BY <2>1, <2>2
<1>2. CASE FetchFails
  BY <1>2, BegunGrows DEF FetchFails, RunInv, Past, RunFails, BecomeAgent, fileVars
<1>3. CASE SetHostname
  BY <1>3, BegunGrows DEF SetHostname, RunInv, Past
<1>4. CASE HostnameFails
  BY <1>4, BegunGrows DEF HostnameFails, RunInv, Past, fileVars
<1>5. CASE Install
  BY <1>5, BegunGrows DEF Install, RunInv, Past
<1>6. CASE InstallFails
  BY <1>6, BegunGrows DEF InstallFails, RunInv, Past, RunFails, BecomeAgent
<1> QED
  BY <1>1, <1>2, <1>3, <1>4, <1>5, <1>6 DEF RunStep

LEMMA StepRun == TypeOK /\ RunInv /\ [Next]_vars => RunInv'
<1> SUFFICES ASSUME TypeOK, RunInv, [Next]_vars
             PROVE  RunInv'
  OBVIOUS
<1>1. CASE UNCHANGED initVars
  BY <1>1, BegunGrows DEF initVars, fileVars, RunInv, Past
<1>2. CASE Start
  BY <1>2, BegunGrows DEF Start, BecomeAgent, RunInv, Past
<1>3. CASE RunStep
  BY <1>3, RunStepRun
<1>4. CASE UNCHANGED <<pc, conf, mark, begun>>
  BY <1>4, BegunGrows DEF RunInv, Past
<1>5. CASE Ended
  BY <1>5, BegunGrows DEF Ended, Crash, Reboot, CommandFails, ProcessEnds, fileVars, RunInv, Past
<1>6. CASE FirstRun
  BY <1>2, <1>3, <1>4, <1>6 DEF FirstRun, InsertRow, CommandEnds, HandlerStep, FindContainer,
                                 ChangeCTHostname, AnswerLost, fileVars
<1>7. CASE ProcessDies
  BY <1>5, <1>7 DEF ProcessDies, Ended
<1> QED
  BY <1>1, <1>4, <1>6, <1>7 DEF Next, Configure, ProcessDies, Link, DaemonDies, fileVars, vars

LEMMA RunInvariant == Spec => []RunInv
<1>1. Init => TypeOK /\ RunInv
  BY InitTypes, InitRun
<1>2. TypeOK /\ RunInv /\ [Next]_vars => (TypeOK /\ RunInv)'
  BY StepTypes, StepRun
<1> QED
  BY <1>1, <1>2, PTL DEF Spec

(* An agent that ran its first run to the end knows its daemon: no later     *)
(* start, crash or reboot makes it read the address from a hostname that has *)
(* been replaced (InitAgent.ts:25-63).                                       *)
THEOREM MarkedAgentKnowsDaemon == Spec => []MarkedKnowsDaemon
<1>1. RunInv => MarkedKnowsDaemon
  BY DEF RunInv, Past, MarkedKnowsDaemon
<1> QED
  BY <1>1, RunInvariant, PTL

(* No first run that missed its init commands counts as done (InitAgent.ts:  *)
(* 50-64).                                                                   *)
THEOREM MarkedAgentHasBegun == Spec => []MarkedHasBegun
<1>1. RunInv => MarkedHasBegun
  BY DEF RunInv, Past, Begun, MarkedHasBegun
<1> QED
  BY <1>1, RunInvariant, PTL

-----------------------------------------------------------------------------
(* A second socket is closed by the very step that adds it.                  *)
OneOpen == \A s, t \in clients \ closing : s = t

LEMMA StepOneOpen == TypeOK /\ OneOpen /\ [Next]_vars => OneOpen'
<1> SUFFICES ASSUME TypeOK, OneOpen, [Next]_vars
             PROVE  OneOpen'
  OBVIOUS
<1>1. CASE UNCHANGED <<clients, closing>>
  BY <1>1 DEF OneOpen
<1>2. CASE Upgrade
  <2>1. CASE clients = {}
    BY <1>2, <2>1 DEF Upgrade, OneOpen
  <2>2. CASE clients # {}
    BY <1>2, <2>2 DEF Upgrade, OneOpen
  <2> QED
    BY <2>1, <2>2
<1>3. ASSUME NEW s \in Sockets, CheckIP(s)  PROVE OneOpen'
  BY <1>3 DEF CheckIP, OneOpen
<1>4. ASSUME NEW s \in Sockets, DaemonCloses(s)  PROVE OneOpen'
  BY <1>4 DEF DaemonCloses, OneOpen
<1>5. CASE DaemonDies
  BY <1>5 DEF DaemonDies, OneOpen
<1>6. CASE Link
  BY <1>1, <1>2, <1>3, <1>4, <1>6 DEF Link, Dial, Refused, AgentCloses, Drop
<1> QED
  BY <1>1, <1>5, <1>6 DEF Next, Configure, FirstRun, ProcessDies, HangupTold, HangupUntold, Hangup, linkVars, vars

(* At every moment the daemon takes messages from at most one socket of an   *)
(* address that it has not closed: the test for another socket and the       *)
(* addition of this one are one turn, whatever the rest of the callback      *)
(* waits for (ContainerWorkspaces.ts:107-134).                               *)
THEOREM AtMostOneListener == Spec => []OneListener
<1>1. Init => TypeOK /\ OneOpen
  BY InitTypes DEF Init, OneOpen
<1>2. TypeOK /\ OneOpen /\ [Next]_vars => (TypeOK /\ OneOpen)'
  BY StepTypes, StepOneOpen
<1>3. TypeOK /\ OneOpen => OneListener
  BY DEF TypeOK, OneOpen, OneListener
<1> QED
  BY <1>1, <1>2, <1>3, PTL DEF Spec
=============================================================================
