----------------------------- MODULE ConfigStore -----------------------------
(***************************************************************************)
(* The runtime configuration: one row of the table `config` with a JSON     *)
(* column, read and updated by the routes of routers/config.ts (290-340)    *)
(* through ContainerWorkspaces.ts (533-583), and read by the agents'        *)
(* initialisation and by the creation of containers.                        *)
(*                                                                          *)
(* The column may hold an object or a text.  What was written by            *)
(* updateConfig is a text: the object is given to Prisma as                 *)
(* JSON.stringify(config).                                                  *)
(***************************************************************************)
CONSTANTS
  Callers,       \* requests for an update, each used once
  OptionSets,    \* values of ct_options
  CommandLists,  \* values of init_commands, as sets: they run side by side
  Seed,          \* the configuration the service is installed with
  None           \* undefined

Fields == {"ct_options", "init_commands"}

(* What the body of an update may hold: only ct_options is required.         *)
Values(f) == IF f = "ct_options" THEN OptionSets ELSE CommandLists \cup {None}

Config == [ct_options : OptionSets, init_commands : CommandLists \cup {None}]

ASSUME ConfigAssumption ==
  /\ None \notin OptionSets \cup CommandLists \cup Config
  /\ Seed \in Config /\ Seed.init_commands # None

VARIABLES
  row,    \* the configuration in the table, and whether it is a text
  call,   \* the requests for an update: how far they are, what they know
  reply   \* what they were answered

configVars == <<row, call, reply>>

Idle == [at |-> "idle"]

Puts == UNION {[at : {"read"}, field : {f}, value : Values(f)] : f \in Fields}

Calls == {Idle} \cup Puts \cup [at : {"write"}, config : Config]

ConfigTypeOK == /\ row \in [config : Config, text : BOOLEAN]
                /\ call \in [Callers -> Calls]
                /\ reply \in [Callers -> {"none", "ok", "dropped"}]

(* As installed, or updated before.                                          *)
ConfigInit == /\ row \in [config : {Seed}, text : BOOLEAN]
              /\ call = [c \in Callers |-> Idle]
              /\ reply = [c \in Callers |-> "none"]

(* getConfig()[f], which is all that the readers do: getCTHardwareOptions    *)
(* and getInitCommands, the GET routes, the creation of a container and the  *)
(* first run of an agent.  A text has no such property.                      *)
GetConfig(f) == IF row.text THEN None ELSE row.config[f]

-----------------------------------------------------------------------------
(* PUT ctoptions and PUT initcommands: the row is asked for.                 *)
Arrive(c) ==
  /\ call[c] = Idle /\ reply[c] = "none"
  /\ \E put \in Puts : call' = [call EXCEPT ![c] = put]
  /\ UNCHANGED <<row, reply>>

(* The first half of udpateCTOptions and updateInitCommands: a property is   *)
(* set in what was read, which is kept across the next await.                *)
SetField(c) ==
  /\ call[c].at = "read" /\ ~row.text
  /\ call' = [call EXCEPT ![c] = [at |-> "write",
                config |-> [row.config EXCEPT ![call[c].field] = call[c].value]]]
  /\ UNCHANGED <<row, reply>>

(* The second half, and the answer.                                          *)
UpdateConfig(c) ==
  /\ call[c].at = "write"
  /\ row' = [config |-> call[c].config, text |-> TRUE]
  /\ call' = [call EXCEPT ![c] = Idle]
  /\ reply' = [reply EXCEPT ![c] = "ok"]

(* Setting a property of a text throws in a handler nobody awaits.           *)
SetFieldThrows(c) == call[c].at = "read" /\ row.text

(* The process ends with all its requests; it is started again.              *)
DropCalls == /\ call' = [c \in Callers |-> Idle]
             /\ reply' = [c \in Callers |->
                            IF call[c] = Idle THEN reply[c] ELSE "dropped"]
             /\ UNCHANGED row

ConfigStep(c) == SetField(c) \/ UpdateConfig(c)
=============================================================================
