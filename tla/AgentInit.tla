------------------------------ MODULE AgentInit ------------------------------
(***************************************************************************)
(* The agent's process from its start to the moment it becomes an Agent     *)
(* (agent/src/app.ts, InitAgent.ts, lib/utils.ts, lib/services), with the   *)
(* two requests it makes to the daemon on the way (routers/agent.ts).       *)
(*                                                                          *)
(* A new container learns where its daemon is from its own hostname, which  *)
(* the daemon encoded at creation.  The first run writes that down, takes   *)
(* the init commands, has the hostname replaced by the container's id,      *)
(* installs the services and leaves a mark.  Without the mark all of it is  *)
(* done again at the next start.                                            *)
(***************************************************************************)
EXTENDS ConfigStore, Naturals, FiniteSets

CONSTANTS
  Env,         \* what may happen beside the code (see EnvEvents)
  MaxHandlers  \* bound: requests for a hostname at once in the daemon

(***************************************************************************)
(*   crash      the process of the agent is ended                           *)
(*   reboot     the container is restarted                                  *)
(*   command    an init command fails                                       *)
(*   install    the download or the unpacking of a service fails            *)
(*   lost       a request to the daemon, or its answer, is lost             *)
(*   drop       a connection is lost, or refused because the daemon is away *)
(***************************************************************************)
EnvEvents == {"crash", "reboot", "command", "install", "lost", "drop"}

ASSUME AgentInitAssumption == Env \subseteq EnvEvents /\ MaxHandlers \in Nat

Commands == UNION (CommandLists \ {None})

(* A hostname is the encoded address of the daemon, or the container's id.   *)
Hostnames == {"address", "id"}

(* How far the daemon's handlers of GET inithostname have come; `live` if    *)
(* the agent still waits for the answer.                                     *)
Handlers == [at : {"find", "rename", "answer"}, live : BOOLEAN]

VARIABLES
  pc,         \* the agent's process
  hostname,   \* of the running container
  pveName,    \* the one in Proxmox: that of the container's next start
  conf,       \* /etc/cw/defaultconf.json
  mark,       \* /var/local/cw/initran holds 1
  vscodeDir,  \* /usr/lib/openvscode-server exists
  running,    \* init commands this process has started and that still run
  begun,      \* history: the init commands that were ever started
  known,      \* the container has its row
  handlers    \* requests for the hostname in the daemon

fileVars == <<hostname, pveName, conf, mark, vscodeDir>>
initVars == <<pc, fileVars, running, begun, known, handlers>>

InitTypeOK ==
  /\ pc \in {"off", "fetch", "hostname", "install", "agent"}
  /\ hostname \in Hostnames /\ pveName \in Hostnames
  /\ conf \in {"none", "daemon", "garbage"}
  /\ mark \in BOOLEAN /\ vscodeDir \in BOOLEAN
  /\ running \subseteq begun /\ begun \subseteq Commands
  /\ known \in BOOLEAN
  /\ handlers \subseteq Handlers

(* A container just created, its row perhaps not yet inserted.               *)
InitInit == /\ pc = "off" /\ hostname = "address" /\ pveName = "address"
            /\ conf = "none" /\ mark = FALSE /\ vscodeDir = FALSE
            /\ running = {} /\ begun = {}
            /\ known \in BOOLEAN /\ handlers = {}

-----------------------------------------------------------------------------
(* The process *)

(* readConfFile and new Agent: a URL that is none makes the constructor of   *)
(* WebSocket throw, in a function nobody awaits.                             *)
BecomeAgent(file) == pc' = IF file = "daemon" THEN "agent" ELSE "off"

(* main catches whatever the first run throws, and goes on.                  *)
RunFails == BecomeAgent(conf)

(* checkIfInitHadRan; if not, the constructor of InitAgent takes the daemon's *)
(* address from the hostname, whatever that is by now, and writes it down.   *)
Start ==
  /\ pc = "off"
  /\ IF mark THEN BecomeAgent(conf) /\ UNCHANGED conf
             ELSE /\ conf' = IF hostname = "address" THEN "daemon" ELSE "garbage"
                  /\ pc' = "fetch"
  /\ UNCHANGED <<hostname, pveName, mark, vscodeDir, running, begun, known, handlers>>

(* getInitCommands and runInitCommands: the commands are started and not     *)
(* waited for; then the hostname is asked for.  Without a list the answer    *)
(* has no body, and parsing it throws.                                       *)
FetchCommands ==
  /\ pc = "fetch" /\ conf = "daemon"
  /\ LET list == GetConfig("init_commands") IN
       IF list = None
       THEN RunFails /\ UNCHANGED <<running, begun, handlers>>
       ELSE /\ Cardinality(handlers) < MaxHandlers
            /\ running' = running \cup list /\ begun' = begun \cup list
            /\ pc' = "hostname"
            /\ handlers' = handlers \cup {[at |-> "find", live |-> TRUE]}
  /\ UNCHANGED <<fileVars, known>>

(* Mutant: the first run goes on without a list, as it does without a        *)
(* hostname.                                                                 *)
FetchFailsUnnoticed == /\ pc = "fetch" /\ (conf # "daemon" \/ "lost" \in Env)
                       /\ pc' = "install"
                       /\ UNCHANGED <<fileVars, running, begun, known, handlers>>

FetchFails == /\ pc = "fetch" /\ (conf # "daemon" \/ "lost" \in Env)
              /\ RunFails
              /\ UNCHANGED <<fileVars, running, begun, known, handlers>>

(* The agent no longer waits for what it asked the daemon.                   *)
Forsaken == {[h EXCEPT !.live = FALSE] : h \in handlers}

(* The answer to inithostname: changeSystemHostname, which needs no restart. *)
SetHostname ==
  /\ pc = "hostname"
  /\ \E h \in handlers : /\ h.at = "answer" /\ h.live
                         /\ handlers' = handlers \ {h}
  /\ hostname' = "id" /\ pc' = "install"
  /\ UNCHANGED <<pveName, conf, mark, vscodeDir, running, begun, known>>

(* initHostname swallows every error: the run goes on with the old hostname. *)
HostnameFails ==
  /\ pc = "hostname" /\ ("lost" \in Env \/ \A h \in handlers : ~h.live)
  /\ handlers' = Forsaken /\ pc' = "install"
  /\ UNCHANGED <<fileVars, running, begun, known>>

(* installServices and setAsRan, which run through without an await.  mkdir  *)
(* fails when there is a directory already.                                  *)
Install ==
  /\ pc = "install" /\ ~vscodeDir
  /\ vscodeDir' = TRUE /\ mark' = TRUE
  /\ BecomeAgent(conf)
  /\ UNCHANGED <<hostname, pveName, conf, running, begun, known, handlers>>

InstallFails ==
  /\ pc = "install" /\ (vscodeDir \/ "install" \in Env)
  /\ \E made \in BOOLEAN : vscodeDir' = (vscodeDir \/ made)
  /\ RunFails
  /\ UNCHANGED <<hostname, pveName, conf, mark, running, begun, known, handlers>>

(* What ends the process: its timers, sockets and requests go with it; the   *)
(* init commands go on, but it hears no more of them.                        *)
ProcessEnds == /\ pc' = "off" /\ running' = {} /\ handlers' = Forsaken
               /\ UNCHANGED <<begun, known>>

CommandEnds(x) == /\ x \in running /\ running' = running \ {x}
                  /\ UNCHANGED <<pc, fileVars, begun, known, handlers>>

(* The callback of exec throws, whenever the command fails and whatever the  *)
(* process does by then; the try around exec has long been left.             *)
CommandFails(x) == /\ "command" \in Env /\ x \in running /\ pc # "install"
                   /\ ProcessEnds /\ UNCHANGED fileVars

Crash == /\ "crash" \in Env /\ pc # "off"
         /\ \E made \in BOOLEAN : vscodeDir' = (vscodeDir \/ (made /\ pc = "install"))
         /\ ProcessEnds
         /\ UNCHANGED <<hostname, pveName, conf, mark>>

Reboot == /\ "reboot" \in Env
          /\ hostname' = pveName
          /\ ProcessEnds
          /\ UNCHANGED <<pveName, conf, mark, vscodeDir>>

-----------------------------------------------------------------------------
(* The daemon: GET inithostname *)

Advance(h, place) == handlers' = (handlers \ {h}) \cup {[h EXCEPT !.at = place]}

(* getContainerID finds the container by the address of the request.         *)
FindContainer(h) == /\ h \in handlers /\ h.at = "find" /\ known
                    /\ Advance(h, "rename")
                    /\ UNCHANGED <<pc, fileVars, running, begun, known>>

(* It reads the id of a row that is not there: a rejection nobody handles.   *)
UnknownContainer == \E h \in handlers : h.at = "find" /\ ~known

(* changeCTHostname; then setCTAsReady, which changes nothing an agent sees  *)
(* (Provisioning has both, and what happens when Proxmox refuses).           *)
ChangeCTHostname(h) ==
  /\ h \in handlers /\ h.at = "rename"
  /\ Advance(h, "answer")
  /\ pveName' = "id"
  /\ UNCHANGED <<pc, hostname, conf, mark, vscodeDir, running, begun, known>>

(* An answer nobody waits for.                                               *)
AnswerLost(h) == /\ h \in handlers /\ h.at = "answer" /\ ~h.live
                 /\ handlers' = handlers \ {h}
                 /\ UNCHANGED <<pc, fileVars, running, begun, known>>

(* addCotainerToDatabase, after the container was created and started.       *)
InsertRow == /\ ~known /\ known' = TRUE
             /\ UNCHANGED <<pc, fileVars, running, begun, handlers>>

HandlerStep(h) == FindContainer(h) \/ ChangeCTHostname(h) \/ AnswerLost(h)

(* What the agent does by itself until it is an Agent.                       *)
RunStep == \/ FetchCommands \/ FetchFails \/ SetHostname \/ HostnameFails
           \/ Install \/ InstallFails

(* The end of the process, for one of three reasons.                         *)
Ended == Crash \/ Reboot \/ \E x \in Commands : CommandFails(x)
=============================================================================
