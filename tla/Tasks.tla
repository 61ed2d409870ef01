-------------------------------- MODULE Tasks --------------------------------
(***************************************************************************)
(* The tasks the daemon gives to the agents of the containers: the requests *)
(* that create them (routers/container.ts, ContainerWorkspaces.ts), their   *)
(* way to the agent and its work (agent/src/ws), the way of its messages    *)
(* back and their handling (lib/ws) and the table `tasks`.                  *)
(*                                                                          *)
(* A task has the id of its row, and here the request that creates it too.  *)
(* Daemon and agent are one Node.js process each: an action is the code     *)
(* between two awaits.  The messages of an agent are handled one beside     *)
(* the other, each with awaits of its own, so their order on the socket     *)
(* says nothing about the order of their effects: messages are sets.        *)
(***************************************************************************)
EXTENDS Naturals, FiniteSets

CONSTANTS
  TaskIds,
  Containers,
  Addrs,
  MaxCommands,    \* the longest list of commands a request may hold
  RejectionKills, \* an unhandled rejection ends the process (Node.js >= 15)
  Env,            \* what the environment does (see EnvEvents)
  None

(***************************************************************************)
(*   drop       a connection between an agent and the daemon is lost        *)
(*   agentCrash the agent of a container ends (and connects again)          *)
(*   replace    containers are deleted, and others get their address or id  *)
(*   crash      the daemon ends and is started again                        *)
(*   throw      a call to MySQL or Proxmox rejects without taking effect    *)
(***************************************************************************)
EnvEvents == {"drop", "agentCrash", "replace", "crash", "throw"}

Actions == {"shell_exec", "send_logs", "change_password",
            "get_service_auth_token", "shell_exec_sync"}

(* What a request is about: the container, and the address read for it. *)
Given == [action : Actions, ct : Containers, to : Addrs]

ASSUME TasksAssumption ==
  /\ MaxCommands \in Nat /\ MaxCommands > 0
  /\ None \notin Addrs /\ None \notin Containers /\ None \notin Given
  /\ RejectionKills \in BOOLEAN /\ Env \subseteq EnvEvents

(* The callers that wait for what the agent answers. *)
Waiting == {"send_logs", "get_service_auth_token"}

Pcs == {"idle", "connected", "recheck", "create", "send", "wait", "rejected", "done"}

Replies == {"none", "ok", "data", "not found", "conflict", "error",
            "silent", "dropped"}

(* success, an error with its report, a success without content, or word   *)
(* that a script is running.                                               *)
Outcomes == {"success", "error", "empty", "running"}

Messages == [task : TaskIds, n : 1 .. MaxCommands, out : Outcomes, from : Addrs]

Jobs == [task : TaskIds, n : 1 .. MaxCommands, out : Outcomes, from : Addrs,
         pc : {"checkIp", "handle", "finish", "readRow", "writeRow"},
         ended : BOOLEAN]    \* end_time as errorTask read it

Works == [task : TaskIds, at : Containers, left : 1 .. MaxCommands]

VARIABLES
  addr,     \* Proxmox: the address of every container there is
  again,    \* history: the tasks whose container was deleted and its id given again
  wss,      \* the daemon's clients: address -> the container connected from it
  pc,       \* the request of every task
  task,     \* its action, its container and the address read for it
  reply,    \* what the request was answered
  rows,     \* table tasks: the ids that have a row
  ok,       \* table tasks: the rows whose status is 'OK'
  ended,    \* table tasks: the rows whose end_time is set
  errored,  \* table tasks: the rows whose error is set
  sent,     \* tasks on their way to an agent
  work,     \* lists of commands the agents are executing
  msgs,     \* messages on their way to the daemon
  jobs,     \* messages the daemon is handling
  kept,     \* history: the tasks an agent was given and of which nothing was lost
  ran       \* history: which agent has said something about which task

table == <<rows, ok, ended, errored>>
calls == <<pc, task, reply>>
net   == <<sent, msgs, wss, kept>>
agent == <<work, ran>>
pve   == <<addr, again>>
vars  == <<pve, calls, table, net, agent, jobs>>

TypeOK ==
  /\ addr \in [Containers -> Addrs \cup {None}]
  /\ wss \in [Addrs -> Containers \cup {None}]
  /\ pc \in [TaskIds -> Pcs] /\ reply \in [TaskIds -> Replies]
  /\ task \in [TaskIds -> Given \cup {None}]
  /\ \A t \in TaskIds : /\ pc[t] # "idle" <=> task[t] # None
                        /\ pc[t] = "send" => t \in rows
                        /\ reply[t] = "data" => pc[t] = "done"
  /\ rows \subseteq TaskIds /\ \A t \in rows : task[t] # None
  /\ ok \subseteq rows /\ ended \subseteq rows /\ errored \subseteq rows
  /\ sent \subseteq rows
  /\ work \subseteq Works /\ \A w \in work : w.task \in rows
  /\ msgs \subseteq Messages /\ jobs \subseteq Jobs
  /\ \A m \in msgs \cup jobs : m.task \in rows
  /\ ran \subseteq rows \X Containers
  /\ again \subseteq TaskIds /\ kept \subseteq rows

Init == /\ addr = [c \in Containers |-> None]
        /\ wss = [a \in Addrs |-> None]
        /\ pc = [t \in TaskIds |-> "idle"] /\ reply = [t \in TaskIds |-> "none"]
        /\ task = [t \in TaskIds |-> None]
        /\ rows = {} /\ ok = {} /\ ended = {} /\ errored = {}
        /\ sent = {} /\ work = {} /\ msgs = {} /\ jobs = {} /\ ran = {}
        /\ again = {} /\ kept = {}

-----------------------------------------------------------------------------
(* How a request goes on and ends. *)

At(t, p) == pc[t] = p

Goto(t, p) == pc' = [pc EXCEPT ![t] = p] /\ UNCHANGED <<task, reply>>

Answer(t, code) == /\ pc' = [pc EXCEPT ![t] = "done"]
                   /\ reply' = [reply EXCEPT ![t] = code]
                   /\ UNCHANGED task

(* The process ends: requests, waiters, handlers and connections go with it. *)
Die == /\ pc' = [t \in TaskIds |-> IF pc[t] = "idle" THEN "idle" ELSE "done"]
       /\ reply' = [t \in TaskIds |->
                      IF pc[t] \in {"idle", "done"} THEN reply[t] ELSE "dropped"]
       /\ kept' = kept \ (sent \cup {m.task : m \in msgs \cup jobs})
       /\ jobs' = {} /\ sent' = {} /\ msgs' = {}
       /\ wss' = [a \in Addrs |-> None]
       /\ UNCHANGED task

(* A promise that nobody awaits in a try rejects. *)
Unhandled(t) == IF RejectionKills THEN Die
                                  ELSE Answer(t, "dropped") /\ UNCHANGED <<net, jobs>>

(* One caller of getServiceAuth has a try (vscode.ts:20, 43): it answers an *)
(* Error, and nothing when what was rejected is no Error.                    *)
Rejected(t, isError) ==
  \/ Unhandled(t)
  \/ /\ task[t].action = "get_service_auth_token"
     /\ Answer(t, IF isError THEN "error" ELSE "silent") /\ UNCHANGED <<net, jobs>>

-----------------------------------------------------------------------------
(* The requests: container.ts, getLogs, getServiceAuth, shell_exec_sync *)

(* getContainerIP reads the address; the caller goes on when it was found. *)
Request(t, a, c) ==
  /\ At(t, "idle") /\ addr[c] \in Addrs
  /\ task' = [task EXCEPT ![t] = [action |-> a, ct |-> c, to |-> addr[c]]]
  /\ pc' = [pc EXCEPT ![t] =
              IF a \in {"send_logs", "change_password"} THEN "connected" ELSE "create"]
  /\ UNCHANGED <<pve, reply, table, net, agent, jobs>>

(* GET /logs and PUT /changepassword look for the agent first. *)
IfConnected(t) ==
  /\ At(t, "connected")
  /\ \/ wss[task[t].to] = None /\ Answer(t, "conflict")
     \/ /\ wss[task[t].to] # None
        /\ Goto(t, IF task[t].action = "change_password" THEN "recheck" ELSE "create")
  /\ UNCHANGED <<pve, table, net, agent, jobs>>

(* changeContainerPassword asks Proxmox for the address again. *)
Recheck(t) ==
  /\ At(t, "recheck")
  /\ LET a == addr[task[t].ct] IN
       \/ /\ a \in Addrs /\ wss[a] # None
          /\ task' = [task EXCEPT ![t].to = a]
          /\ pc' = [pc EXCEPT ![t] = "create"] /\ UNCHANGED reply
       \/ ~(a \in Addrs /\ wss[a] # None) /\ Answer(t, "conflict")
  /\ UNCHANGED <<pve, table, net, agent, jobs>>

CreateTask(t) ==
  /\ At(t, "create") /\ Goto(t, "send")
  /\ rows' = rows \cup {t}
  /\ UNCHANGED <<pve, ok, ended, errored, net, agent, jobs>>

(* The listener and the timer are set in the same turn as the message goes. *)
SendTaskToAgent(t) ==
  /\ At(t, "send")
  /\ \/ /\ wss[task[t].to] # None
        /\ sent' = sent \cup {t} /\ kept' = kept \cup {t}
        /\ IF task[t].action \in Waiting THEN Goto(t, "wait") ELSE Answer(t, "ok")
        /\ UNCHANGED <<wss, msgs, jobs>>
     \/ /\ wss[task[t].to] = None
        /\ IF task[t].action \in {"shell_exec", "shell_exec_sync"}
             THEN Answer(t, "not found") /\ UNCHANGED <<net, jobs>>
             ELSE Rejected(t, TRUE)
  /\ UNCHANGED <<pve, table, agent>>

(* Mutant: the caller is released only when the agent has gone. *)
TimeoutWhenGone(t) == /\ At(t, "wait") /\ wss[task[t].to] = None
                      /\ Goto(t, "rejected")
                      /\ UNCHANGED <<pve, table, net, agent, jobs>>

Timeout(t) == /\ At(t, "wait") /\ Goto(t, "rejected")
              /\ UNCHANGED <<pve, table, net, agent, jobs>>

(* getLogs and getServiceAuth reject with a string, which is no Error. *)
Reject(t) ==
  /\ At(t, "rejected") /\ Rejected(t, FALSE)
  /\ UNCHANGED <<pve, table, agent>>

-----------------------------------------------------------------------------
(* The agent: agent/src/ws/MessageRouting.ts *)

(* What the agent may say about a task it does not run command by command. *)
SaidOf(action) == CASE action = "send_logs"              -> {"success", "empty"}
                    [] action = "change_password"        -> {"success", "error"}
                    [] action = "get_service_auth_token" -> {"success", "error"}
                    [] action = "shell_exec_sync"        -> {"running", "error"}

(* The agent of c says so on the connection it has now, if it has one. *)
SendData(t, n, out, c) ==
  /\ msgs' = msgs \cup {[task |-> t, n |-> n, out |-> out, from |-> a] :
                          a \in {b \in Addrs : wss[b] = c}}
  /\ ran' = ran \cup {<<t, c>>}
  /\ kept' = IF \E a \in Addrs : wss[a] = c THEN kept ELSE kept \ {t}

(* What was sent is lost with its connection (Disconnect), so there is one. *)
Receive(t) ==
  /\ t \in sent /\ wss[task[t].to] # None /\ sent' = sent \ {t}
  /\ LET c == wss[task[t].to] IN
       IF task[t].action = "shell_exec"
         THEN /\ \E n \in 0 .. MaxCommands :
                   /\ work' = work \cup {[task |-> t, at |-> c, left |-> m] : m \in {n} \ {0}}
                   /\ kept' = IF n = 0 THEN kept \ {t} ELSE kept
              /\ UNCHANGED <<msgs, ran>>
         ELSE /\ \E out \in SaidOf(task[t].action) : SendData(t, 1, out, c)
              /\ UNCHANGED work
  /\ UNCHANGED <<pve, wss, calls, table, jobs>>

(* Mutant: one command more than the list has. *)
RunCommandTwice(w) ==
  /\ w \in work
  /\ \E out \in {"success", "error"} : SendData(w.task, w.left, out, w.at)
  /\ work' = (work \ {w}) \cup {[w EXCEPT !.left = @ - 1]}
  /\ UNCHANGED <<pve, wss, calls, table, sent, jobs>>

(* Each command is reported for itself, and a failed one ends nothing. *)
RunCommand(w) ==
  /\ w \in work
  /\ \E out \in {"success", "error"} : SendData(w.task, w.left, out, w.at)
  /\ work' = (work \ {w}) \cup {[w EXCEPT !.left = m] : m \in {w.left - 1} \ {0}}
  /\ UNCHANGED <<pve, wss, calls, table, sent, jobs>>

-----------------------------------------------------------------------------
(* The daemon handles what an agent says: lib/ws *)

(* handleMessage and getTask of wsCommand. *)
HandleMessage(m) ==
  /\ m \in msgs /\ msgs' = msgs \ {m}
  /\ jobs' = jobs \cup {[task |-> m.task, n |-> m.n, out |-> m.out, from |-> m.from,
                         pc |-> "checkIp", ended |-> FALSE]}
  /\ UNCHANGED <<pve, wss, sent, kept, calls, table, agent>>

Next1(j, p) == jobs' = (jobs \ {j}) \cup {[j EXCEPT !.pc = p]}
Ends(j) == jobs' = jobs \ {j}

(* Mutant: the sender is not compared. *)
CheckSenderIgnored(j) ==
  /\ j \in jobs /\ j.pc = "checkIp" /\ Next1(j, "handle")
  /\ UNCHANGED <<pve, calls, table, net, agent>>

(* The sender must have the address Proxmox gives for the task's container. *)
CheckSender(j) ==
  /\ j \in jobs /\ j.pc = "checkIp"
  /\ IF addr[task[j.task].ct] = j.from
       THEN Next1(j, "handle") /\ UNCHANGED kept
       ELSE Ends(j) /\ kept' = kept \ {j.task}
  /\ UNCHANGED <<pve, calls, table, sent, msgs, wss, agent>>

(* wsEventEmitter.emit: nobody listens any more when the caller has left. *)
Emit(t, out) ==
  IF At(t, "wait")
    THEN IF out = "success" THEN Answer(t, "data") ELSE Goto(t, "rejected")
    ELSE UNCHANGED calls

(* Mutant: no return between the branches of an error and of a success. *)
HandleBoth(j) ==
  /\ j \in jobs /\ j.pc = "handle"
  /\ IF j.out = "running" THEN Ends(j)
     ELSE jobs' = (jobs \ {j}) \cup {[j EXCEPT !.pc = p] :
                     p \in {"finish"} \cup IF j.out = "error" THEN {"readRow"} ELSE {}}
  /\ IF task[j.task].action \in Waiting THEN Emit(j.task, j.out) ELSE UNCHANGED calls
  /\ UNCHANGED <<pve, table, net, agent>>

(* Mutant: what has no content is taken for word that a script is running. *)
HandleContent(j) ==
  /\ j \in jobs /\ j.pc = "handle"
  /\ \/ j.out = "error" /\ Next1(j, "readRow")
     \/ j.out = "success" /\ Next1(j, "finish")
     \/ j.out \in {"empty", "running"} /\ Ends(j)
  /\ IF task[j.task].action \in Waiting THEN Emit(j.task, j.out) ELSE UNCHANGED calls
  /\ UNCHANGED <<pve, table, net, agent>>

(* The handlers of MessageRouting, which all begin with getTask. *)
Handle(j) ==
  /\ j \in jobs /\ j.pc = "handle"
  /\ \/ j.out = "error" /\ Next1(j, "readRow")
     \/ j.out \in {"success", "empty"} /\ Next1(j, "finish")
     \/ j.out = "running" /\ Ends(j)
  /\ IF task[j.task].action \in Waiting THEN Emit(j.task, j.out) ELSE UNCHANGED calls
  /\ UNCHANGED <<pve, table, net, agent>>

FinishTask(j) ==
  /\ j \in jobs /\ j.pc = "finish" /\ Ends(j)
  /\ ok' = ok \cup {j.task} /\ ended' = ended \cup {j.task}
  /\ UNCHANGED <<pve, calls, rows, errored, net, agent>>

(* errorTask reads the whole row ... *)
ErrorTask(j) ==
  /\ j \in jobs /\ j.pc = "readRow"
  /\ jobs' = (jobs \ {j}) \cup {[j EXCEPT !.pc = "writeRow", !.ended = j.task \in ended]}
  /\ UNCHANGED <<pve, calls, table, net, agent>>

(* ... and updateTask writes it back, all columns but the status. *)
UpdateTask(j) ==
  /\ j \in jobs /\ j.pc = "writeRow" /\ Ends(j)
  /\ errored' = errored \cup {j.task}
  /\ ended' = IF j.ended THEN ended \cup {j.task} ELSE ended \ {j.task}
  /\ UNCHANGED <<pve, calls, rows, ok, net, agent>>

-----------------------------------------------------------------------------
(* What happens around them. *)

(* The agent of c opens its socket (again). *)
Connect(c) ==
  /\ addr[c] \in Addrs /\ wss[addr[c]] = None
  /\ wss' = [wss EXCEPT ![addr[c]] = c]
  /\ UNCHANGED <<pve, calls, table, sent, msgs, kept, agent, jobs>>

(* The tasks of which something is on its way in a connection. *)
OnWay(a) == {t \in sent : task[t].to = a} \cup {m.task : m \in {n \in msgs : n.from = a}}

(* With a connection goes what is on its way in it. *)
Disconnect(a) ==
  /\ wss' = [wss EXCEPT ![a] = None]
  /\ sent' = {t \in sent : task[t].to # a}
  /\ msgs' = {m \in msgs : m.from # a}

Drop(a) ==
  /\ "drop" \in Env /\ wss[a] # None /\ Disconnect(a)
  /\ kept' = kept \ OnWay(a)
  /\ UNCHANGED <<pve, calls, table, agent, jobs>>

(* The agent of c ends, with its connection and the lists it works on. *)
AgentEnds(c) ==
  /\ Disconnect(addr[c])
  /\ work' = {w \in work : w.at # c}
  /\ kept' = kept \ (OnWay(addr[c]) \cup {w.task : w \in {v \in work : v.at = c}})

(* Among other things: changePassword throws in its callback. *)
AgentCrash(c) ==
  /\ "agentCrash" \in Env /\ addr[c] \in Addrs /\ AgentEnds(c)
  /\ UNCHANGED <<pve, calls, table, ran, jobs>>

(* Provisioning: an address belongs to one container at a time.  Proxmox    *)
(* gives the lowest free id, one that was given back too.                   *)
CreateContainer(c, a) ==
  /\ addr[c] = None /\ \A d \in Containers : addr[d] # a
  /\ addr' = [addr EXCEPT ![c] = a]
  /\ again' = again \cup {t \in TaskIds : task[t] # None /\ task[t].ct = c}
  /\ UNCHANGED <<calls, table, net, agent, jobs>>

DeleteContainer(c) ==
  /\ "replace" \in Env /\ addr[c] \in Addrs
  /\ AgentEnds(c)
  /\ addr' = [addr EXCEPT ![c] = None]
  /\ UNCHANGED <<again, calls, table, ran, jobs>>

Crash == "crash" \in Env /\ Die /\ UNCHANGED <<pve, table, agent>>

(* A call of a request rejects with an Error; shell_exec_sync has a try. *)
CallThrows(t) ==
  /\ "throw" \in Env /\ pc[t] \in {"recheck", "create"}
  /\ IF task[t].action = "shell_exec_sync"
       THEN Answer(t, "error") /\ UNCHANGED <<net, jobs>>
       ELSE Rejected(t, TRUE)
  /\ UNCHANGED <<pve, table, agent>>

(* A call of a handler rejects: wsCommand and the handlers are not awaited. *)
JobThrows(j) ==
  /\ "throw" \in Env /\ j \in jobs
  /\ IF RejectionKills THEN Die
                       ELSE /\ Ends(j) /\ kept' = kept \ {j.task}
                            /\ UNCHANGED <<calls, sent, msgs, wss>>
  /\ UNCHANGED <<pve, table, agent>>

-----------------------------------------------------------------------------
(* The next turn of the request of t, and of the handler of a message. *)
CallStep(t) == \/ IfConnected(t) \/ Recheck(t) \/ CreateTask(t)
               \/ SendTaskToAgent(t) \/ Reject(t)

JobStep(j) == \/ CheckSender(j) \/ Handle(j) \/ FinishTask(j)
              \/ ErrorTask(j) \/ UpdateTask(j)

Environment ==
  \/ \E c \in Containers : Connect(c) \/ AgentCrash(c) \/ DeleteContainer(c)
  \/ \E c \in Containers, a \in Addrs : CreateContainer(c, a)
  \/ \E a \in Addrs : Drop(a)
  \/ Crash

Next ==
  \/ \E t \in TaskIds : \/ \E a \in Actions, c \in Containers : Request(t, a, c)
                        \/ CallStep(t) \/ Timeout(t) \/ Receive(t) \/ CallThrows(t)
  \/ \E w \in work : RunCommand(w)
  \/ \E m \in msgs : HandleMessage(m)
  \/ \E j \in jobs : JobStep(j) \/ JobThrows(j)
  \/ Environment

Spec == Init /\ [][Next]_vars

(* MySQL and Proxmox answer, and timers fire; agents need do nothing. *)
FairSpec == Spec /\ \A t \in TaskIds : WF_vars(CallStep(t)) /\ WF_vars(Timeout(t))

-----------------------------------------------------------------------------
(* Properties *)

(* What the daemon records about a task, and what it returns to a caller who *)
(* waits, was said by the agent of the very container the task is for, even  *)
(* when its address went to another container meanwhile (wsCommand.ts:23-28).*)
(* The test there knows ids and addresses only, so the exception is a task   *)
(* whose container was deleted and its id given again.                       *)
OnlyItsAgentReports ==
  \A t \in TaskIds \ again :
    t \in ok \cup errored \/ reply[t] = "data" => <<t, task[t].ct>> \in ran

(* A task the agent answers once has one outcome, and a finished one has an  *)
(* end_time (ContainerWorkspaces.ts:321-343).                                *)
OneOutcome ==
  \A t \in rows : task[t].action # "shell_exec" =>
    /\ ~(t \in ok /\ t \in errored)
    /\ t \in ok => t \in ended

(* Something about a task is still to come. *)
Underway(t) == \/ t \in sent \/ \E w \in work : w.task = t
               \/ \E m \in msgs \cup jobs : m.task = t

(* A task that was given to an agent and of which nothing was lost (with a   *)
(* connection, an agent, the process, a failed call or a sender refused) has *)
(* an outcome once nothing about it is underway: the text of an error, or    *)
(* status OK and an end_time, whatever errorTask wrote back of the row it    *)
(* read before (ContainerWorkspaces.ts:324-330).  shell_exec_sync is left    *)
(* out: that its script is running is recorded nowhere.                      *)
OutcomesAreRecorded ==
  \A t \in kept : task[t].action # "shell_exec_sync" /\ ~Underway(t) =>
    t \in errored \/ (t \in ok /\ t \in ended)

(* Every request is answered, or ended by the end of the process.            *)
RequestsEnd == \A t \in TaskIds : pc[t] # "idle" ~> pc[t] = "done"

A == INSTANCE AgentCall WITH
       Calls    <- TaskIds,
       pending  <- {t \in TaskIds : At(t, "wait")},
       answered <- {t \in TaskIds : reply[t] = "data"},
       said     <- {t \in rows : <<t, task[t].ct>> \in ran},
       replaced <- again

(* A caller that waits for an agent gets what that agent said (or, when the  *)
(* container's id was given again meanwhile, what somebody said) or a        *)
(* failure, and does not wait for ever.                                      *)
ImplementsAgentCall == A!Spec

-----------------------------------------------------------------------------
(* Why OnlyItsAgentReports holds. *)

(* An address belongs to one container, and a connection to its holder. *)
AddressesAreOwn ==
  /\ \A c, d \in Containers : addr[c] \in Addrs /\ addr[c] = addr[d] => c = d
  /\ \A a \in Addrs : wss[a] # None => addr[wss[a]] = a

(* A message that is not from the task's container cannot pass the test of  *)
(* its sender while no other container has the id ...                       *)
SendersAreTold ==
  \A m \in msgs \cup {j \in jobs : j.pc = "checkIp"} : m.task \notin again =>
    \E c \in Containers :
      /\ <<m.task, c>> \in ran
      /\ c # task[m.task].ct => addr[task[m.task].ct] # m.from

(* ... and a message that has passed it is from the task's container. *)
SendersAreChecked ==
  \A j \in jobs : j.pc # "checkIp" /\ j.task \notin again =>
    <<j.task, task[j.task].ct>> \in ran

(* What every step relies on and leaves behind. *)
ReportsInv == /\ AddressesAreOwn
              /\ SendersAreTold /\ SendersAreChecked
              /\ OnlyItsAgentReports
=============================================================================
