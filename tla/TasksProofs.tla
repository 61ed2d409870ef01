----------------------------- MODULE TasksProofs -----------------------------
(***************************************************************************)
(* What holds of Tasks for every number of tasks, containers, addresses     *)
(* and commands, whatever the environment does.                             *)
(***************************************************************************)
EXTENDS Tasks, TLAPS

USE DEF At, Goto, calls, table, net, agent, pve

-----------------------------------------------------------------------------
(* Types *)

(* TypeOK in its parts: the cluster, the requests, the table and what is on *)
(* its way or being worked on.                                              *)
WorldOK == addr \in [Containers -> Addrs \cup {None}] /\ again \subseteq TaskIds
ConnsOK == wss \in [Addrs -> Containers \cup {None}]
CallsOK ==
  /\ pc \in [TaskIds -> Pcs] /\ reply \in [TaskIds -> Replies]
  /\ task \in [TaskIds -> Given \cup {None}]
  /\ \A t \in TaskIds : /\ pc[t] # "idle" <=> task[t] # None
                        /\ pc[t] = "send" => t \in rows
                        /\ reply[t] = "data" => pc[t] = "done"
TableOK ==
  /\ rows \subseteq TaskIds /\ \A t \in rows : task[t] # None
  /\ ok \subseteq rows /\ ended \subseteq rows /\ errored \subseteq rows
WaysOK ==
  /\ sent \subseteq rows /\ kept \subseteq rows
  /\ msgs \subseteq Messages /\ jobs \subseteq Jobs
  /\ \A m \in msgs \cup jobs : m.task \in rows
WorkOK ==
  /\ work \subseteq Works /\ \A w \in work : w.task \in rows
  /\ ran \subseteq rows \X Containers

(* TypeOK is its parts, before and after a step. *)
LEMMA TypeParts ==
  /\ TypeOK <=> WorldOK /\ ConnsOK /\ CallsOK /\ TableOK /\ WaysOK /\ WorkOK
  /\ TypeOK' <=> (WorldOK /\ ConnsOK /\ CallsOK /\ TableOK /\ WaysOK /\ WorkOK)'
BY DEF TypeOK, WorldOK, ConnsOK, CallsOK, TableOK, WaysOK, WorkOK

(* None is not a record of a task. *)
LEMMA TaskFields ==
  ASSUME TypeOK, NEW t \in TaskIds, task[t] # None
  PROVE  /\ task[t] \in Given
         /\ task[t].action \in Actions /\ task[t].ct \in Containers /\ task[t].to \in Addrs
BY DEF TypeOK, Given

(* The parts that do not change keep their types. *)
LEMMA SameTable == ASSUME TypeOK, UNCHANGED <<task, table>> PROVE TableOK'
BY DEF TypeOK, TableOK

(* Work that goes on, is given up or stays keeps its type. *)
LEMMA SameWork ==
  ASSUME TypeOK, rows \subseteq rows', work' \subseteq work, ran' = ran
  PROVE  WorkOK'
BY DEF TypeOK, WorkOK

(* Messages and jobs that are lost or stay keep their types. *)
LEMMA FewerWays ==
  ASSUME TypeOK, rows \subseteq rows', sent' \subseteq sent, msgs' \subseteq msgs, jobs' \subseteq jobs,
         kept' \subseteq kept
  PROVE  WaysOK'
BY DEF TypeOK, WaysOK

(* A request that is answered. *)
LEMMA AnswerType ==
  ASSUME TypeOK, NEW t \in TaskIds, task[t] # None, NEW code \in Replies, Answer(t, code),
         rows \subseteq rows'
  PROVE  CallsOK' /\ UNCHANGED task
BY DEF TypeOK, CallsOK, Answer, Pcs

(* A request that goes on. *)
LEMMA GotoType ==
  ASSUME TypeOK, NEW t \in TaskIds, task[t] # None, pc[t] # "done",
         NEW p \in Pcs, p # "idle", Goto(t, p), rows \subseteq rows', p = "send" => t \in rows'
  PROVE  CallsOK' /\ UNCHANGED task
BY DEF TypeOK, CallsOK

(* The end of the process. *)
LEMMA DieType ==
  ASSUME TypeOK, Die, rows \subseteq rows'
  PROVE  /\ CallsOK' /\ ConnsOK' /\ UNCHANGED task
         /\ sent' = {} /\ msgs' = {} /\ jobs' = {} /\ kept' \subseteq kept
BY DEF TypeOK, CallsOK, ConnsOK, Die, Pcs, Replies

(* An unhandled rejection, whether or not it ends the process. *)
LEMMA UnhandledType ==
  ASSUME TypeOK, NEW t \in TaskIds, task[t] # None, Unhandled(t) \/ \E b \in BOOLEAN : Rejected(t, b),
         rows \subseteq rows'
  PROVE  /\ CallsOK' /\ ConnsOK' /\ UNCHANGED task
         /\ sent' \subseteq sent /\ msgs' \subseteq msgs /\ jobs' \subseteq jobs /\ kept' \subseteq kept
<1>1. CASE Die BY <1>1, DieType
<1>2. ASSUME NEW code \in Replies, Answer(t, code) /\ UNCHANGED <<net, jobs>>
      PROVE  /\ CallsOK' /\ ConnsOK' /\ UNCHANGED task
             /\ sent' \subseteq sent /\ msgs' \subseteq msgs /\ jobs' \subseteq jobs /\ kept' \subseteq kept
  <2>1. ConnsOK' BY <1>2 DEF TypeOK, ConnsOK
  <2> QED BY <1>2, <2>1, AnswerType
<1>3. Die \/ \E code \in Replies : Answer(t, code) /\ UNCHANGED <<net, jobs>>
  BY DEF Unhandled, Rejected, Replies
<1> QED BY <1>1, <1>2, <1>3

(* What an agent says has the type of a message. *)
LEMMA SendDataType ==
  ASSUME TypeOK, NEW t \in rows, NEW n \in 1 .. MaxCommands, NEW out \in Outcomes,
         NEW c \in Containers, SendData(t, n, out, c),
         sent' \subseteq sent, kept' \subseteq kept, UNCHANGED <<jobs, rows>>
  PROVE  /\ WaysOK'
         /\ ran' \subseteq rows' \X Containers
<1>1. \A m \in msgs' : m \in Messages /\ m.task \in rows
  BY DEF SendData, TypeOK, Messages
<1> QED BY <1>1 DEF SendData, TypeOK, WaysOK

(* The steps of a request keep the types. *)
LEMMA CallTypes ==
  ASSUME TypeOK, NEW t \in TaskIds,
         \/ \E a \in Actions, c \in Containers : Request(t, a, c)
         \/ CallStep(t) \/ Timeout(t) \/ CallThrows(t)
  PROVE  TypeOK'
<1>0. ConnsOK /\ WorldOK /\ WorkOK BY TypeParts
<1>a. pc[t] # "idle" => task[t] # None BY DEF TypeOK
<1>1. ASSUME NEW a \in Actions, NEW c \in Containers, Request(t, a, c) PROVE TypeOK'
  <2> DEFINE g == [action |-> a, ct |-> c, to |-> addr[c]]
  <2>1. g \in Given /\ g # None
    BY <1>1, TasksAssumption DEF Request, Given
  <2>2. /\ task' = [task EXCEPT ![t] = g] /\ reply' = reply /\ pc[t] = "idle"
        /\ pc' = [pc EXCEPT ![t] = "connected"] \/ pc' = [pc EXCEPT ![t] = "create"]
        /\ UNCHANGED <<pve, rows, ok, ended, errored, net, agent, jobs>>
    BY <1>1 DEF Request
  <2> HIDE DEF g
  <2>3. CallsOK' BY <2>1, <2>2 DEF CallsOK, TypeOK, Pcs
  <2>4. TableOK' BY <2>1, <2>2 DEF TableOK, TypeOK
  <2> QED BY <2>2, <2>3, <2>4, <1>0, TypeParts, FewerWays, SameWork DEF ConnsOK, WorldOK
<1>2. CASE IfConnected(t)
  <2>1. task[t] # None BY <1>2, <1>a DEF IfConnected
  <2>2. CallsOK' /\ UNCHANGED task
    BY <1>2, <2>1, AnswerType, GotoType DEF IfConnected, Replies, Pcs
  <2> QED BY <1>2, <2>2, <1>0, TypeParts, SameTable, FewerWays, SameWork
          DEF IfConnected, ConnsOK, WorldOK
<1>3. CASE Recheck(t)
  <2>1. task[t] # None BY <1>3, <1>a DEF Recheck
  <2>2. CASE \E a \in Addrs : /\ task' = [task EXCEPT ![t].to = a]
                              /\ pc' = [pc EXCEPT ![t] = "create"] /\ UNCHANGED reply
    <3>1. PICK a \in Addrs : task' = [task EXCEPT ![t].to = a] BY <2>2
    <3>2. [task[t] EXCEPT !.to = a] \in Given /\ [task[t] EXCEPT !.to = a] # None
      BY <2>1, TaskFields, TasksAssumption DEF Given
    <3>3. task' = [task EXCEPT ![t] = [task[t] EXCEPT !.to = a]]
      BY <3>1 DEF TypeOK
    <3>4. CallsOK' BY <1>3, <2>2, <3>2, <3>3 DEF CallsOK, TypeOK, Pcs, Recheck
    <3>5. TableOK' BY <1>3, <3>2, <3>3 DEF TableOK, TypeOK, Recheck
    <3> QED BY <1>3, <3>4, <3>5, <1>0, TypeParts, FewerWays, SameWork
            DEF Recheck, ConnsOK, WorldOK
  <2>3. CASE Answer(t, "conflict")
    <3>1. CallsOK' /\ UNCHANGED task
      BY <1>3, <2>1, <2>3, AnswerType DEF Replies, Recheck
    <3> QED BY <1>3, <3>1, <1>0, TypeParts, SameTable, FewerWays, SameWork
            DEF Recheck, ConnsOK, WorldOK
  <2> QED BY <1>3, <2>2, <2>3 DEF Recheck
<1>4. CASE CreateTask(t)
  <2>1. task[t] # None BY <1>4, <1>a DEF CreateTask
  <2>2. CallsOK' /\ UNCHANGED task
    BY <1>4, <2>1, GotoType DEF CreateTask, Pcs
  <2>3. TableOK' BY <1>4, <2>1, <2>2 DEF CreateTask, TableOK, TypeOK
  <2> QED BY <1>4, <2>2, <2>3, <1>0, TypeParts, FewerWays, SameWork
          DEF CreateTask, ConnsOK, WorldOK
<1>5. CASE SendTaskToAgent(t)
  <2>1. task[t] # None /\ pc[t] # "done" BY <1>5, <1>a DEF SendTaskToAgent
  <2>2. UNCHANGED <<pve, table, agent>> BY <1>5 DEF SendTaskToAgent
  <2>3. CASE /\ sent' = sent \cup {t} /\ kept' = kept \cup {t} /\ UNCHANGED <<wss, msgs, jobs>>
             /\ Goto(t, "wait") \/ Answer(t, "ok")
    <3>1. CallsOK' /\ UNCHANGED task
      BY <2>1, <2>2, <2>3, AnswerType, GotoType DEF Replies, Pcs
    <3>2. t \in rows BY <1>5 DEF SendTaskToAgent, TypeOK
    <3> QED BY <2>2, <2>3, <3>1, <3>2, <1>0, TypeParts, SameTable, SameWork
            DEF ConnsOK, WorldOK, WaysOK
  <2>4. CASE \/ Answer(t, "not found") /\ UNCHANGED <<net, jobs>>
             \/ Rejected(t, TRUE)
    <3>1. /\ CallsOK' /\ ConnsOK' /\ UNCHANGED task
          /\ sent' \subseteq sent /\ msgs' \subseteq msgs /\ jobs' \subseteq jobs /\ kept' \subseteq kept
      BY <2>1, <2>2, <2>4, <1>0, AnswerType, UnhandledType DEF Replies, ConnsOK
    <3> QED BY <2>2, <3>1, <1>0, TypeParts, SameTable, FewerWays, SameWork DEF WorldOK
  <2> QED BY <1>5, <2>3, <2>4 DEF SendTaskToAgent
<1>6. CASE Timeout(t)
  <2>1. task[t] # None BY <1>6, <1>a DEF Timeout
  <2>2. CallsOK' /\ UNCHANGED task
    BY <1>6, <2>1, GotoType DEF Timeout, Pcs
  <2> QED BY <1>6, <2>2, <1>0, TypeParts, SameTable, FewerWays, SameWork
          DEF Timeout, ConnsOK, WorldOK
<1>7. CASE Reject(t) \/ CallThrows(t)
  <2>1. task[t] # None BY <1>7, <1>a DEF Reject, CallThrows
  <2>2. UNCHANGED <<pve, table, agent>> BY <1>7 DEF Reject, CallThrows
  <2>3. \/ Answer(t, "error") /\ UNCHANGED <<net, jobs>>
        \/ \E b \in BOOLEAN : Rejected(t, b)
    BY <1>7 DEF Reject, CallThrows
  <2>4. /\ CallsOK' /\ ConnsOK' /\ UNCHANGED task
        /\ sent' \subseteq sent /\ msgs' \subseteq msgs /\ jobs' \subseteq jobs /\ kept' \subseteq kept
    BY <2>1, <2>2, <2>3, <1>0, AnswerType, UnhandledType DEF Replies, ConnsOK
  <2> QED BY <2>2, <2>4, <1>0, TypeParts, SameTable, FewerWays, SameWork DEF WorldOK
<1> QED BY <1>1, <1>2, <1>3, <1>4, <1>5, <1>6, <1>7 DEF CallStep

(* The steps of the agents keep the types. *)
LEMMA AgentTypes ==
  ASSUME TypeOK,
         (\E t \in TaskIds : Receive(t)) \/ (\E w \in work : RunCommand(w))
  PROVE  TypeOK'
<1>0. ConnsOK /\ WorldOK /\ CallsOK BY TypeParts
<1>1. ASSUME NEW t \in TaskIds, Receive(t) PROVE TypeOK'
  <2> DEFINE c == wss[task[t].to]
  <2>1. t \in rows /\ task[t] # None /\ task[t].to \in Addrs /\ task[t].action \in Actions
    BY <1>1, TaskFields DEF Receive, TypeOK
  <2>2. c \in Containers
    BY <1>1, <2>1 DEF Receive, TypeOK
  <2>3. UNCHANGED <<pve, wss, calls, table, jobs>> /\ sent' \subseteq sent /\ kept' \subseteq kept
    BY <1>1 DEF Receive, SendData
  <2>4. WaysOK' /\ WorkOK'
    <3>1. CASE task[t].action = "shell_exec"
      <4>1. PICK n \in 0 .. MaxCommands :
              work' = work \cup {[task |-> t, at |-> c, left |-> m] : m \in {n} \ {0}}
        BY <1>1, <3>1 DEF Receive
      <4>2. work' \subseteq Works /\ \A w \in work' : w.task \in rows
        BY <2>1, <2>2, <4>1, TasksAssumption DEF TypeOK, Works
      <4>3. UNCHANGED <<msgs, ran>> BY <1>1, <3>1 DEF Receive
      <4> QED BY <2>3, <4>2, <4>3, FewerWays DEF WorkOK, TypeOK
    <3>2. CASE task[t].action # "shell_exec"
      <4>1. PICK out \in SaidOf(task[t].action) : SendData(t, 1, out, c)
        BY <1>1, <3>2 DEF Receive
      <4>2. out \in Outcomes /\ 1 \in 1 .. MaxCommands
        BY <2>1, <3>2, TasksAssumption DEF SaidOf, Outcomes, Actions
      <4>3. WaysOK' /\ ran' \subseteq rows' \X Containers
        BY <2>1, <2>2, <2>3, <4>1, <4>2, SendDataType
      <4>4. UNCHANGED work BY <1>1, <3>2 DEF Receive
      <4> QED BY <2>3, <4>3, <4>4 DEF WorkOK, TypeOK
    <3> QED BY <3>1, <3>2
  <2> QED BY <2>3, <2>4, <1>0, SameTable, TypeParts DEF ConnsOK, WorldOK, CallsOK
<1>2. ASSUME NEW w \in work, RunCommand(w) PROVE TypeOK'
  <2>1. w.task \in rows /\ w.at \in Containers /\ w.left \in 1 .. MaxCommands
    BY DEF TypeOK, Works
  <2>2. PICK out \in {"success", "error"} : SendData(w.task, w.left, out, w.at)
    BY <1>2 DEF RunCommand
  <2>3. UNCHANGED <<pve, wss, calls, table, sent, jobs>> /\ kept' \subseteq kept
    BY <1>2 DEF RunCommand, SendData
  <2>4. WaysOK' /\ ran' \subseteq rows' \X Containers
    BY <2>1, <2>2, <2>3, SendDataType DEF Outcomes
  <2>5. \A v \in work' : v \in Works /\ v.task \in rows
    <3>1. work' = (work \ {w}) \cup {[w EXCEPT !.left = m] : m \in {w.left - 1} \ {0}}
      BY <1>2 DEF RunCommand
    <3>2. ASSUME NEW m \in {w.left - 1} \ {0}
          PROVE  [w EXCEPT !.left = m] \in Works /\ [w EXCEPT !.left = m].task \in rows
      <4>1. m \in 1 .. MaxCommands BY <2>1, TasksAssumption
      <4>2. w \in Works BY DEF TypeOK
      <4> DEFINE r == [task |-> w.task, at |-> w.at, left |-> m]
      <4>3. [w EXCEPT !.left = m] = r BY <4>2 DEF Works
      <4>4. w.task \in TaskIds BY <4>2 DEF Works
      <4>5. r \in Works /\ r.task \in rows BY <2>1, <4>1, <4>4 DEF Works
      <4> HIDE DEF r
      <4> QED BY <2>1, <4>3, <4>5
    <3>3. ASSUME NEW v \in work' PROVE v \in Works /\ v.task \in rows
      <4>1. v \in work \/ \E m \in {w.left - 1} \ {0} : v = [w EXCEPT !.left = m]
        BY <3>1
      <4>2. CASE v \in work BY <4>2 DEF TypeOK
      <4>3. CASE \E m \in {w.left - 1} \ {0} : v = [w EXCEPT !.left = m]
        <5>1. PICK m \in {w.left - 1} \ {0} : v = [w EXCEPT !.left = m] BY <4>3
        <5>2. [w EXCEPT !.left = m] \in Works /\ [w EXCEPT !.left = m].task \in rows
          BY <3>2
        <5> QED BY <5>1, <5>2
      <4> QED BY <4>1, <4>2, <4>3
    <3> QED BY <3>3
  <2> QED BY <2>3, <2>4, <2>5, <1>0, SameTable, TypeParts
          DEF ConnsOK, WorldOK, CallsOK, WorkOK
<1> QED BY <1>1, <1>2

(* The steps of the daemon that handle messages keep the types. *)
LEMMA JobTypes ==
  ASSUME TypeOK,
         \/ \E m \in msgs : HandleMessage(m)
         \/ \E j \in jobs : JobStep(j) \/ JobThrows(j)
  PROVE  TypeOK'
<1>0. ConnsOK /\ WorldOK /\ CallsOK /\ WorkOK BY TypeParts
<1>1. ASSUME NEW m \in msgs, HandleMessage(m) PROVE TypeOK'
  <2>1. m \in Messages /\ m.task \in rows BY DEF TypeOK
  <2>2. WaysOK'
    <3> DEFINE r == [task |-> m.task, n |-> m.n, out |-> m.out, from |-> m.from,
                     pc |-> "checkIp", ended |-> FALSE]
    <3>1. r \in Jobs /\ r.task \in rows BY <2>1 DEF Messages, Jobs
    <3>2. /\ jobs' = jobs \cup {r} /\ msgs' \subseteq msgs
          /\ UNCHANGED <<sent, kept, rows>>
      BY <1>1 DEF HandleMessage
    <3> HIDE DEF r
    <3> QED BY <3>1, <3>2 DEF WaysOK, TypeOK
  <2>3. UNCHANGED <<pve, wss, calls, table, agent>> BY <1>1 DEF HandleMessage
  <2> QED BY <2>2, <2>3, <1>0, SameTable, SameWork, TypeParts
          DEF ConnsOK, WorldOK, CallsOK
<1>2. ASSUME NEW j \in jobs, JobStep(j) PROVE TypeOK'
  <2>1. j \in Jobs /\ j.task \in rows /\ j.task \in TaskIds /\ task[j.task] # None
    BY DEF TypeOK
  <2>2. \/ jobs' \subseteq jobs
        \/ \E p \in {"handle", "finish", "readRow"} : Next1(j, p)
        \/ \E b \in BOOLEAN :
             jobs' = (jobs \ {j}) \cup {[j EXCEPT !.pc = "writeRow", !.ended = b]}
    <3>1. CASE CheckSender(j) BY <3>1 DEF CheckSender, Ends
    <3>2. CASE Handle(j) BY <3>2 DEF Handle, Ends
    <3>3. CASE ErrorTask(j)
      <4>1. (j.task \in ended) \in BOOLEAN OBVIOUS
      <4> QED BY <3>3, <4>1 DEF ErrorTask
    <3>4. CASE FinishTask(j) \/ UpdateTask(j) BY <3>4 DEF FinishTask, UpdateTask, Ends
    <3> QED BY <1>2, <3>1, <3>2, <3>3, <3>4 DEF JobStep
  <2>3. UNCHANGED <<pve, rows, sent, msgs, wss, agent>> /\ kept' \subseteq kept
    BY <1>2 DEF JobStep, CheckSender, Handle, FinishTask, ErrorTask, UpdateTask
  <2>4. WaysOK'
    <3>1. CASE jobs' \subseteq jobs BY <2>3, <3>1, FewerWays
    <3>2. ASSUME NEW p \in {"handle", "finish", "readRow"}, Next1(j, p) PROVE WaysOK'
      <4>1. [j EXCEPT !.pc = p] \in Jobs /\ [j EXCEPT !.pc = p].task = j.task
        BY <2>1 DEF Jobs
      <4> QED BY <2>1, <2>3, <3>2, <4>1 DEF WaysOK, TypeOK, Next1
    <3>3. ASSUME NEW b \in BOOLEAN,
                 jobs' = (jobs \ {j}) \cup {[j EXCEPT !.pc = "writeRow", !.ended = b]}
          PROVE  WaysOK'
      <4>1. /\ [j EXCEPT !.pc = "writeRow", !.ended = b] \in Jobs
            /\ [j EXCEPT !.pc = "writeRow", !.ended = b].task = j.task
        BY <2>1 DEF Jobs
      <4> QED BY <2>1, <2>3, <3>3, <4>1 DEF WaysOK, TypeOK
    <3> QED BY <2>2, <3>1, <3>2, <3>3
  <2>5. CallsOK' /\ UNCHANGED task
    <3>1. CASE Emit(j.task, j.out)
      BY <2>1, <2>3, <3>1, <1>0, AnswerType, GotoType DEF Emit, Replies, Pcs, CallsOK
    <3>2. CASE UNCHANGED calls BY <2>3, <3>2, <1>0 DEF CallsOK
    <3> QED BY <1>2, <3>1, <3>2
            DEF JobStep, CheckSender, Handle, FinishTask, ErrorTask, UpdateTask
  <2>6. TableOK'
    <3>1. /\ ok' \subseteq ok \cup {j.task}
          /\ ended' \subseteq ended \cup {j.task}
          /\ errored' \subseteq errored \cup {j.task}
      BY <1>2 DEF JobStep, CheckSender, Handle, FinishTask, ErrorTask, UpdateTask
    <3> QED BY <2>1, <2>3, <2>5, <3>1 DEF TableOK, TypeOK
  <2> QED BY <2>3, <2>4, <2>5, <2>6, <1>0, SameWork, TypeParts DEF ConnsOK, WorldOK
<1>3. ASSUME NEW j \in jobs, JobThrows(j) PROVE TypeOK'
  <2>1. UNCHANGED <<pve, table, agent>> BY <1>3 DEF JobThrows
  <2>2. CASE Die
    BY <2>1, <2>2, <1>0, DieType, SameTable, SameWork, FewerWays, TypeParts DEF WorldOK
  <2>3. CASE Ends(j) /\ kept' \subseteq kept /\ UNCHANGED <<calls, sent, msgs, wss>>
    BY <2>1, <2>3, <1>0, SameTable, SameWork, FewerWays, TypeParts
    DEF WorldOK, ConnsOK, CallsOK, Ends
  <2> QED BY <1>3, <2>2, <2>3 DEF JobThrows
<1> QED BY <1>1, <1>2, <1>3

(* What happens around the daemon and the agents keeps the types. *)
LEMMA EnvironmentTypes == ASSUME TypeOK, Environment PROVE TypeOK'
<1>0. ConnsOK /\ WorldOK /\ CallsOK /\ WorkOK BY TypeParts
<1>1. CASE Crash
  BY <1>0, <1>1, DieType, SameTable, SameWork, FewerWays, TypeParts DEF Crash, WorldOK
<1>2. CASE ~Crash
  <2>1. UNCHANGED <<calls, table, ran, jobs>> /\ work' \subseteq work
    BY <1>2 DEF Environment, Connect, AgentCrash, DeleteContainer, CreateContainer, Drop,
                AgentEnds
  <2>2. sent' \subseteq sent /\ msgs' \subseteq msgs /\ kept' \subseteq kept
    BY <1>2 DEF Environment, Connect, AgentCrash, DeleteContainer, CreateContainer, Drop, AgentEnds,
                Disconnect
  <2>3. WorldOK' /\ ConnsOK'
    BY <1>2 DEF Environment, Connect, AgentCrash, DeleteContainer, CreateContainer, Drop,
                AgentEnds, Disconnect, TypeOK, WorldOK, ConnsOK
  <2> QED BY <2>1, <2>2, <2>3, <1>0, SameTable, SameWork, FewerWays, TypeParts DEF CallsOK
<1> QED BY <1>1, <1>2

(* The type invariant is kept by every step. *)
LEMMA TypeStep == ASSUME TypeOK, [Next]_vars PROVE TypeOK'
<1>1. CASE UNCHANGED vars BY <1>1 DEF TypeOK, vars
<1>2. CASE Next BY <1>2, CallTypes, AgentTypes, JobTypes, EnvironmentTypes DEF Next
<1> QED BY <1>1, <1>2

(* Every state the daemon and the agents reach is well typed; among other   *)
(* things no message is ever about a task that has no row.                  *)
THEOREM TypeCorrect == Spec => []TypeOK
<1>1. Init => TypeOK BY DEF Init, TypeOK, Pcs, Replies
<1> QED BY <1>1, TypeStep, PTL DEF Spec
-----------------------------------------------------------------------------
(* What a step may change *)

CallGroup(t) == \/ \E a \in Actions, c \in Containers : Request(t, a, c)
                \/ CallStep(t) \/ Timeout(t) \/ CallThrows(t)
AgentGroup == (\E t \in TaskIds : Receive(t)) \/ (\E w \in work : RunCommand(w))
JobGroup == (\E m \in msgs : HandleMessage(m)) \/ (\E j \in jobs : JobStep(j) \/ JobThrows(j))

(* What a task that was created is about never changes. *)
SameTasks == \A t \in TaskIds : task[t] # None =>
               task'[t] # None /\ task'[t].ct = task[t].ct /\ task'[t].action = task[t].action
(* Nobody receives data in this step. *)
NoData == \A t \in TaskIds : reply'[t] = "data" => reply[t] = "data"
(* Connections stay, or all are closed with the process. *)
ConnsStay == wss' = wss \/ wss' = [a \in Addrs |-> None]

(* Every step is of one of the four groups, or changes nothing. *)
LEMMA Groups ==
  ASSUME [Next]_vars
  PROVE  \/ UNCHANGED vars
         \/ \E t \in TaskIds : CallGroup(t)
         \/ AgentGroup \/ JobGroup \/ Environment
BY DEF Next, CallGroup, AgentGroup, JobGroup

(* The end of the process, and an answer that is not data, for NoData. *)
LEMMA AnswerFrame ==
  ASSUME TypeOK
  PROVE  /\ \A t \in TaskIds, code \in Replies \ {"data"} :
              Answer(t, code) => NoData /\ SameTasks
         /\ Die => /\ NoData /\ SameTasks
                   /\ msgs' \subseteq msgs /\ jobs' \subseteq jobs /\ ConnsStay
         /\ \A t \in TaskIds, p \in Pcs : Goto(t, p) => NoData /\ SameTasks
BY DEF TypeOK, Answer, Die, NoData, SameTasks, ConnsStay

(* A request leaves the cluster, the outcomes and the agents alone. *)
LEMMA CallFrame ==
  ASSUME TypeOK, NEW t \in TaskIds, CallGroup(t)
  PROVE  /\ UNCHANGED <<pve, ok, ended, errored, work, ran>>
         /\ rows \subseteq rows' /\ msgs' \subseteq msgs /\ jobs' \subseteq jobs
         /\ ConnsStay /\ SameTasks /\ NoData
<1>a. /\ "conflict" \in Replies \ {"data"} /\ "not found" \in Replies \ {"data"}
      /\ "ok" \in Replies \ {"data"} /\ "error" \in Replies \ {"data"}
      /\ "dropped" \in Replies \ {"data"} /\ "silent" \in Replies \ {"data"}
      /\ "create" \in Pcs /\ "recheck" \in Pcs /\ "send" \in Pcs /\ "wait" \in Pcs
      /\ "rejected" \in Pcs
  BY DEF Replies, Pcs
<1>b. \A b \in BOOLEAN : Rejected(t, b) => /\ msgs' \subseteq msgs /\ jobs' \subseteq jobs
                                          /\ ConnsStay /\ SameTasks /\ NoData
  BY <1>a, AnswerFrame DEF Rejected, Unhandled, ConnsStay
<1>1. ASSUME NEW a \in Actions, NEW c \in Containers, Request(t, a, c)
      PROVE  SameTasks /\ NoData
  BY <1>1 DEF Request, TypeOK, SameTasks, NoData
<1>2. CASE Recheck(t)
  <2>1. CASE Answer(t, "conflict") BY <1>a, <1>2, <2>1, AnswerFrame DEF Recheck, ConnsStay
  <2>2. CASE \E a \in Addrs : task' = [task EXCEPT ![t].to = a] /\ UNCHANGED reply
    <3>1. task[t] # None BY <1>2 DEF Recheck, TypeOK
    <3>2. task[t] \in Given BY <3>1, TaskFields
    <3>3. PICK a \in Addrs : task' = [task EXCEPT ![t] = [task[t] EXCEPT !.to = a]]
      BY <2>2 DEF TypeOK
    <3>4. /\ [task[t] EXCEPT !.to = a] \in Given
          /\ [task[t] EXCEPT !.to = a].ct = task[t].ct
          /\ [task[t] EXCEPT !.to = a].action = task[t].action
      BY <3>2 DEF Given
    <3>5. SameTasks BY <3>3, <3>4, TasksAssumption DEF SameTasks, TypeOK
    <3> QED BY <1>2, <2>2, <3>5 DEF Recheck, NoData, ConnsStay
  <2> QED BY <1>2, <2>1, <2>2 DEF Recheck
<1>3. CASE IfConnected(t) \/ CreateTask(t) \/ Timeout(t)
  BY <1>a, <1>3, AnswerFrame DEF IfConnected, CreateTask, Timeout, ConnsStay
<1>4. CASE SendTaskToAgent(t)
  BY <1>a, <1>b, <1>4, AnswerFrame DEF SendTaskToAgent, ConnsStay
<1>5. CASE Reject(t) \/ CallThrows(t)
  BY <1>a, <1>b, <1>5, AnswerFrame DEF Reject, CallThrows, ConnsStay
<1>6. CASE \E a \in Actions, c \in Containers : Request(t, a, c)
  BY <1>1, <1>6 DEF Request, ConnsStay
<1> QED BY <1>2, <1>3, <1>4, <1>5, <1>6 DEF CallGroup, CallStep

(* An agent changes nothing of the daemon's; its messages are sent from the *)
(* addresses it is connected from.                                          *)
LEMMA AgentFrame ==
  ASSUME TypeOK, AgentGroup
  PROVE  /\ UNCHANGED <<pve, wss, calls, table, jobs>>
         /\ ran \subseteq ran'
         /\ \A m \in msgs' \ msgs :
              /\ wss[m.from] # None
              /\ <<m.task, wss[m.from]>> \in ran'
<1>1. ASSUME NEW t \in TaskIds, NEW n, NEW out, NEW c \in Containers, SendData(t, n, out, c)
      PROVE  /\ ran \subseteq ran'
             /\ \A m \in msgs' \ msgs : /\ wss[m.from] # None
                                        /\ <<m.task, wss[m.from]>> \in ran'
  BY <1>1, TasksAssumption DEF SendData
<1>2. ASSUME NEW t \in TaskIds, Receive(t)
      PROVE  /\ UNCHANGED <<pve, wss, calls, table, jobs>>
             /\ \/ UNCHANGED <<msgs, ran>>
                \/ \E n, out : \E c \in Containers : SendData(t, n, out, c)
  <2>1. t \in rows /\ task[t] # None BY <1>2 DEF Receive, TypeOK
  <2>2. wss[task[t].to] \in Containers BY <1>2, <2>1, TaskFields DEF Receive, TypeOK
  <2> QED BY <1>2, <2>2 DEF Receive
<1>3. ASSUME NEW w \in work, RunCommand(w)
      PROVE  /\ UNCHANGED <<pve, wss, calls, table, jobs>>
             /\ w.task \in TaskIds /\ w.at \in Containers
             /\ \E n, out : SendData(w.task, n, out, w.at)
  BY <1>3 DEF RunCommand, TypeOK, Works
<1> QED BY <1>1, <1>2, <1>3 DEF AgentGroup

(* Handling messages leaves the agents and the rows alone, and what is      *)
(* recorded or returned was in a message that had passed the test of its    *)
(* sender.                                                                  *)
LEMMA JobFrame ==
  ASSUME TypeOK, JobGroup
  PROVE  /\ UNCHANGED <<pve, rows, work, ran>>
         /\ msgs' \subseteq msgs /\ ConnsStay /\ SameTasks
         /\ \A j \in jobs' \ jobs :
              \/ \E m \in msgs : j.task = m.task /\ j.from = m.from /\ j.pc = "checkIp"
              \/ \E i \in jobs : /\ j.task = i.task /\ j.from = i.from /\ j.pc # "checkIp"
                                 /\ i.pc = "checkIp" => addr[task[i.task].ct] = i.from
         /\ \A t \in TaskIds :
              \/ t \in (ok' \cup errored') \ (ok \cup errored)
              \/ reply'[t] = "data" /\ reply[t] # "data"
              => \E i \in jobs : i.task = t /\ i.pc # "checkIp"
<1>1. ASSUME NEW m \in msgs, HandleMessage(m)
      PROVE  /\ UNCHANGED <<pve, wss, calls, table, agent>> /\ msgs' \subseteq msgs
             /\ \A j \in jobs' \ jobs : j.task = m.task /\ j.from = m.from /\ j.pc = "checkIp"
  BY <1>1 DEF HandleMessage
<1>2. ASSUME NEW j \in jobs, NEW p \in {"handle", "finish", "readRow"}, Next1(j, p)
      PROVE  \A i \in jobs' \ jobs : i.task = j.task /\ i.from = j.from /\ i.pc # "checkIp"
  <2>1. j \in Jobs BY DEF TypeOK
  <2> QED BY <1>2, <2>1 DEF Next1, Jobs
<1>3. ASSUME NEW j \in jobs, CheckSender(j)
      PROVE  /\ UNCHANGED <<pve, calls, table, sent, msgs, wss, agent>>
             /\ \A i \in jobs' \ jobs :
                  /\ i.task = j.task /\ i.from = j.from /\ i.pc # "checkIp"
                  /\ addr[task[j.task].ct] = j.from
  BY <1>2, <1>3 DEF CheckSender, Ends
<1>4. ASSUME NEW j \in jobs, Handle(j)
      PROVE  /\ UNCHANGED <<pve, table, net, agent>> /\ j.pc # "checkIp"
             /\ \A i \in jobs' \ jobs :
                  i.task = j.task /\ i.from = j.from /\ i.pc # "checkIp"
             /\ SameTasks
             /\ \A t \in TaskIds : reply'[t] = "data" /\ reply[t] # "data" => t = j.task
  <2>1. \/ \E p \in {"handle", "finish", "readRow"} : Next1(j, p)
        \/ Ends(j)
    BY <1>4 DEF Handle
  <2>2. \A i \in jobs' \ jobs : i.task = j.task /\ i.from = j.from /\ i.pc # "checkIp"
    BY <1>2, <2>1 DEF Ends
  <2>3. UNCHANGED calls \/ Emit(j.task, j.out) BY <1>4 DEF Handle
  <2>4. UNCHANGED task /\ \A t \in TaskIds \ {j.task} : reply'[t] = reply[t]
    BY <2>3 DEF Emit, Answer, TypeOK
  <2> QED BY <1>4, <2>2, <2>4 DEF Handle, SameTasks
<1>5. ASSUME NEW j \in jobs, ErrorTask(j)
      PROVE  /\ UNCHANGED <<pve, calls, table, net, agent>> /\ j.pc # "checkIp"
             /\ \A i \in jobs' \ jobs :
                  i.task = j.task /\ i.from = j.from /\ i.pc # "checkIp"
  <2>1. j \in Jobs BY DEF TypeOK
  <2> QED BY <1>5, <2>1 DEF ErrorTask, Jobs
<1>6. ASSUME NEW j \in jobs, FinishTask(j) \/ UpdateTask(j)
      PROVE  /\ UNCHANGED <<pve, calls, rows, net, agent>> /\ j.pc # "checkIp"
             /\ jobs' \subseteq jobs
             /\ ok' \cup errored' \subseteq ok \cup errored \cup {j.task}
  BY <1>6 DEF FinishTask, UpdateTask, Ends
<1>7. ASSUME NEW j \in jobs, JobThrows(j)
      PROVE  /\ UNCHANGED <<pve, table, agent>>
             /\ jobs' \subseteq jobs /\ msgs' \subseteq msgs /\ ConnsStay /\ SameTasks /\ NoData
  <2>1. Die \/ (Ends(j) /\ UNCHANGED <<calls, sent, msgs, wss>>) BY <1>7 DEF JobThrows
  <2>2. (Ends(j) /\ UNCHANGED <<calls, sent, msgs, wss>>) =>
           jobs' \subseteq jobs /\ msgs' \subseteq msgs /\ ConnsStay /\ SameTasks /\ NoData
    BY DEF Ends, ConnsStay, SameTasks, NoData
  <2> QED BY <1>7, <2>1, <2>2, AnswerFrame DEF JobThrows
<1>8. CASE \E m \in msgs : HandleMessage(m)
  BY <1>1, <1>8 DEF ConnsStay, SameTasks
<1>9. ASSUME NEW j \in jobs, CheckSender(j) \/ ErrorTask(j)
      PROVE  /\ UNCHANGED <<pve, calls, table, sent, msgs, wss, agent>>
             /\ \A i \in jobs' \ jobs :
                  /\ i.task = j.task /\ i.from = j.from /\ i.pc # "checkIp"
                  /\ j.pc = "checkIp" => addr[task[j.task].ct] = j.from
  BY <1>3, <1>5, <1>9
<1>10. CASE \E j \in jobs : CheckSender(j) \/ ErrorTask(j)
  BY <1>9, <1>10 DEF ConnsStay, SameTasks
<1>11. CASE \E j \in jobs : Handle(j)
  BY <1>4, <1>11 DEF ConnsStay
<1>12. CASE \E j \in jobs : FinishTask(j) \/ UpdateTask(j)
  BY <1>6, <1>12 DEF ConnsStay, SameTasks
<1>13. CASE \E j \in jobs : JobThrows(j)
  BY <1>7, <1>13 DEF NoData
<1> QED BY <1>8, <1>10, <1>11, <1>12, <1>13 DEF JobGroup, JobStep

(* Around the daemon: messages and jobs only disappear. *)
LEMMA EnvironmentFrame ==
  ASSUME TypeOK, Environment
  PROVE  /\ UNCHANGED <<table, ran>> /\ SameTasks /\ NoData
         /\ msgs' \subseteq msgs /\ jobs' \subseteq jobs
<1>1. CASE Crash BY <1>1, AnswerFrame DEF Crash
<1>2. CASE ~Crash
  BY <1>2 DEF Environment, Connect, AgentCrash, DeleteContainer, CreateContainer, Drop,
              AgentEnds, Disconnect, SameTasks, NoData
<1> QED BY <1>1, <1>2

-----------------------------------------------------------------------------
(* Only the agent of its container reports a task *)

(* Outside Environment containers and addresses stay as they are. *)
LEMMA SameWorld ==
  ASSUME TypeOK, [Next]_vars
  PROVE  Environment \/ (UNCHANGED pve /\ ConnsStay)
BY Groups, CallFrame, AgentFrame, JobFrame DEF vars, ConnsStay

(* An address keeps belonging to one container, and a connection to its holder. *)
LEMMA AddressesStep ==
  ASSUME TypeOK, AddressesAreOwn, [Next]_vars
  PROVE  AddressesAreOwn'
<1>1. CASE UNCHANGED addr /\ ConnsStay BY <1>1 DEF AddressesAreOwn, ConnsStay, TypeOK
<1>2. ASSUME NEW c \in Containers, Connect(c) PROVE AddressesAreOwn'
  BY <1>2, TasksAssumption DEF Connect, AddressesAreOwn, TypeOK
<1>3. ASSUME NEW c \in Containers, NEW a \in Addrs, CreateContainer(c, a) PROVE AddressesAreOwn'
  BY <1>3, TasksAssumption DEF CreateContainer, AddressesAreOwn, TypeOK
<1>4. ASSUME NEW c \in Containers, DeleteContainer(c) PROVE AddressesAreOwn'
  BY <1>4, TasksAssumption DEF DeleteContainer, AgentEnds, Disconnect, AddressesAreOwn, TypeOK
<1>5. ASSUME NEW a \in Addrs, Disconnect(a), UNCHANGED addr PROVE AddressesAreOwn'
  BY <1>5, TasksAssumption DEF Disconnect, AddressesAreOwn, TypeOK
<1>6. CASE Crash BY <1>6, TasksAssumption DEF Crash, Die, AddressesAreOwn, TypeOK
<1>7. CASE Environment
  BY <1>2, <1>3, <1>4, <1>5, <1>6, <1>7 DEF Environment, AgentCrash, AgentEnds, Drop, TypeOK
<1> QED BY <1>1, <1>7, SameWorld

(* What the agents have said, the rows and the containers of tasks stay. *)
LEMMA HistoryStays ==
  ASSUME TypeOK, [Next]_vars
  PROVE  ran \subseteq ran' /\ rows \subseteq rows' /\ SameTasks
BY Groups, CallFrame, AgentFrame, JobFrame, EnvironmentFrame DEF vars, SameTasks

(* As long as the id of a task's container is not given again, that         *)
(* container keeps its address or has none.                                 *)
LEMMA AddressesOfTasks ==
  ASSUME TypeOK, [Next]_vars, NEW t \in TaskIds, task[t] # None, t \notin again'
  PROVE  /\ t \notin again
         /\ \A a \in Addrs : addr[task[t].ct] # a => addr'[task'[t].ct] # a
<1>1. task'[t].ct = task[t].ct BY HistoryStays DEF SameTasks
<1>2. CASE UNCHANGED pve BY <1>1, <1>2
<1>3. ASSUME NEW c \in Containers, NEW a \in Addrs, CreateContainer(c, a)
      PROVE  t \notin again /\ addr'[task[t].ct] = addr[task[t].ct]
  BY <1>3 DEF CreateContainer, TypeOK
<1>4. ASSUME NEW c \in Containers, DeleteContainer(c)
      PROVE  again' = again /\ \A d \in Containers : addr'[d] \in {addr[d], None}
  BY <1>4 DEF DeleteContainer, TypeOK
<1>5. task[t].ct \in Containers BY TaskFields
<1>6. CASE Environment
  BY <1>1, <1>2, <1>3, <1>4, <1>5, <1>6, TasksAssumption
  DEF Environment, Crash, Connect, AgentCrash, Drop
<1> QED BY <1>2, <1>6, SameWorld

(* A message on its way, or one whose sender is still to be tested, was     *)
(* there before, or is sent now by an agent from its connection.            *)
LEMMA SendersStep ==
  ASSUME TypeOK, AddressesAreOwn, SendersAreTold, [Next]_vars
  PROVE  SendersAreTold'
<1> DEFINE Told(m, c) == /\ <<m.task, c>> \in ran
                         /\ c # task[m.task].ct => addr[task[m.task].ct] # m.from
           Early == msgs \cup {j \in jobs : j.pc = "checkIp"}
<1>1. SUFFICES ASSUME NEW m \in Early', m.task \notin again'
               PROVE  \E c \in Containers : Told(m, c)'
  BY DEF SendersAreTold
<1>2. ASSUME NEW o \in Early, m.task = o.task, m.from = o.from
      PROVE  \E c \in Containers : Told(m, c)'
  <2>1. o.task \in rows /\ o.task \in TaskIds /\ o.from \in Addrs /\ task[o.task] # None
    BY DEF TypeOK, Messages, Jobs
  <2>2. /\ o.task \notin again
        /\ \A a \in Addrs : addr[task[o.task].ct] # a => addr'[task'[o.task].ct] # a
    BY <1>1, <1>2, <2>1, AddressesOfTasks
  <2>3. PICK c \in Containers : Told(o, c) BY <2>2 DEF SendersAreTold
  <2>4. task'[m.task].ct = task[o.task].ct BY <1>2, <2>1, HistoryStays DEF SameTasks
  <2>5. Told(m, c)' BY <1>2, <2>1, <2>2, <2>3, <2>4, HistoryStays
  <2> QED BY <2>5
<1>3. CASE \E o \in Early : m.task = o.task /\ m.from = o.from BY <1>2, <1>3
<1>4. CASE AgentGroup
  <2>1. CASE m \in Early BY <1>2, <2>1
  <2>2. CASE m \notin Early
    <3>1. m \in msgs' \ msgs BY <1>4, <2>2, AgentFrame
    <3>2. UNCHANGED <<pve, task, rows>> /\ wss[m.from] # None /\ <<m.task, wss[m.from]>> \in ran'
      BY <1>4, <3>1, AgentFrame
    <3>3. m \in Messages /\ m.task \in rows
      <4>1. TypeOK' BY TypeStep
      <4> QED BY <3>1, <3>2, <4>1 DEF TypeOK
    <3>4. m.from \in Addrs /\ m.task \in TaskIds /\ task[m.task] # None
      BY <3>3 DEF Messages, TypeOK
    <3>5. wss[m.from] \in Containers /\ addr[wss[m.from]] = m.from /\ task[m.task].ct \in Containers
      BY <3>2, <3>4, TaskFields DEF AddressesAreOwn, TypeOK
    <3>6. PICK c \in Containers : c = wss[m.from] BY <3>5
    <3>7. Told(m, c)' BY <3>2, <3>4, <3>5, <3>6 DEF AddressesAreOwn
    <3> QED BY <3>7
  <2> QED BY <2>1, <2>2
<1>5. CASE JobGroup
  <2>1. CASE m \in Early BY <1>2, <2>1
  <2>2. CASE m \in jobs' \ jobs /\ m.pc = "checkIp" BY <1>3, <1>5, <2>2, JobFrame
  <2> QED BY <1>5, <2>1, <2>2, JobFrame
<1>6. CASE ~AgentGroup /\ ~JobGroup
  <2>1. msgs' \subseteq msgs /\ jobs' \subseteq jobs
    BY <1>6, Groups, CallFrame, EnvironmentFrame DEF vars
  <2> QED BY <1>3, <2>1
<1> QED BY <1>4, <1>5, <1>6

(* What has passed the test, or passes it now, is from the task's container. *)
LEMMA CheckedStep ==
  ASSUME TypeOK, SendersAreTold, SendersAreChecked, [Next]_vars
  PROVE  SendersAreChecked'
<1>1. SUFFICES ASSUME NEW j \in jobs', j.pc # "checkIp", j.task \notin again'
               PROVE  <<j.task, task'[j.task].ct>> \in ran'
  BY DEF SendersAreChecked
<1>2. ASSUME NEW i \in jobs, i.task = j.task,
             i.pc = "checkIp" => addr[task[i.task].ct] = i.from
      PROVE  <<j.task, task'[j.task].ct>> \in ran'
  <2>1. i.task \in TaskIds /\ task[i.task] # None BY DEF TypeOK
  <2>2. task'[j.task].ct = task[i.task].ct BY <1>2, <2>1, HistoryStays DEF SameTasks
  <2>3. i.task \notin again BY <1>1, <1>2, <2>1, AddressesOfTasks
  <2>4. <<i.task, task[i.task].ct>> \in ran
    BY <1>2, <2>3 DEF SendersAreTold, SendersAreChecked
  <2> QED BY <1>2, <2>2, <2>4, HistoryStays
<1>3. CASE j \in jobs BY <1>1, <1>2, <1>3
<1>4. CASE j \notin jobs
  <2>1. JobGroup
    BY <1>4, Groups, CallFrame, AgentFrame, EnvironmentFrame DEF vars
  <2> QED BY <1>1, <1>2, <1>4, <2>1, JobFrame
<1> QED BY <1>3, <1>4

(* What is recorded or returned was in a message that had passed the test. *)
LEMMA OutcomesStep ==
  ASSUME TypeOK, SendersAreChecked, OnlyItsAgentReports, [Next]_vars
  PROVE  OnlyItsAgentReports'
<1>1. SUFFICES ASSUME NEW t \in TaskIds \ again', t \in ok' \cup errored' \/ reply'[t] = "data"
               PROVE  <<t, task'[t].ct>> \in ran'
  BY DEF OnlyItsAgentReports
<1>3. task[t] # None
  <2>1. CASE t \in ok \cup errored \/ reply[t] = "data" BY <1>1, <2>1 DEF TypeOK
  <2>2. CASE ~(t \in ok \cup errored \/ reply[t] = "data")
    <3>1. JobGroup
      BY <1>1, <2>2, Groups, CallFrame, AgentFrame, EnvironmentFrame DEF vars, NoData
    <3>2. PICK i \in jobs : i.task = t BY <1>1, <2>2, <3>1, JobFrame
    <3> QED BY <3>2 DEF TypeOK
  <2> QED BY <2>1, <2>2
<1>0. task[t] # None /\ t \notin again BY <1>1, <1>3, AddressesOfTasks
<1>2. <<t, task[t].ct>> \in ran
  <2>1. CASE t \in ok \cup errored \/ reply[t] = "data" BY <1>0, <2>1 DEF OnlyItsAgentReports
  <2>2. CASE ~(t \in ok \cup errored \/ reply[t] = "data")
    <3>1. JobGroup
      BY <1>1, <2>2, Groups, CallFrame, AgentFrame, EnvironmentFrame DEF vars, NoData
    <3>2. PICK i \in jobs : i.task = t /\ i.pc # "checkIp"
      BY <1>1, <2>2, <3>1, JobFrame
    <3> QED BY <1>0, <3>2 DEF SendersAreChecked
  <2> QED BY <2>1, <2>2
<1> QED BY <1>0, <1>2, HistoryStays DEF SameTasks

(* The inductive invariant is kept by every step. *)
LEMMA ReportsStep ==
  ASSUME TypeOK, ReportsInv, [Next]_vars
  PROVE  ReportsInv'
BY AddressesStep, SendersStep, CheckedStep, OutcomesStep DEF ReportsInv

(* The invariant that carries the next theorem: a message that may pass the  *)
(* test of its sender comes from the task's container, as long as the id of  *)
(* that container is not given again after it was deleted.                   *)
THEOREM ReportsInvariant == Spec => []ReportsInv
<1>1. Init => ReportsInv
  BY TasksAssumption DEF Init, ReportsInv, AddressesAreOwn, SendersAreTold,
         SendersAreChecked, OnlyItsAgentReports
<1> QED BY <1>1, ReportsStep, TypeCorrect, PTL DEF Spec

(* What the daemon records about a task, and what it returns to a caller    *)
(* that waits, was said by the agent of the very container the task is for, *)
(* unless that container was deleted and its id given to another one:       *)
(* wsCommand.ts compares an address, and that is enough although addresses  *)
(* are given again to other containers while messages are under way.        *)
THEOREM ReportsAreOwn == Spec => []OnlyItsAgentReports
<1>1. ReportsInv => OnlyItsAgentReports BY DEF ReportsInv
<1> QED BY <1>1, ReportsInvariant, PTL

-----------------------------------------------------------------------------
(* A task that is no script has one outcome *)

(* What is on its way for such a task is at one place at a time.             *)
Before == {"idle", "connected", "recheck", "create", "send"}
Untouched(t) == t \notin ok /\ t \notin ended /\ t \notin errored
NoMessages(t) == \A m \in msgs : m.task # t
NoJobs(t) == \A j \in jobs : j.task # t

Once(t) ==
  /\ \A w \in work : w.task # t
  /\ pc[t] \in Before => t \notin sent /\ NoMessages(t) /\ NoJobs(t) /\ Untouched(t)
  /\ t \in sent => NoMessages(t) /\ NoJobs(t) /\ Untouched(t)
  /\ \A m \in msgs : m.task = t => /\ NoJobs(t) /\ Untouched(t)
                                  /\ \A n \in msgs : n.task = t => n = m
  /\ \A j \in jobs : j.task = t => /\ Untouched(t) /\ ~j.ended
                                  /\ \A i \in jobs : i.task = t => i = j
  /\ ~(t \in ok /\ t \in errored)
  /\ t \in ok => t \in ended

Single(t) == task[t] # None /\ task[t].action # "shell_exec"

OnceInv == \A t \in TaskIds : Single(t) => Once(t)

(* Less on its way does no harm.                                             *)
LEMMA Wanes ==
  ASSUME NEW t \in TaskIds, Once(t), \A w \in work' : w.task # t,
         t \in sent' => t \in sent, msgs' \subseteq msgs, jobs' \subseteq jobs,
         UNCHANGED <<ok, ended, errored>>, pc'[t] \in Before => pc[t] \in Before
  PROVE  Once(t)'
BY DEF Once, NoMessages, NoJobs, Untouched

(* The end of the process; an answer, or another call.                       *)
LEMMA LaterPcs ==
  ASSUME TypeOK, NEW t \in TaskIds
  PROVE  /\ Die /\ pc'[t] \in Before => pc[t] \in Before
         /\ \A s \in TaskIds : \A code :
              Answer(s, code) /\ pc'[t] \in Before => pc[t] \in Before
         /\ \A s \in TaskIds, p \in {"wait", "rejected"} :
              pc' = [pc EXCEPT ![s] = p] /\ pc'[t] \in Before => pc[t] \in Before
         /\ \A s \in TaskIds, p \in Before :
              pc[s] \in Before /\ pc' = [pc EXCEPT ![s] = p] /\ pc'[t] \in Before
                => pc[t] \in Before
BY DEF TypeOK, Die, Answer, Before

(* A request that begins has left no trace yet.                              *)
LEMMA RequestOnce ==
  ASSUME TypeOK, OnceInv, NEW s \in TaskIds, NEW a \in Actions, NEW c \in Containers,
         Request(s, a, c), NEW t \in TaskIds, Single(t)'
  PROVE  Once(t)'
<1>1. CASE t = s
  <2>1. t \notin rows
    BY <1>1 DEF Request, TypeOK
  <2> QED
    BY <2>1 DEF Request, TypeOK, Once, NoMessages, NoJobs, Untouched
<1>2. CASE t # s
  <2>1. Single(t) /\ pc'[t] = pc[t]
    BY <1>2 DEF Request, TypeOK, Single
  <2> QED
    BY <2>1, Wanes DEF Request, OnceInv, Once
<1> QED BY <1>1, <1>2

(* What a task is about stays, but for the address.                          *)
LEMMA SingleStays ==
  ASSUME TypeOK, NEW t \in TaskIds, Single(t)',
         UNCHANGED task \/ \E s \in TaskIds : Recheck(s)
  PROVE  Single(t)
<1>1. CASE UNCHANGED task BY <1>1 DEF Single
<1>2. ASSUME NEW s \in TaskIds, Recheck(s), task' # task PROVE Single(t)
  <2>1. PICK a \in Addrs : task' = [task EXCEPT ![s].to = a]
    BY <1>2 DEF Recheck, Answer
  <2>2. task[s] \in Given
    BY <1>2, TaskFields DEF Recheck, TypeOK
  <2>3. task' = [task EXCEPT ![s] = [task[s] EXCEPT !.to = a]]
    BY <2>1 DEF TypeOK
  <2>4. [task[s] EXCEPT !.to = a].action = task[s].action
    BY <2>2 DEF Given
  <2>5. CASE t = s
    BY <2>2, <2>3, <2>4, <2>5, TasksAssumption DEF Single, TypeOK
  <2>6. CASE t # s BY <2>3, <2>6 DEF Single, TypeOK
  <2> QED BY <2>5, <2>6
<1> QED BY <1>1, <1>2

LEMMA CallOnce ==
  ASSUME TypeOK, OnceInv, NEW s \in TaskIds, CallStep(s) \/ Timeout(s) \/ CallThrows(s),
         NEW t \in TaskIds, Single(t)'
  PROVE  Once(t)'
<1>1. UNCHANGED task \/ Recheck(s)
  BY DEF CallStep, Timeout, CallThrows, IfConnected, CreateTask, SendTaskToAgent, Reject,
         Rejected, Unhandled, Answer, Die
<1>2. Single(t) /\ Once(t)
  BY <1>1, SingleStays DEF OnceInv
<1>3. /\ UNCHANGED <<ok, ended, errored, work>> /\ msgs' \subseteq msgs /\ jobs' \subseteq jobs
  BY CallFrame DEF CallGroup
<1>4. \A w \in work' : w.task # t
  BY <1>2, <1>3 DEF Once
<1>5. pc'[t] \in Before => pc[t] \in Before
  <2>a. ASSUME NEW b, Rejected(s, b) PROVE pc'[t] \in Before => pc[t] \in Before
    BY <2>a, LaterPcs DEF Rejected, Unhandled
  <2>b. /\ "create" \in Before /\ "recheck" \in Before /\ "send" \in Before
        /\ "connected" \in Before
    BY DEF Before
  <2>1. CASE IfConnected(s)
    BY <2>b, <2>1, LaterPcs DEF IfConnected
  <2>2. CASE Recheck(s)
    BY <2>b, <2>2, LaterPcs DEF Recheck
  <2>3. CASE CreateTask(s)
    BY <2>b, <2>3, LaterPcs DEF CreateTask
  <2>4. CASE SendTaskToAgent(s)
    BY <2>a, <2>4, LaterPcs DEF SendTaskToAgent
  <2>5. CASE Reject(s) \/ CallThrows(s)
    BY <2>a, <2>5, LaterPcs DEF Reject, CallThrows
  <2>6. CASE Timeout(s)
    BY <2>6, LaterPcs DEF Timeout
  <2> QED BY <2>1, <2>2, <2>3, <2>4, <2>5, <2>6 DEF CallStep
<1>6. CASE t \in sent' => t \in sent
  BY <1>2, <1>3, <1>4, <1>5, <1>6, Wanes
<1>7. CASE t \in sent' /\ t \notin sent
  <2>a. ASSUME NEW b, Rejected(s, b) PROVE sent' \subseteq sent
    BY <2>a DEF Rejected, Unhandled, Die
  <2>1. SendTaskToAgent(s) /\ s = t /\ wss[task[s].to] # None
    <3>1. ~SendTaskToAgent(s) => sent' \subseteq sent
      BY <2>a DEF CallStep, Timeout, CallThrows, IfConnected, Recheck, CreateTask, Reject
    <3>2. SendTaskToAgent(s) BY <1>7, <3>1
    <3>3. Rejected(s, TRUE) => sent' \subseteq sent BY <2>a
    <3>4. wss[task[s].to] = None => sent' \subseteq sent
      BY <3>2, <3>3 DEF SendTaskToAgent
    <3>5. wss[task[s].to] # None => sent' = sent \cup {s}
      BY <3>2 DEF SendTaskToAgent
    <3> QED BY <1>7, <3>2, <3>4, <3>5
  <2>2. pc[t] = "send" /\ pc'[t] \in {"wait", "done"} /\ msgs' = msgs /\ jobs' = jobs
    BY <2>1 DEF SendTaskToAgent, Answer, TypeOK
  <2>3. NoMessages(t) /\ NoJobs(t) /\ Untouched(t)
    BY <1>2, <2>2 DEF Once, Before
  <2> QED
    BY <1>3, <1>4, <2>2, <2>3 DEF Once, NoMessages, NoJobs, Untouched, Before
<1> QED BY <1>6, <1>7

(* An agent answers such a task once, and on one connection.                 *)
LEMMA AgentOnce ==
  ASSUME TypeOK, AddressesAreOwn, OnceInv, AgentGroup, NEW t \in TaskIds, Single(t)'
  PROVE  Once(t)'
<1>1. UNCHANGED <<calls, table, jobs>>
  BY AgentFrame
<1>2. Single(t) /\ Once(t)
  BY <1>1 DEF OnceInv, Single
<1>3. ASSUME NEW s \in TaskIds, Receive(s) PROVE Once(t)'
  <2>0. s \in rows /\ task[s] # None BY <1>3 DEF Receive, TypeOK
  <2>1. CASE task[s].action = "shell_exec"
    <3>1. s # t /\ msgs' = msgs /\ (t \in sent' => t \in sent)
      BY <1>2, <1>3, <2>1 DEF Single, Receive
    <3>2. \A w \in work' : w.task # t
      BY <1>2, <1>3, <2>1, <3>1 DEF Receive, Once
    <3> QED BY <1>1, <1>2, <3>1, <3>2, Wanes
  <2>2. CASE task[s].action # "shell_exec"
    <3> DEFINE c == wss[task[s].to]
    <3>1. PICK out : SendData(s, 1, out, c)
      BY <1>3, <2>2 DEF Receive
    <3>2. work' = work /\ sent' = sent \ {s} /\ s \in sent /\ c \in Containers
      BY <1>3, <2>0, <2>2, TaskFields DEF Receive, TypeOK
    <3> HIDE DEF c
    <3>3. \A m \in msgs' \ msgs : m = [task |-> s, n |-> 1, out |-> out, from |-> addr[c]]
      BY <3>1, <3>2, TasksAssumption DEF SendData, AddressesAreOwn
    <3>4. msgs \subseteq msgs'
      BY <3>1 DEF SendData
    <3>5. CASE s = t
      <4>1. NoMessages(t) /\ NoJobs(t) /\ Untouched(t) /\ pc[t] \notin Before /\ t \notin sent'
        BY <1>2, <3>2, <3>5 DEF Once
      <4>2. \A m, n \in msgs' : m.task = t /\ n.task = t => n = m
        BY <3>3, <4>1 DEF NoMessages
      <4> QED
        BY <1>1, <1>2, <3>2, <4>1, <4>2 DEF Once, NoMessages, NoJobs, Untouched
    <3>6. CASE s # t
      <4>1. \A m \in msgs' : m.task = t => m \in msgs
        BY <3>3, <3>6
      <4> QED
        BY <1>1, <1>2, <3>2, <3>4, <4>1 DEF Once, NoMessages, NoJobs, Untouched
    <3> QED BY <3>5, <3>6
  <2> QED BY <2>1, <2>2
<1>4. ASSUME NEW w \in work, RunCommand(w) PROVE Once(t)'
  <2>1. w.task # t /\ w \in Works
    BY <1>2 DEF Once, TypeOK
  <2>2. \A v \in work' : v.task # t
    BY <1>2, <1>4, <2>1 DEF RunCommand, Once, Works
  <2>3. msgs \subseteq msgs' /\ sent' = sent /\ \A m \in msgs' : m.task = t => m \in msgs
    BY <1>4, <2>1 DEF RunCommand, SendData
  <2> QED
    BY <1>1, <1>2, <2>2, <2>3 DEF Once, NoMessages, NoJobs, Untouched
<1> QED BY <1>3, <1>4 DEF AgentGroup

(* A turn of a handler leaves at most one handler of its message ...         *)
LEMMA JobTurns ==
  ASSUME TypeOK, NEW j \in jobs, JobStep(j)
  PROVE  /\ \/ Ends(j)
            \/ \E i : /\ jobs' = (jobs \ {j}) \cup {i}
                      /\ i.task = j.task /\ (j.task \notin ended /\ ~j.ended => ~i.ended)
         /\ UNCHANGED <<pve, rows, sent, msgs, wss, agent, task>>
         /\ \A t \in TaskIds : pc'[t] \in Before => pc[t] \in Before
         /\ Ends(j) \/ UNCHANGED <<ok, ended, errored>>
<1>1. j \in Jobs /\ j.task \in TaskIds BY DEF TypeOK, Jobs
<1>2. \A p : [j EXCEPT !.pc = p].task = j.task /\ [j EXCEPT !.pc = p].ended = j.ended
  BY <1>1 DEF Jobs
<1>3. ASSUME Emit(j.task, j.out) \/ UNCHANGED calls, NEW t \in TaskIds
      PROVE  pc'[t] \in Before => pc[t] \in Before
  BY <1>1, <1>3, LaterPcs DEF Emit
<1>4. CASE CheckSender(j)
  <2>1. Next1(j, "handle") \/ Ends(j) BY <1>4 DEF CheckSender
  <2>2. \/ Ends(j)
        \/ \E i : /\ jobs' = (jobs \ {j}) \cup {i}
                  /\ i.task = j.task /\ (j.task \notin ended /\ ~j.ended => ~i.ended)
    BY <1>2, <2>1 DEF Next1
  <2> QED BY <1>4, <2>2 DEF CheckSender, calls, table
<1>5. CASE Handle(j)
  <2>1. UNCHANGED task BY <1>5 DEF Handle, Emit, Answer
  <2>2. (\E p : Next1(j, p)) \/ Ends(j) BY <1>5 DEF Handle
  <2>3. \/ Ends(j)
        \/ \E i : /\ jobs' = (jobs \ {j}) \cup {i}
                  /\ i.task = j.task /\ (j.task \notin ended /\ ~j.ended => ~i.ended)
    BY <1>2, <2>2 DEF Next1
  <2>4. /\ UNCHANGED <<pve, rows, sent, msgs, wss, agent, ok, ended, errored>>
        /\ Emit(j.task, j.out) \/ UNCHANGED calls
    BY <1>5 DEF Handle, net, table
  <2> QED BY <1>3, <2>1, <2>3, <2>4
<1>6. CASE FinishTask(j) \/ UpdateTask(j)
  BY <1>6 DEF FinishTask, UpdateTask
<1>7. CASE ErrorTask(j)
  <2> DEFINE i == [j EXCEPT !.pc = "writeRow", !.ended = j.task \in ended]
  <2>1. i.task = j.task /\ i.ended = (j.task \in ended)
    BY <1>1 DEF Jobs
  <2>2. jobs' = (jobs \ {j}) \cup {i} BY <1>7 DEF ErrorTask
  <2> HIDE DEF i
  <2> QED BY <1>7, <2>1, <2>2 DEF ErrorTask
<1> QED BY <1>4, <1>5, <1>6, <1>7 DEF JobStep

(* ... and what it writes of such a task is the first that is written.       *)
LEMMA JobStepOnce ==
  ASSUME TypeOK, OnceInv, NEW j \in jobs, JobStep(j), NEW t \in TaskIds, Single(t)'
  PROVE  Once(t)'
<1>1. Single(t) /\ Once(t)
  BY JobTurns DEF OnceInv, Single
<1>2. CASE j.task # t
  <2>1. (t \in ok' <=> t \in ok) /\ (t \in ended' <=> t \in ended)
        /\ (t \in errored' <=> t \in errored)
    BY <1>2 DEF JobStep, CheckSender, Handle, FinishTask, ErrorTask, UpdateTask
  <2>2. \A i : i.task = t => (i \in jobs' <=> i \in jobs)
    BY <1>2, JobTurns DEF Ends
  <2> QED BY <1>1, <2>1, <2>2, JobTurns DEF Once, NoMessages, NoJobs, Untouched
<1>3. CASE j.task = t
  <2>1. /\ Untouched(t) /\ ~j.ended /\ (\A i \in jobs : i.task = t => i = j)
        /\ t \notin sent /\ NoMessages(t) /\ pc[t] \notin Before
    BY <1>1, <1>3 DEF Once, NoJobs, NoMessages
  <2>2. t \notin sent' /\ NoMessages(t)' /\ pc'[t] \notin Before
    BY <2>1, JobTurns DEF NoMessages
  <2>3. ~(t \in ok' /\ t \in errored') /\ (t \in ok' => t \in ended')
    BY <1>3, <2>1 DEF JobStep, CheckSender, Handle, FinishTask, ErrorTask, UpdateTask, Untouched
  <2>4. CASE Ends(j)
    <3>1. NoJobs(t)' BY <2>1, <2>4 DEF NoJobs, Ends
    <3> QED BY <1>1, <2>2, <2>3, <3>1, JobTurns DEF Once, NoJobs, NoMessages
  <2>5. CASE ~Ends(j)
    <3>1. Untouched(t)' BY <2>1, <2>5, JobTurns DEF Untouched
    <3>2. PICK i : jobs' = (jobs \ {j}) \cup {i} /\ i.task = t /\ ~i.ended
      BY <1>3, <2>1, <2>5, JobTurns DEF Untouched
    <3>3. \A k \in jobs' : k.task = t => k = i BY <2>1, <3>2
    <3> QED BY <1>1, <2>2, <2>3, <3>1, <3>2, <3>3, JobTurns DEF Once, NoMessages
  <2> QED BY <2>4, <2>5
<1> QED BY <1>2, <1>3

(* A message becomes one job, and a rejection takes jobs away.               *)
LEMMA JobOnce ==
  ASSUME TypeOK, OnceInv, JobGroup, NEW t \in TaskIds, Single(t)'
  PROVE  Once(t)'
<1>1. ASSUME NEW m \in msgs, HandleMessage(m) PROVE Once(t)'
  <2> DEFINE i == [task |-> m.task, n |-> m.n, out |-> m.out, from |-> m.from,
                   pc |-> "checkIp", ended |-> FALSE]
  <2>1. jobs' = jobs \cup {i} /\ i.task = m.task /\ ~i.ended
    BY <1>1 DEF HandleMessage
  <2> HIDE DEF i
  <2>2. UNCHANGED <<pve, wss, sent, calls, table, agent>> /\ msgs' = msgs \ {m}
    BY <1>1 DEF HandleMessage
  <2>3. Single(t) /\ Once(t) BY <2>2 DEF Single, OnceInv
  <2>4. CASE m.task = t
    <3>1. /\ NoJobs(t) /\ Untouched(t) /\ (\A n \in msgs : n.task = t => n = m)
          /\ t \notin sent /\ pc[t] \notin Before
      BY <2>3, <2>4 DEF Once, NoMessages
    <3>2. NoMessages(t)' /\ (\A k \in jobs' : k.task = t => k = i)
      BY <2>1, <2>2, <3>1 DEF NoMessages, NoJobs
    <3> QED BY <2>1, <2>2, <2>3, <3>1, <3>2 DEF Once, NoMessages, Untouched
  <2>5. CASE m.task # t
    BY <2>1, <2>2, <2>3, <2>5 DEF Once, NoMessages, NoJobs, Untouched
  <2> QED BY <2>4, <2>5
<1>2. ASSUME NEW j \in jobs, JobThrows(j) PROVE Once(t)'
  <2>1. UNCHANGED task BY <1>2 DEF JobThrows, Die
  <2>2. Single(t) /\ Once(t) BY <2>1 DEF Single, OnceInv
  <2>3. UNCHANGED <<pve, table, agent>> BY <1>2 DEF JobThrows
  <2>4. /\ t \in sent' => t \in sent
        /\ msgs' \subseteq msgs /\ jobs' \subseteq jobs
        /\ pc'[t] \in Before => pc[t] \in Before
    BY <1>2, LaterPcs DEF JobThrows, Die, Ends
  <2>5. \A w \in work' : w.task # t BY <2>2, <2>3 DEF Once
  <2> QED BY <2>2, <2>3, <2>4, <2>5, Wanes
<1> QED BY <1>1, <1>2, JobStepOnce DEF JobGroup

(* The environment only takes away.                                          *)
LEMMA EnvironmentOnce ==
  ASSUME TypeOK, OnceInv, Environment, NEW t \in TaskIds, Single(t)'
  PROVE  Once(t)'
<1>1. CASE Crash
  <2>1. Single(t) /\ Once(t) BY <1>1 DEF Crash, Die, Single, OnceInv
  <2>2. /\ UNCHANGED <<table, agent>>
        /\ t \notin sent' /\ msgs' = {} /\ jobs' = {}
        /\ pc'[t] \in Before => pc[t] \in Before
    BY <1>1, LaterPcs DEF Crash, Die
  <2>3. \A w \in work' : w.task # t BY <2>1, <2>2 DEF Once
  <2> QED BY <2>1, <2>2, <2>3, Wanes
<1>2. CASE ~Crash
  <2>1. UNCHANGED <<calls, table, ran, jobs>> /\ work' \subseteq work
    BY <1>2 DEF Environment, Connect, AgentCrash, DeleteContainer, CreateContainer, Drop,
                AgentEnds
  <2>2. sent' \subseteq sent /\ msgs' \subseteq msgs
    BY <1>2 DEF Environment, Connect, AgentCrash, DeleteContainer, CreateContainer, Drop, AgentEnds,
                Disconnect
  <2>3. Single(t) /\ Once(t) BY <2>1 DEF Single, OnceInv
  <2>4. \A w \in work' : w.task # t BY <2>1, <2>3 DEF Once
  <2> QED BY <2>1, <2>2, <2>3, <2>4, Wanes
<1> QED BY <1>1, <1>2

(* Every step leaves what is on its way for such a task at one place.        *)
LEMMA OnceStep ==
  ASSUME TypeOK, ReportsInv, OnceInv, [Next]_vars
  PROVE  OnceInv'
<1> SUFFICES ASSUME NEW t \in TaskIds, Single(t)' PROVE Once(t)'
  BY DEF OnceInv
<1>2. CASE UNCHANGED vars
  BY <1>2 DEF vars, OnceInv, Once, Single, NoMessages, NoJobs, Untouched
<1>3. ASSUME NEW s \in TaskIds, CallGroup(s) PROVE Once(t)'
  BY <1>3, RequestOnce, CallOnce DEF CallGroup
<1> QED BY <1>2, <1>3, AgentOnce, JobOnce, EnvironmentOnce, Groups DEF ReportsInv

(* A task the agent answers once has one outcome, success or error, although *)
(* it is sent, answered and handled over connections that are lost and       *)
(* handlers that are interleaved; and a success has an end_time.             *)
THEOREM OneOutcomeOnly == Spec => []OneOutcome
<1>1. Init => OnceInv
  BY DEF Init, OnceInv, Single
<1>2. TypeOK /\ OnceInv => OneOutcome
  BY DEF TypeOK, OnceInv, Single, Once, OneOutcome
<1> QED BY <1>1, <1>2, OnceStep, ReportsInvariant, TypeCorrect, PTL DEF Spec

-----------------------------------------------------------------------------
(* What is not lost is recorded *)

Recorded(t) == t \in errored \/ (t \in ok /\ t \in ended)

(* Only a shell_exec_sync is said to be running, and of every other task     *)
(* that is kept something is underway or an outcome recorded.                *)
KeptInv ==
  /\ \A m \in msgs \cup jobs : m.out = "running" => task[m.task].action = "shell_exec_sync"
  /\ \A t \in kept : task[t].action = "shell_exec_sync" \/ Underway(t) \/ Recorded(t)

(* A step that neither says that a script is running nor takes away the last *)
(* of what is underway for a task it keeps.                                  *)
LEMMA KeptLater ==
  ASSUME TypeOK, KeptInv, SameTasks, kept' \subseteq kept,
         \A t \in kept' : Underway(t) => Underway(t)' \/ Recorded(t)',
         \A t \in kept' : Recorded(t) => Recorded(t)',
         \A m \in msgs' \cup jobs' :
           m.out # "running" \/ \E n \in msgs \cup jobs : n.out = m.out /\ n.task = m.task
  PROVE  KeptInv'
<1>1. ASSUME NEW m \in msgs' \cup jobs', m.out = "running"
      PROVE  task'[m.task].action = "shell_exec_sync"
  <2>1. PICK n \in msgs \cup jobs : n.out = m.out /\ n.task = m.task BY <1>1
  <2>2. n.task \in TaskIds /\ task[n.task] # None BY DEF TypeOK
  <2> QED BY <1>1, <2>1, <2>2 DEF KeptInv, SameTasks
<1>2. ASSUME NEW t \in kept'
      PROVE  task'[t].action = "shell_exec_sync" \/ Underway(t)' \/ Recorded(t)'
  <2>1. t \in kept /\ t \in TaskIds /\ task[t] # None BY DEF TypeOK
  <2>2. task'[t].action = task[t].action BY <2>1 DEF SameTasks
  <2> QED BY <2>1, <2>2 DEF KeptInv
<1> QED BY <1>1, <1>2 DEF KeptInv

(* The end of the process keeps no task of which it takes something.         *)
LEMMA DieKept ==
  ASSUME TypeOK, KeptInv, Die, UNCHANGED <<table, work>>
  PROVE  KeptInv'
<1>1. SameTasks BY AnswerFrame
<1>2. ASSUME NEW t \in kept', Underway(t) PROVE Underway(t)'
  <2>1. t \notin sent /\ \A m \in msgs \cup jobs : m.task # t BY <1>2 DEF Die
  <2>2. PICK w \in work : w.task = t BY <1>2, <2>1 DEF Underway
  <2> QED BY <2>2 DEF Underway
<1>3. kept' \subseteq kept /\ msgs' = {} /\ jobs' = {} BY DEF Die
<1> QED BY <1>1, <1>2, <1>3, KeptLater DEF Recorded

(* A request keeps what it sends.                                            *)
LEMMA CallKept ==
  ASSUME TypeOK, KeptInv, NEW s \in TaskIds, CallGroup(s)
  PROVE  KeptInv'
<1>1. /\ UNCHANGED <<ok, ended, errored, work>> /\ SameTasks
  BY CallFrame
<1>2. CASE UNCHANGED <<net, jobs>>
  BY <1>1, <1>2, KeptLater DEF Underway, Recorded
<1>3. CASE sent' = sent \cup {s} /\ kept' = kept \cup {s} /\ UNCHANGED <<msgs, jobs>>
  <2>1. \A t \in kept' : t \in kept \/ Underway(t)' BY <1>3 DEF Underway
  <2>2. \A t \in kept : Underway(t) => Underway(t)' BY <1>1, <1>3 DEF Underway
  <2>3. \A t \in kept : t \in TaskIds /\ task[t] # None BY DEF TypeOK
  <2>4. \A m \in msgs \cup jobs : m.task \in TaskIds /\ task[m.task] # None BY DEF TypeOK
  <2>5. \A t \in kept' : task'[t].action = "shell_exec_sync" \/ Underway(t)' \/ Recorded(t)'
    BY <1>1, <2>1, <2>2, <2>3 DEF KeptInv, SameTasks, Recorded
  <2> QED BY <1>1, <1>3, <2>4, <2>5 DEF KeptInv, SameTasks
<1>4. CASE Die /\ UNCHANGED table BY <1>1, <1>4, DieKept
<1>5. ASSUME NEW b, Rejected(s, b) PROVE Die \/ UNCHANGED <<net, jobs>>
  BY <1>5 DEF Rejected, Unhandled
<1>6. ASSUME SendTaskToAgent(s)
      PROVE  \/ UNCHANGED <<net, jobs>>
             \/ Die /\ UNCHANGED table
             \/ sent' = sent \cup {s} /\ kept' = kept \cup {s} /\ UNCHANGED <<msgs, jobs>>
  BY <1>5, <1>6 DEF SendTaskToAgent
<1>7. ASSUME Reject(s) \/ CallThrows(s)
      PROVE  UNCHANGED <<net, jobs>> \/ (Die /\ UNCHANGED table)
  BY <1>5, <1>7 DEF Reject, CallThrows
<1>8. ASSUME ~SendTaskToAgent(s), ~Reject(s), ~CallThrows(s) PROVE UNCHANGED <<net, jobs>>
  BY <1>8 DEF CallGroup, CallStep, Request, IfConnected, Recheck, CreateTask, Timeout
<1> QED BY <1>2, <1>3, <1>4, <1>6, <1>7, <1>8

(* An agent that can say nothing, or has nothing to say, loses the task.     *)
LEMMA AgentKept ==
  ASSUME TypeOK, KeptInv, AgentGroup
  PROVE  KeptInv'
<1>1. UNCHANGED <<calls, table, jobs, wss>> /\ SameTasks BY AgentFrame DEF SameTasks
<1>2. ASSUME NEW t, NEW n, NEW out, NEW c, SendData(t, n, out, c)
      PROVE  /\ kept' \subseteq kept /\ msgs \subseteq msgs'
             /\ t \in kept' => \E m \in msgs' : m.task = t
             /\ \A m \in msgs' \ msgs : m.task = t /\ m.out = out
  <2>1. CASE \E a \in Addrs : wss[a] = c
    <3>1. PICK a \in Addrs : wss[a] = c BY <2>1
    <3>2. [task |-> t, n |-> n, out |-> out, from |-> a] \in msgs' BY <1>2, <3>1 DEF SendData
    <3>3. \E m \in msgs' : m.task = t BY <3>2
    <3> QED BY <1>2, <2>1, <3>3 DEF SendData
  <2>2. CASE ~\E a \in Addrs : wss[a] = c BY <1>2, <2>2 DEF SendData
  <2> QED BY <2>1, <2>2
<1>3. ASSUME NEW s \in TaskIds, Receive(s) PROVE KeptInv'
  <2>1. s \in rows /\ task[s] # None /\ sent' = sent \ {s} BY <1>3 DEF Receive, TypeOK
  <2>2. CASE task[s].action = "shell_exec"
    <3>1. PICK n \in 0 .. MaxCommands :
            /\ work' = work \cup {[task |-> s, at |-> wss[task[s].to], left |-> m] : m \in {n} \ {0}}
            /\ kept' = IF n = 0 THEN kept \ {s} ELSE kept
      BY <1>3, <2>2 DEF Receive
    <3>2. kept' \subseteq kept /\ work \subseteq work' /\ msgs' = msgs
      BY <1>3, <2>2, <3>1 DEF Receive
    <3>3. s \in kept' => \E w \in work' : w.task = s
      <4>1. CASE n = 0 BY <3>1, <4>1
      <4>2. CASE n # 0
        <5>1. [task |-> s, at |-> wss[task[s].to], left |-> n] \in work' BY <3>1, <4>2
        <5> QED BY <5>1
      <4> QED BY <4>1, <4>2
    <3> QED BY <1>1, <2>1, <3>2, <3>3, KeptLater DEF Underway, Recorded
  <2>3. CASE task[s].action # "shell_exec"
    <3>1. PICK out \in SaidOf(task[s].action) : SendData(s, 1, out, wss[task[s].to])
      BY <1>3, <2>3 DEF Receive
    <3>2. work' = work BY <1>3, <2>3 DEF Receive
    <3>3. out = "running" => task[s].action = "shell_exec_sync"
      BY <2>1, <2>3, <3>1, TaskFields DEF SaidOf, Actions, TypeOK
    <3>4. /\ kept' \subseteq kept /\ msgs \subseteq msgs'
          /\ s \in kept' => \E m \in msgs' : m.task = s
          /\ \A m \in msgs' \ msgs : m.task = s /\ m.out = out
      BY <1>2, <3>1
    <3>5. \A t \in kept' : Underway(t) => Underway(t)'
      BY <1>1, <2>1, <3>2, <3>4 DEF Underway
    <3> QED BY <1>1, <3>3, <3>4, <3>5 DEF KeptInv, Recorded
  <2> QED BY <2>2, <2>3
<1>4. ASSUME NEW w \in work, RunCommand(w) PROVE KeptInv'
  <2>1. PICK out \in {"success", "error"} : SendData(w.task, w.left, out, w.at)
    BY <1>4 DEF RunCommand
  <2>2. work \ {w} \subseteq work' /\ sent' = sent BY <1>4 DEF RunCommand
  <2>3. /\ kept' \subseteq kept /\ msgs \subseteq msgs'
        /\ w.task \in kept' => \E m \in msgs' : m.task = w.task
        /\ \A m \in msgs' \ msgs : m.task = w.task /\ m.out = out
    BY <1>2, <2>1
  <2>4. \A t \in kept' : Underway(t) => Underway(t)'
    BY <1>1, <2>2, <2>3 DEF Underway
  <2> QED BY <1>1, <2>3, <2>4 DEF KeptInv, Recorded
<1> QED BY <1>3, <1>4 DEF AgentGroup

(* A message ends when its outcome is recorded, refused or lost.             *)
LEMMA JobKept ==
  ASSUME TypeOK, KeptInv, JobGroup
  PROVE  KeptInv'
<1>0. SameTasks BY JobFrame
<1>1. ASSUME NEW m \in msgs, HandleMessage(m) PROVE KeptInv'
  <2> DEFINE i == [task |-> m.task, n |-> m.n, out |-> m.out, from |-> m.from,
                   pc |-> "checkIp", ended |-> FALSE]
  <2>1. jobs' = jobs \cup {i} /\ i.task = m.task /\ i.out = m.out BY <1>1 DEF HandleMessage
  <2> HIDE DEF i
  <2>2. msgs' = msgs \ {m} /\ UNCHANGED <<sent, kept, work, table>> BY <1>1 DEF HandleMessage
  <2> QED BY <1>0, <2>1, <2>2, KeptLater DEF Underway, Recorded
<1>2. ASSUME NEW j \in jobs, JobThrows(j) PROVE KeptInv'
  <2>1. UNCHANGED <<table, work>> BY <1>2 DEF JobThrows
  <2>2. CASE Ends(j) /\ kept' = kept \ {j.task} /\ UNCHANGED <<sent, msgs>>
    BY <1>0, <2>1, <2>2, KeptLater DEF Underway, Recorded, Ends
  <2> QED BY <1>2, <2>1, <2>2, DieKept DEF JobThrows
<1>3. ASSUME NEW j \in jobs, JobStep(j) PROVE KeptInv'
  <2>1. /\ UNCHANGED <<sent, msgs, work, rows>> /\ kept' \subseteq kept
    BY <1>3 DEF JobStep, CheckSender, Handle, FinishTask, ErrorTask, UpdateTask
  <2>2. CASE /\ UNCHANGED table
             /\ \E i : jobs' = (jobs \ {j}) \cup {i} /\ i.task = j.task /\ i.out = j.out
    <3>1. PICK i : jobs' = (jobs \ {j}) \cup {i} /\ i.task = j.task /\ i.out = j.out BY <2>2
    <3> QED BY <1>0, <2>1, <2>2, <3>1, KeptLater DEF Underway, Recorded
  <2>3. CASE Ends(j) /\ (FinishTask(j) \/ UpdateTask(j))
    <3>1. \A t \in kept' : Recorded(t) => Recorded(t)'
      BY <2>3 DEF FinishTask, UpdateTask, Recorded
    <3>2. Recorded(j.task)' BY <2>3 DEF FinishTask, UpdateTask, Recorded
    <3>3. \A t \in kept' : Underway(t) => Underway(t)' \/ Recorded(t)'
      BY <2>1, <2>3, <3>2 DEF Underway, Ends
    <3> QED BY <1>0, <2>1, <2>3, <3>1, <3>3, KeptLater DEF Ends
  <2>4. CASE Ends(j) /\ CheckSender(j) /\ j.task \notin kept'
    <3>1. UNCHANGED table BY <2>4 DEF CheckSender
    <3> QED BY <1>0, <2>1, <2>4, <3>1, KeptLater DEF Ends, Underway, Recorded
  <2>5. CASE Ends(j) /\ Handle(j) /\ j.out = "running"
    <3>1. UNCHANGED table BY <2>5 DEF Handle
    <3>2. j.task \in TaskIds /\ task[j.task] # None BY DEF TypeOK
    <3>3. task'[j.task].action = "shell_exec_sync"
      BY <1>0, <2>5, <3>2 DEF KeptInv, SameTasks
    <3>4. \A t \in kept' : t # j.task /\ Underway(t) => Underway(t)'
      BY <2>1, <2>5 DEF Underway, Ends
    <3>5. \A t \in kept' : t \in TaskIds /\ task[t] # None BY <2>1 DEF TypeOK
    <3>6. \A t \in kept' : task'[t].action = "shell_exec_sync" \/ Underway(t)' \/ Recorded(t)'
      BY <1>0, <2>1, <3>1, <3>3, <3>4, <3>5 DEF KeptInv, SameTasks, Recorded
    <3>7. \A m \in msgs \cup jobs : m.task \in TaskIds /\ task[m.task] # None BY DEF TypeOK
    <3> QED BY <1>0, <2>1, <2>5, <3>6, <3>7 DEF KeptInv, SameTasks, Ends
  <2>6. j \in Jobs BY DEF TypeOK
  <2>7. \A p : [j EXCEPT !.pc = p].task = j.task /\ [j EXCEPT !.pc = p].out = j.out
    BY <2>6 DEF Jobs
  <2>8. CASE CheckSender(j) BY <2>2, <2>4, <2>7, <2>8 DEF CheckSender, Next1
  <2>9. CASE Handle(j) BY <2>2, <2>5, <2>7, <2>9 DEF Handle, Next1
  <2>10. CASE ErrorTask(j)
    <3> DEFINE i == [j EXCEPT !.pc = "writeRow", !.ended = j.task \in ended]
    <3>1. i.task = j.task /\ i.out = j.out BY <2>6 DEF Jobs
    <3>2. jobs' = (jobs \ {j}) \cup {i} /\ UNCHANGED table BY <2>10 DEF ErrorTask
    <3> HIDE DEF i
    <3> QED BY <2>2, <3>1, <3>2
  <2>11. CASE FinishTask(j) \/ UpdateTask(j)
    BY <2>3, <2>11 DEF FinishTask, UpdateTask
  <2> QED BY <1>3, <2>8, <2>9, <2>10, <2>11 DEF JobStep
<1> QED BY <1>1, <1>2, <1>3 DEF JobGroup

(* The environment keeps no task of which it takes something.                *)
LEMMA EnvironmentKept ==
  ASSUME TypeOK, KeptInv, Environment
  PROVE  KeptInv'
<1>1. CASE Crash BY <1>1, DieKept DEF Crash
<1>2. SameTasks BY EnvironmentFrame
<1>3. ASSUME NEW a, Disconnect(a), kept' \subseteq kept \ OnWay(a), UNCHANGED <<jobs, table>>,
             \A t \in kept' : \A w \in work : w.task = t => w \in work'
      PROVE  KeptInv'
  <2>1. \A t \in kept' : Underway(t) => Underway(t)'
    BY <1>3 DEF Disconnect, OnWay, Underway
  <2> QED BY <1>2, <1>3, <2>1, KeptLater DEF Disconnect, Recorded
<1>4. CASE \E a \in Addrs : Drop(a) BY <1>3, <1>4 DEF Drop
<1>5. ASSUME NEW c \in Containers, AgentCrash(c) \/ DeleteContainer(c) PROVE KeptInv'
  <2>1. AgentEnds(c) /\ UNCHANGED <<jobs, table>> BY <1>5 DEF AgentCrash, DeleteContainer
  <2>2. \A t \in kept' : \A w \in work : w.task = t => w \in work'
    BY <2>1 DEF AgentEnds
  <2>3. Disconnect(addr[c]) /\ kept' \subseteq kept \ OnWay(addr[c]) BY <2>1 DEF AgentEnds
  <2> QED BY <1>3, <2>1, <2>2, <2>3
<1>6. CASE \E c \in Containers : Connect(c) \/ \E a \in Addrs : CreateContainer(c, a)
  <2>1. UNCHANGED <<calls, table, sent, msgs, kept, agent, jobs>>
    BY <1>6 DEF Connect, CreateContainer
  <2> QED BY <1>2, <2>1, KeptLater DEF Underway, Recorded
<1> QED BY <1>1, <1>4, <1>5, <1>6 DEF Environment

(* A task that was given to an agent and of which nothing was lost has an    *)
(* outcome once nothing about it is underway, whatever the handlers of its   *)
(* messages read and write back in between (ContainerWorkspaces.ts:324-343). *)
THEOREM OutcomesRecorded == Spec => []OutcomesAreRecorded
<1>1. Init => KeptInv BY DEF Init, KeptInv
<1>2. ASSUME TypeOK, KeptInv, [Next]_vars PROVE KeptInv'
  <2>1. CASE UNCHANGED vars
    <3>1. SameTasks /\ kept' \subseteq kept /\ msgs' = msgs /\ jobs' = jobs
      BY <2>1 DEF vars, SameTasks
    <3>2. \A t : (Underway(t) <=> Underway(t)') /\ (Recorded(t) <=> Recorded(t)')
      BY <2>1 DEF vars, Underway, Recorded
    <3> QED BY <1>2, <3>1, <3>2, KeptLater
  <2> QED BY <1>2, <2>1, Groups, CallKept, AgentKept, JobKept, EnvironmentKept
<1>3. KeptInv => OutcomesAreRecorded
  BY DEF KeptInv, OutcomesAreRecorded, Recorded
<1> QED BY <1>1, <1>2, <1>3, TypeCorrect, PTL DEF Spec

-----------------------------------------------------------------------------
(* The safety part of AgentCall *)

Waits == {t \in TaskIds : pc[t] = "wait"}
GotData == {t \in TaskIds : reply[t] = "data"}
Said == {t \in rows : <<t, task[t].ct>> \in ran}
Maps == [A!Next]_<<Waits, GotData, Said, again>>

(* What a step of AgentCall, or a stutter, is in terms of the mapping. *)
LEMMA MapsTo ==
  /\ Maps <=> [A!Next]_(A!callVars)
  /\ UNCHANGED <<Waits, GotData, Said, again>> => Maps
  /\ \A t \in TaskIds :
       /\ /\ t \notin Waits \cup GotData /\ Waits' = Waits \cup {t}
          /\ UNCHANGED <<GotData, Said, again>>
          => Maps
       /\ Said' = Said \cup {t} /\ UNCHANGED <<Waits, GotData, again>> => Maps
       /\ /\ t \in Waits /\ t \in Said \cup again /\ Waits' = Waits \ {t}
          /\ GotData' = GotData \cup {t} /\ UNCHANGED <<Said, again>>
          => Maps
       /\ t \in Waits /\ Waits' = Waits \ {t} /\ UNCHANGED <<GotData, Said, again>> => Maps
  /\ Waits' = {} /\ UNCHANGED <<GotData, Said, again>> => Maps
  /\ \A S \in SUBSET TaskIds : again' = again \cup S /\ UNCHANGED <<Waits, GotData, Said>> => Maps
<1>1. Maps <=> [A!Next]_(A!callVars)
  BY DEF Maps, Waits, GotData, Said, A!callVars
<1>2. A!Next <=> \/ \E t \in TaskIds : A!Ask(t) \/ A!Reply(t) \/ A!Return(t)
                 \/ \E S \in SUBSET TaskIds : A!Replace(S) \/ A!Fail(S)
  BY DEF A!Next
<1>3. ASSUME NEW t \in TaskIds
      PROVE  /\ A!Ask(t) <=> /\ t \notin Waits \cup GotData /\ Waits' = Waits \cup {t}
                             /\ UNCHANGED <<GotData, Said, again>>
             /\ A!Reply(t) <=> Said' = Said \cup {t} /\ UNCHANGED <<Waits, GotData, again>>
             /\ A!Return(t) <=> /\ t \in Waits /\ t \in Said \cup again /\ Waits' = Waits \ {t}
                                /\ GotData' = GotData \cup {t} /\ UNCHANGED <<Said, again>>
  BY DEF A!Ask, A!Reply, A!Return, Waits, GotData, Said
<1>4. ASSUME NEW S \in SUBSET TaskIds
      PROVE  A!Fail(S) <=> /\ S # {} /\ S \subseteq Waits /\ Waits' = Waits \ S
                           /\ UNCHANGED <<GotData, Said, again>>
  BY DEF A!Fail, Waits, GotData, Said
<1>8. ASSUME NEW S \in SUBSET TaskIds
      PROVE  A!Replace(S) <=> again' = again \cup S /\ UNCHANGED <<Waits, GotData, Said>>
  BY DEF A!Replace, Waits, GotData, Said
<1>5. Waits \in SUBSET TaskIds BY DEF Waits
<1>6. Waits' = {} /\ UNCHANGED <<GotData, Said, again>> => Maps
  <2>1. CASE Waits = {} BY <2>1 DEF Maps
  <2>2. CASE Waits # {} BY <1>2, <1>4, <1>5, <2>2 DEF Maps
  <2> QED BY <2>1, <2>2
<1>7. ASSUME NEW t \in TaskIds, t \in Waits, Waits' = Waits \ {t}, UNCHANGED <<GotData, Said, again>>
      PROVE  Maps
  <2>1. {t} \in SUBSET TaskIds /\ {t} # {} /\ {t} \subseteq Waits BY <1>7
  <2> QED BY <1>2, <1>4, <1>7, <2>1 DEF Maps
<1> QED BY <1>1, <1>2, <1>3, <1>6, <1>7, <1>8 DEF Maps

(* As long as no agent says more, the said calls stay. *)
LEMMA SaidStays ==
  ASSUME TypeOK, SameTasks, UNCHANGED ran, rows \subseteq rows'
  PROVE  Said' = Said
BY DEF Said, SameTasks, TypeOK

(* A call that is answered with anything but data fails, if it waited. *)
LEMMA AnswerMaps ==
  ASSUME TypeOK, NEW t \in TaskIds, pc[t] # "done", NEW code, code # "data", Answer(t, code),
         UNCHANGED <<Said, again>>
  PROVE  Maps
<1>1. GotData' = GotData BY DEF GotData, Answer, TypeOK
<1>2. Waits' = Waits \ {t} BY DEF Waits, Answer, TypeOK
<1>3. CASE t \in Waits BY <1>1, <1>2, <1>3, MapsTo
<1>4. CASE t \notin Waits BY <1>1, <1>2, <1>4, MapsTo
<1> QED BY <1>3, <1>4

(* A call that goes on begins to wait, ends its wait or does neither. *)
LEMMA GotoMaps ==
  ASSUME TypeOK, NEW t \in TaskIds, pc[t] # "done", NEW p, Goto(t, p), UNCHANGED <<Said, again>>
  PROVE  Maps
<1>1. GotData' = GotData BY DEF GotData
<1>2. CASE p = "wait"
  <2>1. Waits' = Waits \cup {t} BY <1>2 DEF Waits, TypeOK
  <2>2. t \notin GotData BY DEF GotData, TypeOK
  <2>3. CASE t \in Waits BY <1>1, <2>1, <2>3, MapsTo
  <2>4. CASE t \notin Waits BY <1>1, <2>1, <2>2, <2>4, MapsTo
  <2> QED BY <2>3, <2>4
<1>3. CASE p # "wait"
  <2>1. Waits' = Waits \ {t} BY <1>3 DEF Waits, TypeOK
  <2>2. CASE t \in Waits BY <1>1, <2>1, <2>2, MapsTo
  <2>3. CASE t \notin Waits BY <1>1, <2>1, <2>3, MapsTo
  <2> QED BY <2>2, <2>3
<1> QED BY <1>2, <1>3

(* The end of the process fails all the calls that wait. *)
LEMMA DieMaps == ASSUME TypeOK, Die, UNCHANGED <<Said, again>> PROVE Maps
<1>1. GotData' = GotData BY DEF GotData, Die, TypeOK
<1>2. Waits' = {} BY DEF Waits, Die
<1> QED BY <1>1, <1>2, MapsTo

(* The steps of the requests. *)
LEMMA CallMaps == ASSUME TypeOK, NEW t \in TaskIds, CallGroup(t) PROVE Maps
<1>1. Said' = Said /\ again' = again BY CallFrame, SaidStays
<1>2. CASE \E a \in Actions, c \in Containers : Request(t, a, c)
  <2>1. Waits' = Waits /\ GotData' = GotData
    BY <1>2 DEF Request, Waits, GotData, TypeOK
  <2> QED BY <1>1, <2>1, MapsTo
<1>3. CASE Recheck(t)
  <2>1. CASE pc' = [pc EXCEPT ![t] = "create"] /\ UNCHANGED reply
    <3>1. Waits' = Waits /\ GotData' = GotData
      BY <1>3, <2>1 DEF Recheck, Waits, GotData, TypeOK
    <3> QED BY <1>1, <3>1, MapsTo
  <2>2. CASE Answer(t, "conflict") BY <1>1, <1>3, <2>2, AnswerMaps DEF Recheck
  <2> QED BY <1>3, <2>1, <2>2 DEF Recheck
<1>4. CASE IfConnected(t) \/ CreateTask(t) \/ Timeout(t)
  BY <1>1, <1>4, AnswerMaps, GotoMaps DEF IfConnected, CreateTask, Timeout
<1>5. CASE SendTaskToAgent(t) \/ Reject(t) \/ CallThrows(t)
  <2>1. pc[t] # "done" BY <1>5 DEF SendTaskToAgent, Reject, CallThrows
  <2>2. \/ Goto(t, "wait") \/ Unhandled(t)
        \/ \E code \in {"ok", "not found", "error", "silent"} : Answer(t, code)
    BY <1>5 DEF SendTaskToAgent, Reject, CallThrows, Rejected
  <2>3. Unhandled(t) => Die \/ Answer(t, "dropped") BY DEF Unhandled
  <2> QED BY <1>1, <2>1, <2>2, <2>3, AnswerMaps, GotoMaps, DieMaps
<1> QED BY <1>2, <1>3, <1>4, <1>5 DEF CallGroup, CallStep

(* What an agent says is a reply, about one call. *)
LEMMA AgentMaps == ASSUME TypeOK, AgentGroup PROVE Maps
<1>1. Waits' = Waits /\ GotData' = GotData /\ again' = again BY AgentFrame DEF Waits, GotData
<1>2. UNCHANGED <<rows, task>> BY AgentFrame
<1>3. CASE UNCHANGED ran
  <2>1. Said' = Said BY <1>2, <1>3 DEF Said
  <2> QED BY <1>1, <2>1, MapsTo
<1>4. ASSUME NEW t \in rows, NEW n, NEW out, NEW c, SendData(t, n, out, c) PROVE Maps
  <2>1. Said' = Said \/ Said' = Said \cup {t} BY <1>2, <1>4 DEF Said, SendData
  <2>2. t \in TaskIds BY DEF TypeOK
  <2> QED BY <1>1, <2>1, <2>2, MapsTo
<1>5. ASSUME NEW t \in TaskIds, Receive(t)
      PROVE  UNCHANGED ran \/ (t \in rows /\ \E n, out, c : SendData(t, n, out, c))
  BY <1>5 DEF Receive, TypeOK
<1>6. ASSUME NEW w \in work, RunCommand(w)
      PROVE  w.task \in rows /\ \E n, out, c : SendData(w.task, n, out, c)
  BY <1>6 DEF RunCommand, TypeOK
<1> QED BY <1>3, <1>4, <1>5, <1>6 DEF AgentGroup

(* What the daemon hands to a caller comes from a message that was checked. *)
LEMMA JobMaps == ASSUME TypeOK, SendersAreChecked, JobGroup PROVE Maps
<1>1. Said' = Said /\ again' = again BY JobFrame, SaidStays
<1>2. CASE UNCHANGED calls
  <2>1. Waits' = Waits /\ GotData' = GotData BY <1>2 DEF Waits, GotData
  <2> QED BY <1>1, <2>1, MapsTo
<1>3. ASSUME NEW j \in jobs, j.pc # "checkIp", Emit(j.task, j.out) PROVE Maps
  <2> DEFINE t == j.task
  <2>1. t \in TaskIds /\ t \in rows BY DEF TypeOK
  <2>2. t \in Said \cup again BY <1>3, <2>1 DEF SendersAreChecked, Said
  <2>3. CASE ~At(t, "wait") BY <1>2, <1>3, <2>3 DEF Emit
  <2>4. CASE At(t, "wait") /\ Goto(t, "rejected") BY <1>1, <2>1, <2>4, GotoMaps
  <2>5. CASE At(t, "wait") /\ Answer(t, "data")
    <3>1. t \in Waits /\ Waits' = Waits \ {t} /\ GotData' = GotData \cup {t}
      BY <2>1, <2>5 DEF Waits, GotData, Answer, TypeOK
    <3> QED BY <1>1, <2>1, <2>2, <3>1, MapsTo
  <2> QED BY <1>3, <2>3, <2>4, <2>5 DEF Emit
<1>4. ASSUME NEW j \in jobs, JobStep(j)
      PROVE  UNCHANGED calls \/ (j.pc # "checkIp" /\ Emit(j.task, j.out))
  BY <1>4 DEF JobStep, CheckSender, Handle, FinishTask, ErrorTask, UpdateTask
<1>5. ASSUME NEW j \in jobs, JobThrows(j) PROVE UNCHANGED calls \/ Die
  BY <1>5 DEF JobThrows
<1>6. ASSUME NEW x \in msgs, HandleMessage(x) PROVE UNCHANGED calls
  BY <1>6 DEF HandleMessage
<1> QED BY <1>1, <1>2, <1>3, <1>4, <1>5, <1>6, DieMaps DEF JobGroup

(* Nothing around the daemon makes a call return. *)
LEMMA EnvironmentMaps == ASSUME TypeOK, Environment PROVE Maps
<1>1. Said' = Said BY EnvironmentFrame, SaidStays
<1>2. CASE Crash BY <1>1, <1>2, DieMaps DEF Crash
<1>3. CASE ~Crash
  <2>1. UNCHANGED calls
    BY <1>3 DEF Environment, Connect, AgentCrash, DeleteContainer, CreateContainer, Drop
  <2>2. Waits' = Waits /\ GotData' = GotData BY <2>1 DEF Waits, GotData
  <2>3. again' = again \/ \E S \in SUBSET TaskIds : again' = again \cup S
    BY <1>3 DEF Environment, Connect, AgentCrash, DeleteContainer, CreateContainer, Drop
  <2> QED BY <1>1, <2>2, <2>3, MapsTo
<1> QED BY <1>2, <1>3

(* The daemon implements the safety part of AgentCall: a caller gets data   *)
(* only while it waits and only what the agent of its container has said,   *)
(* unless that container's id was given again, and is answered once.        *)
THEOREM ImplementsAgentCallSafety == Spec => A!Safety
<1>1. Init => A!Init BY DEF Init, A!Init
<1>2. ASSUME TypeOK, ReportsInv, [Next]_vars PROVE [A!Next]_(A!callVars)
  <2>1. CASE UNCHANGED vars
    <3>1. UNCHANGED <<Waits, GotData, Said, again>> BY <2>1 DEF vars, Waits, GotData, Said
    <3> QED BY <3>1, MapsTo
  <2> QED BY <1>2, <2>1, Groups, CallMaps, AgentMaps, JobMaps, EnvironmentMaps, MapsTo
          DEF ReportsInv
<1>3. Init => ReportsInv
  BY TasksAssumption DEF Init, ReportsInv, AddressesAreOwn, SendersAreTold,
         SendersAreChecked, OnlyItsAgentReports
<1> QED BY <1>1, <1>2, <1>3, ReportsStep, TypeCorrect, PTL DEF Spec, A!Safety
=============================================================================
