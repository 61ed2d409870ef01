----------------------------- MODULE Operations -----------------------------
(***************************************************************************)
(* What the routes of routers/container.ts do to a container that is there: *)
(* its status and its backups (functions of proxmox/apiTools.ts), in        *)
(* a process that also creates and deletes containers (Provisioning has     *)
(* these two in detail; here they are what other requests run into).        *)
(*                                                                          *)
(* A request is a sequence of queries and calls.  What one of them found    *)
(* may be gone at the next, and most of the code does not ask: a property   *)
(* of null is read, which throws in a handler nobody awaits and ends the    *)
(* process.  A call is one of RemoteCall.                                   *)
(***************************************************************************)
EXTENDS Naturals, Sequences, TLC

CONSTANTS
  Requests,   \* requests served at once, a slot is reused
  VmIds,      \* ids of containers
  BackupIds,  \* names of backups
  Env,        \* what the environment does (see EnvEvents)
  None

(***************************************************************************)
(*   refuse    Proxmox answers a call with an error                         *)
(*   lost      a call fails, perhaps after it was carried out               *)
(*   stranger  people create and destroy containers and machines of their   *)
(*             own, perhaps with an address of the service                  *)
(***************************************************************************)
EnvEvents == {"refuse", "lost", "stranger"}

ASSUME OperationsAssumption == Env \subseteq EnvEvents /\ None \notin VmIds

-----------------------------------------------------------------------------
(* What is asked, one after the other.  "node" is getNodeOfContainer where   *)
(* its null goes into the path of the next call, "ownNode" where it is       *)
(* returned.                                                                 *)

(* Mutant: any container of the cluster will do.                             *)
ValidateContainerIDInCluster == <<"validate">>

ValidateContainerID == <<"validate", "checkContainerID">>

GetContainerStatus == <<"ownNode", "current">>

ChangeContainerStatus == <<"ownNode", "change">>

GetStorages == <<"storages">>

GetStorageOfBackup == GetStorages \o <<"content">>

CreateBackup == <<"node">> \o GetStorages \o GetContainerStatus \o <<"vzdump">>

DeleteBackup == <<"node">> \o GetStorageOfBackup \o <<"erase">>

GetBackups == <<"node">> \o GetStorages \o <<"list">>

RestoreBackup == <<"node">> \o GetStorageOfBackup \o <<"restore">>

GetContainerStatuses == <<"rows", "resources">>

GetSpecificContainerStatuses == <<"rows">> \o GetContainerStatus

(* The middleware of a deletion: the address of an id, looked up in cts.     *)
GetContainerIP == <<"ownNode", "config", "checkIP">>

DeleteContainer == <<"node", "destroy", "unrow">>

(* Mutant: whatever has an address will do.                                  *)
DeleteUnchecked == <<"ownNode", "config", "node", "destroy", "unrow">>

Delete == GetContainerIP \o DeleteContainer

CreateContainer == <<"create", "insert">>

-----------------------------------------------------------------------------
(* The routes, by the names of their requests.                               *)

(* Mutant: nothing is asked before the status is.                            *)
GetContainerAtOnce == GetContainerStatus \o <<"row">>

GetContainer == ValidateContainerID \o GetContainerStatus \o <<"row">>

TriggerStatusChange == ValidateContainerID \o ChangeContainerStatus

Backups == [backup  |-> ValidateContainerID \o CreateBackup,
            restore |-> ValidateContainerID \o RestoreBackup,
            erase   |-> ValidateContainerID \o DeleteBackup,
            list    |-> ValidateContainerID \o GetBackups]

GetContainers == <<"rows">> \o GetContainerStatuses

Routes == [all |-> GetContainers, specific |-> GetSpecificContainerStatuses,
           one |-> GetContainer, status |-> TriggerStatusChange,
           create |-> CreateContainer, delete |-> Delete,
           backup |-> Backups.backup, backups |-> Backups.list,
           restore |-> Backups.restore, erase |-> Backups.erase]

Kinds == DOMAIN Routes

-----------------------------------------------------------------------------
VARIABLES
  cts,      \* Proxmox: what an id is of, and whose
  rows,     \* the ids that have a row in the table cts
  backups,  \* Proxmox: the container a backup was made of
  req,      \* the requests under way
  muddled,  \* history: ids whose row did not go with their container
  harmed    \* history: ids under which a stranger's container was changed

vars == <<cts, rows, backups, req, muddled, harmed>>
world == <<cts, rows, backups, harmed>>

(* A container of ours, one "revived" by a restoration when it was no longer *)
(* there, a stranger's, a stranger's that has an address of the service      *)
(* ("squatter"); a "machine" of QEMU, which is no container but has an id.   *)
Owners == {"none", "ours", "revived", "stranger", "squatter", "machine"}

Idle == [kind |-> "idle"]

(* `node` is FALSE when there is a null in its place; `owner` says whose the *)
(* address is that was read; `stray` is a call that is on its way when the   *)
(* process that made it has ended.                                           *)
Served == [kind : Kinds, id : VmIds \cup {None}, backup : BackupIds \cup {None},
           pos : 1 .. 7, node : BOOLEAN, owner : Owners, stray : BOOLEAN]

Step(r) == IF req[r] = Idle THEN "none" ELSE Routes[req[r].kind][req[r].pos]

Writes == {"change", "vzdump", "erase", "restore", "create", "destroy"}

TypeOK == /\ cts \in [VmIds -> Owners] /\ rows \subseteq VmIds
          /\ backups \in [BackupIds -> VmIds \cup {None}]
          /\ req \in [Requests -> {Idle} \cup Served]
          /\ \A r \in Requests : req[r] # Idle =>
               /\ req[r].pos <= Len(Routes[req[r].kind])
               /\ req[r].kind # "all" => req[r].id \in VmIds
               /\ req[r].stray => Step(r) \in Writes
          /\ muddled \subseteq VmIds /\ harmed \subseteq VmIds

Init == /\ cts \in [VmIds -> {"none", "stranger", "machine"}] /\ rows = {}
        /\ backups = [b \in BackupIds |-> None]
        /\ req = [r \in Requests |-> Idle]
        /\ muddled = {} /\ harmed = {}

-----------------------------------------------------------------------------
(* How a request comes and goes on                                           *)

Exists(v) == cts[v] # "none"

IsContainer(v) == cts[v] \notin {"none", "machine"}

Live(r) == req[r] # Idle /\ ~req[r].stray

Goes(r, q) == req' = [req EXCEPT ![r] = q]

(* A request for any id and any backup; a creation is for the next free id.  *)
Arrive(r) ==
  /\ req[r] = Idle
  /\ \E k \in Kinds, v \in VmIds, b \in BackupIds :
       /\ k = "create" => ~Exists(v)
       /\ Goes(r, [kind |-> k, id |-> IF k = "all" THEN None ELSE v,
                   backup |-> IF k \in {"restore", "erase"} THEN b ELSE None,
                   pos |-> 1, node |-> TRUE, owner |-> "none", stray |-> FALSE])
  /\ UNCHANGED world

(* Mutant: one more step than there are.                                     *)
GoesOnOnceMore(r, q) == IF q.pos > Len(Routes[q.kind])
                        THEN Goes(r, Idle) ELSE Goes(r, [q EXCEPT !.pos = @ + 1])

(* The next step, or the answer after the last one.                          *)
GoesOn(r, q) == IF q.pos = Len(Routes[q.kind])
                THEN Goes(r, Idle) ELSE Goes(r, [q EXCEPT !.pos = @ + 1])

(* What a query or a call that only reads asks for is there.                 *)
Found(r) == LET q == req[r] IN
  CASE Step(r) \in {"validate", "node", "ownNode"} -> Exists(q.id)
    [] Step(r) \in {"current", "config"} -> IsContainer(q.id)
    [] Step(r) \in {"checkContainerID", "row"} -> q.id \in rows
    [] Step(r) = "rows" -> q.kind = "all" \/ q.id \in rows
    [] Step(r) = "content" -> q.node /\ backups[q.backup] # None
    [] Step(r) = "storages" -> q.node
    [] OTHER -> TRUE

(* The code reads a property of the null it was given.  The route for many   *)
(* containers skips one without a status, and an id of nothing has no        *)
(* address; but that what had an id has no configuration is not expected.    *)
Trips(r) == \/ Step(r) \in {"storages", "row", "config"}
            \/ Step(r) \in {"ownNode", "current"} /\ req[r].kind \notin {"specific", "delete"}

Read(r) ==
  /\ Live(r) /\ Step(r) \notin Writes \cup {"config", "checkIP", "insert", "unrow"}
  /\ \/ Found(r) /\ GoesOn(r, req[r])
     \/ ~Found(r) /\ Step(r) = "node" /\ GoesOn(r, [req[r] EXCEPT !.node = FALSE])
     \/ ~Found(r) /\ Step(r) # "node" /\ ~Trips(r) /\ Goes(r, Idle)
     \/ Step(r) = "storages" /\ Found(r) /\ Goes(r, Idle)  \* none that will do
  /\ UNCHANGED world

ReadConfig(r) == LET q == req[r] IN
  /\ Live(r) /\ Step(r) = "config" /\ Found(r)
  /\ GoesOn(r, [q EXCEPT !.owner = cts[q.id]])
  /\ UNCHANGED world

(* The address that was read, whatever has the id by now, is searched in all *)
(* rows, and another container's may have it (two creations can get one      *)
(* address, see Provisioning; people can use one).  Which row has which is   *)
(* left out, so an address of the service is found or not.                   *)
CheckIP(r) ==
  /\ Live(r) /\ Step(r) = "checkIP"
  /\ \/ /\ req[r].owner \in {"ours", "revived", "squatter"} /\ rows # {}
        /\ GoesOn(r, req[r])
     \/ Goes(r, Idle)
  /\ UNCHANGED world

(* The rows of Provisioning's insertRow and deleteRow; a row that is there   *)
(* already, or is gone, leads to an error, which is caught.                  *)
Insert(r) == /\ Live(r) /\ Step(r) = "insert"
             /\ rows' = rows \cup {req[r].id} /\ Goes(r, Idle)
             /\ UNCHANGED <<cts, backups, harmed>>

Unrow(r) == /\ Live(r) /\ Step(r) = "unrow"
            /\ rows' = rows \ {req[r].id} /\ Goes(r, Idle)
            /\ UNCHANGED <<cts, backups, harmed>>

-----------------------------------------------------------------------------
(* What Proxmox does                                                         *)

Possible(r) == LET q == req[r] IN
  CASE Step(r) \in {"change", "destroy"} -> IsContainer(q.id) /\ q.node
    [] Step(r) = "vzdump" -> Exists(q.id) /\ q.node /\ \E b \in BackupIds : backups[b] = None
    [] Step(r) = "erase" -> backups[q.backup] # None
    [] Step(r) = "restore" -> backups[q.backup] # None /\ cts[q.id] # "machine"
    [] Step(r) = "create" -> ~Exists(q.id)
    [] OTHER -> FALSE

OwnerBecomes(v, owner) == cts' = [cts EXCEPT ![v] = owner]

(* It takes the id for the container's name, whosever container that is by   *)
(* now; a restoration does not need one (force = 1).                         *)
CarriedOut(r) == LET v == req[r].id IN
  /\ Possible(r)
  /\ CASE Step(r) = "create" -> OwnerBecomes(v, "ours")
       [] Step(r) = "destroy" -> OwnerBecomes(v, "none")
       [] Step(r) = "restore" /\ ~Exists(v) -> OwnerBecomes(v, "revived")
       [] OTHER -> UNCHANGED cts
  /\ CASE Step(r) = "vzdump" -> \E b \in BackupIds :
                                  backups[b] = None /\ backups' = [backups EXCEPT ![b] = v]
       [] Step(r) = "erase" -> backups' = [backups EXCEPT ![req[r].backup] = None]
       [] OTHER -> UNCHANGED backups
  /\ harmed' = IF /\ cts[v] \in {"stranger", "squatter"}
                  /\ Step(r) \in {"change", "restore", "destroy"}
               THEN harmed \cup {v} ELSE harmed
  /\ UNCHANGED rows

Write(r) == /\ Live(r) /\ CarriedOut(r)
            /\ GoesOn(r, req[r])

(* Proxmox cannot, or will not.  A deletion goes on all the same.            *)
WriteRefused(r) ==
  /\ Live(r) /\ Step(r) \in Writes /\ (Possible(r) => "refuse" \in Env)
  /\ IF Step(r) = "destroy" THEN GoesOn(r, req[r]) ELSE Goes(r, Idle)
  /\ UNCHANGED world

(* createContainerInProxmox and deleteContainer catch what they await.       *)
FailureCaught(r) ==
  /\ Live(r) /\ req[r].kind \in {"create", "delete"}
  /\ \/ "lost" \in Env /\ Step(r) \in {"create", "destroy", "node"}
     \/ "refuse" \in Env /\ Step(r) = "node"
  /\ CarriedOut(r) \/ UNCHANGED world
  /\ Goes(r, Idle)

(* The call of a process that has ended is carried out, or is not.           *)
Stray(r) == /\ req[r] # Idle /\ req[r].stray
            /\ CarriedOut(r) \/ UNCHANGED world
            /\ Goes(r, Idle)

-----------------------------------------------------------------------------
(* The end of the process                                                    *)

(* Nothing but a null that was not expected.                                 *)
Stumbles(r) == Live(r) /\ ~Found(r) /\ Trips(r)

(* A call fails, or a list is missing in the answer of a Proxmox that will   *)
(* not, and nobody catches it.                                               *)
FailureUncaught(r) ==
  /\ Live(r) /\ Step(r) \notin {"checkContainerID", "checkIP", "row", "rows", "insert", "unrow"}
  /\ req[r].kind \in {"create", "delete"} => Step(r) \in {"ownNode", "config"}
  /\ \/ "lost" \in Env
     \/ "refuse" \in Env /\ Step(r) \in {"validate", "ownNode", "node", "storages", "resources"}
     \/ "refuse" \in Env /\ Step(r) \in {"current", "config"} /\ Trips(r)

(* What it has sent already may still be carried out.                        *)
Die == /\ \E r \in Requests : Stumbles(r) \/ FailureUncaught(r)
       /\ req' = [r \in Requests |-> IF Step(r) \in Writes THEN [req[r] EXCEPT !.stray = TRUE]
                                                           ELSE Idle]
       /\ UNCHANGED world

StrangersCome == /\ "stranger" \in Env
                 /\ \E v \in VmIds :
                      \/ /\ cts[v] = "none"
                         /\ \E o \in {"stranger", "squatter", "machine"} : OwnerBecomes(v, o)
                      \/ /\ cts[v] \in {"stranger", "squatter", "machine"}
                         /\ OwnerBecomes(v, "none")
                 /\ UNCHANGED <<rows, backups, harmed, req>>

-----------------------------------------------------------------------------
Concerns(r, v) == req[r] # Idle /\ req[r].id = v
Deletes(r, v) == Concerns(r, v) /\ req[r].kind = "delete"

(* Another request for the container overlaps with its deletion, the row has *)
(* outlived the container, or people have given theirs an address of the     *)
(* service.                                                                  *)
Muddle(v) == \/ \E r, s \in Requests : r # s /\ Deletes(r, v) /\ Concerns(s, v)
             \/ /\ v \in rows /\ cts[v] \notin {"ours", "revived"}
                /\ \A r \in Requests : ~Deletes(r, v)
             \/ cts[v] = "squatter"

Remember == muddled' = muddled \cup {v \in VmIds : Muddle(v)'}

Serve(r) == \/ Read(r) \/ ReadConfig(r) \/ CheckIP(r) \/ Insert(r) \/ Unrow(r) \/ Write(r) \/ WriteRefused(r)
            \/ FailureCaught(r) \/ Stray(r)

Next == /\ (\E r \in Requests : Arrive(r) \/ Serve(r)) \/ Die \/ StrangersCome
        /\ Remember

Spec == Init /\ [][Next]_vars

-----------------------------------------------------------------------------
(* Requests keep to the containers of the service: validateContainerID and   *)
(* the address of a deletion are asked several calls before anything is done *)
(* (ContainerWorkspaces.ts:468-528), and still a stranger's container is     *)
(* changed only under an id whose deletion overlapped with another request,  *)
(* whose row was left behind by a deletion that failed half-way, or where    *)
(* people used an address of the service.                                    *)
StrangersUnharmed == harmed \subseteq muddled

(* A restoration brings a container back that is no longer there, with       *)
(* force = 1 (apiTools.ts:1009-1030), only when its deletion overlapped with *)
(* a request, also with one of a process that has ended.                     *)
RevivedOnlyInMuddle == \A v \in VmIds : cts[v] = "revived" => v \in muddled

(* Of all that the code leaves unchecked, the nodes, statuses, storages,     *)
(* rows and configurations that may be null (apiTools.ts:638-1030,           *)
(* container.ts:68-89), only the configuration (apiTools.ts:675) is met by a *)
(* request in whose way no deletion came: a deletion of an id without a row, *)
(* of a machine or of a stranger's container that went away in between.      *)
EndsOnlyForCause == \A r \in Requests : Stumbles(r) =>
                      \/ req[r].id \in muddled
                      \/ Step(r) = "config" /\ req[r].id \notin rows
=============================================================================
