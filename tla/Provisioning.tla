---------------------------- MODULE Provisioning ----------------------------
(***************************************************************************)
(* The container life cycle of the daemon: POST / and DELETE /:containerID *)
(* of routers/container.ts, GET /inithostname of routers/agent.ts and the  *)
(* address pool of routers/config.ts, with the functions of                *)
(* proxmox/apiTools.ts they call.                                          *)
(*                                                                         *)
(* A container exists in three places that no transaction joins: the       *)
(* Proxmox cluster (pve), the table cts (row, ready) and the flag `used`   *)
(* of its address in the table ips.  The daemon is one Node.js process:    *)
(* the code between two awaits runs undisturbed, and at every await any    *)
(* other request may run.  An action below is the code from one answer of  *)
(* MySQL or Proxmox to the next, so a request is a little process whose    *)
(* pc names the call it makes next.                                        *)
(***************************************************************************)
EXTENDS Naturals, FiniteSets

CONSTANTS
  Requests,       \* HTTP requests being served at once (a slot is reused)
  VmIds,          \* container ids of the cluster
  Addrs,          \* addresses the pool may hold
  Outside,        \* the address of what the service does not manage: a container
                  \* of others, or a QEMU machine
  Keys,           \* ids of rows of the table ips
  Nodes,          \* rows of the table nodes
  Locations,      \* rows of the table locations
  LocationOf,     \* the location of every node
  SeedAddr,       \* the table ips when the daemon is installed: key -> address
  SeedLinks,      \* the relation _IpToNode then: key -> nodes
  AddrLists,      \* the bodies of /ips/add and /ips/addbulk: sets of addresses
  Exclusive,      \* kinds of request the clients send one at a time
  RejectionKills, \* an unhandled rejection ends the process (Node.js >= 15)
  Env,            \* what the environment does (see EnvEvents)
  None            \* null: no row, no container, a field not set

Kinds == {"create", "delete", "init", "pool"}

(***************************************************************************)
(* Events outside the daemon that a run may allow.                         *)
(*   refuseCreate, refuseDelete, refuseRename                              *)
(*             Proxmox answers such a request with an error                *)
(*   throw     a call to MySQL or Proxmox rejects without taking effect    *)
(*   lost      Proxmox takes a creation or deletion, the answer is lost    *)
(*   crash     the process ends and is started again                       *)
(*   operator  people create and destroy containers of their own           *)
(*   stranger  an agent whose address no row of cts holds asks for its     *)
(*             hostname: one outside the service, or one that booted       *)
(*             before its row was inserted                                 *)
(*   unpool    /ips/:ipv4 is called for an address in use                  *)
(***************************************************************************)
EnvEvents == {"refuseCreate", "refuseDelete", "refuseRename", "throw", "lost",
              "crash", "operator", "stranger", "unpool"}

ASSUME ProvisioningAssumption ==
  /\ Outside \notin Addrs /\ None \notin Addrs /\ Outside # None
  /\ None \notin VmIds /\ None \notin Keys
  /\ LocationOf \in [Nodes -> Locations]
  /\ SeedAddr \in [Keys -> Addrs \cup {None}]
  /\ \A j, k \in Keys : SeedAddr[j] = SeedAddr[k] /\ SeedAddr[j] # None => j = k
  /\ SeedLinks \in [Keys -> SUBSET Nodes]
  /\ AddrLists \subseteq SUBSET Addrs
  /\ Exclusive \subseteq Kinds /\ RejectionKills \in BOOLEAN
  /\ Env \subseteq EnvEvents

VARIABLES
  row,    \* table cts: id -> ipv4
  ready,  \* table cts: the ids whose column ready is true
  ipv4,   \* table ips: id -> ipv4 (None: no such row)
  used,   \* table ips: the ids whose column used is true
  links,  \* relation _IpToNode: id -> nodes
  pve,    \* Proxmox: the address of every container that exists
  named,  \* Proxmox: the containers whose hostname is their id
  req,    \* the requests in flight
  reply   \* what the request that last left the slot was answered

vars == <<row, ready, ipv4, used, links, pve, named, req, reply>>

CreatePcs == {"getFreeIP", "nextid", "postLxc", "insertRow", "markUsed"}
DeletePcs == {"checkIP", "deleteLxc", "getIP", "markUnused", "deleteRow"}
InitPcs   == {"getContainerID", "setHostname", "setReady"}
PoolPcs   == {"insertIp", "deleteIp"}

(* A deletion is about an address, and may write, once it has read that.    *)
Pcs == CreatePcs \cup DeletePcs \cup InitPcs \cup PoolPcs \cup {"readConfig", "idle"}

PcsOf(kind) == CASE kind = "create" -> CreatePcs
                 [] kind = "delete" -> DeletePcs \cup {"readConfig"}
                 [] kind = "init"   -> InitPcs
                 [] kind = "pool"   -> PoolPcs

Replies == {"none", "created", "ok", "not found", "not acceptable", "conflict", "dropped"}

Fields == [pc   : Pcs,
           node : Nodes \cup {None},           \* the node chosen
           key  : Keys \cup {None},            \* the row of ips read
           addr : Addrs \cup {Outside, None},  \* the address read
           vm   : VmIds \cup {None},           \* the container
           ok   : BOOLEAN,                     \* Proxmox took the deletion
           todo : SUBSET Addrs]                \* addresses still to be added

(* A request has the fields that the calls before its next one filled in. *)
Request == {q \in Fields :
  /\ q.pc \in {"nextid", "postLxc", "insertRow", "markUsed"} =>
       q.key \in Keys /\ q.addr \in Addrs
  /\ q.pc \in {"markUnused", "deleteRow"} => q.key \in Keys
  /\ q.pc \in {"postLxc", "insertRow", "markUsed", "setHostname", "setReady"} \cup DeletePcs =>
       q.vm \in VmIds
  /\ q.pc = "readConfig" => q.vm \in VmIds /\ q.key = None}

Idle == [pc |-> "idle", node |-> None, key |-> None, addr |-> None,
         vm |-> None, ok |-> FALSE, todo |-> {}]

TypeOK == /\ row \in [VmIds -> Addrs \cup {None}]
          /\ ready \subseteq VmIds
          /\ ipv4 \in [Keys -> Addrs \cup {None}]
          /\ used \subseteq Keys
          /\ links \in [Keys -> SUBSET Nodes]
          /\ pve \in [VmIds -> Addrs \cup {Outside, None}]
          /\ named \subseteq VmIds
          /\ req \in [Requests -> Request]
          /\ reply \in [Requests -> Replies]

Init == /\ row = [v \in VmIds |-> None]
        /\ ready = {}
        /\ ipv4 = SeedAddr
        /\ used = {}
        /\ links = SeedLinks
        /\ pve \in [VmIds -> {Outside, None}]
        /\ named = {}
        /\ req = [r \in Requests |-> Idle]
        /\ reply = [r \in Requests |-> "none"]

-----------------------------------------------------------------------------
(* How a request begins, goes on and ends. *)

db    == <<row, ready, ipv4, used, links>>
world == <<pve, named>>

(* Clients keep to themselves the kinds of request in Exclusive. *)
MayBegin(kind) ==
  kind \in Exclusive =>
    \A r \in Requests, k \in Exclusive : req[r].pc \notin PcsOf(k)

Begin(r, kind, q) ==
  /\ req[r].pc = "idle" /\ MayBegin(kind)
  /\ req' = [req EXCEPT ![r] = q]
  /\ reply' = [reply EXCEPT ![r] = "none"]

(* A request that is answered before it changes anything. *)
AnswerAtOnce(r, code) ==
  /\ req[r].pc = "idle"
  /\ reply' = [reply EXCEPT ![r] = code]
  /\ UNCHANGED <<db, world, req>>

At(r, pc) == req[r].pc = pc

Proceed(r, q) == req' = [req EXCEPT ![r] = q] /\ UNCHANGED reply

Goto(r, pc) == Proceed(r, [req[r] EXCEPT !.pc = pc])

Answer(r, code) == /\ req' = [req EXCEPT ![r] = Idle]
                   /\ reply' = [reply EXCEPT ![r] = code]

(* The process ends: every request in flight loses its connection.  pm2    *)
(* starts it again on the same tables.                                     *)
Die == /\ req' = [r \in Requests |-> Idle]
       /\ reply' = [r \in Requests |->
                      IF req[r].pc = "idle" THEN reply[r] ELSE "dropped"]

(* An async express 4 handler rejects: nothing catches it. *)
Unhandled(r) == IF RejectionKills THEN Die ELSE Answer(r, "dropped")

Holders(a) == {v \in VmIds : row[v] = a}

-----------------------------------------------------------------------------
(* Creating a container: container.ts, POST / *)

(* Mutant: `used: false` is left out of the query. *)
FreeKeysWhetherUsed(n) == {k \in Keys : ipv4[k] # None /\ n \in links[k]}

(* The rows of ips that getFreeIP may return for node n. *)
FreeKeys(n) == {k \in Keys : ipv4[k] # None /\ k \notin used /\ n \in links[k]}

(* By node: the id of the row of nodes is in the request. *)
CreateByNode(r, n) ==
  /\ Begin(r, "create", [Idle EXCEPT !.pc = "getFreeIP", !.node = n])
  /\ UNCHANGED <<db, world>>

(* By location: a node there that has an unused address and is fine.  Which *)
(* nodes are fine is Proxmox's to say.                                      *)
CreateByLocation(r, l) ==
  \/ \E n \in Nodes :
       /\ LocationOf[n] = l /\ FreeKeys(n) # {}
       /\ Begin(r, "create", [Idle EXCEPT !.pc = "getFreeIP", !.node = n])
       /\ UNCHANGED <<db, world>>
  \/ AnswerAtOnce(r, "conflict")

(* Mutant: no `if (!ip)` after getFreeIP. *)
GetFreeIPUnchecked(r) ==
  /\ At(r, "getFreeIP")
  /\ \/ \E k \in FreeKeys(req[r].node) :
          Proceed(r, [req[r] EXCEPT !.pc = "nextid", !.key = k, !.addr = ipv4[k]])
     \/ FreeKeys(req[r].node) = {} /\ Goto(r, "nextid")
  /\ UNCHANGED <<db, world>>

(* The address is read here and marked as used four calls later. *)
GetFreeIP(r) ==
  /\ At(r, "getFreeIP")
  /\ \/ \E k \in FreeKeys(req[r].node) :
          Proceed(r, [req[r] EXCEPT !.pc = "nextid", !.key = k, !.addr = ipv4[k]])
     \/ FreeKeys(req[r].node) = {} /\ Answer(r, "conflict")
  /\ UNCHANGED <<db, world>>

(* cluster/nextid proposes a free id and does not reserve it. *)
NextId(r) ==
  /\ At(r, "nextid")
  /\ \/ \E v \in VmIds :
          /\ pve[v] = None
          /\ Proceed(r, [req[r] EXCEPT !.pc = "postLxc", !.vm = v])
     \/ (\A v \in VmIds : pve[v] # None) /\ Answer(r, "conflict")
  /\ UNCHANGED <<db, world>>

(* Proxmox starts the container with the address, named after the daemon. *)
Launch(r) == /\ pve[req[r].vm] = None
             /\ pve' = [pve EXCEPT ![req[r].vm] = req[r].addr]
             /\ named' = named \ {req[r].vm}

PostLxc(r) ==
  /\ At(r, "postLxc")
  /\ \/ Launch(r) /\ Goto(r, "insertRow")
     \/ /\ pve[req[r].vm] # None \/ "refuseCreate" \in Env
        /\ Answer(r, "conflict") /\ UNCHANGED world
  /\ UNCHANGED db

(* Mutant: a row with the id is overwritten (an upsert). *)
UpsertContainer(r) ==
  /\ At(r, "insertRow") /\ Goto(r, "markUsed")
  /\ row' = [row EXCEPT ![req[r].vm] = req[r].addr]
  /\ UNCHANGED <<ready, ipv4, used, links, world>>

AddContainerToDatabase(r) ==
  /\ At(r, "insertRow")
  /\ \/ /\ row[req[r].vm] = None
        /\ row' = [row EXCEPT ![req[r].vm] = req[r].addr]
        /\ Goto(r, "markUsed")
     \/ row[req[r].vm] # None /\ Answer(r, "conflict") /\ UNCHANGED row
  /\ UNCHANGED <<ready, ipv4, used, links, world>>

(* Mutant: the address is not marked. *)
MarkUsedForgotten(r) ==
  At(r, "markUsed") /\ Answer(r, "created") /\ UNCHANGED <<db, world>>

(* updateIPUsedStatus(ip, true), outside the try: a row that is gone rejects. *)
MarkUsed(r) ==
  /\ At(r, "markUsed")
  /\ \/ /\ ipv4[req[r].key] # None
        /\ used' = used \cup {req[r].key}
        /\ Answer(r, "created")
     \/ ipv4[req[r].key] = None /\ Unhandled(r) /\ UNCHANGED used
  /\ UNCHANGED <<row, ready, ipv4, links, world>>

-----------------------------------------------------------------------------
(* Deleting a container: container.ts, DELETE /:containerID *)

(* The middleware getContainerIP looks for the node of the id among all     *)
(* machines, containers and others (cluster/resources), ...                 *)
DeleteContainer(r, v) ==
  \/ /\ pve[v] # None
     /\ Begin(r, "delete", [Idle EXCEPT !.pc = "readConfig", !.vm = v])
     /\ UNCHANGED <<db, world>>
  \/ pve[v] = None /\ AnswerAtOnce(r, "not found")

(* ... reads the address from the configuration there, which is null when   *)
(* the container has gone meanwhile, or if it is a QEMU machine, and then   *)
(* null.net0 throws, ...                                                    *)
ReadConfig(r) ==
  /\ At(r, "readConfig")
  /\ \/ /\ pve[req[r].vm] # None
        /\ Proceed(r, [req[r] EXCEPT !.pc = "checkIP", !.addr = pve[req[r].vm]])
     \/ pve[req[r].vm] \in {None, Outside} /\ Unhandled(r)
  /\ UNCHANGED <<db, world>>

(* Mutant: the answer of checkIP is not looked at. *)
CheckIPIgnored(r) ==
  At(r, "checkIP") /\ Goto(r, "deleteLxc") /\ UNCHANGED <<db, world>>

(* ... and accepts the container when any row of cts holds that address. *)
CheckIP(r) ==
  /\ At(r, "checkIP")
  /\ IF Holders(req[r].addr) # {} THEN Goto(r, "deleteLxc")
                                  ELSE Answer(r, "not acceptable")
  /\ UNCHANGED <<db, world>>

Destroy(r) == /\ pve[req[r].vm] # None
              /\ pve' = [pve EXCEPT ![req[r].vm] = None]
              /\ named' = named \ {req[r].vm}

(* Whatever Proxmox answers, deleteContainer goes on to the database. *)
DeleteLxc(r) ==
  /\ At(r, "deleteLxc")
  /\ \/ /\ Destroy(r)
        /\ Proceed(r, [req[r] EXCEPT !.pc = "getIP", !.ok = TRUE])
     \/ /\ pve[req[r].vm] = None \/ "refuseDelete" \in Env
        /\ Goto(r, "getIP") /\ UNCHANGED world
  /\ UNCHANGED db

(* Mutant: the first row of ips, whatever its address. *)
GetIPAnyRow(r) ==
  /\ At(r, "getIP")
  /\ \E k \in Keys : /\ ipv4[k] # None
                     /\ Proceed(r, [req[r] EXCEPT !.pc = "markUnused", !.key = k])
  /\ UNCHANGED <<db, world>>

(* getIP(ipv4): null when the address left the pool, and null.id throws. *)
GetIP(r) ==
  /\ At(r, "getIP")
  /\ \/ \E k \in Keys :
          /\ ipv4[k] = req[r].addr
          /\ Proceed(r, [req[r] EXCEPT !.pc = "markUnused", !.key = k])
     \/ (\A k \in Keys : ipv4[k] # req[r].addr) /\ Answer(r, "conflict")
  /\ UNCHANGED <<db, world>>

(* Mutant: the address is given back and the row of cts forgotten. *)
MarkUnusedLast(r) ==
  /\ At(r, "markUnused") /\ Answer(r, "ok")
  /\ used' = used \ {req[r].key}
  /\ UNCHANGED <<row, ready, ipv4, links, world>>

(* updateIPUsedStatus(ip, false) *)
MarkUnused(r) ==
  /\ At(r, "markUnused")
  /\ \/ /\ ipv4[req[r].key] # None
        /\ used' = used \ {req[r].key}
        /\ Goto(r, "deleteRow")
     \/ ipv4[req[r].key] = None /\ Answer(r, "conflict") /\ UNCHANGED used
  /\ UNCHANGED <<row, ready, ipv4, links, world>>

(* Prisma's delete rejects when there is no such row. *)
DeleteContainerFromDB(r) ==
  /\ At(r, "deleteRow")
  /\ \/ /\ row[req[r].vm] # None
        /\ row' = [row EXCEPT ![req[r].vm] = None]
        /\ ready' = ready \ {req[r].vm}
        /\ Answer(r, IF req[r].ok THEN "ok" ELSE "conflict")
     \/ row[req[r].vm] = None /\ Answer(r, "conflict") /\ UNCHANGED <<row, ready>>
  /\ UNCHANGED <<ipv4, used, links, world>>

-----------------------------------------------------------------------------
(* The agent of a new container fetches its hostname: agent.ts *)

(* The agent is known by its address only. *)
InitHostname(r, v) ==
  /\ pve[v] # None
  /\ Holders(pve[v]) = {} => "stranger" \in Env
  /\ Begin(r, "init", [Idle EXCEPT !.pc = "getContainerID", !.addr = pve[v]])
  /\ UNCHANGED <<db, world>>

(* Mutant: the container is marked as ready before it is renamed. *)
ReadyBeforeRename(r) ==
  /\ At(r, "getContainerID")
  /\ \/ \E v \in Holders(req[r].addr) :
          Proceed(r, [req[r] EXCEPT !.pc = "setReady", !.vm = v])
     \/ Holders(req[r].addr) = {} /\ Unhandled(r)
  /\ UNCHANGED <<db, world>>

(* No row: container is null and container.id throws. *)
GetContainerID(r) ==
  /\ At(r, "getContainerID")
  /\ \/ \E v \in Holders(req[r].addr) :
          Proceed(r, [req[r] EXCEPT !.pc = "setHostname", !.vm = v])
     \/ Holders(req[r].addr) = {} /\ Unhandled(r)
  /\ UNCHANGED <<db, world>>

(* changeCTHostname does not look at the answer. *)
ChangeCTHostname(r) ==
  /\ At(r, "setHostname")
  /\ \/ pve[req[r].vm] # None /\ named' = named \cup {req[r].vm}
     \/ (pve[req[r].vm] = None \/ "refuseRename" \in Env) /\ UNCHANGED named
  /\ Goto(r, "setReady")
  /\ UNCHANGED <<db, pve>>

SetCTAsReady(r) ==
  /\ At(r, "setReady")
  /\ \/ /\ row[req[r].vm] # None
        /\ ready' = ready \cup {req[r].vm}
        /\ Answer(r, "ok")
     \/ row[req[r].vm] = None /\ Unhandled(r) /\ UNCHANGED ready
  /\ UNCHANGED <<row, ipv4, used, links, world>>

-----------------------------------------------------------------------------
(* The address pool: config.ts, /ips *)

InPool(a) == \E k \in Keys : ipv4[k] = a

(* /ips/add and /ips/addbulk: what is there already is left out once. *)
AddIps(r, S) ==
  LET new == {a \in S : ~InPool(a)} IN
  \/ /\ new # {}
     /\ Begin(r, "pool", [Idle EXCEPT !.pc = "insertIp", !.todo = new])
     /\ UNCHANGED <<db, world>>
  \/ new = {} /\ AnswerAtOnce(r, "conflict")

(* AUTO_INCREMENT never gives an id again: here, not while one knows it. *)
FreshKeys == {k \in Keys : ipv4[k] = None /\ \A r \in Requests : req[r].key # k}

(* addIPToDatabase; ips.ipv4 is unique, and no node is linked to the row. *)
AddIPToDatabase(r) ==
  /\ At(r, "insertIp")
  /\ \E a \in req[r].todo :
       \/ \E k \in FreshKeys :
            /\ ~InPool(a)
            /\ ipv4' = [ipv4 EXCEPT ![k] = a]
            /\ used' = used \ {k}
            /\ links' = [links EXCEPT ![k] = {}]
            /\ IF req[r].todo = {a}
                 THEN Answer(r, "created")
                 ELSE Proceed(r, [req[r] EXCEPT !.todo = @ \ {a}])
       \/ InPool(a) /\ Unhandled(r) /\ UNCHANGED <<ipv4, used, links>>
  /\ UNCHANGED <<row, ready, world>>

RemoveIp(r, a) ==
  \/ /\ InPool(a)
     /\ (\E k \in used : ipv4[k] = a) => "unpool" \in Env
     /\ Begin(r, "pool", [Idle EXCEPT !.pc = "deleteIp", !.addr = a])
     /\ UNCHANGED <<db, world>>
  \/ ~InPool(a) /\ AnswerAtOnce(r, "not found")

(* Deleting the row cascades to its links. *)
RemoveIPFromDatabase(r) ==
  /\ At(r, "deleteIp")
  /\ \/ \E k \in Keys :
          /\ ipv4[k] = req[r].addr
          /\ ipv4' = [ipv4 EXCEPT ![k] = None]
          /\ used' = used \ {k}
          /\ links' = [links EXCEPT ![k] = {}]
          /\ Answer(r, "ok")
     \/ ~InPool(req[r].addr) /\ Unhandled(r) /\ UNCHANGED <<ipv4, used, links>>
  /\ UNCHANGED <<row, ready, world>>

-----------------------------------------------------------------------------
(* What goes wrong around the daemon. *)

(* The try blocks of createContainerInProxmox and deleteContainer. *)
InTry == {"nextid", "postLxc", "insertRow", "deleteLxc", "getIP", "markUnused", "deleteRow"}

CallThrows(r) ==
  /\ "throw" \in Env /\ req[r].pc # "idle"
  /\ IF req[r].pc \in InTry THEN Answer(r, "conflict") ELSE Unhandled(r)
  /\ UNCHANGED <<db, world>>

(* Proxmox did it, and fetch rejects. *)
AnswerLost(r) ==
  /\ "lost" \in Env
  /\ \/ At(r, "postLxc") /\ Launch(r)
     \/ At(r, "deleteLxc") /\ Destroy(r)
  /\ Answer(r, "conflict")
  /\ UNCHANGED db

Crash == "crash" \in Env /\ Die /\ UNCHANGED <<db, world>>

(* People with access to the cluster and to the database. *)
OperatorCreate(v) ==
  /\ "operator" \in Env /\ pve[v] = None
  /\ pve' = [pve EXCEPT ![v] = Outside] /\ named' = named \ {v}
  /\ UNCHANGED <<db, req, reply>>

OperatorDestroy(v) ==
  /\ "operator" \in Env /\ pve[v] = Outside
  /\ pve' = [pve EXCEPT ![v] = None] /\ named' = named \ {v}
  /\ UNCHANGED <<db, req, reply>>

OperatorLinks(k, n) ==
  /\ "operator" \in Env /\ ipv4[k] # None
  /\ links' = [links EXCEPT ![k] = @ \cup {n}]
  /\ UNCHANGED <<row, ready, ipv4, used, world, req, reply>>

-----------------------------------------------------------------------------
Arrival(r) == \/ \E n \in Nodes : CreateByNode(r, n)
              \/ \E l \in Locations : CreateByLocation(r, l)
              \/ \E v \in VmIds : DeleteContainer(r, v) \/ InitHostname(r, v)
              \/ \E S \in AddrLists : AddIps(r, S)
              \/ \E a \in Addrs : RemoveIp(r, a)

(* The next call of the request in slot r returns. *)
Step(r) == \/ GetFreeIP(r) \/ NextId(r) \/ PostLxc(r)
           \/ AddContainerToDatabase(r) \/ MarkUsed(r)
           \/ ReadConfig(r) \/ CheckIP(r) \/ DeleteLxc(r) \/ GetIP(r)
           \/ MarkUnused(r) \/ DeleteContainerFromDB(r)
           \/ GetContainerID(r) \/ ChangeCTHostname(r) \/ SetCTAsReady(r)
           \/ AddIPToDatabase(r) \/ RemoveIPFromDatabase(r)

Operator == \/ \E v \in VmIds : OperatorCreate(v) \/ OperatorDestroy(v)
            \/ \E k \in Keys, n \in Nodes : OperatorLinks(k, n)

Next == \/ \E r \in Requests : Arrival(r) \/ Step(r) \/ CallThrows(r) \/ AnswerLost(r)
        \/ Crash
        \/ Operator

Spec == Init /\ [][Next]_vars

(* Spec where Env has no call that rejects, no lost answer and no crash.    *)
UnfailingNext == (\E r \in Requests : Arrival(r) \/ Step(r)) \/ Operator

UnfailingSpec == Init /\ [][UnfailingNext]_vars

(* MySQL and Proxmox answer every call in the end, with an answer or an     *)
(* error; nothing makes clients send requests or people act.                *)
FairSpec == UnfailingSpec /\ \A r \in Requests : WF_vars(Step(r))

-----------------------------------------------------------------------------
(* Properties *)

(* No request that writes is in flight. *)
Quiet == \A r \in Requests : req[r].pc \notin CreatePcs \cup DeletePcs \cup PoolPcs

(* A container of the pool exists in Proxmox exactly when cts has its row,   *)
(* with the same address.                                                    *)
RowsMatchCluster ==
  \A v \in VmIds : row[v] # None \/ pve[v] \in Addrs => row[v] = pve[v]

(* No two rows of cts hold the same address: getFreeIP "Get an ip which is   *)
(* not used from the database" (apiTools.ts:315).                            *)
DistinctAddresses ==
  \A v, w \in VmIds : row[v] # None /\ row[v] = row[w] => v = w

(* The flag `used` says whether a container holds the address. *)
UsedMatchesRows ==
  \A k \in Keys : ipv4[k] # None => (k \in used <=> Holders(ipv4[k]) # {})

(* Every address in use is in the pool, so that a deletion can free it. *)
RowsArePooled == \A v \in VmIds : row[v] # None => InPool(row[v])

(* Between requests the cluster, the table cts and the flags of ips tell the *)
(* same story, although no transaction joins the five calls of a creation or *)
(* the six of a deletion (apiTools.ts:283-312, 388-518).                     *)
Agreement == Quiet => /\ RowsMatchCluster /\ DistinctAddresses
                      /\ UsedMatchesRows /\ RowsArePooled

(* 201 "created" is true when it is sent: the container runs, it is the only *)
(* one with its address, and the address is taken (container.ts:457-461).    *)
CreatedIsTrue ==
  [][\A r \in Requests :
       At(r, "markUsed") /\ reply'[r] = "created" =>
         /\ pve[req[r].vm] = req[r].addr
         /\ Holders(req[r].addr) = {req[r].vm}
         /\ req[r].key \in used' /\ ipv4[req[r].key] = req[r].addr]_vars

(* The service never destroys or replaces a container it does not manage:    *)
(* the 406 of ContainerWorkspaces.ts:487-492.                                *)
OutsideUntouched ==
  [][\A v \in VmIds : pve[v] = Outside /\ pve'[v] # Outside => Operator]_vars

(* A deletion that was accepted removes the container, its row and the mark  *)
(* on its address.                                                           *)
DeletionCompletes ==
  \A r \in Requests, v \in VmIds, a \in Addrs :
    (At(r, "deleteLxc") /\ req[r].vm = v /\ req[r].addr = a) ~>
      (pve[v] \notin Addrs /\ row[v] = None /\ \A k \in used : ipv4[k] # a)

F == INSTANCE Fleet WITH fleet <- row

(* cts is the fleet: containers come with an address of their own and go     *)
(* with it.                                                                  *)
ImplementsFleet == F!Spec

-----------------------------------------------------------------------------
(* Why Agreement holds between requests: what holds during them. *)

(* The conditions under which it does.  Each of the other events, and two   *)
(* writing requests at once, breaks it.                                     *)
Serial == /\ {"create", "delete", "pool"} \subseteq Exclusive
          /\ RejectionKills => "init" \in Exclusive
          /\ Env \subseteq {"refuseCreate", "refuseRename", "operator", "stranger"}

(* At most one request of the kinds sent one at a time is in flight. *)
OneAtATime ==
  \A r, s \in Requests, k, l \in Exclusive :
    req[r].pc \in PcsOf(k) /\ req[s].pc \in PcsOf(l) => r = s

(* A slot shows no reply while its request is in flight. *)
InFlightUnanswered == \A r \in Requests : req[r].pc # "idle" => reply[r] = "none"

(* The column ipv4 of ips is unique (schema.prisma:35). *)
UniqueIps == \A j, k \in Keys : ipv4[j] = ipv4[k] /\ ipv4[j] # None => j = k

(* A row without its container is being deleted ... *)
RowHasContainer ==
  \A v \in VmIds : row[v] # None =>
    \/ pve[v] = row[v]
    \/ \E r \in Requests : req[r].pc \in {"getIP", "markUnused", "deleteRow"} /\ req[r].vm = v

(* ... a container without its row is being created ... *)
ContainerHasRow ==
  \A v \in VmIds : pve[v] \in Addrs =>
    \/ row[v] = pve[v]
    \/ \E r \in Requests : At(r, "insertRow") /\ req[r].vm = v

(* ... and where the flag differs, it is about to be set or was just reset. *)
UsedIsHeld ==
  \A k \in Keys : ipv4[k] # None =>
    /\ k \in used => Holders(ipv4[k]) # {}
    /\ Holders(ipv4[k]) # {} =>
         k \in used \/ \E r \in Requests : req[r].pc \in {"markUsed", "markUnused", "deleteRow"}
                                          /\ req[r].key = k

(* A creation relies on the address it read: still in the pool, unmarked,   *)
(* and held by nobody but its own container.                                *)
CreateFacts(q) ==
  /\ q.pc \in {"nextid", "postLxc", "insertRow", "markUsed"} =>
       ipv4[q.key] = q.addr /\ q.key \notin used
  /\ q.pc \in {"nextid", "postLxc", "insertRow"} => Holders(q.addr) = {}
  /\ q.pc = "insertRow" => pve[q.vm] = q.addr /\ row[q.vm] = None
  /\ q.pc = "markUsed" => pve[q.vm] = q.addr /\ row[q.vm] = q.addr

(* A deletion relies on the address the middleware read, and on the row     *)
(* until it has removed it.                                                 *)
DeleteFacts(q) ==
  /\ q.pc = "checkIP" => q.addr = Outside \/ (q.addr \in Addrs /\ pve[q.vm] = q.addr)
  /\ q.pc \in {"deleteLxc", "getIP", "markUnused", "deleteRow"} =>
       q.addr \in Addrs /\ row[q.vm] = q.addr
  /\ q.pc = "deleteLxc" => pve[q.vm] = q.addr
  /\ q.pc \in {"getIP", "markUnused", "deleteRow"} => pve[q.vm] \notin Addrs /\ q.ok
  /\ q.pc \in {"markUnused", "deleteRow"} => ipv4[q.key] = q.addr
  /\ q.pc = "deleteRow" => q.key \notin used

(* A change of the pool relies on its check that an address is there or not. *)
PoolFacts(q) ==
  /\ q.pc = "insertIp" => \A a \in q.todo : ~InPool(a)
  /\ q.pc = "deleteIp" => q.addr \in Addrs /\ InPool(q.addr) /\ Holders(q.addr) = {}

(* Every request in flight may rely on the facts of its place. *)
RequestFacts ==
  \A r \in Requests : CreateFacts(req[r]) /\ DeleteFacts(req[r]) /\ PoolFacts(req[r])

(* All of it, while clients send one writing request at a time: what every  *)
(* step relies on and leaves behind, inductively.                           *)
SerialInv == /\ TypeOK
             /\ OneAtATime /\ InFlightUnanswered
             /\ UniqueIps /\ DistinctAddresses /\ RowsArePooled
             /\ RowHasContainer /\ ContainerHasRow /\ UsedIsHeld
             /\ RequestFacts
=============================================================================
