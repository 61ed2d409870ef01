----------------------------- MODULE Placement -----------------------------
(***************************************************************************)
(* The registry of nodes and locations (routers/config.ts 23-175) and the   *)
(* choice of a node for a container of a location (getNodeByLocation and    *)
(* what it calls in proxmox/apiTools.ts), one call as in RemoteCall.        *)
(*                                                                          *)
(* The routes check and then act, with other requests in between.  The      *)
(* choice asks Proxmox once for every node of the location, all at once.  A *)
(* handler that throws ends the process: nobody awaits it.                  *)
(***************************************************************************)
EXTENDS Naturals, FiniteSets, Sequences

CONSTANTS
  Requests,  \* requests served at once, a slot is reused
  Nodes,     \* the names of nodes in the bodies of requests
  Cluster,   \* the nodes there are in Proxmox
  Names,     \* the names of locations
  Statuses,  \* what Proxmox may say of a node
  Seed,      \* what it says of each at first
  MaxLocations,  \* bound: locations that are ever added
  MaxChanges,    \* bound: changes of a node's load or of its free addresses
  None

LocIds == 1 .. MaxLocations

Percent == 0 .. 100

ASSUME PlacementAssumption ==
  /\ IsFiniteSet(Requests)
  /\ Cluster \subseteq Nodes
  /\ Statuses \subseteq [status : {"online", "offline", "unknown"},
                         cpu : Percent, mem : Percent, disk : Percent]
  /\ Seed \in [Cluster -> Statuses]
  /\ MaxLocations \in Nat /\ MaxChanges \in Nat
  /\ None \notin LocIds /\ None \notin Nodes \cup Names \cup Statuses

VARIABLES
  locations,  \* the names in the order of the ids; None: deleted
  nodes,      \* nodename -> its location; None: not in the table
  roomy,      \* the nodes that have an address which is not in use
  status,     \* Proxmox: the status of its nodes
  changes,    \* how many of these two changes there have been
  req,        \* the requests under way, and where a container was placed
  calm        \* history: requests during which nothing they read has changed

registryVars == <<locations, nodes, roomy, status, changes>>
vars == <<registryVars, req, calm>>

-----------------------------------------------------------------------------
(* Nodes *)

(* returnNodeIfFine, of a node the cluster knows.                            *)
Fine(s) == /\ s.status \notin {"offline", "unknown"}
           /\ s.cpu <= 90 /\ s.mem <= 90 /\ s.disk <= 90

(* Mutant: the fuller the better.                                            *)
ScoreNodeByUse(s) == IF s.status # "online" THEN 0
                     ELSE 1 + s.cpu \div 3 + s.mem \div 3 + s.disk \div 3

ScoreNode(s) ==
  IF s.status # "online" THEN 0
  ELSE 1 + (100 - s.cpu) \div 3 + (100 - s.mem) \div 3 + (100 - s.disk) \div 3

(* getNodeByLocation's first query.                                          *)
Candidates(l) == {n \in Nodes : nodes[n] = l /\ n \in roomy}

(* What the choice is for, without a score: the fine nodes of the location   *)
(* none of which is used less in every respect, and noticeably in one.       *)
FineNodes(l) == {n \in Candidates(l) \cap Cluster : Fine(status[n])}

Freer(s, t) == /\ s.status = "online"
               /\ s.cpu <= t.cpu /\ s.mem <= t.mem /\ s.disk <= t.disk
               /\ s.cpu + 3 <= t.cpu \/ s.mem + 3 <= t.mem \/ s.disk + 3 <= t.disk

Best(l) == {n \in FineNodes(l) : \A m \in FineNodes(l) : ~Freer(status[m], status[n])}

-----------------------------------------------------------------------------
(* Requests *)

Idle == [at |-> "idle"]

(* Every request is named for the query or the call it waits for.            *)
Queries ==
  [at : {"locationExists", "addLocation"}, name : Names]
  \cup [at : {"getLocation", "deleteLocation"}, loc : LocIds]
  \cup [at : {"getPVENode", "existsInDatabase", "getNodeIP", "addNode"},
        node : Nodes, loc : LocIds]
  \cup [at : {"getSQLNode", "removeNode"}, node : Nodes]
  \cup [at : {"candidates"}, loc : LocIds]

(* The looks at the nodes of a location: asked of Proxmox, listed but not    *)
(* yet looked up in the database, found fine and with which score.           *)
Looks == [at : {"look"}, loc : LocIds, asked : SUBSET Nodes,
          listed : SUBSET (Nodes \X (Statuses \cup {None})),
          fine : SUBSET (Nodes \X Nat)]

Outcomes == [at : {"chosen"}, loc : LocIds, node : Nodes]
            \cup [at : {"placed"}, loc : LocIds, node : Nodes \cup {None}]

IsLocation(l) == l \in DOMAIN locations /\ locations[l] # None

TypeOK ==
  /\ locations \in Seq(Names \cup {None}) /\ Len(locations) <= MaxLocations
  /\ nodes \in [Nodes -> LocIds \cup {None}]
  /\ \A n \in Nodes : nodes[n] # None => n \in Cluster /\ IsLocation(nodes[n])
  /\ roomy \subseteq Cluster /\ status \in [Cluster -> Statuses]
  /\ changes \in 0 .. MaxChanges
  /\ req \in [Requests -> {Idle} \cup Queries \cup Looks \cup Outcomes]
  /\ calm \subseteq Requests

Init == /\ locations = <<>>
        /\ nodes = [n \in Nodes |-> None]
        /\ roomy = Cluster /\ status = Seed /\ changes = 0
        /\ req = [r \in Requests |-> Idle] /\ calm = {}

Goes(r, q) == req' = [req EXCEPT ![r] = q]

(* The next await is one of MySQL.                                           *)
Asks(r, place) == Goes(r, [req[r] EXCEPT !.at = place])

(* ... and the last one has led to an answer.                                *)
Ends(r) == Goes(r, Idle)

(* What the choice reads is no longer what it was.                           *)
Stirs == calm' = {}

(* A request comes; what was placed before has been made use of.             *)
Arrive(r) == /\ req[r].at \in {"idle", "placed"}
             /\ \E q \in Queries :
                  /\ q.at \in {"locationExists", "getLocation", "getPVENode",
                               "getSQLNode", "candidates"}
                  /\ Goes(r, q)
                  /\ calm' = IF q.at = "candidates" THEN calm \cup {r} ELSE calm \ {r}
             /\ UNCHANGED registryVars

-----------------------------------------------------------------------------
(* POST and DELETE /locations *)

(* Mutant: nobody asks.                                                      *)
LocationExistsUnasked(r) == /\ req[r].at = "locationExists"
                            /\ Asks(r, "addLocation")
                            /\ UNCHANGED <<registryVars, calm>>

LocationExists(r) ==
  /\ req[r].at = "locationExists"
  /\ IF \E l \in DOMAIN locations : locations[l] = req[r].name
     THEN Ends(r) ELSE Asks(r, "addLocation")
  /\ UNCHANGED <<registryVars, calm>>

(* The column has no constraint.                                             *)
AddLocation(r) ==
  /\ req[r].at = "addLocation" /\ Len(locations) < MaxLocations
  /\ locations' = Append(locations, req[r].name)
  /\ Ends(r)
  /\ UNCHANGED <<nodes, roomy, status, changes, calm>>

GetLocation(r) ==
  /\ req[r].at = "getLocation"
  /\ IF IsLocation(req[r].loc) THEN Asks(r, "deleteLocation") ELSE Ends(r)
  /\ UNCHANGED <<registryVars, calm>>

(* The row is gone, or the foreign key of a node holds it: Prisma rejects.   *)
Undeletable(l) == ~IsLocation(l) \/ \E n \in Nodes : nodes[n] = l

DeleteLocation(r) ==
  /\ req[r].at = "deleteLocation" /\ ~Undeletable(req[r].loc)
  /\ locations' = [locations EXCEPT ![req[r].loc] = None]
  /\ Ends(r)
  /\ UNCHANGED <<nodes, roomy, status, changes, calm>>

-----------------------------------------------------------------------------
(* POST /nodes/add and DELETE /nodes/:nodeName *)

(* getNodes has its answer; what it would filter is not used.                *)
GetPVENode(r) ==
  /\ req[r].at = "getPVENode"
  /\ Asks(r, "existsInDatabase")
  /\ UNCHANGED <<registryVars, calm>>

ExistsInDatabase(r) ==
  /\ req[r].at = "existsInDatabase"
  /\ IF nodes[req[r].node] # None
     THEN Ends(r) ELSE Asks(r, "getNodeIP")
  /\ UNCHANGED <<registryVars, calm>>

(* Mutant: a node without an address of its own is added all the same.       *)
GetNodeIPOptional(r) == /\ req[r].at = "getNodeIP"
                        /\ Asks(r, "addNode")
                        /\ UNCHANGED <<registryVars, calm>>

(* A node that Proxmox does not list has no property `ip`.                   *)
GetNodeIP(r) ==
  /\ req[r].at = "getNodeIP" /\ req[r].node \in Cluster
  /\ Asks(r, "addNode")
  /\ UNCHANGED <<registryVars, calm>>

(* nodename is unique and locationId a foreign key.                          *)
Unaddable(n, l) == nodes[n] # None \/ ~IsLocation(l)

AddNode(r) ==
  /\ req[r].at = "addNode" /\ ~Unaddable(req[r].node, req[r].loc)
  /\ nodes' = [nodes EXCEPT ![req[r].node] = req[r].loc]
  /\ Ends(r) /\ Stirs
  /\ UNCHANGED <<locations, roomy, status, changes>>

GetSQLNode(r) ==
  /\ req[r].at = "getSQLNode"
  /\ IF nodes[req[r].node] = None THEN Ends(r) ELSE Asks(r, "removeNode")
  /\ UNCHANGED <<registryVars, calm>>

(* The links to its addresses go with the row.                               *)
RemoveNode(r) ==
  /\ req[r].at = "removeNode" /\ nodes[req[r].node] # None
  /\ nodes' = [nodes EXCEPT ![req[r].node] = None]
  /\ roomy' = roomy \ {req[r].node}
  /\ Ends(r) /\ Stirs
  /\ UNCHANGED <<locations, status, changes>>

-----------------------------------------------------------------------------
(* createContainerByLocation, as far as getFreeIP (see Provisioning) *)

GetNodeByLocation(r) == LET found == Candidates(req[r].loc) IN
  /\ req[r].at = "candidates"
  /\ Goes(r, [at |-> "look", loc |-> req[r].loc, asked |-> found,
              listed |-> {}, fine |-> {}])
  /\ UNCHANGED <<registryVars, calm>>

(* One of the calls of getFirstFineNode, which asks for the list of nodes.   *)
ListNodes(r, n) ==
  /\ req[r].at = "look" /\ n \in req[r].asked
  /\ LET s == IF n \in Cluster THEN status[n] ELSE None IN
     Goes(r, [req[r] EXCEPT !.asked = @ \ {n}, !.listed = @ \cup {<<n, s>>}])
  /\ UNCHANGED <<registryVars, calm>>

(* The second half of getNodes and the rest of returnNodeIfFine.             *)
FilterNodes(r) ==
  /\ req[r].at = "look"
  /\ \E look \in req[r].listed :
       LET n == look[1] s == look[2]
           kept == IF nodes[n] # None /\ s # None /\ Fine(s) THEN {<<n, ScoreNode(s)>>}
                                                             ELSE {}
       IN Goes(r, [req[r] EXCEPT !.listed = @ \ {look}, !.fine = @ \cup kept])
  /\ UNCHANGED <<registryVars, calm>>

(* Promise.all: every look is over.  Without a fine node the answer is 409.  *)
GetFirstFineNode(r) ==
  /\ req[r].at = "look" /\ req[r].asked = {} /\ req[r].listed = {}
  /\ IF req[r].fine = {}
     THEN Goes(r, [at |-> "placed", loc |-> req[r].loc, node |-> None])
     ELSE \E best \in req[r].fine :
            /\ \A other \in req[r].fine : other[2] <= best[2]
            /\ Goes(r, [at |-> "chosen", loc |-> req[r].loc, node |-> best[1]])
  /\ UNCHANGED <<registryVars, calm>>

FindChosen(r) ==
  /\ req[r].at = "chosen" /\ nodes[req[r].node] # None
  /\ Asks(r, "placed")
  /\ UNCHANGED <<registryVars, calm>>

-----------------------------------------------------------------------------
(* What throws in a handler nobody awaits.                                   *)
Throws(r) ==
  \/ req[r].at = "deleteLocation" /\ Undeletable(req[r].loc)
  \/ req[r].at = "addNode" /\ Unaddable(req[r].node, req[r].loc)
  \/ req[r].at = "removeNode" /\ nodes[req[r].node] = None
  \/ req[r].at = "chosen" /\ nodes[req[r].node] = None
  \/ req[r].at = "getNodeIP" /\ req[r].node \notin Cluster

(* A call of Proxmox fails.                                                  *)
Fails(r) == \/ req[r].at \in {"getPVENode", "getNodeIP"}
            \/ req[r].at = "look" /\ req[r].asked # {}

Die == /\ \E r \in Requests : Throws(r) \/ Fails(r)
       /\ req' = [r \in Requests |-> IF req[r].at = "placed" THEN req[r] ELSE Idle]
       /\ UNCHANGED <<registryVars, calm>>

(* The world goes on: the load of a node changes, an address of its is taken *)
(* or given back.                                                            *)
WorldChanges ==
  /\ changes < MaxChanges /\ changes' = changes + 1
  /\ \E n \in Cluster :
       \/ /\ \E s \in Statuses : status' = [status EXCEPT ![n] = s]
          /\ UNCHANGED roomy
       \/ /\ roomy' = (roomy \ {n}) \cup ({n} \ roomy)
          /\ UNCHANGED status
  /\ Stirs /\ UNCHANGED <<locations, nodes>>

Handle(r) ==
  \/ LocationExists(r) \/ AddLocation(r) \/ GetLocation(r) \/ DeleteLocation(r)
  \/ GetPVENode(r) \/ ExistsInDatabase(r) \/ GetNodeIP(r) \/ AddNode(r)
  \/ GetSQLNode(r) \/ RemoveNode(r)
  \/ GetNodeByLocation(r) \/ (\E n \in Nodes : ListNodes(r, n)) \/ FilterNodes(r)
  \/ GetFirstFineNode(r) \/ FindChosen(r)

Next == \/ \E r \in Requests : Arrive(r) \/ Handle(r)
        \/ Die
        \/ WorldChanges /\ UNCHANGED req

Spec == Init /\ [][Next]_vars

-----------------------------------------------------------------------------
(* A container is put on a fine node of its location that no other beats     *)
(* when nothing the choice rests on has changed meanwhile, and on none only  *)
(* if there is none: the score does not hide that a node is freer, and no    *)
(* look is lost among those that are under way at once                       *)
(* (getNodeByLocation, apiTools.ts:556-633).                                 *)
ChoosesBest == \A r \in calm : req[r].at = "placed" =>
  IF req[r].node = None THEN Best(req[r].loc) = {} ELSE req[r].node \in Best(req[r].loc)

(* The test of a new location's name is as good as a test before the act can *)
(* be: no more rows share a name than requests were served at once           *)
(* (config.ts:98-104).                                                       *)
EqualLocations == \A x \in Names :
  Cardinality({l \in DOMAIN locations : locations[l] = x}) <= Cardinality(Requests)
=============================================================================
