--------------------------- MODULE PlacementProofs ---------------------------
(***************************************************************************)
(* Theorems about Placement, for any number of nodes, locations and         *)
(* requests: its types, and that the choice of a node is the best there is. *)
(***************************************************************************)
EXTENDS Placement, FiniteSetTheorems, TLAPS

-----------------------------------------------------------------------------
(* Types *)

NameQueries == [at : {"locationExists", "addLocation"}, name : Names]
LocQueries == [at : {"getLocation", "deleteLocation"}, loc : LocIds]
AddQueries == [at : {"getPVENode", "existsInDatabase", "getNodeIP", "addNode"},
               node : Nodes, loc : LocIds]
RemoveQueries == [at : {"getSQLNode", "removeNode"}, node : Nodes]
Choices == [at : {"candidates"}, loc : LocIds]
Chosen == [at : {"chosen"}, loc : LocIds, node : Nodes]
Placed == [at : {"placed"}, loc : LocIds, node : Nodes \cup {None}]

All == {Idle} \cup Queries \cup Looks \cup Outcomes

LEMMA AllIs ==
  All = {Idle} \cup NameQueries \cup LocQueries \cup AddQueries \cup RemoveQueries
        \cup Choices \cup Looks \cup Chosen \cup Placed
BY DEF All, Queries, Outcomes, NameQueries, LocQueries, AddQueries, RemoveQueries,
       Choices, Chosen, Placed

(* What a request is waiting for tells what it holds.                        *)
LEMMA Shapes ==
  ASSUME NEW q \in All
  PROVE  /\ q.at \in {"locationExists", "addLocation"} => q \in NameQueries
         /\ q.at \in {"getLocation", "deleteLocation"} => q \in LocQueries
         /\ q.at \in {"getPVENode", "existsInDatabase", "getNodeIP", "addNode"} => q \in AddQueries
         /\ q.at \in {"getSQLNode", "removeNode"} => q \in RemoveQueries
         /\ q.at = "candidates" => q \in Choices
         /\ q.at = "look" => q \in Looks
         /\ q.at = "chosen" => q \in Chosen
         /\ q.at = "placed" => q \in Placed
<1>1. CASE q = Idle
  BY <1>1 DEF Idle
<1>2. CASE q \in NameQueries
  BY <1>2 DEF NameQueries
<1>3. CASE q \in LocQueries
  BY <1>3 DEF LocQueries
<1>4. CASE q \in AddQueries
  BY <1>4 DEF AddQueries
<1>5. CASE q \in RemoveQueries
  BY <1>5 DEF RemoveQueries
<1>6. CASE q \in Choices
  BY <1>6 DEF Choices
<1>7. CASE q \in Looks
  BY <1>7 DEF Looks
<1>8. CASE q \in Chosen
  BY <1>8 DEF Chosen
<1>9. CASE q \in Placed
  BY <1>9 DEF Placed
<1> QED
  BY <1>1, <1>2, <1>3, <1>4, <1>5, <1>6, <1>7, <1>8, <1>9, AllIs

(* A node that is about to be added is one of the cluster.                   *)
Addable == \A r \in Requests : req[r].at = "addNode" => req[r].node \in Cluster

StoresOK ==
  /\ locations \in Seq(Names \cup {None}) /\ Len(locations) <= MaxLocations
  /\ nodes \in [Nodes -> LocIds \cup {None}]
  /\ \A n \in Nodes : nodes[n] # None => n \in Cluster /\ IsLocation(nodes[n])
  /\ roomy \subseteq Cluster /\ status \in [Cluster -> Statuses]
  /\ changes \in 0 .. MaxChanges

ReqOK == req \in [Requests -> All] /\ calm \subseteq Requests

LEMMA TypeParts == TypeOK <=> StoresOK /\ ReqOK
BY DEF TypeOK, StoresOK, ReqOK, All

(* Every step of a request replaces its record by another.                   *)
LEMMA GoesType ==
  ASSUME ReqOK, NEW r \in Requests, NEW q \in All, Goes(r, q), calm' \subseteq Requests
  PROVE  ReqOK' /\ req'[r] = q /\ \A s \in Requests \ {r} : req'[s] = req[s]
BY DEF ReqOK, Goes

LEMMA AddableAfter ==
  ASSUME ReqOK, Addable, NEW r \in Requests, NEW q \in All, Goes(r, q),
         q.at = "addNode" => q.node \in Cluster
  PROVE  Addable'
BY DEF ReqOK, Goes, Addable

LEMMA AtIs == ASSUME NEW q \in All, NEW place PROVE [q EXCEPT !.at = place].at = place
BY DEF All, Idle, Queries, Looks, Outcomes

(* ... or that of an earlier query by that of the next.                      *)
LEMMA Asked ==
  ASSUME NEW q \in All
  PROVE  /\ q.at = "locationExists" => [q EXCEPT !.at = "addLocation"] \in All
         /\ q.at = "getLocation" => [q EXCEPT !.at = "deleteLocation"] \in All
         /\ q.at = "getPVENode" => [q EXCEPT !.at = "existsInDatabase"] \in All
         /\ q.at = "existsInDatabase" => [q EXCEPT !.at = "getNodeIP"] \in All
         /\ q.at = "getNodeIP" => [q EXCEPT !.at = "addNode"] \in All
         /\ q.at = "getSQLNode" => [q EXCEPT !.at = "removeNode"] \in All
         /\ q.at = "chosen" => [q EXCEPT !.at = "placed"] \in All
<1>1. q.at = "locationExists" => [q EXCEPT !.at = "addLocation"] \in NameQueries
  BY Shapes DEF NameQueries
<1>2. q.at = "getLocation" => [q EXCEPT !.at = "deleteLocation"] \in LocQueries
  BY Shapes DEF LocQueries
<1>3. q.at \in {"getPVENode", "existsInDatabase", "getNodeIP"} =>
        \A place \in {"existsInDatabase", "getNodeIP", "addNode"} :
          [q EXCEPT !.at = place] \in AddQueries
  BY Shapes DEF AddQueries
<1>4. q.at = "getSQLNode" => [q EXCEPT !.at = "removeNode"] \in RemoveQueries
  BY Shapes DEF RemoveQueries
<1>5. q.at = "chosen" => [q EXCEPT !.at = "placed"] \in Placed
  BY Shapes DEF Chosen, Placed
<1> QED
  BY <1>1, <1>2, <1>3, <1>4, <1>5, AllIs

LEMMA InitTypes == Init => TypeOK /\ Addable
<1> SUFFICES ASSUME Init  PROVE TypeOK /\ Addable
  OBVIOUS
<1>1. StoresOK
  <2>1. locations \in Seq(Names \cup {None}) /\ Len(locations) <= MaxLocations
    BY PlacementAssumption DEF Init
  <2>2. changes \in 0 .. MaxChanges
    BY PlacementAssumption DEF Init
  <2> QED
    BY <2>1, <2>2, PlacementAssumption DEF Init, StoresOK
<1>2. ReqOK /\ Addable
  BY AllIs DEF Init, ReqOK, Addable, Idle
<1> QED
  BY <1>1, <1>2, TypeParts

(* A request that only reads.                                                *)
LEMMA ReadTypes ==
  ASSUME StoresOK, ReqOK, Addable, NEW r \in Requests, NEW q \in All, Goes(r, q),
         q.at = "addNode" => q.node \in Cluster, UNCHANGED registryVars,
         calm' \subseteq Requests
  PROVE  StoresOK' /\ ReqOK' /\ Addable'
BY GoesType, AddableAfter DEF StoresOK, registryVars, IsLocation

LEMMA ArriveTypes ==
  ASSUME StoresOK, ReqOK, Addable, NEW r \in Requests, Arrive(r)
  PROVE  StoresOK' /\ ReqOK' /\ Addable'
<1>1. PICK q \in Queries : /\ q.at \in {"locationExists", "getLocation", "getPVENode",
                                         "getSQLNode", "candidates"}
                          /\ Goes(r, q) /\ calm' \subseteq calm \cup {r}
  BY DEF Arrive
<1>2. q \in All /\ calm' \subseteq Requests
  BY <1>1 DEF All, ReqOK
<1> QED
  BY <1>1, <1>2, ReadTypes DEF Arrive

LEMMA AsksTypes ==
  ASSUME StoresOK, ReqOK, Addable, NEW r \in Requests,
         LocationExists(r) \/ GetLocation(r) \/ GetPVENode(r) \/ ExistsInDatabase(r)
           \/ GetNodeIP(r) \/ GetSQLNode(r) \/ FindChosen(r)
  PROVE  StoresOK' /\ ReqOK' /\ Addable'
<1> DEFINE old == req[r]
<1>0. old \in All /\ Idle \in All
  BY AllIs DEF ReqOK
<1>1. UNCHANGED registryVars /\ calm' = calm /\ calm' \subseteq Requests
  BY DEF LocationExists, GetLocation, GetPVENode, ExistsInDatabase, GetNodeIP, GetSQLNode,
         FindChosen, ReqOK
<1>2. ASSUME Ends(r)  PROVE StoresOK' /\ ReqOK' /\ Addable'
  <2>1. Idle.at # "addNode"
    BY DEF Idle
  <2> QED
    BY <1>0, <1>1, <1>2, <2>1, ReadTypes DEF Ends
<1>3. ASSUME NEW place, Asks(r, place), [old EXCEPT !.at = place] \in All,
             place = "addNode" => old.node \in Cluster,
             place # "addNode" \/ old \in AddQueries
      PROVE  StoresOK' /\ ReqOK' /\ Addable'
  <2> DEFINE q == [old EXCEPT !.at = place]
  <2>1. q.at = "addNode" => q.node \in Cluster
    <3>1. SUFFICES ASSUME q.at = "addNode"  PROVE q.node \in Cluster
      OBVIOUS
    <3>2. q.at = place
      BY <1>0, AtIs
    <3> QED
      BY <1>3, <3>1, <3>2 DEF AddQueries
  <2> HIDE DEF q
  <2>2. Goes(r, q)
    BY <1>3 DEF Asks, q
  <2> QED
    BY <1>1, <1>3, <2>1, <2>2, ReadTypes DEF q
<1> QED
  BY <1>0, <1>2, <1>3, Asked, Shapes
  DEF LocationExists, GetLocation, GetPVENode, ExistsInDatabase, GetNodeIP, GetSQLNode, FindChosen

LEMMA EndsTypes ==
  ASSUME ReqOK, Addable, NEW r \in Requests, Ends(r), calm' \subseteq Requests
  PROVE  ReqOK' /\ Addable'
<1>1. Idle \in All /\ Idle.at # "addNode"
  BY AllIs DEF Idle
<1> QED
  BY <1>1, GoesType, AddableAfter DEF Ends

LEMMA AddLocationTypes ==
  ASSUME StoresOK, ReqOK, Addable, NEW r \in Requests, AddLocation(r)
  PROVE  StoresOK' /\ ReqOK' /\ Addable'
<1>1. req[r].name \in Names
  BY Shapes DEF AddLocation, ReqOK, NameQueries
<1>2. /\ locations' \in Seq(Names \cup {None})
      /\ Len(locations') = Len(locations) + 1
      /\ \A l \in DOMAIN locations : l \in DOMAIN locations' /\ locations'[l] = locations[l]
  BY <1>1 DEF AddLocation, StoresOK
<1>3. Len(locations') <= MaxLocations
  <2>1. Len(locations) \in Nat
    BY DEF StoresOK
  <2> QED
    BY <1>2, <2>1, PlacementAssumption DEF AddLocation
<1>4. StoresOK'
  BY <1>2, <1>3 DEF AddLocation, StoresOK, IsLocation
<1> QED
  BY <1>4, EndsTypes DEF AddLocation, ReqOK

LEMMA DeleteLocationTypes ==
  ASSUME StoresOK, ReqOK, Addable, NEW r \in Requests, DeleteLocation(r)
  PROVE  StoresOK' /\ ReqOK' /\ Addable'
<1> DEFINE l == req[r].loc
<1>1. IsLocation(l) /\ \A n \in Nodes : nodes[n] # l
  BY DEF DeleteLocation, Undeletable
<1>2. /\ locations' \in Seq(Names \cup {None})
      /\ Len(locations') = Len(locations)
      /\ DOMAIN locations' = DOMAIN locations
      /\ \A m \in DOMAIN locations : m # l => locations'[m] = locations[m]
  <2>1. /\ locations' = [locations EXCEPT ![l] = None]
        /\ locations \in Seq(Names \cup {None}) /\ l \in DOMAIN locations
    BY <1>1 DEF DeleteLocation, StoresOK, IsLocation
  <2> HIDE DEF l
  <2> QED
    BY <2>1
<1>3. StoresOK'
  BY <1>1, <1>2 DEF DeleteLocation, StoresOK, IsLocation
<1> QED
  BY <1>3, EndsTypes DEF DeleteLocation, ReqOK

LEMMA AddNodeTypes ==
  ASSUME StoresOK, ReqOK, Addable, NEW r \in Requests, AddNode(r)
  PROVE  StoresOK' /\ ReqOK' /\ Addable'
<1>1. req[r].node \in Nodes /\ req[r].loc \in LocIds
  BY Shapes DEF AddNode, ReqOK, AddQueries
<1>2. req[r].node \in Cluster /\ IsLocation(req[r].loc)
  BY DEF AddNode, Addable, Unaddable
<1>3. StoresOK'
  BY <1>1, <1>2 DEF AddNode, StoresOK, IsLocation
<1> QED
  BY <1>3, EndsTypes DEF AddNode, Stirs

LEMMA RemoveNodeTypes ==
  ASSUME StoresOK, ReqOK, Addable, NEW r \in Requests, RemoveNode(r)
  PROVE  StoresOK' /\ ReqOK' /\ Addable'
<1>1. req[r].node \in Nodes
  BY Shapes DEF RemoveNode, ReqOK, RemoveQueries
<1>2. StoresOK'
  BY <1>1 DEF RemoveNode, StoresOK, IsLocation
<1> QED
  BY <1>2, EndsTypes DEF RemoveNode, Stirs

(* A third of what is free.                                                  *)
LEMMA Thirds ==
  ASSUME NEW a \in Percent, NEW b \in Percent, a <= b
  PROVE  /\ (100 - b) \div 3 <= (100 - a) \div 3
         /\ a + 3 <= b => (100 - b) \div 3 + 1 <= (100 - a) \div 3
         /\ (100 - a) \div 3 \in Nat /\ (100 - b) \div 3 \in Nat
BY DEF Percent

LEMMA ScoreType == ASSUME NEW s \in Statuses PROVE ScoreNode(s) \in Nat
<1>1. s.cpu \in Percent /\ s.mem \in Percent /\ s.disk \in Percent
  BY PlacementAssumption
<1>2. \A a \in Percent : (100 - a) \div 3 \in Nat /\ a <= a
  BY Thirds DEF Percent
<1> QED
  BY <1>1, <1>2 DEF ScoreNode

LEMMA LooksTypes ==
  ASSUME StoresOK, ReqOK, Addable, NEW r \in Requests,
         GetNodeByLocation(r) \/ (\E n \in Nodes : ListNodes(r, n)) \/ FilterNodes(r)
           \/ GetFirstFineNode(r)
  PROVE  StoresOK' /\ ReqOK' /\ Addable'
<1>0. req[r] \in All
  BY DEF ReqOK
<1>1. UNCHANGED registryVars /\ calm' = calm /\ calm' \subseteq Requests
  BY DEF GetNodeByLocation, ListNodes, FilterNodes, GetFirstFineNode, ReqOK
<1>2. ASSUME NEW q \in Looks \cup Chosen \cup Placed, Goes(r, q)
      PROVE  StoresOK' /\ ReqOK' /\ Addable'
  <2>1. q \in All /\ q.at # "addNode"
    BY <1>2, AllIs DEF Looks, Chosen, Placed
  <2> QED
    BY <1>1, <1>2, <2>1, ReadTypes
<1>3. CASE GetNodeByLocation(r)
  <2> DEFINE q == [at |-> "look", loc |-> req[r].loc, asked |-> Candidates(req[r].loc),
                   listed |-> {}, fine |-> {}]
  <2>1. req[r].loc \in LocIds
    BY <1>0, <1>3, Shapes DEF GetNodeByLocation, Choices
  <2>2. Candidates(req[r].loc) \in SUBSET Nodes
    BY DEF Candidates
  <2>3. q \in Looks
    BY <2>1, <2>2 DEF Looks
  <2> QED
    BY <1>2, <1>3, <2>3 DEF GetNodeByLocation
<1>4. ASSUME NEW n \in Nodes, ListNodes(r, n)
      PROVE  StoresOK' /\ ReqOK' /\ Addable'
  <2> DEFINE seen == IF n \in Cluster THEN status[n] ELSE None
             q == [req[r] EXCEPT !.asked = @ \ {n}, !.listed = @ \cup {<<n, seen>>}]
  <2>1. req[r] \in Looks
    BY <1>0, <1>4, Shapes DEF ListNodes
  <2>2. <<n, seen>> \in Nodes \X (Statuses \cup {None})
    BY DEF StoresOK
  <2> HIDE DEF seen
  <2>3. q \in Looks
    BY <2>1, <2>2 DEF Looks
  <2> QED
    BY <1>2, <1>4, <2>3 DEF ListNodes, seen
<1>5. CASE FilterNodes(r)
  <2>1. req[r] \in Looks
    BY <1>0, <1>5, Shapes DEF FilterNodes
  <2>2. PICK look \in req[r].listed :
          LET n == look[1] s == look[2]
              kept == IF nodes[n] # None /\ s # None /\ Fine(s) THEN {<<n, ScoreNode(s)>>}
                                                               ELSE {}
          IN Goes(r, [req[r] EXCEPT !.listed = @ \ {look}, !.fine = @ \cup kept])
    BY <1>5 DEF FilterNodes
  <2>3. look \in Nodes \X (Statuses \cup {None})
    BY <2>1 DEF Looks
  <2> DEFINE kept == IF nodes[look[1]] # None /\ look[2] # None /\ Fine(look[2])
                     THEN {<<look[1], ScoreNode(look[2])>>} ELSE {}
             q == [req[r] EXCEPT !.listed = @ \ {look}, !.fine = @ \cup kept]
  <2>4. kept \subseteq Nodes \X Nat
    BY <2>3, ScoreType
  <2>5. Goes(r, q)
    BY <2>2
  <2> HIDE DEF kept
  <2>6. q \in Looks
    BY <2>1, <2>4 DEF Looks
  <2> QED
    BY <1>2, <2>5, <2>6
<1>6. CASE GetFirstFineNode(r)
  <2>1. req[r] \in Looks
    BY <1>0, <1>6, Shapes DEF GetFirstFineNode
  <2>2. [at |-> "placed", loc |-> req[r].loc, node |-> None] \in Placed
    BY <2>1 DEF Looks, Placed
  <2>3. \A best \in req[r].fine : [at |-> "chosen", loc |-> req[r].loc, node |-> best[1]] \in Chosen
    BY <2>1 DEF Looks, Chosen
  <2> QED
    BY <1>2, <1>6, <2>2, <2>3 DEF GetFirstFineNode
<1> QED
  BY <1>3, <1>4, <1>5, <1>6

LEMMA WorldTypes ==
  ASSUME StoresOK, ReqOK, Addable, WorldChanges, UNCHANGED req
  PROVE  StoresOK' /\ ReqOK' /\ Addable'
<1>1. changes' \in 0 .. MaxChanges
  BY PlacementAssumption DEF WorldChanges, StoresOK
<1>2. roomy' \subseteq Cluster /\ status' \in [Cluster -> Statuses]
  BY DEF WorldChanges, StoresOK
<1> QED
  BY <1>1, <1>2 DEF WorldChanges, StoresOK, ReqOK, Addable, Stirs, IsLocation

LEMMA DieTypes ==
  ASSUME StoresOK, ReqOK, Addable, Die
  PROVE  StoresOK' /\ ReqOK' /\ Addable'
BY AllIs DEF Die, StoresOK, registryVars, ReqOK, Addable, Idle, IsLocation

LEMMA StepTypes == TypeOK /\ Addable /\ [Next]_vars => TypeOK' /\ Addable'
<1> SUFFICES ASSUME StoresOK, ReqOK, Addable, [Next]_vars
             PROVE  StoresOK' /\ ReqOK' /\ Addable'
  BY DEF TypeOK, StoresOK, ReqOK, All
<1>1. CASE UNCHANGED vars
  BY <1>1 DEF vars, registryVars, StoresOK, ReqOK, Addable, IsLocation
<1> QED
  BY <1>1, ArriveTypes, AsksTypes, AddLocationTypes, DeleteLocationTypes, AddNodeTypes,
     RemoveNodeTypes, LooksTypes, WorldTypes, DieTypes DEF Next, Handle

(* Every record is well formed; no node of the table is missing from the     *)
(* cluster and every one has a location that is not deleted, although both   *)
(* were looked up some awaits earlier (config.ts:23-79, 116-145).            *)
THEOREM TypesCorrect == Spec => []TypeOK
BY InitTypes, StepTypes, PTL DEF Spec

-----------------------------------------------------------------------------
(* The choice *)

(* The score agrees with what it is for.                                     *)
LEMMA FreerScoresMore ==
  ASSUME NEW s \in Statuses, NEW t \in Statuses, Freer(s, t)
  PROVE  ScoreNode(t) < ScoreNode(s)
<1>1. /\ s.cpu \in Percent /\ s.mem \in Percent /\ s.disk \in Percent
      /\ t.cpu \in Percent /\ t.mem \in Percent /\ t.disk \in Percent
  BY PlacementAssumption
<1>2. s.cpu <= t.cpu /\ s.mem <= t.mem /\ s.disk <= t.disk /\ s.status = "online"
  BY DEF Freer
<1>3. s.cpu + 3 <= t.cpu \/ s.mem + 3 <= t.mem \/ s.disk + 3 <= t.disk
  BY DEF Freer
<1>4. CASE t.status # "online"
  BY <1>1, <1>2, <1>4, Thirds DEF ScoreNode
<1>5. CASE t.status = "online"
  BY <1>1, <1>2, <1>3, <1>5, Thirds DEF ScoreNode
<1> QED
  BY <1>4, <1>5

(* Of a choice under way during which nothing has changed: what was found    *)
(* out is true, and every fine node is somewhere among it.                   *)
Seen(n) == IF n \in Cluster THEN status[n] ELSE None

LooksTrue(q) ==
  /\ \A n \in q.asked : n \in Candidates(q.loc)
  /\ \A look \in q.listed : look[1] \in Candidates(q.loc) /\ look[2] = Seen(look[1])
  /\ \A f \in q.fine : f[1] \in FineNodes(q.loc) /\ f[2] = ScoreNode(status[f[1]])
  /\ \A n \in FineNodes(q.loc) :
       \/ n \in q.asked \/ <<n, Seen(n)>> \in q.listed
       \/ <<n, ScoreNode(status[n])>> \in q.fine

PlacedWell(q) ==
  IF q.node = None THEN Best(q.loc) = {} ELSE q.node \in Best(q.loc)

Right(q) == /\ q.at = "look" => LooksTrue(q)
            /\ q.at = "chosen" => q.node \in Best(q.loc)
            /\ q.at = "placed" => PlacedWell(q)

ChoiceInv == \A r \in calm : Right(req[r])

(* It says nothing of the other stages of a request.                         *)
LEMMA OtherStages ==
  ASSUME NEW q, q.at \notin {"look", "chosen", "placed"}
  PROVE  Right(q)
BY DEF Right

(* While the nodes and their load stay, so does what is best.                *)
LEMMA SameChoice ==
  ASSUME UNCHANGED <<nodes, roomy, status>>, NEW q, Right(q)
  PROVE  Right(q)'
BY DEF Right, LooksTrue, PlacedWell, Best, FineNodes, Candidates, Seen

LEMMA OneGoesOn ==
  ASSUME ReqOK, ChoiceInv, UNCHANGED <<nodes, roomy, status>>, NEW r \in Requests, NEW q,
         Goes(r, q), calm' \subseteq calm \cup {r}, r \in calm' => Right(q)
  PROVE  ChoiceInv'
<1> SUFFICES ASSUME NEW s \in calm'  PROVE Right(req[s])'
  BY DEF ChoiceInv
<1>1. s \in Requests
  BY DEF ReqOK
<1>2. CASE s = r
  <2>1. req'[s] = q /\ Right(q)
    BY <1>2 DEF Goes, ReqOK
  <2> QED
    BY <2>1, SameChoice
<1>3. CASE s # r
  <2>1. req'[s] = req[s] /\ Right(req[s])
    BY <1>1, <1>3 DEF Goes, ReqOK, ChoiceInv
  <2> QED
    BY <2>1, SameChoice
<1> QED
  BY <1>2, <1>3

(* A step that ends the calm of all choices, or one that has nothing to do   *)
(* with them.                                                                *)
LEMMA StirredOrOther ==
  ASSUME ReqOK, ChoiceInv, NEW r \in Requests,
         Arrive(r) \/ LocationExists(r) \/ AddLocation(r) \/ GetLocation(r)
           \/ DeleteLocation(r) \/ GetPVENode(r) \/ ExistsInDatabase(r) \/ GetNodeIP(r)
           \/ AddNode(r) \/ GetSQLNode(r) \/ RemoveNode(r)
  PROVE  ChoiceInv'
<1>0. req[r] \in All
  BY DEF ReqOK
<1>1. CASE AddNode(r) \/ RemoveNode(r)
  BY <1>1 DEF AddNode, RemoveNode, Stirs, ChoiceInv
<1>2. CASE Arrive(r)
  <2>1. PICK q : /\ q.at \in {"locationExists", "getLocation", "getPVENode",
                               "getSQLNode", "candidates"}
                /\ Goes(r, q) /\ calm' \subseteq calm \cup {r}
    BY <1>2 DEF Arrive
  <2>2. Right(q)
    BY <2>1, OtherStages
  <2> QED
    BY <1>2, <2>1, <2>2, OneGoesOn DEF Arrive, registryVars
<1>3. ASSUME Ends(r), UNCHANGED <<nodes, roomy, status, calm>>
      PROVE  ChoiceInv'
  <2>1. Right(Idle)
    BY OtherStages DEF Idle
  <2> QED
    BY <1>3, <2>1, OneGoesOn DEF Ends
<1>4. ASSUME NEW place, place \notin {"look", "chosen", "placed"}, Asks(r, place),
             UNCHANGED <<nodes, roomy, status, calm>>
      PROVE  ChoiceInv'
  <2> DEFINE q == [req[r] EXCEPT !.at = place]
  <2>1. Right(q)
    BY <1>0, <1>4, AtIs, OtherStages
  <2> HIDE DEF q
  <2>2. Goes(r, q)
    BY <1>4 DEF Asks, q
  <2> QED
    BY <1>4, <2>1, <2>2, OneGoesOn
<1> QED
  BY <1>1, <1>2, <1>3, <1>4
  DEF LocationExists, AddLocation, GetLocation, DeleteLocation, GetPVENode, ExistsInDatabase,
      GetNodeIP, GetSQLNode, registryVars

(* The looks find out what is so.                                            *)
LEMMA LooksRight ==
  ASSUME StoresOK, ReqOK, ChoiceInv, NEW r \in Requests,
         GetNodeByLocation(r) \/ (\E n \in Nodes : ListNodes(r, n)) \/ FilterNodes(r)
  PROVE  ChoiceInv'
<1>0. req[r] \in All
  BY DEF ReqOK
<1>1. UNCHANGED <<nodes, roomy, status>> /\ calm' = calm
  BY DEF GetNodeByLocation, ListNodes, FilterNodes, registryVars
<1>2. ASSUME NEW q, Goes(r, q), r \in calm => LooksTrue(q), q.at = "look"
      PROVE  ChoiceInv'
  BY <1>1, <1>2, OneGoesOn DEF Right
<1>3. CASE GetNodeByLocation(r)
  <2> DEFINE q == [at |-> "look", loc |-> req[r].loc, asked |-> Candidates(req[r].loc),
                   listed |-> {}, fine |-> {}]
  <2>1. LooksTrue(q)
    BY DEF LooksTrue, FineNodes
  <2> QED
    BY <1>2, <1>3, <2>1 DEF GetNodeByLocation
<1>4. ASSUME NEW n \in Nodes, ListNodes(r, n)
      PROVE  ChoiceInv'
  <2> DEFINE q == [req[r] EXCEPT !.asked = @ \ {n}, !.listed = @ \cup {<<n, Seen(n)>>}]
  <2>1. req[r] \in Looks /\ n \in req[r].asked
    BY <1>0, <1>4, Shapes DEF ListNodes
  <2>2. Goes(r, q)
    BY <1>4 DEF ListNodes, Seen
  <2>3. /\ q.at = "look" /\ q.loc = req[r].loc /\ q.fine = req[r].fine
        /\ q.asked = req[r].asked \ {n} /\ q.listed = req[r].listed \cup {<<n, Seen(n)>>}
    BY <2>1 DEF Looks
  <2> HIDE DEF q
  <2>4. ASSUME r \in calm  PROVE LooksTrue(q)
    <3>1. LooksTrue(req[r])
      BY <2>1, <2>4 DEF ChoiceInv, Right, Looks
    <3> QED
      BY <2>1, <2>3, <3>1 DEF LooksTrue
  <2> QED
    BY <1>2, <2>2, <2>3, <2>4
<1>5. CASE FilterNodes(r)
  <2>1. req[r] \in Looks
    BY <1>0, <1>5, Shapes DEF FilterNodes
  <2>2. PICK look \in req[r].listed :
          LET n == look[1] s == look[2]
              kept == IF nodes[n] # None /\ s # None /\ Fine(s) THEN {<<n, ScoreNode(s)>>}
                                                               ELSE {}
          IN Goes(r, [req[r] EXCEPT !.listed = @ \ {look}, !.fine = @ \cup kept])
    BY <1>5 DEF FilterNodes
  <2> DEFINE n == look[1]
             s == look[2]
             kept == IF nodes[n] # None /\ s # None /\ Fine(s)
                     THEN {<<n, ScoreNode(s)>>} ELSE {}
             q == [req[r] EXCEPT !.listed = @ \ {look}, !.fine = @ \cup kept]
  <2>3. look = <<n, s>> /\ n \in Nodes
    BY <2>1 DEF Looks
  <2>4. Goes(r, q)
    BY <2>2
  <2>5. /\ q.at = "look" /\ q.loc = req[r].loc /\ q.asked = req[r].asked
        /\ q.listed = req[r].listed \ {look} /\ q.fine = req[r].fine \cup kept
    BY <2>1 DEF Looks
  <2>6. ASSUME r \in calm  PROVE LooksTrue(q)
    <3>1. LooksTrue(req[r])
      BY <2>1, <2>6 DEF ChoiceInv, Right, Looks
    <3>2. n \in Candidates(req[r].loc) /\ s = Seen(n)
      BY <2>2, <3>1 DEF LooksTrue
    <3>3. nodes[n] # None
      BY <2>1, <3>2, PlacementAssumption DEF Candidates, Looks
    <3>4. kept = IF n \in FineNodes(req[r].loc) THEN {<<n, ScoreNode(status[n])>>} ELSE {}
      <4>1. CASE n \in Cluster
        <5>1. s = status[n] /\ s # None
          BY <3>2, <4>1, PlacementAssumption DEF Seen, StoresOK
        <5> QED
          BY <3>2, <3>3, <4>1, <5>1 DEF FineNodes
      <4>2. CASE n \notin Cluster
        BY <3>2, <4>2 DEF Seen, FineNodes
      <4> QED
        BY <4>1, <4>2
    <3> HIDE DEF q, kept, n, s
    <3>5. \A f \in q.fine : f[1] \in FineNodes(q.loc) /\ f[2] = ScoreNode(status[f[1]])
      BY <2>5, <3>1, <3>4 DEF LooksTrue
    <3>6. \A m \in FineNodes(q.loc) :
            \/ m \in q.asked \/ <<m, Seen(m)>> \in q.listed
            \/ <<m, ScoreNode(status[m])>> \in q.fine
      <4> SUFFICES ASSUME NEW m \in FineNodes(q.loc)
                   PROVE  \/ m \in q.asked \/ <<m, Seen(m)>> \in q.listed
                          \/ <<m, ScoreNode(status[m])>> \in q.fine
        OBVIOUS
      <4>1. CASE m = n
        BY <2>5, <3>4, <4>1
      <4>2. CASE m # n
        <5>1. <<m, Seen(m)>> # look
          BY <2>3, <4>2
        <5> QED
          BY <2>5, <3>1, <5>1 DEF LooksTrue
      <4> QED
        BY <4>1, <4>2
    <3> QED
      BY <2>5, <3>1, <3>5, <3>6 DEF LooksTrue
  <2> HIDE DEF q
  <2> QED
    BY <1>2, <2>4, <2>5, <2>6
<1> QED
  BY <1>3, <1>4, <1>5

(* Among the fine nodes one with the highest score is beaten by none.        *)
LEMMA HighestIsBest ==
  ASSUME StoresOK, NEW l, NEW n \in FineNodes(l),
         \A m \in FineNodes(l) : ScoreNode(status[m]) <= ScoreNode(status[n])
  PROVE  n \in Best(l)
<1> SUFFICES ASSUME NEW m \in FineNodes(l), Freer(status[m], status[n])
             PROVE  FALSE
  BY DEF Best
<1>1. status[m] \in Statuses /\ status[n] \in Statuses
  BY DEF FineNodes, StoresOK
<1>2. ScoreNode(status[n]) < ScoreNode(status[m])
  BY <1>1, FreerScoresMore
<1>3. ScoreNode(status[n]) \in Nat /\ ScoreNode(status[m]) \in Nat
  BY <1>1, ScoreType
<1>4. ScoreNode(status[m]) <= ScoreNode(status[n])
  OBVIOUS
<1> HIDE DEF ScoreNode
<1> QED
  BY <1>2, <1>3, <1>4

LEMMA ChoiceRight ==
  ASSUME StoresOK, ReqOK, ChoiceInv, NEW r \in Requests, GetFirstFineNode(r)
  PROVE  ChoiceInv'
<1>1. req[r] \in Looks /\ req[r].asked = {} /\ req[r].listed = {}
  BY Shapes DEF GetFirstFineNode, ReqOK
<1>2. UNCHANGED <<nodes, roomy, status>> /\ calm' = calm
  BY DEF GetFirstFineNode, registryVars
<1>3. ASSUME r \in calm
      PROVE  /\ \A f \in req[r].fine : f[1] \in FineNodes(req[r].loc)
                                     /\ f[2] = ScoreNode(status[f[1]])
             /\ \A n \in FineNodes(req[r].loc) : <<n, ScoreNode(status[n])>> \in req[r].fine
  BY <1>1, <1>3 DEF ChoiceInv, Right, LooksTrue, Looks
<1>4. CASE req[r].fine = {}
  <2> DEFINE q == [at |-> "placed", loc |-> req[r].loc, node |-> None]
  <2>1. r \in calm => Right(q)
    BY <1>3, <1>4 DEF Right, PlacedWell, Best
  <2> QED
    BY <1>2, <1>4, <2>1, OneGoesOn DEF GetFirstFineNode
<1>5. CASE req[r].fine # {}
  <2>1. PICK best \in req[r].fine :
          /\ \A other \in req[r].fine : other[2] <= best[2]
          /\ Goes(r, [at |-> "chosen", loc |-> req[r].loc, node |-> best[1]])
    BY <1>5 DEF GetFirstFineNode
  <2> DEFINE q == [at |-> "chosen", loc |-> req[r].loc, node |-> best[1]]
  <2>2. ASSUME r \in calm  PROVE Right(q)
    <3>1. \A m \in FineNodes(req[r].loc) : ScoreNode(status[m]) <= ScoreNode(status[best[1]])
      BY <1>3, <2>1, <2>2
    <3>2. best[1] \in FineNodes(req[r].loc)
      BY <1>3, <2>2
    <3>3. best[1] \in Best(req[r].loc)
      BY <3>1, <3>2, HighestIsBest
    <3> QED
      BY <3>3 DEF Right
  <2> QED
    BY <1>2, <2>1, <2>2, OneGoesOn
<1> QED
  BY <1>4, <1>5

LEMMA FoundRight ==
  ASSUME ReqOK, ChoiceInv, NEW r \in Requests, FindChosen(r)
  PROVE  ChoiceInv'
<1> DEFINE q == [req[r] EXCEPT !.at = "placed"]
<1>1. req[r] \in Chosen
  BY Shapes DEF FindChosen, ReqOK
<1>2. /\ q.at = "placed" /\ q.node = req[r].node /\ q.loc = req[r].loc
      /\ req[r].at = "chosen" /\ req[r].node # None
  BY <1>1, PlacementAssumption DEF Chosen
<1>3. Goes(r, q) /\ UNCHANGED <<nodes, roomy, status, calm>>
  BY DEF FindChosen, Asks, registryVars
<1> HIDE DEF q
<1>4. r \in calm => Right(q)
  BY <1>2 DEF ChoiceInv, Right, PlacedWell
<1> QED
  BY <1>3, <1>4, OneGoesOn

LEMMA DieRight == ReqOK /\ ChoiceInv /\ Die => ChoiceInv'
<1> SUFFICES ASSUME ReqOK, ChoiceInv, Die, NEW s \in calm'  PROVE Right(req[s])'
  BY DEF ChoiceInv
<1>1. s \in calm /\ UNCHANGED <<nodes, roomy, status>> /\ req'[s] \in {req[s], Idle}
  BY DEF Die, registryVars, ReqOK
<1>2. Right(req[s]) /\ Right(Idle)
  BY <1>1, OtherStages DEF ChoiceInv, Idle
<1> QED
  BY <1>1, <1>2, SameChoice

LEMMA StepChoice == TypeOK /\ ChoiceInv /\ [Next]_vars => ChoiceInv'
<1> SUFFICES ASSUME StoresOK, ReqOK, ChoiceInv, [Next]_vars
             PROVE  ChoiceInv'
  BY TypeParts
<1>1. CASE UNCHANGED vars
  <2> SUFFICES ASSUME NEW s \in calm'  PROVE Right(req[s])'
    BY DEF ChoiceInv
  <2>1. s \in calm /\ req'[s] = req[s] /\ UNCHANGED <<nodes, roomy, status>>
    BY <1>1 DEF vars, registryVars
  <2> QED
    BY <2>1, SameChoice DEF ChoiceInv
<1>2. CASE WorldChanges
  BY <1>2 DEF WorldChanges, Stirs, ChoiceInv
<1> QED
  BY <1>1, <1>2, StirredOrOther, LooksRight, ChoiceRight, FoundRight, DieRight DEF Next, Handle

(* When nothing changes meanwhile, a container goes to a fine node of its    *)
(* location that no other beats, and to none only if there is none, for any  *)
(* number of nodes looked at at once in any order, and any load: the score   *)
(* of apiTools.ts:605-619 never ranks a fuller node above a freer one.       *)
THEOREM ChoosesBestNode == Spec => []ChoosesBest
<1>1. Init => TypeOK /\ Addable /\ ChoiceInv
  BY InitTypes DEF Init, ChoiceInv
<1>2. TypeOK /\ Addable /\ ChoiceInv /\ [Next]_vars => (TypeOK /\ Addable /\ ChoiceInv)'
  BY StepTypes, StepChoice
<1>3. ChoiceInv => ChoosesBest
  BY DEF ChoiceInv, Right, PlacedWell, ChoosesBest
<1> QED
  BY <1>1, <1>2, <1>3, PTL DEF Spec

-----------------------------------------------------------------------------
(* Locations of one name: those in the table, and those about to come.       *)
Rows(x) == {l \in DOMAIN locations : locations[l] = x}

Adders(x) == {r \in Requests : req[r].at = "addLocation" /\ req[r].name = x}

NamesInv ==
  \A x \in Names : Cardinality(Rows(x)) + Cardinality(Adders(x)) <= Cardinality(Requests)

LEMMA RowsFinite ==
  ASSUME StoresOK, NEW x
  PROVE  IsFiniteSet(Rows(x)) /\ Cardinality(Rows(x)) \in Nat
<1>1. Rows(x) \subseteq 1 .. Len(locations) /\ Len(locations) \in Nat
  BY DEF Rows, StoresOK
<1>2. IsFiniteSet(1 .. Len(locations))
  BY <1>1, FS_Interval
<1> QED
  BY <1>1, <1>2, FS_Subset, FS_CardinalityType

LEMMA AddersFinite ==
  ASSUME NEW x
  PROVE  /\ IsFiniteSet(Adders(x)) /\ Cardinality(Adders(x)) \in Nat
         /\ Cardinality(Adders(x)) <= Cardinality(Requests) /\ Cardinality(Requests) \in Nat
BY PlacementAssumption, FS_Subset, FS_CardinalityType DEF Adders

LEMMA Fewer ==
  ASSUME StoresOK, NamesInv, NEW x \in Names, NEW R \in SUBSET Rows(x), NEW A \in SUBSET Adders(x)
  PROVE  Cardinality(R) + Cardinality(A) <= Cardinality(Requests)
<1>1. Cardinality(R) \in Nat /\ Cardinality(R) <= Cardinality(Rows(x))
  BY RowsFinite, FS_Subset, FS_CardinalityType
<1>2. Cardinality(A) \in Nat /\ Cardinality(A) <= Cardinality(Adders(x))
  BY AddersFinite, FS_Subset, FS_CardinalityType
<1> QED
  BY <1>1, <1>2, RowsFinite, AddersFinite DEF NamesInv

(* Steps after which nobody new is about to add a location.                  *)
LEMMA NoNewAdder ==
  ASSUME StoresOK, NamesInv,
         \A x \in Names : Rows(x)' \subseteq Rows(x) /\ Adders(x)' \subseteq Adders(x)
  PROVE  NamesInv'
<1> SUFFICES ASSUME NEW x \in Names
             PROVE  Cardinality(Rows(x)') + Cardinality(Adders(x)') <= Cardinality(Requests)
  BY DEF NamesInv
<1> QED
  BY Fewer

LEMMA SameRows == UNCHANGED locations => \A x : Rows(x)' = Rows(x)
BY DEF Rows

(* One request goes on to something else than the addition of a location.    *)
LEMMA ElseGoesOn ==
  ASSUME StoresOK, ReqOK, NamesInv, UNCHANGED locations, NEW r \in Requests, NEW q,
         Goes(r, q), q.at # "addLocation"
  PROVE  NamesInv'
<1>1. \A x \in Names : Adders(x)' \subseteq Adders(x)
  BY DEF Adders, Goes, ReqOK
<1> QED
  BY <1>1, SameRows, NoNewAdder

LEMMA ExistsNames ==
  ASSUME StoresOK, ReqOK, NamesInv, NEW r \in Requests, LocationExists(r)
  PROVE  NamesInv'
<1>1. UNCHANGED locations
  BY DEF LocationExists, registryVars
<1>2. CASE Ends(r)
  BY <1>1, <1>2, ElseGoesOn DEF Ends, Idle
<1>3. CASE ~Ends(r)
  <2> SUFFICES ASSUME NEW x \in Names
               PROVE  Cardinality(Rows(x)') + Cardinality(Adders(x)') <= Cardinality(Requests)
    BY DEF NamesInv
  <2>1. req[r] \in NameQueries /\ Asks(r, "addLocation") /\ Rows(req[r].name) = {}
    BY <1>3, Shapes DEF LocationExists, ReqOK, Rows
  <2>2. req' = [req EXCEPT ![r] = [req[r] EXCEPT !.at = "addLocation"]]
    BY <2>1 DEF Asks, Goes
  <2>3. [req[r] EXCEPT !.at = "addLocation"].name = req[r].name
    BY <2>1 DEF NameQueries
  <2>4. CASE x = req[r].name
    <3>1. Rows(x)' = {}
      BY <1>1, <2>1, <2>4, SameRows
    <3>2. Adders(x)' \in SUBSET Requests
      BY DEF Adders
    <3>3. Cardinality(Adders(x)') \in Nat /\ Cardinality(Adders(x)') <= Cardinality(Requests)
      BY <3>2, PlacementAssumption, FS_Subset, FS_CardinalityType
    <3>4. Cardinality(Rows(x)') = 0
      BY <3>1, FS_EmptySet
    <3> QED
      BY <3>3, <3>4, AddersFinite
  <2>5. CASE x # req[r].name
    <3>1. Adders(x)' \subseteq Adders(x)
      BY <2>2, <2>3, <2>5 DEF Adders, ReqOK
    <3> QED
      BY <1>1, <3>1, SameRows, Fewer
  <2> QED
    BY <2>4, <2>5
<1> QED
  BY <1>2, <1>3

LEMMA AddNames ==
  ASSUME StoresOK, ReqOK, NamesInv, NEW r \in Requests, AddLocation(r)
  PROVE  NamesInv'
<1> SUFFICES ASSUME NEW x \in Names
             PROVE  Cardinality(Rows(x)') + Cardinality(Adders(x)') <= Cardinality(Requests)
  BY DEF NamesInv
<1> DEFINE new == Len(locations) + 1
<1>1. req[r].name \in Names
  BY Shapes DEF AddLocation, ReqOK, NameQueries
<1>2. /\ DOMAIN locations' = DOMAIN locations \cup {new} /\ new \notin DOMAIN locations
      /\ locations'[new] = req[r].name
      /\ \A l \in DOMAIN locations : locations'[l] = locations[l]
  BY <1>1 DEF AddLocation, StoresOK
<1>3. req' = [req EXCEPT ![r] = Idle] /\ Idle.at # "addLocation"
  BY DEF AddLocation, Ends, Goes, Idle
<1> HIDE DEF new
<1>4. CASE x = req[r].name
  <2>1. Rows(x)' = Rows(x) \cup {new} /\ new \notin Rows(x)
    BY <1>2, <1>4 DEF Rows
  <2>2. Adders(x)' = Adders(x) \ {r} /\ r \in Adders(x)
    BY <1>3, <1>4 DEF Adders, ReqOK, AddLocation
  <2>3. Cardinality(Rows(x)') = Cardinality(Rows(x)) + 1
    BY <2>1, RowsFinite, FS_AddElement
  <2>4. Cardinality(Adders(x)') = Cardinality(Adders(x)) - 1
    BY <2>2, AddersFinite, FS_RemoveElement
  <2> QED
    BY <2>3, <2>4, RowsFinite, AddersFinite DEF NamesInv
<1>5. CASE x # req[r].name
  <2>1. Rows(x)' \subseteq Rows(x)
    BY <1>2, <1>5 DEF Rows
  <2>2. Adders(x)' \subseteq Adders(x)
    BY <1>3 DEF Adders, ReqOK
  <2> QED
    BY <2>1, <2>2, Fewer
<1> QED
  BY <1>4, <1>5

LEMMA DeleteNames ==
  ASSUME StoresOK, ReqOK, NamesInv, NEW r \in Requests, DeleteLocation(r)
  PROVE  NamesInv'
<1>1. \A x \in Names : Rows(x)' \subseteq Rows(x)
  BY PlacementAssumption DEF Rows, DeleteLocation, Undeletable, IsLocation, StoresOK
<1>2. \A x \in Names : Adders(x)' \subseteq Adders(x)
  BY DEF Adders, ReqOK, DeleteLocation, Ends, Goes, Idle
<1> QED
  BY <1>1, <1>2, NoNewAdder

LEMMA OtherNames ==
  ASSUME StoresOK, ReqOK, NamesInv, NEW r \in Requests,
         Arrive(r) \/ GetLocation(r) \/ GetPVENode(r) \/ ExistsInDatabase(r) \/ GetNodeIP(r)
           \/ AddNode(r) \/ GetSQLNode(r) \/ RemoveNode(r) \/ GetNodeByLocation(r)
           \/ (\E n \in Nodes : ListNodes(r, n)) \/ FilterNodes(r) \/ GetFirstFineNode(r)
           \/ FindChosen(r)
  PROVE  NamesInv'
<1>0. req[r] \in All
  BY DEF ReqOK
<1>1. UNCHANGED locations
  BY DEF Arrive, GetLocation, GetPVENode, ExistsInDatabase, GetNodeIP, AddNode, GetSQLNode,
         RemoveNode, GetNodeByLocation, ListNodes, FilterNodes, GetFirstFineNode, FindChosen,
         registryVars
<1>2. \/ Ends(r)
      \/ \E place \in {"deleteLocation", "existsInDatabase", "getNodeIP", "addNode",
                       "removeNode", "placed"} : Asks(r, place)
      \/ \E q : Goes(r, q) /\ q.at # "addLocation"
  <2>1. CASE Arrive(r)
    BY <2>1 DEF Arrive
  <2>2. CASE GetNodeByLocation(r)
    BY <2>2 DEF GetNodeByLocation
  <2>3. ASSUME NEW n \in Nodes, ListNodes(r, n)
        PROVE  \E q : Goes(r, q) /\ q.at # "addLocation"
    <3>1. req[r] \in Looks
      BY <1>0, <2>3, Shapes DEF ListNodes
    <3>2. \A a, l : [req[r] EXCEPT !.asked = a, !.listed = l].at = "look"
      BY <3>1 DEF Looks
    <3>3. PICK a, l : Goes(r, [req[r] EXCEPT !.asked = a, !.listed = l])
      BY <2>3 DEF ListNodes
    <3> QED
      BY <3>2, <3>3
  <2>4. ASSUME FilterNodes(r)
        PROVE  \E q : Goes(r, q) /\ q.at # "addLocation"
    <3>1. req[r] \in Looks
      BY <1>0, <2>4, Shapes DEF FilterNodes
    <3>2. \A l, f : [req[r] EXCEPT !.listed = l, !.fine = f].at = "look"
      BY <3>1 DEF Looks
    <3>3. PICK l, f : Goes(r, [req[r] EXCEPT !.listed = l, !.fine = f])
      BY <2>4 DEF FilterNodes
    <3> QED
      BY <3>2, <3>3
  <2>5. CASE GetFirstFineNode(r)
    <3>1. \A b : /\ [at |-> "placed", loc |-> req[r].loc, node |-> b].at # "addLocation"
                 /\ [at |-> "chosen", loc |-> req[r].loc, node |-> b].at # "addLocation"
      OBVIOUS
    <3>2. \E b : \/ Goes(r, [at |-> "placed", loc |-> req[r].loc, node |-> b])
                 \/ Goes(r, [at |-> "chosen", loc |-> req[r].loc, node |-> b])
      BY <2>5 DEF GetFirstFineNode
    <3> QED
      BY <3>1, <3>2
  <2>6. ASSUME GetLocation(r) \/ GetPVENode(r) \/ ExistsInDatabase(r) \/ GetNodeIP(r)
                 \/ AddNode(r) \/ GetSQLNode(r) \/ RemoveNode(r) \/ FindChosen(r)
        PROVE  \/ Ends(r)
               \/ \E place \in {"deleteLocation", "existsInDatabase", "getNodeIP", "addNode",
                                "removeNode", "placed"} : Asks(r, place)
    BY <2>6 DEF GetLocation, GetPVENode, ExistsInDatabase, GetNodeIP, AddNode, GetSQLNode,
                RemoveNode, FindChosen
  <2> QED
    BY <2>1, <2>2, <2>3, <2>4, <2>5, <2>6
<1>3. ASSUME NEW place, place # "addLocation", Asks(r, place)  PROVE NamesInv'
  BY <1>0, <1>1, <1>3, AtIs, ElseGoesOn DEF Asks
<1>4. ASSUME Ends(r)  PROVE NamesInv'
  BY <1>1, <1>4, ElseGoesOn DEF Ends, Idle
<1> QED
  BY <1>1, <1>2, <1>3, <1>4, ElseGoesOn

LEMMA StepNames == TypeOK /\ NamesInv /\ [Next]_vars => NamesInv'
<1> SUFFICES ASSUME StoresOK, ReqOK, NamesInv, [Next]_vars
             PROVE  NamesInv'
  BY TypeParts
<1>1. ASSUME UNCHANGED <<locations, req>>  PROVE NamesInv'
  BY <1>1, NoNewAdder DEF Rows, Adders
<1>2. CASE Die
  <2>1. \A x \in Names : Adders(x)' \subseteq Adders(x)
    BY <1>2 DEF Die, Adders, Idle
  <2> QED
    BY <1>2, <2>1, SameRows, NoNewAdder DEF Die, registryVars
<1> QED
  BY <1>1, <1>2, ExistsNames, AddNames, DeleteNames, OtherNames
  DEF Next, Handle, WorldChanges, vars, registryVars

(* However many requests there were, no more locations share a name than are *)
(* served at once: each of those that added one had found none of that name  *)
(* (config.ts:98-104).                                                       *)
THEOREM FewShareAName == Spec => []EqualLocations
<1>1. Init => TypeOK /\ Addable /\ NamesInv
  <2> SUFFICES ASSUME Init, NEW x \in Names
               PROVE  Cardinality(Rows(x)) + Cardinality(Adders(x)) <= Cardinality(Requests)
    BY InitTypes DEF NamesInv
  <2>1. Rows(x) = {}
    BY DEF Init, Rows
  <2> QED
    BY <2>1, FS_EmptySet, AddersFinite
<1>2. TypeOK /\ Addable /\ NamesInv /\ [Next]_vars => (TypeOK /\ Addable /\ NamesInv)'
  BY StepTypes, StepNames
<1>3. TypeOK /\ NamesInv => EqualLocations
  <2> SUFFICES ASSUME TypeOK, NamesInv, NEW x \in Names
               PROVE  Cardinality(Rows(x)) <= Cardinality(Requests)
    BY DEF EqualLocations, Rows
  <2>1. StoresOK
    BY TypeParts
  <2> QED
    BY <2>1, RowsFinite, AddersFinite DEF NamesInv
<1> QED
  BY <1>1, <1>2, <1>3, PTL DEF Spec
=============================================================================
