------------------------- MODULE ProvisioningProofs -------------------------
(***************************************************************************)
(* What holds of Provisioning for every number of requests, containers,    *)
(* addresses and nodes, under every interleaving and failure: first what   *)
(* holds of the tables and the requests one by one, then, with the history *)
(* of ProvisioningMishaps, how far the damage of a mishap goes.            *)
(***************************************************************************)
EXTENDS ProvisioningMishaps, TLAPS

USE DEF At, Goto

-----------------------------------------------------------------------------
(* Types *)

(* TypeOK in two halves: the tables and the cluster, and the requests. *)
StoresOK == /\ row \in [VmIds -> Addrs \cup {None}]
            /\ ready \subseteq VmIds
            /\ ipv4 \in [Keys -> Addrs \cup {None}]
            /\ used \subseteq Keys
            /\ links \in [Keys -> SUBSET Nodes]
            /\ pve \in [VmIds -> Addrs \cup {Outside, None}]
            /\ named \subseteq VmIds

ServedOK == req \in [Requests -> Request] /\ reply \in [Requests -> Replies]

(* TypeOK is its two halves, before and after a step. *)
LEMMA TypeHalves ==
  /\ TypeOK => StoresOK /\ ServedOK
  /\ StoresOK' /\ ServedOK' => TypeOK'
BY DEF TypeOK, StoresOK, ServedOK

(* An empty slot is a request. *)
LEMMA IdleType == Idle \in Request
BY DEF Idle, Fields, Request, Pcs, DeletePcs

(* The fields that the calls before the next one filled in. *)
LEMMA RequestType ==
  ASSUME TypeOK, NEW r \in Requests
  PROVE  /\ req[r] \in Request /\ req[r] \in Fields
         /\ req[r].addr \in Addrs \cup {Outside, None}
         /\ req[r].pc \in {"nextid", "postLxc", "insertRow", "markUsed"} =>
              req[r].addr \in Addrs /\ req[r].key \in Keys
         /\ req[r].pc \in {"postLxc", "insertRow", "markUsed", "setHostname", "setReady"} =>
              req[r].vm \in VmIds
         /\ req[r].pc \in DeletePcs => req[r].vm \in VmIds
         /\ req[r].pc \in {"markUnused", "deleteRow"} => req[r].key \in Keys
         /\ req[r].pc = "readConfig" => req[r].vm \in VmIds /\ req[r].key = None
         /\ req[r].vm \in VmIds \cup {None}
         /\ req[r].key \in Keys \cup {None}
         /\ req[r].todo \subseteq Addrs
BY DEF TypeOK, Request, Fields

(* Stores that do not change keep their types. *)
LEMMA SameStores == ASSUME StoresOK, UNCHANGED <<db, world>> PROVE StoresOK'
BY DEF StoresOK, db, world

(* A request that goes on to its next call. *)
LEMMA ProceedType ==
  ASSUME ServedOK, NEW r \in Requests, NEW q \in Request, Proceed(r, q)
  PROVE  ServedOK'
BY DEF Proceed, ServedOK

(* A request that begins. *)
LEMMA BeginType ==
  ASSUME ServedOK, NEW r \in Requests, NEW kind, NEW q \in Request, Begin(r, kind, q)
  PROVE  ServedOK'
BY DEF Begin, ServedOK, Replies

(* A request that is answered. *)
LEMMA AnswerType ==
  ASSUME ServedOK, NEW r \in Requests, NEW code \in Replies, Answer(r, code)
  PROVE  ServedOK'
BY IdleType DEF Answer, ServedOK

(* A request that is answered before it calls anything. *)
LEMMA AnswerAtOnceType ==
  ASSUME ServedOK, NEW r \in Requests, NEW code \in Replies, AnswerAtOnce(r, code)
  PROVE  ServedOK'
BY DEF AnswerAtOnce, ServedOK

(* The end of the process. *)
LEMMA DieType == ASSUME ServedOK, Die PROVE ServedOK'
BY IdleType DEF Die, ServedOK, Replies

(* An unhandled rejection, whether or not it ends the process. *)
LEMMA UnhandledType ==
  ASSUME ServedOK, NEW r \in Requests, Unhandled(r)
  PROVE  ServedOK'
BY AnswerType, DieType DEF Unhandled, Replies

(* The type invariant is kept by every step. *)
LEMMA TypeStep == ASSUME TypeOK, [Next]_vars PROVE TypeOK'
<1>0. StoresOK /\ ServedOK BY TypeHalves
<1> USE <1>0, TypeHalves
<1>1. ASSUME NEW r \in Requests, NEW n \in Nodes, CreateByNode(r, n) PROVE TypeOK'
  <2>1. [Idle EXCEPT !.pc = "getFreeIP", !.node = n] \in Request
    BY DEF Idle, Request, Fields, Pcs, CreatePcs, DeletePcs
  <2>2. ServedOK'
    BY <1>1, <2>1, BeginType DEF CreateByNode, Replies
  <2>3. StoresOK'
    BY <1>1, SameStores DEF CreateByNode
  <2> QED BY <2>2, <2>3
<1>2. ASSUME NEW r \in Requests, NEW l \in Locations, CreateByLocation(r, l) PROVE TypeOK'
  <2>1. ASSUME NEW n \in Nodes
       PROVE  [Idle EXCEPT !.pc = "getFreeIP", !.node = n] \in Request
    BY DEF Idle, Request, Fields, Pcs, CreatePcs, DeletePcs
  <2>2. ServedOK'
    BY <1>2, <2>1, BeginType, AnswerAtOnceType DEF CreateByLocation, Replies
  <2>3. StoresOK'
    BY <1>2, SameStores DEF CreateByLocation, AnswerAtOnce
  <2> QED BY <2>2, <2>3
<1>3. ASSUME NEW r \in Requests, GetFreeIP(r) PROVE TypeOK'
  <2>1. req[r].pc = "getFreeIP"
    BY <1>3 DEF GetFreeIP
  <2>2. ASSUME NEW k \in FreeKeys(req[r].node)
       PROVE  [req[r] EXCEPT !.pc = "nextid", !.key = k, !.addr = ipv4[k]] \in Request
    <3> DEFINE q == [req[r] EXCEPT !.pc = "nextid", !.key = k, !.addr = ipv4[k]]
    <3>1. k \in Keys /\ ipv4[k] \in Addrs BY DEF FreeKeys, TypeOK
    <3>2. q \in Fields /\ q.pc = "nextid" /\ q.key = k /\ q.addr = ipv4[k]
      BY <3>1, RequestType DEF Fields, Pcs, CreatePcs
    <3> HIDE DEF q
    <3>3. q \in Request BY <3>1, <3>2 DEF Request, DeletePcs
    <3> QED BY <3>3 DEF q
  <2>3. ServedOK'
    BY <1>3, <2>2, ProceedType, AnswerType DEF GetFreeIP, Replies
  <2>4. StoresOK'
    BY <1>3, SameStores DEF GetFreeIP
  <2> QED BY <2>3, <2>4
<1>4. ASSUME NEW r \in Requests, NextId(r) PROVE TypeOK'
  <2>1. req[r].pc = "nextid"
    BY <1>4 DEF NextId
  <2>2. ASSUME NEW v \in VmIds
       PROVE  [req[r] EXCEPT !.pc = "postLxc", !.vm = v] \in Request
    <3> DEFINE q == [req[r] EXCEPT !.pc = "postLxc", !.vm = v]
    <3>1. req[r] \in Fields /\ req[r].key \in Keys /\ req[r].addr \in Addrs
      BY <2>1, RequestType DEF Request
    <3>2. q \in Fields /\ q.pc = "postLxc" /\ q.vm = v /\ q.key = req[r].key /\ q.addr = req[r].addr
      BY <3>1 DEF Fields, Pcs, CreatePcs
    <3> HIDE DEF q
    <3>3. q \in Request BY <3>1, <3>2 DEF Request, DeletePcs
    <3> QED BY <3>3 DEF q
  <2>3. ServedOK'
    BY <1>4, <2>2, ProceedType, AnswerType DEF NextId, Replies
  <2>4. StoresOK'
    BY <1>4, SameStores DEF NextId
  <2> QED BY <2>3, <2>4
<1>5. ASSUME NEW r \in Requests, PostLxc(r) PROVE TypeOK'
  <2>1. req[r].pc = "postLxc"
    BY <1>5 DEF PostLxc
  <2>2. [req[r] EXCEPT !.pc = "insertRow"] \in Request
    BY <2>1, RequestType DEF TypeOK, Request, Fields, Pcs, CreatePcs, DeletePcs
  <2>3. ServedOK'
    BY <1>5, <2>2, ProceedType, AnswerType DEF PostLxc, Replies
  <2>4. StoresOK'
    BY <1>5, <2>1, RequestType DEF PostLxc, StoresOK, db, world, DeletePcs, Launch
  <2> QED BY <2>3, <2>4
<1>6. ASSUME NEW r \in Requests, AddContainerToDatabase(r) PROVE TypeOK'
  <2>1. req[r].pc = "insertRow"
    BY <1>6 DEF AddContainerToDatabase
  <2>2. [req[r] EXCEPT !.pc = "markUsed"] \in Request
    BY <2>1, RequestType DEF TypeOK, Request, Fields, Pcs, CreatePcs, DeletePcs
  <2>3. ServedOK'
    BY <1>6, <2>2, ProceedType, AnswerType DEF AddContainerToDatabase, Replies
  <2>4. StoresOK'
    BY <1>6, <2>1, RequestType DEF AddContainerToDatabase, StoresOK, db, world, DeletePcs
  <2> QED BY <2>3, <2>4
<1>7. ASSUME NEW r \in Requests, MarkUsed(r) PROVE TypeOK'
  <2>1. req[r].pc = "markUsed"
    BY <1>7 DEF MarkUsed
  <2>2. ServedOK'
    BY <1>7, AnswerType, UnhandledType DEF MarkUsed, Replies
  <2>3. StoresOK'
    BY <1>7, <2>1, RequestType DEF MarkUsed, StoresOK, db, world, DeletePcs
  <2> QED BY <2>2, <2>3
<1>8. ASSUME NEW r \in Requests, NEW v \in VmIds, DeleteContainer(r, v) PROVE TypeOK'
  <2>1. [Idle EXCEPT !.pc = "readConfig", !.vm = v] \in Request
    BY DEF Idle, TypeOK, Request, Fields, Pcs, DeletePcs
  <2>2. ServedOK'
    BY <1>8, <2>1, BeginType, AnswerAtOnceType DEF DeleteContainer, Replies
  <2>3. StoresOK'
    BY <1>8, SameStores DEF DeleteContainer, AnswerAtOnce
  <2> QED BY <2>2, <2>3
<1>9. ASSUME NEW r \in Requests, CheckIP(r) PROVE TypeOK'
  <2>1. req[r].pc = "checkIP"
    BY <1>9 DEF CheckIP
  <2>2. [req[r] EXCEPT !.pc = "deleteLxc"] \in Request
    BY <2>1, RequestType DEF TypeOK, Request, Fields, Pcs, DeletePcs
  <2>3. ServedOK'
    BY <1>9, <2>2, ProceedType, AnswerType DEF CheckIP, Replies
  <2>4. StoresOK'
    BY <1>9, SameStores DEF CheckIP
  <2> QED BY <2>3, <2>4
<1>10. ASSUME NEW r \in Requests, DeleteLxc(r) PROVE TypeOK'
  <2>1. req[r].pc = "deleteLxc"
    BY <1>10 DEF DeleteLxc
  <2>a. req[r] \in Fields /\ req[r].vm \in VmIds /\ "getIP" \in Pcs
    BY <2>1, RequestType DEF TypeOK, Request, Pcs, DeletePcs
  <2>b. [req[r] EXCEPT !.pc = "getIP", !.ok = TRUE] \in Fields
    BY <2>a DEF Fields
  <2>2. [req[r] EXCEPT !.pc = "getIP", !.ok = TRUE] \in Request
    BY <2>a, <2>b DEF Request, Fields
  <2>c. [req[r] EXCEPT !.pc = "getIP"] \in Fields
    BY <2>a DEF Fields
  <2>3. [req[r] EXCEPT !.pc = "getIP"] \in Request
    BY <2>a, <2>c DEF Request, Fields
  <2>4. ServedOK'
    BY <1>10, <2>2, <2>3, ProceedType DEF DeleteLxc, Replies
  <2>5. StoresOK'
    BY <1>10, <2>1, RequestType DEF DeleteLxc, StoresOK, db, world, DeletePcs, Destroy
  <2> QED BY <2>4, <2>5
<1>11. ASSUME NEW r \in Requests, GetIP(r) PROVE TypeOK'
  <2>1. req[r].pc = "getIP"
    BY <1>11 DEF GetIP
  <2>2. ASSUME NEW k \in Keys
       PROVE  [req[r] EXCEPT !.pc = "markUnused", !.key = k] \in Request
    <3> DEFINE q == [req[r] EXCEPT !.pc = "markUnused", !.key = k]
    <3>1. req[r] \in Fields /\ req[r].vm \in VmIds
      BY <2>1, RequestType DEF DeletePcs
    <3>2. q \in Fields /\ q.pc = "markUnused" /\ q.key = k /\ q.vm = req[r].vm
      BY <3>1 DEF Fields, Pcs, DeletePcs
    <3> HIDE DEF q
    <3>3. q \in Request BY <3>1, <3>2 DEF Request, DeletePcs
    <3> QED BY <3>3 DEF q
  <2>3. ServedOK'
    BY <1>11, <2>2, ProceedType, AnswerType DEF GetIP, Replies
  <2>4. StoresOK'
    BY <1>11, SameStores DEF GetIP
  <2> QED BY <2>3, <2>4
<1>12. ASSUME NEW r \in Requests, MarkUnused(r) PROVE TypeOK'
  <2>1. req[r].pc = "markUnused"
    BY <1>12 DEF MarkUnused
  <2>2. [req[r] EXCEPT !.pc = "deleteRow"] \in Request
    BY <2>1, RequestType DEF TypeOK, Request, Fields, Pcs, DeletePcs
  <2>3. ServedOK'
    BY <1>12, <2>2, ProceedType, AnswerType DEF MarkUnused, Replies
  <2>4. StoresOK'
    BY <1>12, <2>1, RequestType DEF MarkUnused, StoresOK, db, world, DeletePcs
  <2> QED BY <2>3, <2>4
<1>13. ASSUME NEW r \in Requests, DeleteContainerFromDB(r) PROVE TypeOK'
  <2>1. req[r].pc = "deleteRow"
    BY <1>13 DEF DeleteContainerFromDB
  <2>2. ServedOK'
    BY <1>13, AnswerType DEF DeleteContainerFromDB, Replies
  <2>3. StoresOK'
    BY <1>13, <2>1, RequestType DEF DeleteContainerFromDB, StoresOK, db, world, DeletePcs
  <2> QED BY <2>2, <2>3
<1>14. ASSUME NEW r \in Requests, NEW v \in VmIds, InitHostname(r, v) PROVE TypeOK'
  <2>1. [Idle EXCEPT !.pc = "getContainerID", !.addr = pve[v]] \in Request
    BY DEF Idle, TypeOK, Request, Fields, Pcs, InitPcs, DeletePcs
  <2>2. ServedOK'
    BY <1>14, <2>1, BeginType DEF InitHostname, Replies
  <2>3. StoresOK'
    BY <1>14, SameStores DEF InitHostname
  <2> QED BY <2>2, <2>3
<1>15. ASSUME NEW r \in Requests, GetContainerID(r) PROVE TypeOK'
  <2>1. req[r].pc = "getContainerID"
    BY <1>15 DEF GetContainerID
  <2>2. ASSUME NEW v \in Holders(req[r].addr)
       PROVE  [req[r] EXCEPT !.pc = "setHostname", !.vm = v] \in Request
    <3> DEFINE q == [req[r] EXCEPT !.pc = "setHostname", !.vm = v]
    <3>1. v \in VmIds BY DEF Holders
    <3>2. q \in Fields /\ q.pc = "setHostname" /\ q.vm = v
      BY <3>1, RequestType DEF Fields, Pcs, InitPcs
    <3> HIDE DEF q
    <3>3. q \in Request BY <3>1, <3>2 DEF Request, DeletePcs
    <3> QED BY <3>3 DEF q
  <2>3. ServedOK'
    BY <1>15, <2>2, ProceedType, UnhandledType DEF GetContainerID, Replies
  <2>4. StoresOK'
    BY <1>15, SameStores DEF GetContainerID
  <2> QED BY <2>3, <2>4
<1>16. ASSUME NEW r \in Requests, ChangeCTHostname(r) PROVE TypeOK'
  <2>1. req[r].pc = "setHostname"
    BY <1>16 DEF ChangeCTHostname
  <2>2. [req[r] EXCEPT !.pc = "setReady"] \in Request
    BY <2>1, RequestType DEF TypeOK, Request, Fields, Pcs, InitPcs, DeletePcs
  <2>3. ServedOK'
    BY <1>16, <2>2, ProceedType DEF ChangeCTHostname, Replies
  <2>4. StoresOK'
    BY <1>16, <2>1, RequestType DEF ChangeCTHostname, StoresOK, db, world, DeletePcs
  <2> QED BY <2>3, <2>4
<1>17. ASSUME NEW r \in Requests, SetCTAsReady(r) PROVE TypeOK'
  <2>1. req[r].pc = "setReady"
    BY <1>17 DEF SetCTAsReady
  <2>2. ServedOK'
    BY <1>17, AnswerType, UnhandledType DEF SetCTAsReady, Replies
  <2>3. StoresOK'
    BY <1>17, <2>1, RequestType DEF SetCTAsReady, StoresOK, db, world, DeletePcs
  <2> QED BY <2>2, <2>3
<1>18. ASSUME NEW r \in Requests, NEW S \in AddrLists, AddIps(r, S) PROVE TypeOK'
  <2>1. [Idle EXCEPT !.pc = "insertIp", !.todo = {a \in S : ~InPool(a)}] \in Request
    <3>1. {a \in S : ~InPool(a)} \subseteq Addrs BY ProvisioningAssumption
    <3> QED BY <3>1 DEF Idle, Request, Fields, Pcs, PoolPcs, DeletePcs
  <2>2. ServedOK'
    BY <1>18, <2>1, BeginType, AnswerAtOnceType DEF AddIps, Replies
  <2>3. StoresOK'
    BY <1>18, SameStores DEF AddIps, AnswerAtOnce
  <2> QED BY <2>2, <2>3
<1>19. ASSUME NEW r \in Requests, AddIPToDatabase(r) PROVE TypeOK'
  <2>1. req[r].pc = "insertIp"
    BY <1>19 DEF AddIPToDatabase
  <2>2. ASSUME NEW a
       PROVE  [req[r] EXCEPT !.todo = @ \ {a}] \in Request
    BY <2>1, RequestType DEF TypeOK, Request, Fields, Pcs, PoolPcs, DeletePcs
  <2>3. ServedOK'
    BY <1>19, <2>2, ProceedType, AnswerType, UnhandledType DEF AddIPToDatabase, Replies
  <2>4. StoresOK'
    BY <1>19, <2>1, RequestType DEF AddIPToDatabase, StoresOK, db, world, DeletePcs, FreshKeys
  <2> QED BY <2>3, <2>4
<1>20. ASSUME NEW r \in Requests, NEW a \in Addrs, RemoveIp(r, a) PROVE TypeOK'
  <2>1. [Idle EXCEPT !.pc = "deleteIp", !.addr = a] \in Request
    BY DEF Idle, Request, Fields, Pcs, PoolPcs, DeletePcs
  <2>2. ServedOK'
    BY <1>20, <2>1, BeginType, AnswerAtOnceType DEF RemoveIp, Replies
  <2>3. StoresOK'
    BY <1>20, SameStores DEF RemoveIp, AnswerAtOnce
  <2> QED BY <2>2, <2>3
<1>21. ASSUME NEW r \in Requests, RemoveIPFromDatabase(r) PROVE TypeOK'
  <2>1. req[r].pc = "deleteIp"
    BY <1>21 DEF RemoveIPFromDatabase
  <2>2. ServedOK'
    BY <1>21, AnswerType, UnhandledType DEF RemoveIPFromDatabase, Replies
  <2>3. StoresOK'
    BY <1>21, <2>1, RequestType DEF RemoveIPFromDatabase, StoresOK, db, world, DeletePcs
  <2> QED BY <2>2, <2>3
<1>27. ASSUME NEW r \in Requests, ReadConfig(r) PROVE TypeOK'
  <2>1. req[r].pc = "readConfig" /\ req[r].vm \in VmIds
    BY <1>27, RequestType DEF ReadConfig
  <2>a. req[r] \in Fields /\ "checkIP" \in Pcs /\ pve[req[r].vm] \in Addrs \cup {Outside, None}
    BY <2>1, RequestType DEF TypeOK, Pcs, DeletePcs
  <2>b. [req[r] EXCEPT !.pc = "checkIP", !.addr = pve[req[r].vm]] \in Fields
    BY <2>a DEF Fields
  <2>2. [req[r] EXCEPT !.pc = "checkIP", !.addr = pve[req[r].vm]] \in Request
    BY <2>1, <2>a, <2>b DEF Request, Fields
  <2>3. ServedOK'
    BY <1>27, <2>2, ProceedType, UnhandledType DEF ReadConfig
  <2>4. StoresOK'
    BY <1>27, SameStores DEF ReadConfig
  <2> QED BY <2>3, <2>4
<1>22. ASSUME NEW r \in Requests, CallThrows(r) PROVE TypeOK'
  <2>1. ServedOK'
    BY <1>22, AnswerType, UnhandledType DEF CallThrows, Replies
  <2>2. StoresOK'
    BY <1>22, SameStores DEF CallThrows
  <2> QED BY <2>1, <2>2
<1>23. ASSUME NEW r \in Requests, AnswerLost(r) PROVE TypeOK'
  <2>1. ServedOK'
    BY <1>23, AnswerType DEF AnswerLost, Replies
  <2>2. StoresOK'
    BY <1>23, RequestType DEF AnswerLost, StoresOK, db, world, DeletePcs, Launch, Destroy
  <2> QED BY <2>1, <2>2
<1>24. CASE Crash
  BY <1>24, DieType, SameStores DEF Crash, ServedOK
<1>25. CASE Operator
  <2>1. ServedOK'
    BY <1>25 DEF Operator, OperatorCreate, OperatorDestroy, OperatorLinks, ServedOK
  <2>2. StoresOK'
    BY <1>25 DEF Operator, OperatorCreate, OperatorDestroy, OperatorLinks, StoresOK, db, world
  <2> QED BY <2>1, <2>2
<1>26. CASE UNCHANGED vars
  BY <1>26 DEF vars, TypeOK
<1> QED
  BY <1>1, <1>2, <1>3, <1>4, <1>5, <1>6, <1>7, <1>8, <1>9, <1>10, <1>11, <1>12, <1>13,
     <1>14, <1>15, <1>16, <1>17, <1>18, <1>19, <1>20, <1>21, <1>22, <1>23, <1>24, <1>25,
     <1>26, <1>27
  DEF Next, Arrival, Step

(* The variables keep their types, whatever the requests and the            *)
(* environment do.                                                          *)
THEOREM TypeCorrect == Spec => []TypeOK
<1>1. Init => TypeOK
  BY ProvisioningAssumption, IdleType DEF Init, TypeOK, Replies
<1> QED BY <1>1, TypeStep, PTL DEF Spec

-----------------------------------------------------------------------------
(* What holds whatever the clients and the environment do. *)

(* Only two calls write the column ipv4 of cts. *)
LEMMA RowFrame ==
  ASSUME [Next]_vars
  PROVE  \/ UNCHANGED row
         \/ \E r \in Requests : AddContainerToDatabase(r) \/ DeleteContainerFromDB(r)
<1> SUFFICES ASSUME Next PROVE UNCHANGED row \/ \E r \in Requests : AddContainerToDatabase(r) \/ DeleteContainerFromDB(r)
  BY DEF vars
<1> USE DEF db
<1>1. ASSUME NEW r \in Requests, Arrival(r) PROVE UNCHANGED row
  BY <1>1 DEF Arrival, CreateByNode, CreateByLocation, DeleteContainer, InitHostname,
              AddIps, RemoveIp, AnswerAtOnce
<1>2. ASSUME NEW r \in Requests, GetFreeIP(r) \/ NextId(r) \/ PostLxc(r) \/ MarkUsed(r)
      PROVE  UNCHANGED row
  BY <1>2 DEF GetFreeIP, NextId, PostLxc, MarkUsed
<1>3. ASSUME NEW r \in Requests,
             ReadConfig(r) \/ CheckIP(r) \/ DeleteLxc(r) \/ GetIP(r) \/ MarkUnused(r)
      PROVE  UNCHANGED row
  BY <1>3 DEF ReadConfig, CheckIP, DeleteLxc, GetIP, MarkUnused
<1>4. ASSUME NEW r \in Requests, GetContainerID(r) \/ ChangeCTHostname(r) \/ SetCTAsReady(r)
      PROVE  UNCHANGED row
  BY <1>4 DEF GetContainerID, ChangeCTHostname, SetCTAsReady
<1>5. ASSUME NEW r \in Requests, AddIPToDatabase(r) \/ RemoveIPFromDatabase(r)
      PROVE  UNCHANGED row
  BY <1>5 DEF AddIPToDatabase, RemoveIPFromDatabase
<1>6. ASSUME NEW r \in Requests, CallThrows(r) \/ AnswerLost(r) PROVE UNCHANGED row
  BY <1>6 DEF CallThrows, AnswerLost
<1>7. ASSUME Crash \/ Operator PROVE UNCHANGED row
  BY <1>7 DEF Crash, Operator, OperatorCreate, OperatorDestroy, OperatorLinks
<1> QED BY <1>1, <1>2, <1>3, <1>4, <1>5, <1>6, <1>7 DEF Next, Step

-----------------------------------------------------------------------------
(* How slots change, whatever the stores do. *)

(* The kinds of request, by name. *)
LEMMA PcsOfKinds ==
  /\ PcsOf("create") = CreatePcs /\ PcsOf("delete") = DeletePcs \cup {"readConfig"}
  /\ PcsOf("init") = InitPcs /\ PcsOf("pool") = PoolPcs
BY DEF PcsOf

(* The calls a request makes after another. *)
Follows(p, q) ==
  <<p, q>> \in {<<"getFreeIP", "nextid">>, <<"nextid", "postLxc">>, <<"postLxc", "insertRow">>,
               <<"insertRow", "markUsed">>, <<"readConfig", "checkIP">>,
               <<"checkIP", "deleteLxc">>, <<"deleteLxc", "getIP">>, <<"getIP", "markUnused">>, <<"markUnused", "deleteRow">>,
               <<"getContainerID", "setHostname">>, <<"setHostname", "setReady">>,
               <<"insertIp", "insertIp">>}

(* Every pair of calls in a row, by name. *)
LEMMA KindSteps ==
  /\ Follows("getFreeIP", "nextid") /\ Follows("nextid", "postLxc")
  /\ Follows("postLxc", "insertRow") /\ Follows("insertRow", "markUsed")
  /\ Follows("readConfig", "checkIP")
  /\ Follows("checkIP", "deleteLxc") /\ Follows("deleteLxc", "getIP")
  /\ Follows("getIP", "markUnused") /\ Follows("markUnused", "deleteRow")
  /\ Follows("getContainerID", "setHostname") /\ Follows("setHostname", "setReady")
  /\ Follows("insertIp", "insertIp")
BY DEF Follows

(* A request stays in the calls of its kind. *)
LEMMA FollowsKind ==
  ASSUME NEW p, NEW q, Follows(p, q)
  PROVE  p # "idle" /\ \A kind \in Kinds : q \in PcsOf(kind) => p \in PcsOf(kind)
BY PcsOfKinds DEF Follows, Kinds, CreatePcs, DeletePcs, InitPcs, PoolPcs

BeginStep(r)   == \E kind, q : kind \in Kinds /\ Begin(r, kind, q) /\ q.pc \in PcsOf(kind)
ProceedStep(r) == \E q : Proceed(r, q) /\ Follows(req[r].pc, q.pc)
AnswerStep(r)  == \E code : Answer(r, code)
RefuseStep(r)  == \E code : AnswerAtOnce(r, code)
Control(r) == BeginStep(r) \/ ProceedStep(r) \/ AnswerStep(r) \/ RefuseStep(r) \/ Die

(* An unhandled rejection ends the request or the process. *)
LEMMA UnhandledControl == ASSUME NEW r \in Requests, Unhandled(r) PROVE Control(r)
BY DEF Unhandled, Control, AnswerStep

(* Whatever a request does, its slot changes in one of these ways. *)
LEMMA ControlSteps ==
  ASSUME TypeOK, NEW r \in Requests,
         Arrival(r) \/ Step(r) \/ CallThrows(r) \/ AnswerLost(r)
  PROVE  Control(r)
<1> USE DEF Control
<1>0. req[r] \in Fields BY RequestType
<1>1. ASSUME NEW n \in Nodes, CreateByNode(r, n) PROVE Control(r)
  <2> DEFINE q == [Idle EXCEPT !.pc = "getFreeIP", !.node = n]
  <2>1. q.pc = "getFreeIP" /\ "getFreeIP" \in PcsOf("create") /\ "create" \in Kinds
    BY PcsOfKinds DEF Idle, Kinds, CreatePcs
  <2>2. Begin(r, "create", q)
    BY <1>1 DEF CreateByNode
  <2> HIDE DEF q
  <2> QED BY <2>1, <2>2 DEF BeginStep
<1>2. ASSUME NEW l \in Locations, CreateByLocation(r, l) PROVE Control(r)
  <2>1. ASSUME NEW n \in Nodes, Begin(r, "create", [Idle EXCEPT !.pc = "getFreeIP", !.node = n])
        PROVE  Control(r)
    <3> DEFINE q == [Idle EXCEPT !.pc = "getFreeIP", !.node = n]
    <3>1. q.pc = "getFreeIP" /\ "getFreeIP" \in PcsOf("create") /\ "create" \in Kinds
      BY PcsOfKinds DEF Idle, Kinds, CreatePcs
    <3> QED BY <2>1, <3>1 DEF BeginStep
  <2> QED BY <1>2, <2>1 DEF CreateByLocation, RefuseStep
<1>3. ASSUME NEW v \in VmIds, DeleteContainer(r, v) PROVE Control(r)
  <2> DEFINE q == [Idle EXCEPT !.pc = "readConfig", !.vm = v]
  <2>1. q.pc = "readConfig" /\ "readConfig" \in PcsOf("delete") /\ "delete" \in Kinds
    BY PcsOfKinds DEF Idle, Kinds, DeletePcs
  <2>2. Begin(r, "delete", q) \/ RefuseStep(r)
    BY <1>3 DEF DeleteContainer, RefuseStep
  <2> HIDE DEF q
  <2> QED BY <2>1, <2>2 DEF BeginStep
<1>4. ASSUME NEW v \in VmIds, InitHostname(r, v) PROVE Control(r)
  <2> DEFINE q == [Idle EXCEPT !.pc = "getContainerID", !.addr = pve[v]]
  <2>1. q.pc = "getContainerID" /\ "getContainerID" \in PcsOf("init") /\ "init" \in Kinds
    BY PcsOfKinds DEF Idle, Kinds, InitPcs
  <2>2. Begin(r, "init", q)
    BY <1>4 DEF InitHostname
  <2> HIDE DEF q
  <2> QED BY <2>1, <2>2 DEF BeginStep
<1>5. ASSUME NEW S \in AddrLists, AddIps(r, S) PROVE Control(r)
  <2> DEFINE q == [Idle EXCEPT !.pc = "insertIp", !.todo = {a \in S : ~InPool(a)}]
  <2>1. q.pc = "insertIp" /\ "insertIp" \in PcsOf("pool") /\ "pool" \in Kinds
    BY PcsOfKinds DEF Idle, Kinds, PoolPcs
  <2>2. Begin(r, "pool", q) \/ RefuseStep(r)
    BY <1>5 DEF AddIps, RefuseStep
  <2> HIDE DEF q
  <2> QED BY <2>1, <2>2 DEF BeginStep
<1>6. ASSUME NEW a \in Addrs, RemoveIp(r, a) PROVE Control(r)
  <2> DEFINE q == [Idle EXCEPT !.pc = "deleteIp", !.addr = a]
  <2>1. q.pc = "deleteIp" /\ "deleteIp" \in PcsOf("pool") /\ "pool" \in Kinds
    BY PcsOfKinds DEF Idle, Kinds, PoolPcs
  <2>2. Begin(r, "pool", q) \/ RefuseStep(r)
    BY <1>6 DEF RemoveIp, RefuseStep
  <2> HIDE DEF q
  <2> QED BY <2>1, <2>2 DEF BeginStep
<1>7. ASSUME GetFreeIP(r) PROVE Control(r)
  <2>1. req[r].pc = "getFreeIP"
    BY <1>7 DEF GetFreeIP
  <2>2. ASSUME NEW k \in FreeKeys(req[r].node)
        PROVE  [req[r] EXCEPT !.pc = "nextid", !.key = k, !.addr = ipv4[k]].pc = "nextid"
    BY <1>0 DEF Fields
  <2>3. (\E k \in FreeKeys(req[r].node) : Proceed(r, [req[r] EXCEPT !.pc = "nextid", !.key = k, !.addr = ipv4[k]])) \/ AnswerStep(r)
    BY <1>7 DEF GetFreeIP, AnswerStep
  <2> QED BY <2>1, <2>2, <2>3, KindSteps DEF ProceedStep
<1>8. ASSUME NextId(r) PROVE Control(r)
  <2>1. req[r].pc = "nextid"
    BY <1>8 DEF NextId
  <2>2. ASSUME NEW v \in VmIds
        PROVE  [req[r] EXCEPT !.pc = "postLxc", !.vm = v].pc = "postLxc"
    BY <1>0 DEF Fields
  <2>3. (\E v \in VmIds : Proceed(r, [req[r] EXCEPT !.pc = "postLxc", !.vm = v])) \/ AnswerStep(r)
    BY <1>8 DEF NextId, AnswerStep
  <2> QED BY <2>1, <2>2, <2>3, KindSteps DEF ProceedStep
<1>9. ASSUME PostLxc(r) PROVE Control(r)
  <2>1. req[r].pc = "postLxc"
    BY <1>9 DEF PostLxc
  <2>2. [req[r] EXCEPT !.pc = "insertRow"].pc = "insertRow"
    BY <1>0 DEF Fields
  <2>3. (Proceed(r, [req[r] EXCEPT !.pc = "insertRow"])) \/ AnswerStep(r)
    BY <1>9 DEF PostLxc, AnswerStep
  <2> QED BY <2>1, <2>2, <2>3, KindSteps DEF ProceedStep
<1>10. ASSUME AddContainerToDatabase(r) PROVE Control(r)
  <2>1. req[r].pc = "insertRow"
    BY <1>10 DEF AddContainerToDatabase
  <2>2. [req[r] EXCEPT !.pc = "markUsed"].pc = "markUsed"
    BY <1>0 DEF Fields
  <2>3. (Proceed(r, [req[r] EXCEPT !.pc = "markUsed"])) \/ AnswerStep(r)
    BY <1>10 DEF AddContainerToDatabase, AnswerStep
  <2> QED BY <2>1, <2>2, <2>3, KindSteps DEF ProceedStep
<1>11. ASSUME CheckIP(r) PROVE Control(r)
  <2>1. req[r].pc = "checkIP"
    BY <1>11 DEF CheckIP
  <2>2. [req[r] EXCEPT !.pc = "deleteLxc"].pc = "deleteLxc"
    BY <1>0 DEF Fields
  <2>3. (Proceed(r, [req[r] EXCEPT !.pc = "deleteLxc"])) \/ AnswerStep(r)
    BY <1>11 DEF CheckIP, AnswerStep
  <2> QED BY <2>1, <2>2, <2>3, KindSteps DEF ProceedStep
<1>12. ASSUME DeleteLxc(r) PROVE Control(r)
  <2>1. req[r].pc = "deleteLxc"
    BY <1>12 DEF DeleteLxc
  <2>2. /\ [req[r] EXCEPT !.pc = "getIP"].pc = "getIP"
        /\ [req[r] EXCEPT !.pc = "getIP", !.ok = TRUE].pc = "getIP"
    BY <1>0 DEF Fields
  <2>3. \/ Proceed(r, [req[r] EXCEPT !.pc = "getIP"])
        \/ Proceed(r, [req[r] EXCEPT !.pc = "getIP", !.ok = TRUE])
    BY <1>12 DEF DeleteLxc
  <2> QED BY <2>1, <2>2, <2>3, KindSteps DEF ProceedStep
<1>13. ASSUME GetIP(r) PROVE Control(r)
  <2>1. req[r].pc = "getIP"
    BY <1>13 DEF GetIP
  <2>2. ASSUME NEW k \in Keys
        PROVE  [req[r] EXCEPT !.pc = "markUnused", !.key = k].pc = "markUnused"
    BY <1>0 DEF Fields
  <2>3. (\E k \in Keys : Proceed(r, [req[r] EXCEPT !.pc = "markUnused", !.key = k])) \/ AnswerStep(r)
    BY <1>13 DEF GetIP, AnswerStep
  <2> QED BY <2>1, <2>2, <2>3, KindSteps DEF ProceedStep
<1>14. ASSUME MarkUnused(r) PROVE Control(r)
  <2>1. req[r].pc = "markUnused"
    BY <1>14 DEF MarkUnused
  <2>2. [req[r] EXCEPT !.pc = "deleteRow"].pc = "deleteRow"
    BY <1>0 DEF Fields
  <2>3. (Proceed(r, [req[r] EXCEPT !.pc = "deleteRow"])) \/ AnswerStep(r)
    BY <1>14 DEF MarkUnused, AnswerStep
  <2> QED BY <2>1, <2>2, <2>3, KindSteps DEF ProceedStep
<1>15. ASSUME GetContainerID(r) PROVE Control(r)
  <2>1. req[r].pc = "getContainerID"
    BY <1>15 DEF GetContainerID
  <2>2. ASSUME NEW v \in Holders(req[r].addr)
        PROVE  [req[r] EXCEPT !.pc = "setHostname", !.vm = v].pc = "setHostname"
    BY <1>0 DEF Fields
  <2>3. (\E v \in Holders(req[r].addr) : Proceed(r, [req[r] EXCEPT !.pc = "setHostname", !.vm = v])) \/ Unhandled(r)
    BY <1>15 DEF GetContainerID
  <2> QED BY <2>1, <2>2, <2>3, KindSteps, UnhandledControl DEF ProceedStep
<1>16. ASSUME ChangeCTHostname(r) PROVE Control(r)
  <2>1. req[r].pc = "setHostname"
    BY <1>16 DEF ChangeCTHostname
  <2>2. [req[r] EXCEPT !.pc = "setReady"].pc = "setReady"
    BY <1>0 DEF Fields
  <2>3. (Proceed(r, [req[r] EXCEPT !.pc = "setReady"]))
    BY <1>16 DEF ChangeCTHostname
  <2> QED BY <2>1, <2>2, <2>3, KindSteps DEF ProceedStep
<1>17. ASSUME AddIPToDatabase(r) PROVE Control(r)
  <2>1. req[r].pc = "insertIp"
    BY <1>17 DEF AddIPToDatabase
  <2>2. ASSUME NEW a \in req[r].todo
        PROVE  [req[r] EXCEPT !.todo = @ \ {a}].pc = "insertIp"
    BY <1>0, <2>1 DEF Fields
  <2>3. (\E a \in req[r].todo : Proceed(r, [req[r] EXCEPT !.todo = @ \ {a}])) \/ AnswerStep(r) \/ Unhandled(r)
    BY <1>17 DEF AddIPToDatabase, AnswerStep
  <2> QED BY <2>1, <2>2, <2>3, KindSteps, UnhandledControl DEF ProceedStep
<1>18. ASSUME MarkUsed(r) \/ DeleteContainerFromDB(r) \/ SetCTAsReady(r) \/ RemoveIPFromDatabase(r)
      PROVE  Control(r)
  BY <1>18, UnhandledControl
  DEF MarkUsed, DeleteContainerFromDB, SetCTAsReady, RemoveIPFromDatabase, AnswerStep
<1>19. ASSUME CallThrows(r) \/ AnswerLost(r) PROVE Control(r)
  BY <1>19, UnhandledControl DEF CallThrows, AnswerLost, AnswerStep
<1>20. ASSUME ReadConfig(r) PROVE Control(r)
  <2>1. req[r].pc = "readConfig"
    BY <1>20 DEF ReadConfig
  <2>2. [req[r] EXCEPT !.pc = "checkIP", !.addr = pve[req[r].vm]].pc = "checkIP"
    BY <1>0 DEF Fields
  <2>3. Proceed(r, [req[r] EXCEPT !.pc = "checkIP", !.addr = pve[req[r].vm]]) \/ Unhandled(r)
    BY <1>20 DEF ReadConfig
  <2> QED BY <2>1, <2>2, <2>3, KindSteps, UnhandledControl DEF ProceedStep
<1> QED
  BY <1>1, <1>2, <1>3, <1>4, <1>5, <1>6, <1>7, <1>8, <1>9, <1>10, <1>11, <1>12, <1>13,
     <1>14, <1>15, <1>16, <1>17, <1>18, <1>19, <1>20
  DEF Arrival, Step

(* What an answered or a proceeding request becomes. *)
LEMMA SlotAfter ==
  ASSUME TypeOK, NEW r \in Requests
  PROVE  /\ \A code : Answer(r, code) => req'[r] = Idle
         /\ \A q : Proceed(r, q) => req'[r] = q
         /\ \A pc : Goto(r, pc) => req'[r] = [req[r] EXCEPT !.pc = pc]
         /\ \A kind, q : Begin(r, kind, q) => req'[r] = q
BY DEF TypeOK, Answer, Proceed, Begin

(* The other slots stay as they are, or the process ends and empties them.  *)
LEMMA OthersAfter ==
  ASSUME TypeOK, NEW r \in Requests, Control(r)
  PROVE  \A s \in Requests \ {r} : req'[s] = req[s] \/ req'[s] = Idle
BY DEF Control, BeginStep, ProceedStep, AnswerStep, RefuseStep, Begin, Proceed, Answer,
       AnswerAtOnce, Die, TypeOK

-----------------------------------------------------------------------------
(* Containers the service does not manage. *)

(* Only a creation and a deletion of the service change a container. *)
LEMMA PveFrame ==
  ASSUME [Next]_vars, "operator" \notin Env
  PROVE  \/ UNCHANGED pve
         \/ \E r \in Requests : \/ At(r, "postLxc") /\ Launch(r)
                                \/ At(r, "deleteLxc") /\ Destroy(r)
<1> USE DEF world
<1>1. ASSUME NEW r \in Requests, Arrival(r) PROVE UNCHANGED pve
  BY <1>1 DEF Arrival, CreateByNode, CreateByLocation, DeleteContainer, InitHostname,
              AddIps, RemoveIp, AnswerAtOnce
<1>2. ASSUME NEW r \in Requests, Step(r), ~PostLxc(r), ~DeleteLxc(r) PROVE UNCHANGED pve
  BY <1>2 DEF Step, GetFreeIP, NextId, AddContainerToDatabase, MarkUsed, ReadConfig, CheckIP, GetIP,
              MarkUnused, DeleteContainerFromDB, GetContainerID, ChangeCTHostname,
              SetCTAsReady, AddIPToDatabase, RemoveIPFromDatabase
<1>3. ASSUME NEW r \in Requests, PostLxc(r) \/ DeleteLxc(r) \/ AnswerLost(r)
      PROVE  UNCHANGED pve \/ (At(r, "postLxc") /\ Launch(r)) \/ (At(r, "deleteLxc") /\ Destroy(r))
  BY <1>3 DEF PostLxc, DeleteLxc, AnswerLost
<1>4. ASSUME NEW r \in Requests, CallThrows(r) PROVE UNCHANGED pve
  BY <1>4 DEF CallThrows
<1>5. ASSUME Crash \/ Operator PROVE UNCHANGED pve
  BY <1>5 DEF Crash, Operator, OperatorCreate, OperatorDestroy, OperatorLinks
<1> QED BY <1>1, <1>2, <1>3, <1>4, <1>5 DEF Next, vars

(* A deletion that passed the check is not of a container of others, and one *)
(* that has yet to be checked carries the address that will refuse it.       *)
GuardedDeletions ==
  \A r \in Requests :
    /\ At(r, "checkIP") /\ pve[req[r].vm] = Outside => req[r].addr = Outside
    /\ At(r, "deleteLxc") => pve[req[r].vm] # Outside

(* No container comes into the hands of others, or leaves them. *)
LEMMA OutsideStays ==
  ASSUME TypeOK, GuardedDeletions, [Next]_vars, "operator" \notin Env
  PROVE  \A v \in VmIds : pve'[v] = Outside <=> pve[v] = Outside
<1>1. ASSUME NEW r \in Requests, At(r, "postLxc"), Launch(r), NEW v \in VmIds
      PROVE  pve'[v] = Outside <=> pve[v] = Outside
  <2>1. req[r].addr \in Addrs /\ req[r].vm \in VmIds
    BY <1>1, RequestType
  <2>2. pve[req[r].vm] = None /\ pve' = [pve EXCEPT ![req[r].vm] = req[r].addr]
    BY <1>1 DEF Launch
  <2> QED BY <2>1, <2>2, ProvisioningAssumption DEF TypeOK
<1>2. ASSUME NEW r \in Requests, At(r, "deleteLxc"), Destroy(r), NEW v \in VmIds
      PROVE  pve'[v] = Outside <=> pve[v] = Outside
  <2>1. pve[req[r].vm] # Outside /\ pve' = [pve EXCEPT ![req[r].vm] = None]
    BY <1>2 DEF Destroy, GuardedDeletions
  <2> QED BY <2>1, ProvisioningAssumption DEF TypeOK
<1> QED BY <1>1, <1>2, PveFrame

(* The first calls of the requests. *)
FirstPcs == {"getFreeIP", "readConfig", "getContainerID", "insertIp", "deleteIp"}

(* A request that arrives is at the first call of its kind, or answered. *)
LEMMA ArrivesAt ==
  ASSUME TypeOK, NEW s \in Requests, Arrival(s)
  PROVE  UNCHANGED req \/ req'[s].pc \in FirstPcs
<1>1. /\ \A n : [Idle EXCEPT !.pc = "getFreeIP", !.node = n].pc \in FirstPcs
      /\ \A v : [Idle EXCEPT !.pc = "readConfig", !.vm = v].pc \in FirstPcs
      /\ \A b : /\ [Idle EXCEPT !.pc = "getContainerID", !.addr = b].pc \in FirstPcs
                /\ [Idle EXCEPT !.pc = "deleteIp", !.addr = b].pc \in FirstPcs
                /\ [Idle EXCEPT !.pc = "insertIp", !.todo = b].pc \in FirstPcs
  BY DEF Idle, FirstPcs
<1>2. ASSUME NEW kind, NEW q, Begin(s, kind, q), q.pc \in FirstPcs PROVE req'[s].pc \in FirstPcs
  BY <1>2, SlotAfter
<1>3. ASSUME NEW n \in Nodes, CreateByNode(s, n) PROVE req'[s].pc \in FirstPcs
  BY <1>1, <1>2, <1>3 DEF CreateByNode
<1>4. ASSUME NEW l \in Locations, CreateByLocation(s, l)
      PROVE  UNCHANGED req \/ req'[s].pc \in FirstPcs
  BY <1>1, <1>2, <1>4 DEF CreateByLocation, AnswerAtOnce
<1>5. ASSUME NEW v \in VmIds, DeleteContainer(s, v) \/ InitHostname(s, v)
      PROVE  UNCHANGED req \/ req'[s].pc \in FirstPcs
  BY <1>1, <1>2, <1>5 DEF DeleteContainer, InitHostname, AnswerAtOnce
<1>6. ASSUME NEW S \in AddrLists, AddIps(s, S) PROVE UNCHANGED req \/ req'[s].pc \in FirstPcs
  BY <1>1, <1>2, <1>6 DEF AddIps, AnswerAtOnce
<1>7. ASSUME NEW b \in Addrs, RemoveIp(s, b) PROVE UNCHANGED req \/ req'[s].pc \in FirstPcs
  BY <1>1, <1>2, <1>7 DEF RemoveIp, AnswerAtOnce
<1> QED BY <1>3, <1>4, <1>5, <1>6, <1>7 DEF Arrival

(* How a slot comes to a later call: its request goes on to it. *)
LEMMA LaterCalls ==
  ASSUME TypeOK, [Next]_vars, NEW s \in Requests,
         req'[s] # req[s], req'[s].pc # "idle", req'[s].pc \notin FirstPcs
  PROVE  /\ Step(s) \/ CallThrows(s) \/ AnswerLost(s)
         /\ Follows(req[s].pc, req'[s].pc) /\ ~AnswerStep(s) /\ ~Die
<1>1. PICK r \in Requests : Arrival(r) \/ Step(r) \/ CallThrows(r) \/ AnswerLost(r)
  <2>1. ~Operator /\ ~UNCHANGED vars
    BY DEF Operator, OperatorCreate, OperatorDestroy, OperatorLinks, vars
  <2>2. ~Crash
    BY DEF Crash, Die, Idle
  <2> QED BY <2>1, <2>2 DEF Next
<1>2. s = r
  BY <1>1, ControlSteps, OthersAfter DEF Idle
<1>3. ~Arrival(s)
  BY ArrivesAt
<1>4. ~RefuseStep(s) /\ ~AnswerStep(s) /\ ~Die
  BY SlotAfter DEF RefuseStep, AnswerAtOnce, AnswerStep, Die, Idle
<1>5. req[s].pc # "idle"
  BY <1>1, <1>2, <1>3 DEF Step, GetFreeIP, NextId, PostLxc, AddContainerToDatabase, MarkUsed,
     ReadConfig, CheckIP, DeleteLxc, GetIP, MarkUnused, DeleteContainerFromDB, GetContainerID,
     ChangeCTHostname, SetCTAsReady, AddIPToDatabase, RemoveIPFromDatabase, CallThrows,
     AnswerLost
<1>6. ProceedStep(s)
  BY <1>1, <1>2, <1>4, <1>5, ControlSteps DEF Control, BeginStep, Begin
<1> QED BY <1>1, <1>2, <1>3, <1>4, <1>6, SlotAfter DEF ProceedStep

(* How a slot comes to check an address, or to delete a container. *)
LEMMA DeletionSteps ==
  ASSUME TypeOK, [Next]_vars, NEW s \in Requests,
         req'[s].pc \in {"checkIP", "deleteLxc"}, req'[s] # req[s]
  PROVE  ReadConfig(s) \/ CheckIP(s)
<1>1. /\ Step(s) \/ CallThrows(s) \/ AnswerLost(s)
      /\ Follows(req[s].pc, req'[s].pc) /\ ~AnswerStep(s) /\ ~Die
  BY LaterCalls DEF FirstPcs
<1>2. req[s].pc \in {"readConfig", "checkIP"}
  BY <1>1 DEF Follows
<1> QED BY <1>1, <1>2 DEF Step, GetFreeIP, NextId, PostLxc, AddContainerToDatabase,
       MarkUsed, DeleteLxc, GetIP, MarkUnused, DeleteContainerFromDB, GetContainerID,
       ChangeCTHostname, SetCTAsReady, AddIPToDatabase, RemoveIPFromDatabase, CallThrows,
       AnswerLost, InTry, Unhandled, AnswerStep

(* Every step keeps deletions guarded: only CheckIP lets one through. *)
LEMMA GuardedStep ==
  ASSUME TypeOK, GuardedDeletions, [Next]_vars, "operator" \notin Env
  PROVE  GuardedDeletions'
<1> SUFFICES ASSUME NEW s \in Requests, req'[s].pc \in {"checkIP", "deleteLxc"}
             PROVE  /\ req'[s].pc = "checkIP" /\ pve'[req'[s].vm] = Outside =>
                         req'[s].addr = Outside
                    /\ req'[s].pc = "deleteLxc" => pve'[req'[s].vm] # Outside
  BY DEF GuardedDeletions
<1>1. CASE req'[s] = req[s]
  <2>1. req[s].vm \in VmIds
    BY <1>1, RequestType DEF DeletePcs
  <2> QED BY <1>1, <2>1, OutsideStays DEF GuardedDeletions
<1>2. ASSUME req'[s] # req[s], ReadConfig(s)
      PROVE  req'[s].pc = "checkIP" /\ req'[s].addr = pve'[req'[s].vm]
  <2>1. ASSUME Unhandled(s) PROVE FALSE
    BY <2>1, SlotAfter DEF Unhandled, Die, Idle
  <2>2. /\ Proceed(s, [req[s] EXCEPT !.pc = "checkIP", !.addr = pve[req[s].vm]])
        /\ UNCHANGED pve
    BY <1>2, <2>1 DEF ReadConfig, world
  <2>3. req'[s] = [req[s] EXCEPT !.pc = "checkIP", !.addr = pve[req[s].vm]]
    BY <2>2, SlotAfter
  <2> QED BY <2>2, <2>3, RequestType DEF Fields
<1>3. ASSUME CheckIP(s)
      PROVE  req'[s].pc = "deleteLxc" /\ pve'[req'[s].vm] # Outside
  <2>1. req[s].pc = "checkIP" /\ req[s].vm \in VmIds
    BY <1>3, RequestType DEF CheckIP, DeletePcs
  <2>2. ASSUME Answer(s, "not acceptable") PROVE FALSE
    <3>1. req'[s] = Idle BY <2>2, SlotAfter
    <3> QED BY <3>1 DEF Idle
  <2>3. Holders(req[s].addr) # {} /\ Goto(s, "deleteLxc")
    BY <1>3, <2>2 DEF CheckIP
  <2>4. req'[s] = [req[s] EXCEPT !.pc = "deleteLxc"]
    BY <2>3, SlotAfter
  <2>5. req'[s].pc = "deleteLxc" /\ req'[s].vm = req[s].vm
    BY <2>4, RequestType DEF Fields
  <2>6. req[s].addr # Outside
    BY <2>3, ProvisioningAssumption DEF Holders, TypeOK
  <2> QED BY <2>1, <2>5, <2>6, OutsideStays DEF GuardedDeletions
<1> QED BY <1>1, <1>2, <1>3, DeletionSteps

(* While people leave the cluster alone, no failure, no interleaving and no  *)
(* crash leads the service to destroy or replace a container of others.      *)
THEOREM OutsideSafe == ASSUME "operator" \notin Env PROVE Spec => OutsideUntouched
<1>1. Init => TypeOK /\ GuardedDeletions
  BY ProvisioningAssumption, IdleType DEF Init, TypeOK, Replies, GuardedDeletions, Idle
<1>2. ASSUME TypeOK, GuardedDeletions, [Next]_vars PROVE TypeOK' /\ GuardedDeletions'
  BY <1>2, TypeStep, GuardedStep
<1>3. ASSUME TypeOK, GuardedDeletions, [Next]_vars
      PROVE  [\A v \in VmIds : pve[v] = Outside /\ pve'[v] # Outside => Operator]_vars
  BY <1>3, OutsideStays
<1> QED BY <1>1, <1>2, <1>3, PTL DEF Spec, OutsideUntouched

-----------------------------------------------------------------------------
(* Mishaps: how far the damage goes that nothing repairs.                    *)

(* What is not spoiled after a step has met with nothing in it.              *)
LEMMA Unspoiled ==
  ASSUME Record, NEW a \in Addrs, a \notin spoiled'
  PROVE  /\ a \notin spoiled /\ ~Overlap(a)'
         /\ \A r \in Requests : Handles(r, a) => ~Mishap(r)
BY DEF Record

(* Calls and places by the kind of request.                                  *)
LEMMA Places ==
  /\ "idle" \notin Writers /\ "readConfig" \notin Writers
  /\ \A pc \in InitPcs : pc \notin Writers
  /\ \A pc \in CreatePcs \cup PoolPcs : pc \notin DeletePcs
  /\ Writers = CreatePcs \cup DeletePcs \cup PoolPcs
BY DEF Writers, CreatePcs, DeletePcs, PoolPcs, InitPcs

(* The tables and the cluster say of an address what they said before.       *)
SameAbout(a) ==
  /\ \A v \in VmIds : (row'[v] = a <=> row[v] = a) /\ (pve'[v] = a <=> pve[v] = a)
  /\ \A k \in Keys : /\ ipv4'[k] = a <=> ipv4[k] = a
                     /\ ipv4[k] = a => (k \in used' <=> k \in used)

LEMMA SameStoresAbout ==
  ASSUME UNCHANGED <<row, ipv4, used, pve>>, NEW a PROVE SameAbout(a)
BY DEF SameAbout

LEMMA SameHolders ==
  ASSUME NEW a, SameAbout(a)
  PROVE  Holders(a)' = Holders(a) /\ (InPool(a)' <=> InPool(a))
BY DEF SameAbout, Holders, InPool

(* A request about a goes on relying on what it relied on.                   *)
LEMMA SameRelies ==
  ASSUME TypeOK, NEW a, SameAbout(a), NEW s \in Requests, Handles(s, a), Relies(req[s]),
         req'[s] = req[s]
  PROVE  Relies(req[s])'
<1>1. req[s].addr = a /\ Holders(a)' = Holders(a)
  BY SameHolders DEF Handles
<1>2. /\ req[s].pc \in {"insertRow", "markUsed"} \cup DeletePcs => req[s].vm \in VmIds
      /\ req[s].pc \in {"nextid", "postLxc", "insertRow", "markUsed", "markUnused", "deleteRow"} =>
           req[s].key \in Keys
  BY RequestType
<1>3. req[s].pc \in {"checkIP", "deleteLxc", "getIP", "markUnused", "deleteRow"} =>
        req[s].pc \in DeletePcs
  BY DEF DeletePcs
<1> QED
  BY <1>1, <1>2, <1>3 DEF Relies, SameAbout

(* Requests that are not in the middle of a change to a may end, and others  *)
(* begin and go on, as long as nothing is said about a.                      *)
LEMMA Quietly ==
  ASSUME TypeOK, NEW a \in Addrs, Sound(a), SameAbout(a), ~Overlap(a)',
         \A s \in Requests :
           \/ req'[s] = req[s]
           \/ /\ Handles(s, a) => req[s].pc \notin HalfDone
              /\ Handles(s, a)' => req'[s].pc \in PoolPcs
              /\ req'[s].pc \in DeletePcs => row[req'[s].vm] # a /\ pve[req'[s].vm] # a
              /\ req'[s].pc \in DeletePcs => req'[s].vm \in VmIds
  PROVE  Sound(a)'
<1>1. Holders(a)' = Holders(a) /\ (InPool(a)' <=> InPool(a))
  BY SameHolders
<1>2. \A s \in Requests : Handles(s, a) /\ req[s].pc \in HalfDone =>
        req'[s] = req[s] /\ Handles(s, a)'
  BY DEF Handles
<1>3. RowsOf(a)'
  BY <1>2 DEF Sound, RowsOf, SameAbout, HalfDone
<1>4. MarkOf(a)'
  BY <1>1, <1>2 DEF Sound, MarkOf, SameAbout, HalfDone
<1>5. NoLateDeletion(a)'
  <2>1. SUFFICES ASSUME NEW s \in Requests, req'[s].pc \in DeletePcs, req'[s].addr # a
                 PROVE  row'[req'[s].vm] # a /\ pve'[req'[s].vm] # a
    BY DEF NoLateDeletion
  <2>2. req'[s].vm \in VmIds /\ row[req'[s].vm] # a /\ pve[req'[s].vm] # a
    BY <2>1, RequestType DEF Sound, NoLateDeletion
  <2> QED
    BY <2>2 DEF SameAbout
<1>6. ASSUME NEW s \in Requests, Handles(s, a)' PROVE Relies(req[s])'
  <2>1. CASE req'[s] = req[s]
    BY <1>6, <2>1, SameRelies DEF Sound, Handles
  <2>2. CASE req'[s].pc \in PoolPcs
    BY <2>2 DEF Relies, PoolPcs, DeletePcs
  <2> QED
    BY <1>6, <2>1, <2>2
<1> QED
  BY <1>1, <1>3, <1>4, <1>5, <1>6 DEF Sound

(* One request goes on, and is about a.                                      *)
LEMMA MovesOn ==
  ASSUME TypeOK, NEW a \in Addrs, Sound(a), SameAbout(a), ~Overlap(a)',
         NEW r \in Requests, Handles(r, a)', Relies(req[r])',
         \A s \in Requests \ {r} : req'[s] = req[s],
         Handles(r, a) /\ req[r].pc \in HalfDone =>
           req[r].pc = "getIP" /\ req'[r].pc = "markUnused" /\ req'[r].vm = req[r].vm
  PROVE  Sound(a)'
<1>1. Holders(a)' = Holders(a) /\ (InPool(a)' <=> InPool(a))
  BY SameHolders
<1>2. \A s \in Requests \ {r} : ~Handles(s, a) /\ ~Handles(s, a)'
  BY DEF Overlap, Handles
<1>3. RowsOf(a)'
  BY <1>2 DEF Sound, RowsOf, SameAbout, HalfDone
<1>4. MarkOf(a)'
  BY <1>1, <1>2 DEF Sound, MarkOf, SameAbout, HalfDone
<1>5. NoLateDeletion(a)'
  <2>1. SUFFICES ASSUME NEW s \in Requests, req'[s].pc \in DeletePcs, req'[s].addr # a
                 PROVE  row'[req'[s].vm] # a /\ pve'[req'[s].vm] # a
    BY DEF NoLateDeletion
  <2>2. s # r
    BY <2>1 DEF Handles
  <2>3. req'[s].vm \in VmIds /\ row[req'[s].vm] # a /\ pve[req'[s].vm] # a
    BY <2>1, <2>2, RequestType DEF Sound, NoLateDeletion
  <2> QED
    BY <2>3 DEF SameAbout
<1> QED
  BY <1>1, <1>2, <1>3, <1>4, <1>5 DEF Sound

(* A step that is no mishap for a, from a state in which a is sound.         *)
Spared(a) == /\ TypeOK /\ KeysKept /\ UniqueIps /\ Sound(a) /\ ~Overlap(a)'
             /\ \A r \in Requests : Handles(r, a) => ~Mishap(r)

(* What ends with an error was not in the middle of a change to a.           *)
LEMMA FailsQuietly ==
  ASSUME NEW a \in Addrs, Spared(a), SameAbout(a), NEW r \in Requests, NEW code,
         Answer(r, code), code \notin {"created", "ok"}
  PROVE  Sound(a)'
<1>1. /\ req'[r].pc = "idle" /\ reply'[r] = code
      /\ \A s \in Requests \ {r} : req'[s] = req[s]
  BY DEF Answer, Spared, TypeOK, Idle
<1>2. Handles(r, a) => req[r].pc \notin HalfDone
  BY <1>1 DEF Spared, Mishap, StopsHalfway, Ended, Handles, HalfDone
<1>3. ~Handles(r, a)' /\ req'[r].pc \notin DeletePcs
  BY <1>1, Places DEF Handles
<1> QED
  BY <1>1, <1>2, <1>3, Quietly DEF Spared

LEMMA DiesQuietly ==
  ASSUME NEW a \in Addrs, Spared(a), SameAbout(a), Die PROVE Sound(a)'
<1>1. ASSUME NEW s \in Requests
      PROVE  /\ Handles(s, a) => req[s].pc \notin HalfDone
             /\ ~Handles(s, a)' /\ req'[s].pc \notin DeletePcs
  <2>1. /\ req'[s].pc = "idle"
        /\ req[s].pc # "idle" => reply'[s] = "dropped"
    BY DEF Die, Idle
  <2>2. Handles(s, a) => req[s].pc \notin HalfDone
    BY <2>1, Places DEF Spared, Mishap, StopsHalfway, Ended, Handles
  <2> QED
    BY <2>1, <2>2, Places DEF Handles
<1> QED
  BY <1>1, Quietly DEF Spared

LEMMA RejectsQuietly ==
  ASSUME NEW a \in Addrs, Spared(a), SameAbout(a), NEW r \in Requests, Unhandled(r)
  PROVE  Sound(a)'
BY FailsQuietly, DiesQuietly DEF Unhandled

(* No slot changes.                                                          *)
LEMMA NobodyMoves ==
  ASSUME NEW a \in Addrs, Spared(a), SameAbout(a), UNCHANGED req PROVE Sound(a)'
BY Quietly DEF Spared

(* A request that is not about a goes on, and is not about a after it.       *)
LEMMA OtherMoves ==
  ASSUME NEW a \in Addrs, Spared(a), SameAbout(a), NEW r \in Requests, ~Handles(r, a),
         \A s \in Requests \ {r} : req'[s] = req[s], ~Handles(r, a)',
         req'[r].pc \in DeletePcs =>
           req'[r].vm \in VmIds /\ row[req'[r].vm] # a /\ pve[req'[r].vm] # a
  PROVE  Sound(a)'
BY Quietly DEF Spared

(* The same for one that keeps its container and address.                    *)
LEMMA OtherGoesOn ==
  ASSUME NEW a \in Addrs, Spared(a), SameAbout(a), NEW r \in Requests, ~Handles(r, a),
         req[r].pc \in Writers, \A s \in Requests \ {r} : req'[s] = req[s],
         req'[r].addr = req[r].addr, req'[r].vm = req[r].vm,
         req'[r].pc \in DeletePcs => req[r].pc \in DeletePcs
  PROVE  Sound(a)'
<1>1. req[r].addr # a
  BY DEF Handles
<1>2. req[r].pc \in DeletePcs =>
        req[r].vm \in VmIds /\ row[req[r].vm] # a /\ pve[req[r].vm] # a
  BY <1>1, RequestType DEF Spared, Sound, NoLateDeletion
<1> QED
  BY <1>1, <1>2, OtherMoves DEF Handles

(* Slots after a call that went on, and after an answer.                     *)
LEMMA GoesOnAs ==
  ASSUME TypeOK, NEW r \in Requests, NEW pc, Goto(r, pc)
  PROVE  /\ req'[r].pc = pc /\ req'[r].key = req[r].key /\ req'[r].addr = req[r].addr
         /\ req'[r].vm = req[r].vm /\ req'[r].ok = req[r].ok
         /\ \A s \in Requests \ {r} : req'[s] = req[s]
<1>1. req'[r] = [req[r] EXCEPT !.pc = pc] BY SlotAfter
<1> QED BY <1>1, RequestType DEF Fields, Proceed, TypeOK

LEMMA BeginsAs ==
  ASSUME TypeOK, NEW r \in Requests, NEW kind, NEW q, Begin(r, kind, q)
  PROVE  /\ req'[r] = q /\ ~(req[r].pc \in Writers)
         /\ \A s \in Requests \ {r} : req'[s] = req[s]
BY Places DEF Begin, TypeOK

-----------------------------------------------------------------------------
(* The calls of a creation.                                                  *)

LEMMA GetFreeIPSound ==
  ASSUME NEW a \in Addrs, Spared(a), NEW r \in Requests, GetFreeIP(r) PROVE Sound(a)'
<1>1. TypeOK /\ SameAbout(a) /\ req[r].pc = "getFreeIP"
  BY SameStoresAbout DEF GetFreeIP, Spared, db, world
<1>2. ASSUME NEW k \in FreeKeys(req[r].node),
             Proceed(r, [req[r] EXCEPT !.pc = "nextid", !.key = k, !.addr = ipv4[k]])
      PROVE  Sound(a)'
  <2>1. /\ k \in Keys /\ k \notin used
        /\ req'[r].pc = "nextid" /\ req'[r].key = k /\ req'[r].addr = ipv4[k]
        /\ \A s \in Requests \ {r} : req'[s] = req[s]
    BY <1>1, <1>2, SlotAfter, RequestType DEF FreeKeys, Fields, Proceed, TypeOK
  <2>2. CASE ipv4[k] = a
    <3>1. Handles(r, a)' /\ ~(Handles(r, a) /\ req[r].pc \in HalfDone)
      BY <1>1, <2>1, <2>2 DEF Handles, Writers, CreatePcs, HalfDone
    <3>2. \A s \in Requests \ {r} : ~Handles(s, a)
      BY <2>1, <3>1 DEF Spared, Overlap, Handles
    <3>3. Holders(a) = {}
      BY <1>1, <2>1, <2>2, <3>2 DEF Spared, Sound, MarkOf
    <3>4. /\ Holders(a)' = {} /\ ipv4'[k] = a /\ k \notin used'
          /\ req'[r].pc = "nextid" /\ req'[r].key = k /\ req'[r].addr = a
      BY <1>1, <2>1, <2>2, <3>3, SameHolders DEF GetFreeIP, db
    <3>5. Relies(req[r])'
      BY <3>4 DEF Relies, DeletePcs
    <3> QED
      BY <1>1, <2>1, <3>1, <3>5, MovesOn DEF Spared
  <2>3. CASE ipv4[k] # a
    <3>1. ~Handles(r, a)' /\ req'[r].pc \notin DeletePcs
      BY <2>1, <2>3 DEF Handles, DeletePcs
    <3>2. Handles(r, a) => req[r].pc \notin HalfDone
      BY <1>1 DEF HalfDone
    <3> QED
      BY <1>1, <2>1, <3>1, <3>2, Quietly DEF Spared
  <2> QED
    BY <2>2, <2>3
<1> QED
  BY <1>1, <1>2, FailsQuietly DEF GetFreeIP

LEMMA NextIdSound ==
  ASSUME NEW a \in Addrs, Spared(a), NEW r \in Requests, NextId(r) PROVE Sound(a)'
<1>1. TypeOK /\ SameAbout(a) /\ req[r].pc = "nextid"
  BY SameStoresAbout DEF NextId, Spared, db, world
<1>2. ASSUME NEW v \in VmIds, Proceed(r, [req[r] EXCEPT !.pc = "postLxc", !.vm = v])
      PROVE  Sound(a)'
  <2>1. /\ req'[r].pc = "postLxc" /\ req'[r].key = req[r].key /\ req'[r].addr = req[r].addr
        /\ \A s \in Requests \ {r} : req'[s] = req[s]
    BY <1>1, <1>2, SlotAfter, RequestType DEF Fields, Proceed, TypeOK
  <2>2. CASE Handles(r, a)
    <3>1. Handles(r, a)' /\ req[r].pc \notin HalfDone
      BY <1>1, <2>1, <2>2 DEF Handles, Writers, CreatePcs, HalfDone
    <3>2. Relies(req[r]) /\ req[r].addr = a /\ req[r].key \in Keys
      BY <1>1, <2>2, RequestType DEF Spared, Sound, Handles
    <3>3. Holders(a)' = {} /\ ipv4'[req[r].key] = a /\ req[r].key \notin used'
      BY <1>1, <3>2, SameHolders DEF Relies, SameAbout
    <3>4. Relies(req[r])'
      BY <2>1, <3>2, <3>3 DEF Relies, DeletePcs
    <3> QED
      BY <1>1, <2>1, <3>1, <3>4, MovesOn DEF Spared
  <2>3. CASE ~Handles(r, a)
    <3>1. ~Handles(r, a)' /\ req'[r].pc \notin DeletePcs
      BY <1>1, <2>1, <2>3 DEF Handles, DeletePcs, Writers, CreatePcs
    <3> QED
      BY <1>1, <2>1, <2>3, <3>1, OtherMoves
  <2> QED
    BY <2>2, <2>3
<1> QED
  BY <1>1, <1>2, FailsQuietly DEF NextId

(* Proxmox creates and destroys at other addresses.                          *)
LEMMA LaunchElsewhere ==
  ASSUME TypeOK, NEW a \in Addrs, NEW r \in Requests, At(r, "postLxc"), ~Handles(r, a),
         Launch(r), UNCHANGED db
  PROVE  SameAbout(a)
<1>1. req[r].addr # a /\ req[r].vm \in VmIds
  BY RequestType DEF Handles, Writers, CreatePcs
<1> QED
  BY <1>1, ProvisioningAssumption DEF Launch, SameAbout, db, TypeOK

LEMMA DestroyElsewhere ==
  ASSUME NEW a \in Addrs, Spared(a), NEW r \in Requests, At(r, "deleteLxc"), ~Handles(r, a),
         Destroy(r), UNCHANGED db
  PROVE  SameAbout(a)
<1>1. TypeOK /\ req[r].pc \in DeletePcs /\ req[r].addr # a
  BY DEF Spared, Handles, Writers, DeletePcs
<1>2. req[r].vm \in VmIds /\ pve[req[r].vm] # a
  BY <1>1, RequestType DEF Spared, Sound, NoLateDeletion
<1> QED
  BY <1>1, <1>2, ProvisioningAssumption DEF Destroy, SameAbout, db, TypeOK

(* A request about a is alone with it, and with its container.               *)
LEMMA Alone ==
  ASSUME NEW a \in Addrs, Spared(a), NEW r \in Requests
  PROVE  /\ Handles(r, a) => \A s \in Requests \ {r} :
              /\ ~Handles(s, a)
              /\ req[s].pc \in DeletePcs => req[s].vm # req[r].vm
         /\ Handles(r, a)' => \A s \in Requests \ {r} :
              /\ ~Handles(s, a)'
              /\ req'[s].pc \in DeletePcs => req'[s].vm # req'[r].vm
BY DEF Spared, Sound, Overlap

LEMMA PostLxcSound ==
  ASSUME NEW a \in Addrs, Spared(a), NEW r \in Requests, PostLxc(r) PROVE Sound(a)'
<1>1. TypeOK /\ req[r].pc = "postLxc" /\ UNCHANGED db
  BY DEF PostLxc, Spared
<1>2. ASSUME Launch(r), Goto(r, "insertRow") PROVE Sound(a)'
  <2>1. /\ req'[r].pc = "insertRow" /\ req'[r].key = req[r].key /\ req'[r].addr = req[r].addr
        /\ req'[r].vm = req[r].vm /\ \A s \in Requests \ {r} : req'[s] = req[s]
    BY <1>1, <1>2, GoesOnAs
  <2>2. CASE ~Handles(r, a)
    <3>1. SameAbout(a)
      BY <1>1, <1>2, <2>2, LaunchElsewhere
    <3> QED
      BY <1>1, <2>1, <2>2, <3>1, OtherGoesOn DEF Writers, CreatePcs, DeletePcs
  <2>3. CASE Handles(r, a)
    <3>1. /\ req[r].addr = a /\ Relies(req[r]) /\ req[r].vm \in VmIds /\ req[r].key \in Keys
      BY <1>1, <2>3, RequestType DEF Spared, Sound, Handles
    <3>2. Holders(a) = {} /\ ipv4[req[r].key] = a /\ req[r].key \notin used
      BY <1>1, <3>1 DEF Relies
    <3>3. Handles(r, a)'
      BY <2>1, <3>1 DEF Handles, Writers, CreatePcs
    <3>4. \A s \in Requests \ {r} : ~Handles(s, a) /\ ~Handles(s, a)'
      BY <2>3, <3>3, Alone
    <3>5. \A v \in VmIds : row[v] # a /\ pve[v] # a
      BY <1>1, <3>2, <3>4 DEF Holders, Spared, Sound, RowsOf
    <3>6. /\ pve'[req[r].vm] = a
          /\ \A v \in VmIds \ {req[r].vm} : pve'[v] = pve[v]
          /\ UNCHANGED <<row, ipv4, used>>
      BY <1>1, <1>2, <3>1 DEF Launch, TypeOK, db
    <3>7. Holders(a)' = {}
      BY <3>2, <3>6 DEF Holders
    <3>8. RowsOf(a)'
      BY <2>1, <3>1, <3>3, <3>5, <3>6 DEF RowsOf
    <3>9. MarkOf(a)'
      BY <3>2, <3>6, <3>7 DEF MarkOf, Spared, Sound
    <3>10. NoLateDeletion(a)'
      <4>1. ASSUME NEW s \in Requests, req'[s].pc \in DeletePcs
            PROVE  row'[req'[s].vm] # a /\ pve'[req'[s].vm] # a
        <5>1. s # r
          BY <2>1, <4>1 DEF DeletePcs
        <5>2. req'[s].vm \in VmIds /\ req'[s].vm # req[r].vm
          BY <1>1, <2>1, <3>3, <4>1, <5>1, Alone, RequestType
        <5> QED
          BY <3>5, <3>6, <5>2
      <4> QED
        BY <4>1 DEF NoLateDeletion
    <3>11. Relies(req[r])'
      BY <2>1, <3>1, <3>2, <3>6, <3>7 DEF Relies, DeletePcs
    <3> QED
      BY <3>3, <3>4, <3>7, <3>8, <3>9, <3>10, <3>11 DEF Sound, Spared
  <2> QED
    BY <2>2, <2>3
<1>3. ASSUME Answer(r, "conflict"), UNCHANGED world PROVE Sound(a)'
  BY <1>1, <1>3, SameStoresAbout, FailsQuietly DEF db, world
<1> QED
  BY <1>2, <1>3 DEF PostLxc

LEMMA AddContainerSound ==
  ASSUME NEW a \in Addrs, Spared(a), NEW r \in Requests, AddContainerToDatabase(r)
  PROVE  Sound(a)'
<1>1. /\ TypeOK /\ req[r].pc = "insertRow" /\ UNCHANGED <<ipv4, used, pve>>
      /\ req[r].vm \in VmIds
  BY RequestType DEF AddContainerToDatabase, Spared, world
<1>2. ASSUME row[req[r].vm] = None, row' = [row EXCEPT ![req[r].vm] = req[r].addr],
             Goto(r, "markUsed")
      PROVE  Sound(a)'
  <2>1. /\ req'[r].pc = "markUsed" /\ req'[r].key = req[r].key /\ req'[r].addr = req[r].addr
        /\ req'[r].vm = req[r].vm /\ \A s \in Requests \ {r} : req'[s] = req[s]
    BY <1>1, <1>2, GoesOnAs
  <2>2. /\ row'[req[r].vm] = req[r].addr
        /\ \A v \in VmIds \ {req[r].vm} : row'[v] = row[v]
    BY <1>1, <1>2 DEF TypeOK
  <2>3. CASE ~Handles(r, a)
    <3>1. req[r].addr # a /\ req[r].pc \in Writers
      BY <1>1, <2>3 DEF Handles, Writers, CreatePcs
    <3>2. SameAbout(a)
      BY <1>1, <1>2, <2>2, <3>1, ProvisioningAssumption DEF SameAbout
    <3> QED
      BY <1>1, <2>1, <2>3, <3>1, <3>2, OtherGoesOn DEF DeletePcs
  <2>4. CASE Handles(r, a)
    <3>1. /\ req[r].addr = a /\ Relies(req[r]) /\ req[r].key \in Keys
      BY <1>1, <2>4, RequestType DEF Spared, Sound, Handles
    <3>2. /\ Holders(a) = {} /\ ipv4[req[r].key] = a /\ req[r].key \notin used
          /\ pve[req[r].vm] = a
      BY <1>1, <3>1 DEF Relies
    <3>3. Handles(r, a)'
      BY <2>1, <3>1 DEF Handles, Writers, CreatePcs
    <3>4. \A s \in Requests \ {r} : ~Handles(s, a) /\ ~Handles(s, a)'
      BY <2>4, <3>3, Alone
    <3>5. \A v \in VmIds \ {req[r].vm} : row[v] # a /\ pve[v] # a
      BY <1>1, <3>2, <3>4 DEF Holders, Spared, Sound, RowsOf
    <3>6. Holders(a)' = {req[r].vm} /\ InPool(a)'
      BY <1>1, <2>2, <3>1, <3>2, <3>5 DEF Holders, InPool
    <3>7. RowsOf(a)'
      BY <1>1, <2>2, <3>1, <3>2, <3>5 DEF RowsOf
    <3>8. MarkOf(a)'
      BY <2>1, <3>3, <3>6, <1>1 DEF MarkOf
    <3>9. NoLateDeletion(a)'
      <4>1. ASSUME NEW s \in Requests, req'[s].pc \in DeletePcs
            PROVE  row'[req'[s].vm] # a /\ pve'[req'[s].vm] # a
        <5>1. s # r
          BY <2>1, <4>1 DEF DeletePcs
        <5>2. req'[s].vm \in VmIds /\ req'[s].vm # req[r].vm
          BY <1>1, <2>1, <3>3, <4>1, <5>1, Alone, RequestType
        <5> QED
          BY <1>1, <2>2, <3>5, <5>2
      <4> QED
        BY <4>1 DEF NoLateDeletion
    <3>10. Relies(req[r])'
      BY <1>1, <2>1, <2>2, <3>1, <3>2 DEF Relies, DeletePcs
    <3> QED
      BY <3>3, <3>4, <3>6, <3>7, <3>8, <3>9, <3>10 DEF Sound, Spared
  <2> QED
    BY <2>3, <2>4
<1>3. ASSUME Answer(r, "conflict"), UNCHANGED row PROVE Sound(a)'
  BY <1>1, <1>3, SameStoresAbout, FailsQuietly
<1> QED
  BY <1>2, <1>3 DEF AddContainerToDatabase

(* The mark is set or reset at other addresses.                              *)
LEMMA MarkElsewhere ==
  ASSUME NEW a \in Addrs, Spared(a), NEW r \in Requests, ~Handles(r, a),
         req[r].pc \in {"markUsed", "markUnused"},
         used' = used \cup {req[r].key} \/ used' = used \ {req[r].key},
         UNCHANGED <<row, ipv4, pve>>
  PROVE  SameAbout(a)
<1>1. req[r].key \in Keys /\ req[r].key # None /\ req[r].addr # a
  BY RequestType, ProvisioningAssumption DEF Spared, Handles, Writers, CreatePcs, DeletePcs
<1>2. ipv4[req[r].key] # a
  BY <1>1, ProvisioningAssumption DEF Spared, KeysKept
<1> QED
  BY <1>1, <1>2 DEF SameAbout

LEMMA MarkUsedSound ==
  ASSUME NEW a \in Addrs, Spared(a), NEW r \in Requests, MarkUsed(r) PROVE Sound(a)'
<1>1. TypeOK /\ req[r].pc = "markUsed" /\ UNCHANGED <<row, ipv4, pve>>
  BY DEF MarkUsed, Spared, world
<1>2. ASSUME used' = used \cup {req[r].key}, Answer(r, "created") PROVE Sound(a)'
  <2>1. req'[r].pc = "idle" /\ \A s \in Requests \ {r} : req'[s] = req[s]
    BY <1>1, <1>2 DEF Answer, Idle, TypeOK
  <2>2. ~Handles(r, a)' /\ req'[r].pc \notin DeletePcs
    BY <2>1, Places DEF Handles
  <2>3. CASE ~Handles(r, a)
    BY <1>1, <1>2, <2>1, <2>2, <2>3, MarkElsewhere, OtherMoves
  <2>4. CASE Handles(r, a)
    <3>1. /\ req[r].addr = a /\ Relies(req[r]) /\ req[r].key \in Keys /\ req[r].vm \in VmIds
      BY <1>1, <2>4, RequestType DEF Spared, Sound, Handles
    <3>2. ipv4[req[r].key] = a /\ pve[req[r].vm] = a /\ row[req[r].vm] = a
      BY <1>1, <3>1 DEF Relies
    <3>3. \A s \in Requests : ~Handles(s, a)'
      BY <2>1, <2>2, <2>4, Alone DEF Handles
    <3>4. \A s \in Requests \ {r} : ~Handles(s, a)
      BY <2>4, Alone
    <3>5. Holders(a)' = Holders(a) /\ Holders(a) # {} /\ InPool(a)'
      BY <1>1, <3>1, <3>2 DEF Holders, InPool
    <3>6. RowsOf(a)'
      BY <1>1, <3>3, <3>4 DEF RowsOf, Spared, Sound
    <3>7. \A k \in Keys : ipv4[k] = a => k = req[r].key
      BY <3>1, <3>2, ProvisioningAssumption DEF Spared, UniqueIps
    <3>8. MarkOf(a)'
      BY <1>1, <1>2, <3>5, <3>7 DEF MarkOf
    <3>9. NoLateDeletion(a)'
      BY <1>1, <2>1, <2>2 DEF NoLateDeletion, Spared, Sound
    <3> QED
      BY <3>3, <3>5, <3>6, <3>8, <3>9 DEF Sound, Spared
  <2> QED
    BY <2>3, <2>4
<1>3. ASSUME UNCHANGED used, Unhandled(r) PROVE Sound(a)'
  BY <1>1, <1>3, SameStoresAbout, RejectsQuietly
<1> QED
  BY <1>2, <1>3 DEF MarkUsed

-----------------------------------------------------------------------------
(* The calls of a deletion.                                                  *)

LEMMA CheckIPSound ==
  ASSUME NEW a \in Addrs, Spared(a), NEW r \in Requests, CheckIP(r) PROVE Sound(a)'
<1>1. TypeOK /\ SameAbout(a) /\ req[r].pc = "checkIP"
  BY SameStoresAbout DEF CheckIP, Spared, db, world
<1>2. ASSUME Goto(r, "deleteLxc") PROVE Sound(a)'
  <2>1. /\ req'[r].pc = "deleteLxc" /\ req'[r].addr = req[r].addr
        /\ req'[r].vm = req[r].vm /\ \A s \in Requests \ {r} : req'[s] = req[s]
    BY <1>1, <1>2, GoesOnAs
  <2>2. CASE ~Handles(r, a)
    BY <1>1, <2>1, <2>2, OtherGoesOn DEF Writers, DeletePcs
  <2>3. CASE Handles(r, a)
    <3>1. req[r].addr = a /\ Relies(req[r]) /\ req[r].vm \in VmIds
      BY <1>1, <2>3, RequestType DEF Spared, Sound, Handles, DeletePcs
    <3>2. pve'[req[r].vm] = a /\ row'[req[r].vm] = a
      BY <1>1, <3>1 DEF Relies, SameAbout, DeletePcs
    <3>3. Handles(r, a)' /\ req[r].pc \notin HalfDone
      BY <1>1, <2>1, <3>1 DEF Handles, Writers, DeletePcs, HalfDone
    <3>4. Relies(req[r])'
      BY <2>1, <3>1, <3>2 DEF Relies
    <3> QED
      BY <1>1, <2>1, <3>3, <3>4, MovesOn DEF Spared
  <2> QED
    BY <2>2, <2>3
<1> QED
  BY <1>1, <1>2, FailsQuietly DEF CheckIP

LEMMA DeleteLxcSound ==
  ASSUME NEW a \in Addrs, Spared(a), NEW r \in Requests, DeleteLxc(r) PROVE Sound(a)'
<1>1. TypeOK /\ req[r].pc = "deleteLxc" /\ UNCHANGED db /\ req[r].vm \in VmIds
  BY RequestType DEF DeleteLxc, Spared, DeletePcs
<1>2. ASSUME Destroy(r), Proceed(r, [req[r] EXCEPT !.pc = "getIP", !.ok = TRUE])
      PROVE  Sound(a)'
  <2>1. /\ req'[r].pc = "getIP" /\ req'[r].addr = req[r].addr /\ req'[r].ok
        /\ req'[r].vm = req[r].vm /\ \A s \in Requests \ {r} : req'[s] = req[s]
    BY <1>1, <1>2, SlotAfter, RequestType DEF Fields, Proceed, TypeOK
  <2>2. CASE ~Handles(r, a)
    <3>1. SameAbout(a)
      BY <1>1, <1>2, <2>2, DestroyElsewhere
    <3> QED
      BY <1>1, <2>1, <2>2, <3>1, OtherGoesOn DEF Writers, DeletePcs
  <2>3. CASE Handles(r, a)
    <3>1. req[r].addr = a /\ Relies(req[r])
      BY <2>3 DEF Spared, Sound, Handles
    <3>2. row[req[r].vm] = a
      BY <1>1, <3>1 DEF Relies, DeletePcs
    <3>3. Handles(r, a)'
      BY <2>1, <3>1 DEF Handles, Writers, DeletePcs
    <3>4. \A s \in Requests \ {r} : ~Handles(s, a) /\ ~Handles(s, a)'
      BY <2>3, <3>3, Alone
    <3>5. /\ pve'[req[r].vm] # a
          /\ \A v \in VmIds \ {req[r].vm} : pve'[v] = pve[v]
          /\ UNCHANGED <<row, ipv4, used>>
      BY <1>1, <1>2, ProvisioningAssumption DEF Destroy, TypeOK, db
    <3>6. Holders(a)' = Holders(a) /\ (InPool(a)' <=> InPool(a))
      BY <3>5 DEF Holders, InPool
    <3>7. RowsOf(a)'
      BY <1>1, <2>1, <3>3, <3>4, <3>5 DEF RowsOf, Spared, Sound
    <3>8. MarkOf(a)'
      BY <1>1, <3>4, <3>5, <3>6 DEF MarkOf, Spared, Sound
    <3>9. NoLateDeletion(a)'
      <4>1. ASSUME NEW s \in Requests, req'[s].pc \in DeletePcs, req'[s].addr # a
            PROVE  row'[req'[s].vm] # a /\ pve'[req'[s].vm] # a
        <5>1. s # r
          BY <2>1, <3>1, <4>1
        <5>2. /\ req'[s].vm \in VmIds
              /\ row[req'[s].vm] # a /\ pve[req'[s].vm] # a
          BY <1>1, <2>1, <4>1, <5>1, RequestType DEF NoLateDeletion, Spared, Sound
        <5> QED
          BY <3>5, <5>2
      <4> QED
        BY <4>1 DEF NoLateDeletion
    <3>10. Relies(req[r])'
      BY <2>1, <3>1, <3>2, <3>5 DEF Relies
    <3> QED
      BY <3>3, <3>4, <3>6, <3>7, <3>8, <3>9, <3>10 DEF Sound, Spared
  <2> QED
    BY <2>2, <2>3
<1>3. ASSUME Goto(r, "getIP"), UNCHANGED world PROVE Sound(a)'
  <2>1. /\ req'[r] = [req[r] EXCEPT !.pc = "getIP"]
        /\ req'[r].pc = "getIP" /\ req'[r].addr = req[r].addr
        /\ req'[r].vm = req[r].vm /\ \A s \in Requests \ {r} : req'[s] = req[s]
    BY <1>1, <1>3, GoesOnAs, SlotAfter
  <2>2. SameAbout(a)
    BY <1>1, <1>3, SameStoresAbout DEF db, world
  <2>3. CASE ~Handles(r, a)
    BY <1>1, <2>1, <2>2, <2>3, OtherGoesOn DEF Writers, DeletePcs
  <2>4. ~Handles(r, a)
    BY <1>1, <1>3, <2>1 DEF Spared, Mishap, GoesOnRefused, world
  <2> QED
    BY <2>3, <2>4
<1> QED
  BY <1>2, <1>3 DEF DeleteLxc

LEMMA GetIPSound ==
  ASSUME NEW a \in Addrs, Spared(a), NEW r \in Requests, GetIP(r) PROVE Sound(a)'
<1>1. /\ TypeOK /\ SameAbout(a) /\ UNCHANGED ipv4
      /\ req[r].pc = "getIP" /\ req[r].vm \in VmIds
  BY SameStoresAbout, RequestType DEF GetIP, Spared, db, world, DeletePcs
<1>2. ASSUME NEW k \in Keys, ipv4[k] = req[r].addr,
             Proceed(r, [req[r] EXCEPT !.pc = "markUnused", !.key = k])
      PROVE  Sound(a)'
  <2>1. /\ req'[r].pc = "markUnused" /\ req'[r].addr = req[r].addr /\ req'[r].key = k
        /\ req'[r].ok = req[r].ok
        /\ req'[r].vm = req[r].vm /\ \A s \in Requests \ {r} : req'[s] = req[s]
    BY <1>1, <1>2, SlotAfter, RequestType DEF Fields, Proceed, TypeOK
  <2>2. CASE ~Handles(r, a)
    BY <1>1, <2>1, <2>2, OtherGoesOn DEF Writers, DeletePcs
  <2>3. CASE Handles(r, a)
    <3>1. req[r].addr = a /\ Relies(req[r])
      BY <2>3 DEF Spared, Sound, Handles
    <3>2. pve'[req[r].vm] # a /\ row'[req[r].vm] = a /\ ipv4'[k] = a /\ req[r].ok
      BY <1>1, <1>2, <3>1 DEF Relies, SameAbout, DeletePcs
    <3>3. Handles(r, a)'
      BY <2>1, <3>1 DEF Handles, Writers, DeletePcs
    <3>4. Relies(req[r])'
      BY <2>1, <3>1, <3>2 DEF Relies
    <3> QED
      BY <1>1, <2>1, <3>3, <3>4, MovesOn DEF Spared
  <2> QED
    BY <2>2, <2>3
<1> QED
  BY <1>1, <1>2, FailsQuietly DEF GetIP

LEMMA MarkUnusedSound ==
  ASSUME NEW a \in Addrs, Spared(a), NEW r \in Requests, MarkUnused(r) PROVE Sound(a)'
<1>1. TypeOK /\ req[r].pc = "markUnused" /\ UNCHANGED <<row, ipv4, pve>>
  BY DEF MarkUnused, Spared, world
<1>2. ASSUME used' = used \ {req[r].key}, Goto(r, "deleteRow") PROVE Sound(a)'
  <2>1. /\ req'[r].pc = "deleteRow" /\ req'[r].key = req[r].key /\ req'[r].addr = req[r].addr
        /\ req'[r].ok = req[r].ok
        /\ req'[r].vm = req[r].vm /\ \A s \in Requests \ {r} : req'[s] = req[s]
    BY <1>1, <1>2, GoesOnAs
  <2>2. CASE ~Handles(r, a)
    <3>1. SameAbout(a)
      BY <1>1, <1>2, <2>2, MarkElsewhere
    <3> QED
      BY <1>1, <2>1, <2>2, <3>1, OtherGoesOn DEF Writers, DeletePcs
  <2>3. CASE Handles(r, a)
    <3>1. /\ req[r].addr = a /\ Relies(req[r]) /\ req[r].key \in Keys /\ req[r].vm \in VmIds
      BY <1>1, <2>3, RequestType DEF Spared, Sound, Handles, DeletePcs
    <3>2. ipv4[req[r].key] = a /\ pve[req[r].vm] # a /\ row[req[r].vm] = a /\ req[r].ok
      BY <1>1, <3>1 DEF Relies, DeletePcs
    <3>3. Handles(r, a)'
      BY <2>1, <3>1 DEF Handles, Writers, DeletePcs
    <3>4. \A s \in Requests \ {r} : ~Handles(s, a) /\ ~Handles(s, a)'
      BY <2>3, <3>3, Alone
    <3>5. Holders(a)' = Holders(a) /\ Holders(a) # {} /\ InPool(a)'
      BY <1>1, <3>1, <3>2 DEF Holders, InPool
    <3>6. RowsOf(a)'
      BY <1>1, <2>1, <3>3, <3>4 DEF RowsOf, Spared, Sound
    <3>7. \A k \in Keys : ipv4[k] = a => k = req[r].key
      BY <3>1, <3>2, ProvisioningAssumption DEF Spared, UniqueIps
    <3>8. MarkOf(a)'
      BY <1>1, <1>2, <2>1, <3>3, <3>5, <3>7 DEF MarkOf
    <3>9. NoLateDeletion(a)'
      BY <1>1, <2>1, <3>1 DEF NoLateDeletion, Spared, Sound
    <3>10. Relies(req[r])'
      BY <1>1, <1>2, <2>1, <3>1, <3>2 DEF Relies
    <3> QED
      BY <3>3, <3>4, <3>5, <3>6, <3>8, <3>9, <3>10 DEF Sound, Spared
  <2> QED
    BY <2>2, <2>3
<1>3. ASSUME UNCHANGED used, Answer(r, "conflict") PROVE Sound(a)'
  BY <1>1, <1>3, SameStoresAbout, FailsQuietly
<1> QED
  BY <1>2, <1>3 DEF MarkUnused

LEMMA DeleteRowSound ==
  ASSUME NEW a \in Addrs, Spared(a), NEW r \in Requests, DeleteContainerFromDB(r)
  PROVE  Sound(a)'
<1>1. /\ TypeOK /\ req[r].pc = "deleteRow" /\ UNCHANGED <<ipv4, used, pve>>
      /\ req[r].vm \in VmIds
  BY RequestType DEF DeleteContainerFromDB, Spared, world, DeletePcs
<1>2. ASSUME NEW code, row' = [row EXCEPT ![req[r].vm] = None], Answer(r, code)
      PROVE  Sound(a)'
  <2>1. req'[r].pc = "idle" /\ \A s \in Requests \ {r} : req'[s] = req[s]
    BY <1>1, <1>2 DEF Answer, Idle, TypeOK
  <2>2. ~Handles(r, a)' /\ req'[r].pc \notin DeletePcs
    BY <2>1, Places DEF Handles
  <2>3. /\ row'[req[r].vm] # a
        /\ \A v \in VmIds \ {req[r].vm} : row'[v] = row[v]
    BY <1>1, <1>2, ProvisioningAssumption DEF TypeOK
  <2>4. CASE ~Handles(r, a)
    <3>1. req[r].addr # a /\ req[r].pc \in DeletePcs
      BY <1>1, <2>4 DEF Handles, Writers, DeletePcs
    <3>2. row[req[r].vm] # a
      BY <3>1 DEF Spared, Sound, NoLateDeletion
    <3>3. SameAbout(a)
      BY <1>1, <2>3, <3>2 DEF SameAbout
    <3> QED
      BY <2>1, <2>2, <2>4, <3>3, OtherMoves
  <2>5. CASE Handles(r, a)
    <3>1. req[r].addr = a /\ Relies(req[r]) /\ req[r].key \in Keys
      BY <1>1, <2>5, RequestType DEF Spared, Sound, Handles
    <3>2. /\ ipv4[req[r].key] = a /\ req[r].key \notin used
          /\ pve[req[r].vm] # a /\ row[req[r].vm] = a
      BY <1>1, <3>1 DEF Relies, DeletePcs
    <3>3. \A s \in Requests : ~Handles(s, a)'
      BY <2>1, <2>2, <2>5, Alone DEF Handles
    <3>4. \A s \in Requests \ {r} : ~Handles(s, a)
      BY <2>5, Alone
    <3>5. \A v \in VmIds : row'[v] # a
      BY <1>1, <2>3, <3>2 DEF Spared, Sound, Holders
    <3>6. Holders(a)' = {}
      BY <3>5 DEF Holders
    <3>7. RowsOf(a)'
      BY <1>1, <2>3, <3>2, <3>4, <3>5 DEF RowsOf, Spared, Sound, Holders
    <3>8. \A k \in Keys : ipv4[k] = a => k = req[r].key
      BY <3>1, <3>2, ProvisioningAssumption DEF Spared, UniqueIps
    <3>9. MarkOf(a)'
      BY <1>1, <3>2, <3>6, <3>8 DEF MarkOf
    <3>10. NoLateDeletion(a)'
      <4>1. ASSUME NEW s \in Requests, req'[s].pc \in DeletePcs, req'[s].addr # a
            PROVE  row'[req'[s].vm] # a /\ pve'[req'[s].vm] # a
        <5>1. s # r /\ req'[s] = req[s] /\ req[s].vm \in VmIds
          BY <1>1, <2>1, <2>2, <4>1, RequestType
        <5> QED
          BY <1>1, <3>5, <4>1, <5>1 DEF NoLateDeletion, Spared, Sound
      <4> QED
        BY <4>1 DEF NoLateDeletion
    <3> QED
      BY <3>3, <3>6, <3>7, <3>9, <3>10 DEF Sound, Spared
  <2> QED
    BY <2>4, <2>5
<1>3. ASSUME Answer(r, "conflict"), UNCHANGED row PROVE Sound(a)'
  BY <1>1, <1>3, SameStoresAbout, FailsQuietly
<1> QED
  BY <1>2, <1>3 DEF DeleteContainerFromDB

-----------------------------------------------------------------------------
(* Agents, the pool, and requests that begin.                                *)

LEMMA AgentSound ==
  ASSUME NEW a \in Addrs, Spared(a), NEW r \in Requests,
         GetContainerID(r) \/ ChangeCTHostname(r) \/ SetCTAsReady(r)
  PROVE  Sound(a)'
<1>1. TypeOK /\ SameAbout(a) /\ req[r].pc \in InitPcs
  BY SameStoresAbout DEF GetContainerID, ChangeCTHostname, SetCTAsReady, Spared, db, world, InitPcs
<1>2. ~Handles(r, a)
  BY <1>1, Places DEF Handles
<1>3. ASSUME NEW q, Proceed(r, q), q.pc \in InitPcs PROVE Sound(a)'
  <2>1. req'[r] = q /\ \A s \in Requests \ {r} : req'[s] = req[s]
    BY <1>1, <1>3 DEF Proceed, TypeOK
  <2>2. ~Handles(r, a)' /\ req'[r].pc \notin DeletePcs
    BY <1>3, <2>1, Places DEF Handles
  <2> QED
    BY <1>1, <1>2, <2>1, <2>2, OtherMoves
<1>4. ASSUME Answer(r, "ok") PROVE Sound(a)'
  <2>1. req'[r].pc = "idle" /\ \A s \in Requests \ {r} : req'[s] = req[s]
    BY <1>1, <1>4 DEF Answer, Idle, TypeOK
  <2>2. ~Handles(r, a)' /\ req'[r].pc \notin DeletePcs
    BY <2>1, Places DEF Handles
  <2> QED
    BY <1>1, <1>2, <2>1, <2>2, OtherMoves
<1>5. CASE GetContainerID(r)
  <2>1. \A v : [req[r] EXCEPT !.pc = "setHostname", !.vm = v].pc \in InitPcs
    BY <1>1, RequestType DEF InitPcs, Fields
  <2> QED
    BY <1>1, <1>3, <1>5, <2>1, RejectsQuietly DEF GetContainerID
<1>6. CASE ChangeCTHostname(r)
  <2>1. [req[r] EXCEPT !.pc = "setReady"].pc \in InitPcs
    BY <1>1, RequestType DEF InitPcs, Fields
  <2> QED
    BY <1>3, <1>6, <2>1 DEF ChangeCTHostname
<1>7. CASE SetCTAsReady(r)
  BY <1>1, <1>4, <1>7, RejectsQuietly DEF SetCTAsReady
<1> QED
  BY <1>5, <1>6, <1>7

(* Who is about an address that is not in the pool is not changing anything. *)
LEMMA NotPooled ==
  ASSUME NEW a \in Addrs, Spared(a), ~InPool(a)
  PROVE  /\ Holders(a) = {}
         /\ \A v \in VmIds : row[v] # a /\ pve[v] # a
         /\ \A s \in Requests : Handles(s, a) => req[s].pc \in PoolPcs \cup {"getFreeIP"}
<1>1. TypeOK /\ Sound(a)
  BY DEF Spared
<1>2. Holders(a) = {} /\ \A v \in VmIds : row[v] # a
  BY <1>1 DEF Sound, MarkOf, Holders
<1>3. \A s \in Requests : Handles(s, a) => req[s].pc \in PoolPcs \cup {"getFreeIP"}
  <2>1. SUFFICES ASSUME NEW s \in Requests, Handles(s, a)
                 PROVE  req[s].pc \in PoolPcs \cup {"getFreeIP"}
    OBVIOUS
  <2>2. Relies(req[s]) /\ req[s].addr = a
    BY <1>1, <2>1 DEF Sound, Handles
  <2>3. req[s].pc \notin {"nextid", "postLxc", "insertRow", "markUsed"}
    BY <1>1, <2>2, RequestType DEF Relies, InPool
  <2>4. req[s].pc \notin DeletePcs
    BY <1>1, <1>2, <2>2, RequestType DEF Relies
  <2> QED
    BY <2>1, <2>3, <2>4 DEF Handles, Writers, CreatePcs
<1>4. \A v \in VmIds : pve[v] # a
  BY <1>1, <1>2, <1>3 DEF Sound, RowsOf, PoolPcs
<1> QED
  BY <1>2, <1>3, <1>4

LEMMA AddIPSound ==
  ASSUME NEW a \in Addrs, Spared(a), NEW r \in Requests, AddIPToDatabase(r) PROVE Sound(a)'
<1>1. /\ TypeOK /\ req[r].pc = "insertIp" /\ UNCHANGED <<row, pve>> /\ req[r] \in Fields
  BY RequestType DEF AddIPToDatabase, Spared, world
<1>2. ASSUME NEW b \in req[r].todo, InPool(b), Unhandled(r), UNCHANGED <<ipv4, used, links>>
      PROVE  Sound(a)'
  BY <1>1, <1>2, SameStoresAbout, RejectsQuietly
<1>3. ASSUME NEW b \in req[r].todo, NEW k \in FreshKeys, ~InPool(b),
             ipv4' = [ipv4 EXCEPT ![k] = b], used' = used \ {k},
             IF req[r].todo = {b} THEN Answer(r, "created")
                                  ELSE Proceed(r, [req[r] EXCEPT !.todo = @ \ {b}])
      PROVE  Sound(a)'
  <2>1. req'[r].pc \in PoolPcs \cup {"idle"} /\ \A s \in Requests \ {r} : req'[s] = req[s]
    BY <1>1, <1>3 DEF Answer, Proceed, Idle, TypeOK, Fields, PoolPcs
  <2>2. req'[r].pc \notin DeletePcs /\ req[r].pc \notin HalfDone
    BY <1>1, <2>1, Places DEF HalfDone
  <2>3. /\ k \in Keys /\ ipv4[k] = None
        /\ ipv4'[k] = b /\ \A j \in Keys \ {k} : ipv4'[j] = ipv4[j]
    BY <1>1, <1>3 DEF FreshKeys, TypeOK
  <2>4. CASE a # b
    <3>1. SameAbout(a)
      BY <1>1, <1>3, <2>3, <2>4, ProvisioningAssumption DEF SameAbout
    <3>2. Handles(r, a)' => req'[r].pc \in PoolPcs
      BY <2>1, Places DEF Handles
    <3> QED
      BY <1>1, <2>1, <2>2, <3>1, <3>2, Quietly DEF Spared
  <2>5. CASE a = b
    <3>1. /\ Holders(a) = {} /\ \A v \in VmIds : row[v] # a /\ pve[v] # a
          /\ \A s \in Requests : Handles(s, a) => req[s].pc \in PoolPcs \cup {"getFreeIP"}
      BY <1>3, <2>5, NotPooled
    <3>2. Holders(a)' = {}
      BY <1>1, <3>1 DEF Holders
    <3>3. RowsOf(a)'
      BY <1>1, <3>1 DEF RowsOf
    <3>4. \A j \in Keys : ipv4'[j] = a => j = k
      BY <1>3, <2>3, <2>5 DEF InPool
    <3>5. MarkOf(a)'
      BY <1>3, <3>2, <3>4 DEF MarkOf
    <3>6. NoLateDeletion(a)'
      <4>1. ASSUME NEW s \in Requests, req'[s].pc \in DeletePcs
            PROVE  req'[s].vm \in VmIds
        BY <1>1, <2>1, <2>2, <4>1, RequestType
      <4> QED
        BY <1>1, <3>1, <4>1 DEF NoLateDeletion
    <3>7. ASSUME NEW s \in Requests, Handles(s, a)' PROVE Relies(req[s])'
      <4>1. req'[s].pc \in PoolPcs \cup {"getFreeIP"}
        BY <2>1, <3>1, <3>7, Places DEF Handles
      <4> QED
        BY <4>1 DEF Relies, PoolPcs, DeletePcs
    <3> QED
      BY <3>2, <3>3, <3>5, <3>6, <3>7 DEF Sound, Spared
  <2> QED
    BY <2>4, <2>5
<1> QED
  BY <1>2, <1>3 DEF AddIPToDatabase

LEMMA RemoveIPSound ==
  ASSUME NEW a \in Addrs, Spared(a), NEW r \in Requests, RemoveIPFromDatabase(r)
  PROVE  Sound(a)'
<1>1. TypeOK /\ req[r].pc = "deleteIp" /\ UNCHANGED <<row, pve>>
  BY DEF RemoveIPFromDatabase, Spared, world
<1>2. ASSUME NEW k \in Keys, ipv4[k] = req[r].addr, ipv4' = [ipv4 EXCEPT ![k] = None],
             used' = used \ {k}, Answer(r, "ok")
      PROVE  Sound(a)'
  <2>1. req'[r].pc = "idle" /\ \A s \in Requests \ {r} : req'[s] = req[s]
    BY <1>1, <1>2 DEF Answer, Idle, TypeOK
  <2>2. ~Handles(r, a)' /\ req'[r].pc \notin DeletePcs
    BY <2>1, Places DEF Handles
  <2>3. ipv4'[k] = None /\ \A j \in Keys \ {k} : ipv4'[j] = ipv4[j]
    BY <1>1, <1>2 DEF TypeOK
  <2>4. CASE ~Handles(r, a)
    <3>1. req[r].addr # a
      BY <1>1, <2>4 DEF Handles, Writers, PoolPcs
    <3>2. SameAbout(a)
      BY <1>1, <1>2, <2>3, <3>1, ProvisioningAssumption DEF SameAbout
    <3> QED
      BY <2>1, <2>2, <2>4, <3>2, OtherMoves
  <2>5. CASE Handles(r, a)
    <3>1. req[r].addr = a /\ Holders(a) = {}
      BY <1>1, <2>1, <2>5 DEF Spared, Mishap, Unpools, Ended, Handles
    <3>2. \A s \in Requests : ~Handles(s, a)'
      BY <2>1, <2>2, <2>5, Alone DEF Handles
    <3>3. \A s \in Requests \ {r} : ~Handles(s, a)
      BY <2>5, Alone
    <3>4. Holders(a)' = {}
      BY <1>1, <3>1 DEF Holders
    <3>5. \A j \in Keys : ipv4'[j] # a
      BY <1>2, <2>3, <3>1, ProvisioningAssumption DEF Spared, UniqueIps
    <3>6. RowsOf(a)'
      BY <1>1, <3>3 DEF RowsOf, Spared, Sound
    <3>7. MarkOf(a)'
      BY <3>4, <3>5 DEF MarkOf
    <3>8. NoLateDeletion(a)'
      BY <1>1, <2>1, <2>2 DEF NoLateDeletion, Spared, Sound
    <3> QED
      BY <3>2, <3>4, <3>6, <3>7, <3>8 DEF Sound, Spared
  <2> QED
    BY <2>4, <2>5
<1>3. ASSUME Unhandled(r), UNCHANGED <<ipv4, used, links>> PROVE Sound(a)'
  BY <1>1, <1>3, SameStoresAbout, RejectsQuietly
<1> QED
  BY <1>2, <1>3 DEF RemoveIPFromDatabase

LEMMA ReadConfigSound ==
  ASSUME NEW a \in Addrs, Spared(a), NEW r \in Requests, ReadConfig(r)
  PROVE  Sound(a)'
<1> DEFINE v == req[r].vm
<1>1. TypeOK /\ SameAbout(a) /\ req[r].pc = "readConfig" /\ v \in VmIds
  BY SameStoresAbout, RequestType DEF ReadConfig, Spared, db, world
<1>2. ASSUME Proceed(r, [req[r] EXCEPT !.pc = "checkIP", !.addr = pve[v]])
      PROVE  Sound(a)'
  <2>1. /\ req'[r] = [req[r] EXCEPT !.pc = "checkIP", !.addr = pve[v]]
        /\ req[r].pc \notin Writers /\ \A s \in Requests \ {r} : req'[s] = req[s]
    BY <1>1, <1>2, SlotAfter, Places DEF Proceed, TypeOK
  <2>2. /\ req'[r].pc = "checkIP" /\ req'[r].vm = v /\ req'[r].addr = pve[v]
        /\ req'[r].pc \in DeletePcs /\ ~Handles(r, a)
    BY <2>1, <1>1, RequestType DEF Fields, DeletePcs, Handles
  <2>3. CASE pve[v] = a
    <3>1. Handles(r, a)'
      BY <2>2, <2>3 DEF Handles, Writers
    <3>2. \A s \in Requests : ~Handles(s, a)
      <4>1. \A s \in Requests \ {r} : ~Handles(s, a)' /\ req'[s] = req[s]
        BY <2>1, <3>1, Alone
      <4> QED
        BY <2>2, <4>1 DEF Handles
    <3>3. row[v] = a
      BY <1>1, <2>3, <3>2 DEF Spared, Sound, RowsOf
    <3>4. Relies(req[r])'
      BY <1>1, <2>2, <2>3, <3>3 DEF Relies, SameAbout
    <3> QED
      BY <1>1, <2>1, <2>2, <3>1, <3>4, MovesOn DEF Spared
  <2>4. CASE pve[v] # a
    <3>1. ~Handles(r, a)'
      BY <2>2, <2>4 DEF Handles
    <3>2. row[v] # a
      <4>1. SUFFICES ASSUME row[v] = a PROVE FALSE
        OBVIOUS
      <4>2. PICK s \in Requests : Handles(s, a) /\ req[s].vm = v
        BY <1>1, <2>4, <4>1 DEF Spared, Sound, RowsOf
      <4>3. s # r
        BY <2>2, <4>2
      <4>4. Handles(s, a)' /\ req'[s].vm = v
        BY <2>1, <4>2, <4>3 DEF Handles
      <4> QED
        BY <2>2, <4>3, <4>4, Alone
    <3> QED
      BY <1>1, <2>1, <2>2, <2>4, <3>1, <3>2, OtherMoves
  <2> QED
    BY <2>3, <2>4
<1> QED
  BY <1>1, <1>2, RejectsQuietly DEF ReadConfig

(* Requests begin without anything they have read of a container.            *)
LEMMA ArrivalSound ==
  ASSUME NEW a \in Addrs, Spared(a), NEW r \in Requests, Arrival(r) PROVE Sound(a)'
<1>1. TypeOK
  BY DEF Spared
<1>2. ASSUME NEW kind, NEW q, Begin(r, kind, q), UNCHANGED <<db, world>>,
             q.pc \in PoolPcs \cup InitPcs \cup {"readConfig"}
               \/ (q.pc = "getFreeIP" /\ q.addr = None)
      PROVE  Sound(a)'
  <2>1. SameAbout(a)
    BY <1>2, SameStoresAbout DEF db, world
  <2>2. /\ req'[r] = q /\ ~Handles(r, a) /\ \A s \in Requests \ {r} : req'[s] = req[s]
    BY <1>1, <1>2, BeginsAs DEF Handles
  <2>3. /\ Handles(r, a)' => req'[r].pc \in PoolPcs
        /\ req'[r].pc \notin DeletePcs
    BY <1>2, <2>2, Places, ProvisioningAssumption DEF Handles, CreatePcs, InitPcs, DeletePcs
  <2> QED
    BY <1>1, <2>1, <2>2, <2>3, Quietly DEF Spared
<1>3. ASSUME NEW code, AnswerAtOnce(r, code) PROVE Sound(a)'
  <2>1. SameAbout(a) /\ UNCHANGED req
    BY <1>3, SameStoresAbout DEF AnswerAtOnce, db, world
  <2> QED
    BY <2>1, NobodyMoves
<1>4. \A n : /\ [Idle EXCEPT !.pc = "getFreeIP", !.node = n].pc = "getFreeIP"
             /\ [Idle EXCEPT !.pc = "getFreeIP", !.node = n].addr = None
  BY DEF Idle
<1>5. \A b : /\ [Idle EXCEPT !.pc = "getContainerID", !.addr = b].pc \in InitPcs
             /\ [Idle EXCEPT !.pc = "readConfig", !.vm = b].pc = "readConfig"
             /\ [Idle EXCEPT !.pc = "deleteIp", !.addr = b].pc \in PoolPcs
             /\ [Idle EXCEPT !.pc = "insertIp", !.todo = b].pc \in PoolPcs
  BY DEF Idle, InitPcs, PoolPcs
<1>6. ASSUME NEW n \in Nodes, CreateByNode(r, n) PROVE Sound(a)'
  BY <1>2, <1>4, <1>6 DEF CreateByNode
<1>7. ASSUME NEW l \in Locations, CreateByLocation(r, l) PROVE Sound(a)'
  BY <1>2, <1>3, <1>4, <1>7 DEF CreateByLocation
<1>8. ASSUME NEW v \in VmIds, InitHostname(r, v) PROVE Sound(a)'
  BY <1>2, <1>5, <1>8 DEF InitHostname
<1>9. ASSUME NEW S \in AddrLists, AddIps(r, S) PROVE Sound(a)'
  BY <1>2, <1>3, <1>5, <1>9 DEF AddIps
<1>10. ASSUME NEW b \in Addrs, RemoveIp(r, b) PROVE Sound(a)'
  BY <1>2, <1>3, <1>5, <1>10 DEF RemoveIp
<1>11. ASSUME NEW v \in VmIds, DeleteContainer(r, v) PROVE Sound(a)'
  BY <1>2, <1>3, <1>5, <1>11 DEF DeleteContainer
<1> QED
  BY <1>6, <1>7, <1>8, <1>9, <1>10, <1>11 DEF Arrival

-----------------------------------------------------------------------------
(* Failures, and people.                                                     *)

LEMMA FailureSound ==
  ASSUME NEW a \in Addrs, Spared(a), NEW r \in Requests, CallThrows(r) \/ AnswerLost(r)
  PROVE  Sound(a)'
<1>1. TypeOK
  BY DEF Spared
<1>2. CASE CallThrows(r)
  <2>1. SameAbout(a)
    BY <1>2, SameStoresAbout DEF CallThrows, db, world
  <2> QED
    BY <1>2, <2>1, FailsQuietly, RejectsQuietly DEF CallThrows
<1>3. CASE AnswerLost(r)
  <2>1. /\ UNCHANGED db /\ Answer(r, "conflict") /\ req[r].pc \in {"postLxc", "deleteLxc"}
        /\ \/ At(r, "postLxc") /\ Launch(r)
           \/ At(r, "deleteLxc") /\ Destroy(r)
    BY <1>3 DEF AnswerLost
  <2>2. pve' # pve
    <3>1. req[r].vm \in VmIds /\ (req[r].pc = "postLxc" => req[r].addr \in Addrs)
      BY <1>1, <2>1, RequestType DEF DeletePcs
    <3> QED
      BY <1>1, <2>1, <3>1, ProvisioningAssumption DEF Launch, Destroy, TypeOK
  <2>3. req'[r].pc = "idle"
    BY <1>1, <2>1 DEF Answer, Idle, TypeOK
  <2>4. ~Handles(r, a)
    BY <2>1, <2>2, <2>3 DEF Spared, Mishap, EndsUnaware, Ended
  <2>5. SameAbout(a)
    BY <1>1, <2>1, <2>4, LaunchElsewhere, DestroyElsewhere
  <2> QED
    BY <2>1, <2>5, FailsQuietly
<1> QED
  BY <1>2, <1>3

LEMMA OutsideSound ==
  ASSUME NEW a \in Addrs, Spared(a), Crash \/ Operator PROVE Sound(a)'
<1>1. CASE Crash
  BY <1>1, SameStoresAbout, DiesQuietly DEF Crash, db, world
<1>2. CASE Operator
  <2>1. SameAbout(a) /\ UNCHANGED req
    BY <1>2, ProvisioningAssumption
    DEF Operator, OperatorCreate, OperatorDestroy, OperatorLinks, SameAbout, db, world,
        Spared, TypeOK
  <2> QED
    BY <2>1, NobodyMoves
<1> QED
  BY <1>1, <1>2

LEMMA StepSound ==
  ASSUME NEW a \in Addrs, Spared(a), [Next]_vars PROVE Sound(a)'
<1>1. ASSUME UNCHANGED vars PROVE Sound(a)'
  BY <1>1, SameStoresAbout, NobodyMoves DEF vars
<1>2. ASSUME NEW r \in Requests, Step(r) PROVE Sound(a)'
  BY <1>2, GetFreeIPSound, NextIdSound, PostLxcSound, AddContainerSound, MarkUsedSound,
     ReadConfigSound, CheckIPSound, DeleteLxcSound, GetIPSound, MarkUnusedSound, DeleteRowSound, AgentSound,
     AddIPSound, RemoveIPSound DEF Step
<1> QED
  BY <1>1, <1>2, ArrivalSound, FailureSound, OutsideSound DEF Next

-----------------------------------------------------------------------------
(* What is true of every address, spoiled or not.                            *)

LEMMA PoolFrame ==
  ASSUME [Next]_vars
  PROVE  UNCHANGED ipv4 \/ \E r \in Requests : AddIPToDatabase(r) \/ RemoveIPFromDatabase(r)
<1> SUFFICES ASSUME Next
             PROVE  UNCHANGED ipv4 \/ \E r \in Requests : AddIPToDatabase(r) \/ RemoveIPFromDatabase(r)
  BY DEF vars
<1> USE DEF db
<1>1. ASSUME NEW r \in Requests, Arrival(r) PROVE UNCHANGED ipv4
  BY <1>1 DEF Arrival, CreateByNode, CreateByLocation, DeleteContainer, InitHostname,
              AddIps, RemoveIp, AnswerAtOnce
<1>2. ASSUME NEW r \in Requests, Step(r), ~AddIPToDatabase(r), ~RemoveIPFromDatabase(r)
      PROVE  UNCHANGED ipv4
  BY <1>2 DEF Step, GetFreeIP, NextId, PostLxc, AddContainerToDatabase, MarkUsed, ReadConfig,
              CheckIP, DeleteLxc, GetIP, MarkUnused, DeleteContainerFromDB, GetContainerID,
              ChangeCTHostname, SetCTAsReady
<1>3. ASSUME NEW r \in Requests, CallThrows(r) \/ AnswerLost(r) PROVE UNCHANGED ipv4
  BY <1>3 DEF CallThrows, AnswerLost
<1>4. ASSUME Crash \/ Operator PROVE UNCHANGED ipv4
  BY <1>4 DEF Crash, Operator, OperatorCreate, OperatorDestroy, OperatorLinks
<1> QED
  BY <1>1, <1>2, <1>3, <1>4 DEF Next

(* A row of ips that is new is of an id nobody knows; others go or stay.     *)
LEMMA PoolChanges ==
  ASSUME TypeOK, [Next]_vars
  PROVE  \A k \in Keys : \/ ipv4'[k] \in {ipv4[k], None}
                         \/ k \in FreshKeys /\ ~InPool(ipv4'[k])
<1>1. ASSUME NEW r \in Requests, AddIPToDatabase(r), NEW k \in Keys
      PROVE  ipv4'[k] \in {ipv4[k], None} \/ (k \in FreshKeys /\ ~InPool(ipv4'[k]))
  BY <1>1 DEF AddIPToDatabase, FreshKeys, TypeOK
<1>2. ASSUME NEW r \in Requests, RemoveIPFromDatabase(r), NEW k \in Keys
      PROVE  ipv4'[k] \in {ipv4[k], None}
  BY <1>2 DEF RemoveIPFromDatabase, TypeOK
<1> QED
  BY <1>1, <1>2, PoolFrame

LEMMA UniqueIpsStep == ASSUME TypeOK, UniqueIps, [Next]_vars PROVE UniqueIps'
<1>1. ASSUME NEW r \in Requests, AddIPToDatabase(r) PROVE UniqueIps'
  <2>1. \/ UNCHANGED ipv4
        \/ \E b : \E k \in Keys : ~InPool(b) /\ ipv4' = [ipv4 EXCEPT ![k] = b]
    BY <1>1 DEF AddIPToDatabase, FreshKeys
  <2> QED
    BY <2>1 DEF UniqueIps, InPool, TypeOK
<1>2. ASSUME NEW r \in Requests, RemoveIPFromDatabase(r) PROVE UniqueIps'
  BY <1>2 DEF RemoveIPFromDatabase, UniqueIps, TypeOK
<1> QED
  BY <1>1, <1>2, PoolFrame DEF UniqueIps

(* A request's row of ips and its address are read together, or stay.        *)
ReadTogether(s) == \/ req'[s].key = None
                   \/ req'[s].key = req[s].key /\ req'[s].addr = req[s].addr
                   \/ /\ req'[s].key \in Keys /\ ipv4[req'[s].key] = req'[s].addr
                      /\ UNCHANGED ipv4

LEMMA EveryReadTogether ==
  ASSUME TypeOK, [Next]_vars, NEW s \in Requests PROVE ReadTogether(s)
<1>1. ASSUME req'[s] = req[s] PROVE ReadTogether(s)
  BY <1>1 DEF ReadTogether
<1>2. ASSUME req'[s].key = None PROVE ReadTogether(s)
  BY <1>2 DEF ReadTogether
<1>3. Idle.key = None
  BY DEF Idle
<1>4. ASSUME NEW r \in Requests, Arrival(r) PROVE ReadTogether(s)
  <2>1. /\ \A n : [Idle EXCEPT !.pc = "getFreeIP", !.node = n].key = None
        /\ \A v : [Idle EXCEPT !.pc = "readConfig", !.vm = v].key = None
        /\ \A b : /\ [Idle EXCEPT !.pc = "getContainerID", !.addr = b].key = None
                  /\ [Idle EXCEPT !.pc = "deleteIp", !.addr = b].key = None
                  /\ [Idle EXCEPT !.pc = "insertIp", !.todo = b].key = None
    BY DEF Idle
  <2>2. ASSUME NEW kind, NEW q, Begin(r, kind, q), q.key = None PROVE ReadTogether(s)
    BY <1>1, <1>2, <2>2, BeginsAs
  <2>3. ASSUME NEW code, AnswerAtOnce(r, code) PROVE ReadTogether(s)
    BY <1>1, <2>3 DEF AnswerAtOnce
  <2>4. ASSUME NEW n \in Nodes, CreateByNode(r, n) PROVE ReadTogether(s)
    BY <2>1, <2>2, <2>4 DEF CreateByNode
  <2>5. ASSUME NEW l \in Locations, CreateByLocation(r, l) PROVE ReadTogether(s)
    BY <2>1, <2>2, <2>3, <2>5 DEF CreateByLocation
  <2>6. ASSUME NEW v \in VmIds, DeleteContainer(r, v) \/ InitHostname(r, v) PROVE ReadTogether(s)
    BY <2>1, <2>2, <2>3, <2>6 DEF DeleteContainer, InitHostname
  <2>7. ASSUME NEW S \in AddrLists, AddIps(r, S) PROVE ReadTogether(s)
    BY <2>1, <2>2, <2>3, <2>7 DEF AddIps
  <2>8. ASSUME NEW b \in Addrs, RemoveIp(r, b) PROVE ReadTogether(s)
    BY <2>1, <2>2, <2>3, <2>8 DEF RemoveIp
  <2> QED
    BY <1>4, <2>4, <2>5, <2>6, <2>7, <2>8 DEF Arrival
<1>5. ASSUME NEW r \in Requests, Step(r) \/ CallThrows(r) \/ AnswerLost(r) PROVE ReadTogether(s)
  <2>1. ASSUME NEW q, Proceed(r, q), q.key = req[r].key, q.addr = req[r].addr
        PROVE  ReadTogether(s)
    BY <2>1 DEF Proceed, TypeOK, ReadTogether
  <2>2. ASSUME NEW code, Answer(r, code) PROVE ReadTogether(s)
    BY <1>1, <1>2, <1>3, <2>2 DEF Answer, TypeOK
  <2>3. ASSUME Die PROVE ReadTogether(s)
    BY <1>2, <1>3, <2>3 DEF Die
  <2>4. ASSUME Unhandled(r) PROVE ReadTogether(s)
    BY <2>2, <2>3, <2>4 DEF Unhandled
  <2>5. /\ \A pc : /\ [req[r] EXCEPT !.pc = pc].key = req[r].key
                   /\ [req[r] EXCEPT !.pc = pc].addr = req[r].addr
        /\ \A pc, v : /\ [req[r] EXCEPT !.pc = pc, !.vm = v].key = req[r].key
                      /\ [req[r] EXCEPT !.pc = pc, !.vm = v].addr = req[r].addr
        /\ \A pc, ok : /\ [req[r] EXCEPT !.pc = pc, !.ok = ok].key = req[r].key
                       /\ [req[r] EXCEPT !.pc = pc, !.ok = ok].addr = req[r].addr
        /\ \A b : /\ [req[r] EXCEPT !.todo = @ \ {b}].key = req[r].key
                  /\ [req[r] EXCEPT !.todo = @ \ {b}].addr = req[r].addr
    BY RequestType DEF Fields
  <2>6. ASSUME NEW pc, Goto(r, pc) PROVE ReadTogether(s)
    BY <2>1, <2>5, <2>6
  <2>7. CASE GetFreeIP(r)
    <3>1. ASSUME NEW k \in Keys, UNCHANGED ipv4,
                 Proceed(r, [req[r] EXCEPT !.pc = "nextid", !.key = k, !.addr = ipv4[k]])
          PROVE  ReadTogether(s)
      BY <3>1, RequestType DEF Proceed, TypeOK, ReadTogether, Fields
    <3> QED
      BY <2>2, <2>7, <3>1 DEF GetFreeIP, FreeKeys, db
  <2>8. CASE GetIP(r)
    <3>1. ASSUME NEW k \in Keys, ipv4[k] = req[r].addr, UNCHANGED ipv4,
                 Proceed(r, [req[r] EXCEPT !.pc = "markUnused", !.key = k])
          PROVE  ReadTogether(s)
      BY <3>1, RequestType DEF Proceed, TypeOK, ReadTogether, Fields
    <3> QED
      BY <2>2, <2>8, <3>1 DEF GetIP, db
  <2>9. CASE NextId(r) \/ GetContainerID(r)
    BY <2>1, <2>2, <2>4, <2>5, <2>9 DEF NextId, GetContainerID
  <2>10. CASE PostLxc(r) \/ AddContainerToDatabase(r) \/ MarkUsed(r) \/ CheckIP(r)
    BY <2>2, <2>4, <2>6, <2>10 DEF PostLxc, AddContainerToDatabase, MarkUsed, CheckIP
  <2>11. CASE DeleteLxc(r)
    BY <2>1, <2>5, <2>6, <2>11 DEF DeleteLxc
  <2>12. CASE MarkUnused(r) \/ DeleteContainerFromDB(r) \/ ChangeCTHostname(r) \/ SetCTAsReady(r)
    BY <2>2, <2>4, <2>6, <2>12
    DEF MarkUnused, DeleteContainerFromDB, ChangeCTHostname, SetCTAsReady
  <2>13. CASE AddIPToDatabase(r)
    BY <2>1, <2>2, <2>4, <2>5, <2>13 DEF AddIPToDatabase
  <2>14. CASE RemoveIPFromDatabase(r) \/ CallThrows(r) \/ AnswerLost(r)
    BY <2>2, <2>4, <2>14 DEF RemoveIPFromDatabase, CallThrows, AnswerLost
  <2>15. CASE ReadConfig(r)
    <3>1. ASSUME NEW b, Proceed(r, [req[r] EXCEPT !.pc = "checkIP", !.addr = b])
          PROVE  ReadTogether(s)
      <4>1. req[r].key = None
        BY <2>15, RequestType DEF ReadConfig
      <4>2. [req[r] EXCEPT !.pc = "checkIP", !.addr = b].key = None
        BY <4>1, RequestType DEF Fields
      <4> QED
        BY <1>1, <1>2, <3>1, <4>2 DEF Proceed, TypeOK
    <3> QED
      BY <2>4, <2>15, <3>1 DEF ReadConfig
  <2> QED
    BY <1>5, <2>7, <2>8, <2>9, <2>10, <2>11, <2>12, <2>13, <2>14, <2>15 DEF Step
<1>6. ASSUME Crash PROVE ReadTogether(s)
  BY <1>2, <1>3, <1>6 DEF Crash, Die
<1>7. ASSUME Operator \/ UNCHANGED vars PROVE ReadTogether(s)
  BY <1>1, <1>7 DEF Operator, OperatorCreate, OperatorDestroy, OperatorLinks, vars
<1> QED
  BY <1>4, <1>5, <1>6, <1>7 DEF Next

LEMMA KeysKeptStep == ASSUME TypeOK, KeysKept, [Next]_vars PROVE KeysKept'
<1>1. SUFFICES ASSUME NEW s \in Requests, req'[s].key # None
               PROVE  ipv4'[req'[s].key] \in {req'[s].addr, None}
  BY DEF KeysKept
<1>2. CASE req'[s].key = req[s].key /\ req'[s].addr = req[s].addr
  <2>1. req[s].key \in Keys /\ req[s].key \notin FreshKeys
    BY <1>1, <1>2, RequestType DEF FreshKeys
  <2>2. ipv4[req[s].key] \in {req[s].addr, None}
    BY <1>1, <1>2 DEF KeysKept
  <2> QED
    BY <1>2, <2>1, <2>2, PoolChanges
<1> QED
  BY <1>1, <1>2, EveryReadTogether DEF ReadTogether

(* A slot shows no reply while its request is in flight.                     *)
LEMMA UnansweredStep ==
  ASSUME TypeOK, InFlightUnanswered, [Next]_vars PROVE InFlightUnanswered'
<1>1. ASSUME NEW r \in Requests, Control(r) PROVE InFlightUnanswered'
  <2>1. CASE BeginStep(r) \/ AnswerStep(r) \/ RefuseStep(r) \/ Die
    BY <2>1 DEF BeginStep, AnswerStep, RefuseStep, Begin, Answer, AnswerAtOnce, Die, Idle,
                InFlightUnanswered, TypeOK
  <2>2. CASE ProceedStep(r)
    BY <2>2, FollowsKind DEF ProceedStep, Proceed, InFlightUnanswered, TypeOK
  <2> QED
    BY <1>1, <2>1, <2>2 DEF Control
<1>2. ASSUME Crash PROVE InFlightUnanswered'
  BY <1>2 DEF Crash, Die, Idle, InFlightUnanswered
<1>3. ASSUME Operator \/ UNCHANGED vars PROVE InFlightUnanswered'
  BY <1>3 DEF Operator, OperatorCreate, OperatorDestroy, OperatorLinks, vars, InFlightUnanswered
<1> QED
  BY <1>1, <1>2, <1>3, ControlSteps DEF Next

-----------------------------------------------------------------------------
(* The end of the process creates nothing. *)
LEMMA DieReply ==
  ASSUME NEW r \in Requests, reply[r] = "none", reply'[r] = "created"
  PROVE  ~Die
BY DEF Die

(* Only MarkUsed answers a request that is about to mark its address.       *)
LEMMA CreatedOnlyBy ==
  ASSUME TypeOK, [Next]_vars, NEW r \in Requests, req[r].pc = "markUsed",
         reply[r] = "none", reply'[r] = "created"
  PROVE  MarkUsed(r)
<1>1. reply' # reply
  OBVIOUS
<1>2. PICK s \in Requests : Arrival(s) \/ Step(s) \/ CallThrows(s) \/ AnswerLost(s)
  <2>1. ASSUME Crash PROVE FALSE
    BY <2>1 DEF Crash, Die, TypeOK
  <2>2. ~Operator /\ ~UNCHANGED vars
    BY <1>1 DEF Operator, OperatorCreate, OperatorDestroy, OperatorLinks, vars
  <2> QED BY <2>1, <2>2 DEF Next
<1>3. CASE s # r
  <2>1. Control(s)
    BY <1>2, ControlSteps
  <2>2. CASE Die
    BY <2>2, DieReply
  <2>3. CASE ~Die
    <3>1. reply' = reply \/ \E code : reply' = [reply EXCEPT ![s] = code]
      BY <2>1, <2>3 DEF Control, BeginStep, ProceedStep, AnswerStep, RefuseStep,
         Begin, Proceed, Answer, AnswerAtOnce
    <3>2. reply'[r] = reply[r]
      BY <1>3, <3>1 DEF TypeOK
    <3> QED BY <3>2
  <2> QED BY <2>2, <2>3
<1>4. CASE s = r
  <2>1. ~Arrival(r)
    BY DEF Arrival, CreateByNode, CreateByLocation, DeleteContainer, InitHostname, AddIps,
           RemoveIp, Begin, AnswerAtOnce
  <2>2. ~AnswerLost(r)
    BY DEF AnswerLost
  <2>3. ~CallThrows(r)
    <3>1. CallThrows(r) => Die \/ Answer(r, "dropped")
      BY DEF CallThrows, InTry, Unhandled
    <3>2. ~Answer(r, "dropped")
      BY DEF Answer, TypeOK
    <3> QED BY <3>1, <3>2, DieReply
  <2>4. Step(r)
    BY <1>2, <1>4, <2>1, <2>2, <2>3
  <2> QED BY <2>4 DEF Step, GetFreeIP, NextId, PostLxc, AddContainerToDatabase, ReadConfig,
             CheckIP, DeleteLxc, GetIP, MarkUnused, DeleteContainerFromDB, GetContainerID,
             ChangeCTHostname, SetCTAsReady, AddIPToDatabase, RemoveIPFromDatabase
<1> QED BY <1>3, <1>4

LEMMA MishapInitial == MishapInit => MishapInv
<1>1. SUFFICES ASSUME MishapInit PROVE MishapInv
  OBVIOUS
<1>2. /\ Init /\ TypeOK /\ \A r \in Requests : req[r] = Idle
      /\ \A v \in VmIds : row[v] = None /\ pve[v] \in {Outside, None}
  BY <1>1, ProvisioningAssumption, IdleType DEF MishapInit, Init, TypeOK, Replies
<1>3. \A r \in Requests : req[r].pc = "idle" /\ req[r].key = None
  BY <1>2 DEF Idle
<1>4. InFlightUnanswered /\ UniqueIps /\ KeysKept
  BY <1>2, <1>3, ProvisioningAssumption DEF Init, InFlightUnanswered, UniqueIps, KeysKept
<1>5. ASSUME NEW a \in Addrs PROVE Sound(a)
  <2>1. \A v \in VmIds : row[v] # a /\ pve[v] # a
    BY <1>2, ProvisioningAssumption
  <2>2. \A r \in Requests : ~Handles(r, a) /\ req[r].pc \notin DeletePcs
    BY <1>3, Places DEF Handles
  <2>3. Holders(a) = {} /\ used = {}
    BY <1>2, <2>1 DEF Holders, Init
  <2> QED
    BY <2>1, <2>2, <2>3 DEF Sound, Overlap, RowsOf, MarkOf, NoLateDeletion
<1> QED
  BY <1>2, <1>4, <1>5 DEF MishapInv

LEMMA MishapStep == MishapInv /\ [MishapNext]_mishapVars => MishapInv'
<1>1. SUFFICES ASSUME MishapInv, [MishapNext]_mishapVars PROVE MishapInv'
  OBVIOUS
<1>2. [Next]_vars
  BY <1>1 DEF MishapNext, mishapVars
<1>3. TypeOK' /\ InFlightUnanswered' /\ UniqueIps' /\ KeysKept'
  BY <1>1, <1>2, TypeStep, UnansweredStep, UniqueIpsStep, KeysKeptStep DEF MishapInv
<1>4. ASSUME NEW a \in Addrs, a \notin spoiled' PROVE Sound(a)'
  <2>1. CASE MishapNext
    <3>1. Spared(a)
      BY <1>1, <1>4, <2>1, Unspoiled DEF MishapInv, MishapNext, Spared
    <3> QED
      BY <1>2, <1>4, <3>1, StepSound
  <2>2. CASE UNCHANGED mishapVars
    <3>1. Sound(a) /\ UNCHANGED <<row, ipv4, used, pve, req>>
      BY <1>1, <1>4, <2>2 DEF MishapInv, mishapVars, history, vars
    <3>2. Overlap(a)' <=> Overlap(a)
      BY <3>1 DEF Overlap, Handles
    <3> QED
      BY <1>1, <3>1, <3>2, SameStoresAbout, Quietly DEF Sound, MishapInv
  <2> QED
    BY <1>1, <2>1, <2>2
<1> QED
  BY <1>3, <1>4 DEF MishapInv

(* The history only watches: what is proved of Spec holds of MishapSpec.     *)
LEMMA HistoryOnlyWatches == MishapSpec => Spec
<1>1. MishapInit => Init
  BY DEF MishapInit
<1>2. [MishapNext]_mishapVars => [Next]_vars
  BY DEF MishapNext, mishapVars
<1> QED
  BY <1>1, <1>2, PTL DEF MishapSpec, Spec

(* For every number of requests, containers and addresses, every order of    *)
(* the requests and every failure Env allows: an address no mishap has       *)
(* happened to is handled by one request at most, which still relies on what *)
(* its calls found (getFreeIP, checkIP, getIP), and between requests cluster, *)
(* cts and ips show it the same (apiTools.ts:286-312, 391-518).              *)
THEOREM MishapInvariant == MishapSpec => []MishapInv
BY MishapInitial, MishapStep, PTL DEF MishapSpec

(* So a disagreement about an address always has a cause at that address:    *)
(* neither a failure nor an overlap elsewhere, with requests for the same    *)
(* node, the same template or the next free id, can do harm to it.           *)
THEOREM DisagreementHasCause == MishapSpec => []DisagreeOnlyForCause
<1>1. MishapInv => DisagreeOnlyForCause
  <2>1. SUFFICES ASSUME MishapInv, NEW a \in Addrs \ spoiled,
                        \A r \in Requests : ~Handles(r, a)
                 PROVE  AgreeOn(a)
    BY DEF DisagreeOnlyForCause
  <2>2. Sound(a)
    BY <2>1 DEF MishapInv
  <2> QED
    BY <2>1, <2>2 DEF Sound, RowsOf, MarkOf, AgreeOn
<1> QED
  BY <1>1, MishapInvariant, PTL

(* Whatever fails and however requests interleave (container.ts:457-461): a  *)
(* 201 is true at the moment it is sent, unless another request was about    *)
(* the same address since its row of ips was read.                           *)
THEOREM CreatedTrueUnlessSpoiled == MishapSpec => CreatedUnlessSpoiled
<1>1. ASSUME MishapInv, [MishapNext]_mishapVars
      PROVE  [\A r \in Requests :
                At(r, "markUsed") /\ reply'[r] = "created" /\ req[r].addr \notin spoiled =>
                  /\ pve[req[r].vm] = req[r].addr
                  /\ Holders(req[r].addr) = {req[r].vm}
                  /\ req[r].key \in used' /\ ipv4[req[r].key] = req[r].addr]_mishapVars
  <2> SUFFICES ASSUME NEW r \in Requests, req[r].pc = "markUsed", reply'[r] = "created",
                      req[r].addr \notin spoiled
               PROVE  /\ pve[req[r].vm] = req[r].addr
                      /\ Holders(req[r].addr) = {req[r].vm}
                      /\ req[r].key \in used' /\ ipv4[req[r].key] = req[r].addr
    OBVIOUS
  <2>1. TypeOK /\ reply[r] = "none" /\ [Next]_vars
    BY <1>1 DEF MishapInv, InFlightUnanswered, MishapNext, mishapVars
  <2>2. req[r].addr \in Addrs /\ req[r].vm \in VmIds /\ req[r].addr # None
    BY <2>1, RequestType, ProvisioningAssumption
  <2>3. Sound(req[r].addr) /\ Handles(r, req[r].addr)
    BY <1>1, <2>2 DEF MishapInv, Handles, Writers, CreatePcs
  <2>4. Relies(req[r]) /\ \A v, w \in Holders(req[r].addr) : v = w
    BY <2>3 DEF Sound
  <2>5. /\ pve[req[r].vm] = req[r].addr /\ row[req[r].vm] = req[r].addr
        /\ ipv4[req[r].key] = req[r].addr
    BY <2>4 DEF Relies
  <2>6. Holders(req[r].addr) = {req[r].vm}
    BY <2>2, <2>4, <2>5 DEF Holders
  <2>7. MarkUsed(r)
    BY <2>1, CreatedOnlyBy
  <2>8. req[r].key \in used'
    BY <2>7, <2>5, <2>2 DEF MarkUsed
  <2> QED BY <2>5, <2>6, <2>8
<1> QED BY <1>1, MishapInvariant, PTL DEF MishapSpec, CreatedUnlessSpoiled

(* Whatever fails and however requests interleave: the row of a container    *)
(* goes only by a deletion of this very container, after it was destroyed.   *)
(* No late deletion takes the row of the container that has the id again,    *)
(* and no creation overwrites it (apiTools.ts:298, 476, 523).                *)
THEOREM RowsGoOnlyWithContainers == MishapSpec => RowsGoWithContainers
<1>1. ASSUME MishapInv, [MishapNext]_mishapVars
      PROVE  [\A v \in VmIds :
                row[v] \in Addrs \ spoiled /\ row'[v] # row[v] =>
                  /\ row'[v] = None /\ pve[v] # row[v]
                  /\ \E r \in Requests : /\ At(r, "deleteRow") /\ req[r].vm = v
                                         /\ req[r].addr = row[v] /\ reply'[r] = "ok"]_mishapVars
  <2> SUFFICES ASSUME NEW v \in VmIds, row[v] \in Addrs, row[v] \notin spoiled, row'[v] # row[v]
               PROVE  /\ row'[v] = None /\ pve[v] # row[v]
                      /\ \E r \in Requests : /\ At(r, "deleteRow") /\ req[r].vm = v
                                             /\ req[r].addr = row[v] /\ reply'[r] = "ok"
    OBVIOUS
  <2>1. TypeOK /\ Sound(row[v]) /\ [Next]_vars /\ row[v] # None
    BY <1>1, ProvisioningAssumption DEF MishapInv, MishapNext, mishapVars
  <2>2. ASSUME NEW r \in Requests, AddContainerToDatabase(r) PROVE FALSE
    BY <2>1, <2>2 DEF AddContainerToDatabase, TypeOK
  <2>3. PICK r \in Requests : DeleteContainerFromDB(r)
    BY <2>1, <2>2, RowFrame
  <2>4. /\ req[r].pc = "deleteRow" /\ req[r].vm = v /\ row'[v] = None
        /\ Answer(r, IF req[r].ok THEN "ok" ELSE "conflict")
    BY <2>1, <2>3 DEF DeleteContainerFromDB, TypeOK
  <2>5. req[r].addr = row[v]
    BY <2>1, <2>4 DEF Sound, NoLateDeletion, DeletePcs
  <2>6. pve[v] # row[v] /\ req[r].ok
    BY <2>1, <2>4, <2>5 DEF Sound, Handles, Writers, DeletePcs, Relies
  <2>7. reply'[r] = "ok"
    BY <2>1, <2>4, <2>6 DEF Answer, TypeOK
  <2> QED BY <2>4, <2>5, <2>6, <2>7
<1> QED BY <1>1, MishapInvariant, PTL DEF MishapSpec, RowsGoWithContainers

-----------------------------------------------------------------------------
(* Which containers are ready.                                               *)

(* Only these calls write the column ready of cts. *)
LEMMA ReadyFrame ==
  ASSUME [Next]_vars
  PROVE  UNCHANGED ready \/ \E r \in Requests : DeleteContainerFromDB(r) \/ SetCTAsReady(r)
<1> SUFFICES ASSUME Next
             PROVE  UNCHANGED ready \/ \E r \in Requests : DeleteContainerFromDB(r) \/ SetCTAsReady(r)
  BY DEF vars
<1> USE DEF db
<1>1. ASSUME NEW r \in Requests, Arrival(r) PROVE UNCHANGED ready
  BY <1>1 DEF Arrival, CreateByNode, CreateByLocation, DeleteContainer, InitHostname,
              AddIps, RemoveIp, AnswerAtOnce
<1>2. ASSUME NEW r \in Requests, Step(r), ~DeleteContainerFromDB(r), ~SetCTAsReady(r)
      PROVE  UNCHANGED ready
  BY <1>2 DEF Step, GetFreeIP, NextId, PostLxc, AddContainerToDatabase, MarkUsed, ReadConfig,
              CheckIP, DeleteLxc, GetIP, MarkUnused, GetContainerID, ChangeCTHostname,
              AddIPToDatabase, RemoveIPFromDatabase
<1>3. ASSUME NEW r \in Requests, CallThrows(r) \/ AnswerLost(r) PROVE UNCHANGED ready
  BY <1>3 DEF CallThrows, AnswerLost
<1>4. ASSUME Crash \/ Operator PROVE UNCHANGED ready
  BY <1>4 DEF Crash, Operator, OperatorCreate, OperatorDestroy, OperatorLinks
<1> QED
  BY <1>1, <1>2, <1>3, <1>4 DEF Next

(* Every change of the cluster, by the call that makes it. *)
LEMMA WorldFrame ==
  ASSUME [Next]_vars
  PROVE  \/ UNCHANGED <<pve, named>>
         \/ \E r \in Requests : \/ At(r, "postLxc") /\ Launch(r)
                                \/ At(r, "deleteLxc") /\ Destroy(r)
                                \/ ChangeCTHostname(r)
         \/ \E v \in VmIds : OperatorCreate(v) \/ OperatorDestroy(v)
<1> DEFINE Changes == \/ UNCHANGED <<pve, named>>
                      \/ \E r \in Requests : \/ At(r, "postLxc") /\ Launch(r)
                                             \/ At(r, "deleteLxc") /\ Destroy(r)
                                             \/ ChangeCTHostname(r)
                      \/ \E v \in VmIds : OperatorCreate(v) \/ OperatorDestroy(v)
<1> SUFFICES ASSUME Next PROVE Changes
  BY DEF vars
<1> USE DEF world
<1>1. ASSUME NEW r \in Requests, Arrival(r) PROVE UNCHANGED <<pve, named>>
  BY <1>1 DEF Arrival, CreateByNode, CreateByLocation, DeleteContainer, InitHostname,
              AddIps, RemoveIp, AnswerAtOnce
<1>2. ASSUME NEW r \in Requests, Step(r), ~PostLxc(r), ~DeleteLxc(r), ~ChangeCTHostname(r)
      PROVE  UNCHANGED <<pve, named>>
  BY <1>2 DEF Step, GetFreeIP, NextId, AddContainerToDatabase, MarkUsed, ReadConfig, CheckIP,
              GetIP, MarkUnused, DeleteContainerFromDB, GetContainerID, SetCTAsReady,
              AddIPToDatabase, RemoveIPFromDatabase
<1>3. ASSUME NEW r \in Requests, PostLxc(r) \/ DeleteLxc(r) \/ AnswerLost(r) PROVE Changes
  BY <1>3 DEF PostLxc, DeleteLxc, AnswerLost
<1>4. ASSUME NEW r \in Requests, CallThrows(r) PROVE UNCHANGED <<pve, named>>
  BY <1>4 DEF CallThrows
<1>5. ASSUME Crash \/ Operator PROVE Changes
  BY <1>5 DEF Crash, Operator, OperatorLinks
<1> QED BY <1>1, <1>2, <1>3, <1>4, <1>5 DEF Next

(* A container loses its hostname only when it comes or goes. *)
LEMMA NamesGo ==
  ASSUME TypeOK, [Next]_vars, NEW v \in VmIds
  PROVE  \/ pve'[v] = pve[v] /\ (v \in named => v \in named')
         \/ pve'[v] # pve[v] /\ pve'[v] \in {None, Outside}
         \/ \E r \in Requests : /\ At(r, "postLxc") /\ req[r].vm = v
                                /\ pve'[v] # pve[v] /\ pve'[v] = req[r].addr
<1>1. ASSUME NEW r \in Requests, req[r].pc = "postLxc", Launch(r)
      PROVE  \/ pve'[v] = pve[v] /\ (v \in named => v \in named')
             \/ req[r].vm = v /\ pve'[v] # pve[v] /\ pve'[v] = req[r].addr
  <2>1. req[r].addr \in Addrs /\ req[r].vm \in VmIds
    BY <1>1, RequestType
  <2> QED BY <1>1, <2>1, ProvisioningAssumption DEF Launch, TypeOK
<1>2. ASSUME NEW r \in Requests, req[r].pc = "deleteLxc", Destroy(r)
      PROVE  \/ pve'[v] = pve[v] /\ (v \in named => v \in named')
             \/ pve'[v] # pve[v] /\ pve'[v] = None
  BY <1>2 DEF Destroy, TypeOK
<1>3. ASSUME NEW r \in Requests, ChangeCTHostname(r)
      PROVE  pve'[v] = pve[v] /\ (v \in named => v \in named')
  BY <1>3 DEF ChangeCTHostname
<1>4. ASSUME NEW w \in VmIds, OperatorCreate(w) \/ OperatorDestroy(w)
      PROVE  \/ pve'[v] = pve[v] /\ (v \in named => v \in named')
             \/ pve'[v] # pve[v] /\ pve'[v] \in {None, Outside}
  BY <1>4, ProvisioningAssumption DEF OperatorCreate, OperatorDestroy, TypeOK
<1> QED BY <1>1, <1>2, <1>3, <1>4, WorldFrame

(* A container is ready only while it has its row, and an agent's request    *)
(* that nothing has overtaken comes to setCTAsReady with a renamed container. *)
ReadyInv == /\ ready \subseteq {v \in VmIds : row[v] # None}
            /\ \A r \in Requests : At(r, "setReady") /\ r \notin late => req[r].vm \in named

(* A slot comes to setCTAsReady by its rename. *)
LEMMA ReadySteps ==
  ASSUME TypeOK, [Next]_vars, NEW s \in Requests, req'[s].pc = "setReady", req'[s] # req[s]
  PROVE  req[s].pc = "setHostname" /\ req'[s].vm = req[s].vm
<1>1. /\ Step(s) \/ CallThrows(s) \/ AnswerLost(s)
      /\ Follows(req[s].pc, req'[s].pc) /\ ~AnswerStep(s) /\ ~Die
  BY LaterCalls DEF FirstPcs
<1>2. req[s].pc = "setHostname"
  BY <1>1 DEF Follows
<1>3. ChangeCTHostname(s)
  BY <1>1, <1>2 DEF Step, GetFreeIP, NextId, PostLxc, AddContainerToDatabase, MarkUsed,
     ReadConfig, CheckIP, DeleteLxc, GetIP, MarkUnused, DeleteContainerFromDB, GetContainerID,
     SetCTAsReady, AddIPToDatabase, RemoveIPFromDatabase, CallThrows, AnswerLost, InTry,
     Unhandled, AnswerStep
<1> QED BY <1>2, <1>3, GoesOnAs DEF ChangeCTHostname

(* What changes a row, or the column ready, changes both as it should.       *)
LEMMA ReadyRows ==
  ASSUME TypeOK, ready \subseteq {v \in VmIds : row[v] # None}, [Next]_vars
  PROVE  ready' \subseteq {v \in VmIds : row'[v] # None}
<1>1. ASSUME NEW r \in Requests, DeleteContainerFromDB(r)
      PROVE  ready' \subseteq {v \in VmIds : row'[v] # None}
  BY <1>1 DEF DeleteContainerFromDB, TypeOK
<1>2. ASSUME NEW r \in Requests, SetCTAsReady(r)
      PROVE  ready' \subseteq {v \in VmIds : row'[v] # None}
  <2>1. req[r].vm \in VmIds
    BY <1>2, RequestType DEF SetCTAsReady
  <2> QED BY <1>2, <2>1 DEF SetCTAsReady
<1>3. ASSUME NEW r \in Requests, AddContainerToDatabase(r)
      PROVE  ready' \subseteq {v \in VmIds : row'[v] # None}
  <2>1. req[r].vm \in VmIds /\ req[r].addr # None
    BY <1>3, RequestType, ProvisioningAssumption DEF AddContainerToDatabase
  <2> QED BY <1>3, <2>1 DEF AddContainerToDatabase, TypeOK
<1> QED BY <1>1, <1>2, <1>3, RowFrame, ReadyFrame

LEMMA ReadyStep ==
  MishapInv /\ ReadyInv /\ [MishapNext]_mishapVars => ReadyInv'
<1>1. SUFFICES ASSUME MishapInv, ReadyInv, [MishapNext]_mishapVars PROVE ReadyInv'
  OBVIOUS
<1>2. TypeOK /\ [Next]_vars
  BY <1>1 DEF MishapInv, MishapNext, mishapVars
<1>3. CASE UNCHANGED mishapVars
  BY <1>1, <1>3 DEF ReadyInv, mishapVars, history, vars
<1>4. CASE MishapNext
  <2>1. ASSUME NEW s \in Requests, req'[s].pc = "setReady", s \notin late'
        PROVE  req'[s].vm \in named'
    <3>1. req'[s].vm \in VmIds
      <4>1. CASE req'[s] = req[s]
        BY <1>2, <2>1, <4>1, RequestType
      <4>2. CASE req'[s] # req[s]
        <5>1. req[s].pc = "setHostname" /\ req'[s].vm = req[s].vm
          BY <1>2, <2>1, <4>2, ReadySteps
        <5> QED BY <1>2, <5>1, RequestType
      <4> QED BY <4>1, <4>2
    <3>2. CASE req'[s] = req[s]
      <4>1. s \notin late /\ ~Overtaken(s)
        BY <1>4, <2>1, <3>2 DEF MishapNext, Record, Renames
      <4>2. req[s].vm \in named /\ pve'[req[s].vm] = pve[req[s].vm]
        BY <1>1, <2>1, <3>2, <4>1 DEF ReadyInv, Overtaken
      <4> QED BY <1>2, <3>1, <3>2, <4>2, NamesGo
    <3>3. CASE req'[s] # req[s]
      <4>1. req[s].pc = "setHostname" /\ req'[s].vm = req[s].vm
        BY <1>2, <2>1, <3>3, ReadySteps
      <4>2. ~Overtaken(s)
        BY <1>4, <2>1, <4>1 DEF MishapNext, Record, Renames
      <4> QED BY <2>1, <4>1, <4>2 DEF Overtaken
    <3> QED BY <3>2, <3>3
  <2> QED BY <1>1, <1>2, <2>1, ReadyRows DEF ReadyInv
<1> QED BY <1>1, <1>3, <1>4

(* For every number of requests and containers, whatever fails: a container  *)
(* that runs is marked as ready without having its own hostname only by an   *)
(* agent's request that was overtaken after it had looked up the id          *)
(* (agent.ts:44-57).  No creation makes it so: neither a new container under *)
(* a row that is ready, nor a new row for one, unless at a spoiled address.  *)
THEOREM ReadyNamedUnlessLate == MishapSpec => ReadyIsNamedUnlessLate
<1>1. MishapInit => ReadyInv
  BY DEF MishapInit, Init, Idle, ReadyInv
<1>2. MishapSpec => []ReadyInv
  BY <1>1, ReadyStep, MishapInvariant, PTL DEF MishapSpec
<1>3. ASSUME MishapInv, MishapInv', ReadyInv, ReadyInv', [MishapNext]_mishapVars
      PROVE  [\A v \in VmIds :
                FalselyReady(v)' /\ ~FalselyReady(v) =>
                  \E r \in late : At(r, "setReady") /\ req[r].vm = v]_mishapVars
  <2> SUFFICES ASSUME MishapNext, NEW v \in VmIds, FalselyReady(v)', ~FalselyReady(v)
               PROVE  \E r \in late : At(r, "setReady") /\ req[r].vm = v
    BY <1>3
  <2>1. TypeOK /\ TypeOK' /\ [Next]_vars
    BY <1>3 DEF MishapInv, MishapNext
  <2>2. /\ v \in ready' /\ v \notin named' /\ pve'[v] = row'[v] /\ row'[v] \notin spoiled'
        /\ row'[v] # None /\ row'[v] \in Addrs
    BY <1>3, <2>1 DEF FalselyReady, ReadyInv, TypeOK
  <2>3. CASE v \notin ready
    <3>1. PICK r \in Requests : SetCTAsReady(r)
      BY <2>1, <2>2, <2>3, ReadyFrame DEF DeleteContainerFromDB
    <3>2. req[r].pc = "setReady" /\ req[r].vm = v /\ v \notin named
      BY <2>2, <2>3, <3>1 DEF SetCTAsReady, world
    <3> QED BY <1>3, <3>2 DEF ReadyInv
  <2>4. CASE v \in ready
    <3>1. row'[v] = row[v]
      <4>1. row[v] # None
        BY <1>3, <2>4 DEF ReadyInv
      <4> QED BY <2>1, <2>2, <4>1, RowFrame DEF AddContainerToDatabase, DeleteContainerFromDB, TypeOK
    <3>2. row[v] \notin spoiled
      BY <2>2, <3>1, Unspoiled DEF MishapNext
    <3>3. ~(pve'[v] = pve[v] /\ (v \in named => v \in named'))
      BY <2>2, <2>4, <3>1, <3>2 DEF FalselyReady
    <3>4. pve'[v] \notin {None, Outside}
      BY <2>2, ProvisioningAssumption
    <3>5. PICK r \in Requests : req[r].pc = "postLxc" /\ req[r].vm = v /\ pve'[v] = req[r].addr
      BY <2>1, <3>3, <3>4, NamesGo
    <3>6. Handles(r, row[v]) /\ Sound(row[v])
      BY <1>3, <2>2, <3>1, <3>2, <3>5 DEF Handles, Writers, CreatePcs, MishapInv
    <3>7. Holders(row[v]) = {}
      BY <3>5, <3>6 DEF Sound, Relies, Handles
    <3> QED BY <3>7 DEF Holders
  <2> QED BY <2>3, <2>4
<1>4. MishapSpec => [][MishapNext]_mishapVars
  BY DEF MishapSpec
<1> QED BY <1>2, <1>3, <1>4, MishapInvariant, PTL DEF ReadyIsNamedUnlessLate
=============================================================================
