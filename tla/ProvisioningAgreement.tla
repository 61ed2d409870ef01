------------------------ MODULE ProvisioningAgreement ------------------------
(***************************************************************************)
(* When clients send their writing requests one at a time and no call      *)
(* fails half-way (Serial), the cluster and the tables agree between       *)
(* requests, and cts implements Fleet.  Nothing in the code provides       *)
(* Serial: without it all of this is false, and what is left is proved in  *)
(* ProvisioningProofs.  Here is shown that overlaps and failures are the   *)
(* only reasons: the five calls of a creation and the six of a deletion,   *)
(* in their order, leave nothing behind.  For every number of containers,  *)
(* addresses, nodes and requests in flight; RequestFacts says what a       *)
(* request may rely on between two of its calls, and is why it holds.      *)
(***************************************************************************)
EXTENDS ProvisioningProofs

USE DEF At, Goto

(* An empty slot is at no call of any kind. *)
LEMMA IdlePc == Idle.pc = "idle" /\ \A kind \in Kinds : "idle" \notin PcsOf(kind)
BY PcsOfKinds DEF Idle, Kinds, CreatePcs, DeletePcs, InitPcs, PoolPcs

(* Exclusive kinds stay exclusive, and only idle slots hold an answer. *)
LEMMA SlotStep ==
  ASSUME TypeOK, OneAtATime, InFlightUnanswered, NEW r \in Requests, Control(r)
  PROVE  OneAtATime' /\ InFlightUnanswered'
<1>0. Exclusive \subseteq Kinds BY ProvisioningAssumption
<1>1. CASE BeginStep(r)
  <2>1. PICK kind, q : kind \in Kinds /\ Begin(r, kind, q) /\ q.pc \in PcsOf(kind)
    BY <1>1 DEF BeginStep
  <2>2. /\ MayBegin(kind)
        /\ req' = [req EXCEPT ![r] = q] /\ reply' = [reply EXCEPT ![r] = "none"]
    BY <2>1 DEF Begin
  <2>3. \A k \in Kinds : q.pc \in PcsOf(k) => k = kind
    BY <2>1, PcsOfKinds DEF Kinds, CreatePcs, DeletePcs, InitPcs, PoolPcs
  <2>4. req'[r] = q /\ \A s \in Requests \ {r} : req'[s] = req[s]
    BY <2>2 DEF TypeOK
  <2>5. OneAtATime'
    BY <1>0, <2>1, <2>2, <2>3, <2>4 DEF OneAtATime, MayBegin
  <2> QED BY <2>2, <2>4, <2>5 DEF InFlightUnanswered, TypeOK
<1>2. CASE ProceedStep(r)
  <2>1. PICK q : Proceed(r, q) /\ Follows(req[r].pc, q.pc)
    BY <1>2 DEF ProceedStep
  <2>2. /\ req'[r] = q /\ \A s \in Requests \ {r} : req'[s] = req[s]
        /\ reply' = reply
    BY <2>1 DEF Proceed, TypeOK
  <2>3. OneAtATime'
    BY <1>0, <2>1, <2>2, FollowsKind DEF OneAtATime
  <2> QED BY <2>1, <2>2, <2>3, FollowsKind DEF InFlightUnanswered
<1>3. CASE AnswerStep(r)
  <2>1. PICK code : Answer(r, code)
    BY <1>3 DEF AnswerStep
  <2>2. /\ req'[r] = Idle
        /\ \A s \in Requests \ {r} : req'[s] = req[s] /\ reply'[s] = reply[s]
    BY <2>1 DEF Answer, TypeOK
  <2>3. OneAtATime'
    BY <1>0, <2>2, IdlePc DEF OneAtATime
  <2> QED BY <2>2, <2>3, IdlePc DEF InFlightUnanswered
<1>4. CASE RefuseStep(r)
  BY <1>4 DEF RefuseStep, AnswerAtOnce, OneAtATime, InFlightUnanswered, TypeOK
<1>5. CASE Die
  <2>1. \A s \in Requests : req'[s] = Idle
    BY <1>5 DEF Die
  <2> QED BY <1>0, <2>1, IdlePc DEF OneAtATime, InFlightUnanswered
<1> QED BY <1>1, <1>2, <1>3, <1>4, <1>5 DEF Control

(* So does every step of the system. *)
LEMMA SlotsStep ==
  ASSUME TypeOK, OneAtATime, InFlightUnanswered, [Next]_vars
  PROVE  OneAtATime' /\ InFlightUnanswered'
<1>1. CASE \E r \in Requests : Arrival(r) \/ Step(r) \/ CallThrows(r) \/ AnswerLost(r)
  BY <1>1, ControlSteps, SlotStep
<1>2. CASE Crash
  <2>1. \A s \in Requests : req'[s] = Idle
    BY <1>2 DEF Crash, Die
  <2> QED BY <2>1, IdlePc, ProvisioningAssumption DEF OneAtATime, InFlightUnanswered
<1>3. CASE Operator \/ UNCHANGED vars
  <2>1. UNCHANGED <<req, reply>>
    BY <1>3 DEF Operator, OperatorCreate, OperatorDestroy, OperatorLinks, vars
  <2> QED BY <2>1 DEF OneAtATime, InFlightUnanswered
<1> QED BY <1>1, <1>2, <1>3 DEF Next

-----------------------------------------------------------------------------
(* The stores as the only writing request sees them.                        *)

(* SerialInv when q is the only request that may be writing. *)
WriterInv(q) ==
  /\ UniqueIps /\ DistinctAddresses /\ RowsArePooled
  /\ \A v \in VmIds : row[v] # None =>
       pve[v] = row[v] \/ (q.pc \in {"getIP", "markUnused", "deleteRow"} /\ q.vm = v)
  /\ \A v \in VmIds : pve[v] \in Addrs =>
       row[v] = pve[v] \/ (q.pc = "insertRow" /\ q.vm = v)
  /\ \A k \in Keys : ipv4[k] # None =>
       /\ k \in used => Holders(ipv4[k]) # {}
       /\ Holders(ipv4[k]) # {} =>
            k \in used \/ (q.pc \in {"markUsed", "markUnused", "deleteRow"} /\ q.key = k)
  /\ CreateFacts(q) /\ DeleteFacts(q) /\ PoolFacts(q)

(* The part of SerialInv that is about the stores. *)
StoresInv == /\ UniqueIps /\ DistinctAddresses /\ RowsArePooled
             /\ RowHasContainer /\ ContainerHasRow /\ UsedIsHeld
             /\ RequestFacts

(* Where a request is that writes, or that will once it knows its address. *)
Busy == Writers \cup {"readConfig"}

(* Serial leaves at most one request that writes. *)
LEMMA OnlyWriter ==
  ASSUME Serial, OneAtATime, NEW r \in Requests, req[r].pc \in Busy,
         NEW s \in Requests \ {r}
  PROVE  req[s].pc \notin Busy
BY PcsOfKinds DEF Serial, OneAtATime, Writers, Busy

(* With one writer, what holds of all requests is what holds of that one ... *)
LEMMA Localize ==
  ASSUME StoresInv, NEW r \in Requests,
         \A s \in Requests \ {r} : req[s].pc \notin Writers
  PROVE  WriterInv(req[r])
<1> USE DEF StoresInv, Writers, CreatePcs, DeletePcs
<1>1. \A v \in VmIds : row[v] # None =>
        pve[v] = row[v] \/ (req[r].pc \in {"getIP", "markUnused", "deleteRow"} /\ req[r].vm = v)
  BY DEF RowHasContainer
<1>2. \A v \in VmIds : pve[v] \in Addrs =>
        row[v] = pve[v] \/ (req[r].pc = "insertRow" /\ req[r].vm = v)
  BY DEF ContainerHasRow
<1>3. \A k \in Keys : ipv4[k] # None =>
        /\ k \in used => Holders(ipv4[k]) # {}
        /\ Holders(ipv4[k]) # {} =>
             k \in used \/ (req[r].pc \in {"markUsed", "markUnused", "deleteRow"} /\ req[r].key = k)
  BY DEF UsedIsHeld
<1> QED BY <1>1, <1>2, <1>3 DEF WriterInv, RequestFacts

(* A request that does not write relies on nothing. *)
LEMMA NoFacts ==
  ASSUME NEW s \in Requests
  PROVE  /\ req[s].pc \notin Writers =>
              CreateFacts(req[s]) /\ DeleteFacts(req[s]) /\ PoolFacts(req[s])
         /\ req'[s].pc \notin Writers =>
              CreateFacts(req[s])' /\ DeleteFacts(req[s])' /\ PoolFacts(req[s])'
BY DEF Writers, CreatePcs, DeletePcs, PoolPcs, CreateFacts, DeleteFacts, PoolFacts

(* ... and the other way round after the step. *)
LEMMA Globalize ==
  ASSUME NEW r \in Requests, WriterInv(req[r])',
         \A s \in Requests \ {r} : req'[s].pc \notin Writers
  PROVE  StoresInv'
<1> USE DEF WriterInv
<1>1. RowHasContainer' BY DEF RowHasContainer
<1>2. ContainerHasRow' BY DEF ContainerHasRow
<1>3. UsedIsHeld' BY DEF UsedIsHeld
<1>4. RequestFacts' BY NoFacts DEF RequestFacts
<1> QED BY <1>1, <1>2, <1>3, <1>4 DEF StoresInv

-----------------------------------------------------------------------------
(* Every call of a writing request keeps WriterInv. *)

(* With the stores as they were, an idle slot keeps WriterInv if the        *)
(* request was not in the middle of its writes.                             *)
LEMMA ReadOnly ==
  ASSUME NEW r \in Requests, WriterInv(req[r]), UNCHANGED <<row, ipv4, used, pve>>,
         req[r].pc \notin {"insertRow", "markUsed", "getIP", "markUnused", "deleteRow"},
         CreateFacts(req[r])', DeleteFacts(req[r])', PoolFacts(req[r])'
  PROVE  WriterInv(req[r])'
BY DEF WriterInv, UniqueIps, DistinctAddresses, RowsArePooled, InPool, Holders

(* A request that moves on keeps its fields. *)
LEMMA GotoAfter ==
  ASSUME TypeOK, NEW r \in Requests, NEW pc, Goto(r, pc)
  PROVE  /\ req'[r].pc = pc /\ req'[r].key = req[r].key /\ req'[r].addr = req[r].addr
         /\ req'[r].vm = req[r].vm /\ req'[r].ok = req[r].ok
<1>1. req'[r] = [req[r] EXCEPT !.pc = pc] BY SlotAfter
<1> QED BY <1>1, RequestType DEF Fields

(* An answer that changed nothing. *)
LEMMA AnswerReadOnly ==
  ASSUME TypeOK, NEW r \in Requests, NEW code, WriterInv(req[r]), Answer(r, code),
         UNCHANGED <<row, ipv4, used, pve>>,
         req[r].pc \notin {"insertRow", "markUsed", "getIP", "markUnused", "deleteRow"}
  PROVE  WriterInv(req[r])'
<1>1. req'[r].pc \notin Writers
  BY SlotAfter DEF Idle, Writers, CreatePcs, DeletePcs, PoolPcs
<1> QED BY <1>1, NoFacts, ReadOnly

(* The address read is in the pool, not used, and in no row. *)
LEMMA GetFreeIPStep ==
  ASSUME TypeOK, NEW r \in Requests, WriterInv(req[r]), GetFreeIP(r)
  PROVE  WriterInv(req[r])'
<1>1. req[r].pc = "getFreeIP" /\ UNCHANGED <<row, ipv4, used, pve>>
  BY DEF GetFreeIP, db, world
<1>2. CASE Answer(r, "conflict")
  BY <1>1, <1>2, AnswerReadOnly
<1>3. ASSUME NEW k \in FreeKeys(req[r].node),
             Proceed(r, [req[r] EXCEPT !.pc = "nextid", !.key = k, !.addr = ipv4[k]])
      PROVE  WriterInv(req[r])'
  <2>1. k \in Keys /\ ipv4[k] # None /\ k \notin used
    BY DEF FreeKeys
  <2>2. Holders(ipv4[k]) = {}
    BY <1>1, <2>1 DEF WriterInv
  <2>3. req'[r].pc = "nextid" /\ req'[r].key = k /\ req'[r].addr = ipv4[k]
    <3>1. req'[r] = [req[r] EXCEPT !.pc = "nextid", !.key = k, !.addr = ipv4[k]]
      BY <1>3, SlotAfter
    <3> QED BY <3>1, RequestType DEF Fields
  <2>4. CreateFacts(req[r])'
    BY <1>1, <2>1, <2>2, <2>3 DEF CreateFacts, Holders
  <2>5. DeleteFacts(req[r])' /\ PoolFacts(req[r])'
    BY <2>3 DEF DeleteFacts, PoolFacts, DeletePcs
  <2> QED BY <1>1, <2>4, <2>5, ReadOnly
<1> QED BY <1>2, <1>3 DEF GetFreeIP

(* The id proposed changes nothing. *)
LEMMA NextIdStep ==
  ASSUME TypeOK, NEW r \in Requests, WriterInv(req[r]), NextId(r)
  PROVE  WriterInv(req[r])'
<1>1. req[r].pc = "nextid" /\ UNCHANGED <<row, ipv4, used, pve>>
  BY DEF NextId, db, world
<1>2. CASE Answer(r, "conflict")
  BY <1>1, <1>2, AnswerReadOnly
<1>3. ASSUME NEW v \in VmIds, Proceed(r, [req[r] EXCEPT !.pc = "postLxc", !.vm = v])
      PROVE  WriterInv(req[r])'
  <2>1. req'[r].pc = "postLxc" /\ req'[r].key = req[r].key /\ req'[r].addr = req[r].addr
    <3>1. req'[r] = [req[r] EXCEPT !.pc = "postLxc", !.vm = v] BY <1>3, SlotAfter
    <3> QED BY <3>1, RequestType DEF Fields
  <2>2. CreateFacts(req[r])'
    BY <1>1, <2>1 DEF WriterInv, CreateFacts, Holders
  <2>3. DeleteFacts(req[r])' /\ PoolFacts(req[r])'
    BY <2>1 DEF DeleteFacts, PoolFacts, DeletePcs
  <2> QED BY <1>1, <2>2, <2>3, ReadOnly
<1> QED BY <1>2, <1>3 DEF NextId

(* Proxmox starts a container at an id that has no row. *)
LEMMA PostLxcStep ==
  ASSUME TypeOK, NEW r \in Requests, WriterInv(req[r]), PostLxc(r)
  PROVE  WriterInv(req[r])'
<1>1. req[r].pc = "postLxc" /\ UNCHANGED <<row, ipv4, used>>
  BY DEF PostLxc, db
<1>2. CASE Answer(r, "conflict") /\ UNCHANGED world
  BY <1>1, <1>2, AnswerReadOnly DEF world
<1>3. CASE Launch(r) /\ Goto(r, "insertRow")
  <2> DEFINE v == req[r].vm
             a == req[r].addr
  <2>1. v \in VmIds /\ a \in Addrs /\ a # None
    BY <1>1, RequestType, ProvisioningAssumption
  <2>2. pve[v] = None /\ pve' = [pve EXCEPT ![v] = a]
    BY <1>3 DEF Launch
  <2>3. row[v] = None
    <3>1. row[v] # None => row[v] \in Addrs BY <2>1 DEF TypeOK
    <3> QED BY <1>1, <2>1, <2>2, <3>1, ProvisioningAssumption DEF WriterInv
  <2>4. req'[r].pc = "insertRow" /\ req'[r].key = req[r].key
          /\ req'[r].addr = a /\ req'[r].vm = v
    BY <1>3, GotoAfter
  <2>5. Holders(a) = {} /\ ipv4[req[r].key] = a /\ req[r].key \notin used
    BY <1>1 DEF WriterInv, CreateFacts
  <2>6. CreateFacts(req[r])'
    BY <1>1, <2>1, <2>2, <2>3, <2>4, <2>5 DEF CreateFacts, Holders, TypeOK
  <2>7. DeleteFacts(req[r])' /\ PoolFacts(req[r])'
    BY <2>4 DEF DeleteFacts, PoolFacts, DeletePcs
  <2>8. UniqueIps' /\ DistinctAddresses' /\ RowsArePooled'
    BY <1>1 DEF WriterInv, UniqueIps, DistinctAddresses, RowsArePooled, InPool
  <2>9. \A w \in VmIds : row'[w] # None => pve'[w] = row'[w]
    BY <1>1, <2>1, <2>2, <2>3 DEF WriterInv, TypeOK
  <2>10. \A w \in VmIds : pve'[w] \in Addrs => row'[w] = pve'[w] \/ w = v
    BY <1>1, <2>1, <2>2 DEF WriterInv, TypeOK
  <2>11. \A k \in Keys : ipv4'[k] # None => (k \in used' <=> Holders(ipv4[k])' # {})
    BY <1>1 DEF WriterInv, Holders
  <2> QED BY <2>4, <2>6, <2>7, <2>8, <2>9, <2>10, <2>11 DEF WriterInv
<1> QED BY <1>2, <1>3 DEF PostLxc

(* The row of the container that has just been started is inserted. *)
LEMMA AddContainerStep ==
  ASSUME TypeOK, NEW r \in Requests, WriterInv(req[r]), AddContainerToDatabase(r)
  PROVE  WriterInv(req[r])'
<1> DEFINE v == req[r].vm
           a == req[r].addr
           j == req[r].key
<1>1. req[r].pc = "insertRow" /\ UNCHANGED <<ipv4, used, pve>>
  BY DEF AddContainerToDatabase, world
<1>2. v \in VmIds /\ a \in Addrs /\ a # None /\ j \in Keys
  BY <1>1, RequestType, ProvisioningAssumption
<1>3. pve[v] = a /\ row[v] = None /\ Holders(a) = {} /\ ipv4[j] = a /\ j \notin used
  BY <1>1 DEF WriterInv, CreateFacts
<1>4. row' = [row EXCEPT ![v] = a] /\ Goto(r, "markUsed")
  BY <1>3 DEF AddContainerToDatabase
<1>5. req'[r].pc = "markUsed" /\ req'[r].key = j /\ req'[r].addr = a /\ req'[r].vm = v
  BY <1>4, GotoAfter
<1>6. row'[v] = a /\ \A w \in VmIds \ {v} : row'[w] = row[w] /\ row[w] # a
  BY <1>2, <1>3, <1>4 DEF TypeOK, Holders
<1>7. UniqueIps'
  BY <1>1 DEF WriterInv, UniqueIps
<1>8. DistinctAddresses'
  BY <1>2, <1>6 DEF WriterInv, DistinctAddresses
<1>9. RowsArePooled'
  BY <1>1, <1>2, <1>3, <1>6 DEF WriterInv, RowsArePooled, InPool
<1>10. \A w \in VmIds : row'[w] # None => pve'[w] = row'[w]
  BY <1>1, <1>3, <1>6 DEF WriterInv
<1>11. \A w \in VmIds : pve'[w] \in Addrs => row'[w] = pve'[w]
  BY <1>1, <1>3, <1>6 DEF WriterInv
<1>12. \A k \in Keys : ipv4'[k] # None =>
         /\ k \in used' => Holders(ipv4[k])' # {}
         /\ Holders(ipv4[k])' # {} => k \in used' \/ k = j
  <2> SUFFICES ASSUME NEW k \in Keys, ipv4[k] # None
               PROVE  /\ k \in used => Holders(ipv4[k])' # {}
                      /\ Holders(ipv4[k])' # {} => k \in used \/ k = j
    BY <1>1
  <2>1. k \in used <=> Holders(ipv4[k]) # {}
    BY <1>1 DEF WriterInv
  <2>2. CASE ipv4[k] = a
    BY <1>2, <1>3, <2>1, <2>2 DEF WriterInv, UniqueIps
  <2>3. CASE ipv4[k] # a
    <3>1. \A w \in VmIds : row'[w] = ipv4[k] <=> row[w] = ipv4[k]
      BY <1>2, <1>3, <1>6, <2>3
    <3> QED BY <1>1, <2>1, <3>1 DEF Holders
  <2> QED BY <2>2, <2>3
<1>13. CreateFacts(req[r])' /\ DeleteFacts(req[r])' /\ PoolFacts(req[r])'
  BY <1>1, <1>3, <1>5, <1>6 DEF CreateFacts, DeleteFacts, PoolFacts, DeletePcs
<1> QED BY <1>5, <1>7, <1>8, <1>9, <1>10, <1>11, <1>12, <1>13 DEF WriterInv

(* The flag is set, the creation is complete and answered 201. *)
LEMMA MarkUsedStep ==
  ASSUME TypeOK, NEW r \in Requests, WriterInv(req[r]), MarkUsed(r)
  PROVE  /\ WriterInv(req[r])'
         /\ Answer(r, "created")
<1> DEFINE j == req[r].key
           a == req[r].addr
<1>1. req[r].pc = "markUsed" /\ UNCHANGED <<row, ipv4, pve>>
  BY DEF MarkUsed, world
<1>2. j \in Keys /\ a \in Addrs /\ a # None
  BY <1>1, RequestType, ProvisioningAssumption
<1>3. ipv4[j] = a /\ row[req[r].vm] = a /\ req[r].vm \in VmIds
  BY <1>1, RequestType DEF WriterInv, CreateFacts
<1>4. used' = used \cup {j} /\ Answer(r, "created")
  BY <1>2, <1>3 DEF MarkUsed
<1>5. req'[r].pc \notin Writers
  BY <1>4, SlotAfter DEF Idle, Writers, CreatePcs, DeletePcs, PoolPcs
<1>6. UniqueIps' /\ DistinctAddresses' /\ RowsArePooled'
  BY <1>1 DEF WriterInv, UniqueIps, DistinctAddresses, RowsArePooled, InPool
<1>7. \A v \in VmIds : row'[v] # None => pve'[v] = row'[v]
  BY <1>1 DEF WriterInv
<1>8. \A v \in VmIds : pve'[v] \in Addrs => row'[v] = pve'[v]
  BY <1>1 DEF WriterInv
<1>9. \A k \in Keys : ipv4'[k] # None => (k \in used' <=> Holders(ipv4[k])' # {})
  BY <1>1, <1>2, <1>3, <1>4 DEF WriterInv, Holders
<1> QED BY <1>1, <1>4, <1>5, <1>6, <1>7, <1>8, <1>9, NoFacts DEF WriterInv

(* The address Proxmox gives is the container's, or there is an end. *)
LEMMA ReadConfigStep ==
  ASSUME TypeOK, NEW r \in Requests, WriterInv(req[r]), ReadConfig(r)
  PROVE  WriterInv(req[r])'
<1> DEFINE v == req[r].vm
<1>1. req[r].pc = "readConfig" /\ UNCHANGED <<row, ipv4, used, pve>> /\ v \in VmIds
  BY RequestType DEF ReadConfig, db, world
<1>2. CASE Unhandled(r)
  <2>1. req'[r].pc \notin Writers
    BY <1>2, SlotAfter DEF Unhandled, Die, Idle, Writers, CreatePcs, DeletePcs, PoolPcs
  <2> QED BY <1>1, <2>1, NoFacts, ReadOnly
<1>3. CASE pve[v] # None /\ Proceed(r, [req[r] EXCEPT !.pc = "checkIP", !.addr = pve[v]])
  <2>1. req'[r].pc = "checkIP" /\ req'[r].vm = v /\ req'[r].addr = pve[v]
    <3>1. req'[r] = [req[r] EXCEPT !.pc = "checkIP", !.addr = pve[v]]
      BY <1>3, SlotAfter
    <3> QED BY <3>1, RequestType DEF Fields
  <2>2. pve[v] = Outside \/ pve[v] \in Addrs
    BY <1>1, <1>3 DEF TypeOK
  <2>3. CreateFacts(req[r])' /\ DeleteFacts(req[r])' /\ PoolFacts(req[r])'
    BY <1>1, <2>1, <2>2 DEF CreateFacts, DeleteFacts, PoolFacts, DeletePcs
  <2> QED BY <1>1, <2>3, ReadOnly
<1> QED BY <1>2, <1>3 DEF ReadConfig

(* Past the check, the row of the container is there with its address. *)
LEMMA CheckIPStep ==
  ASSUME TypeOK, NEW r \in Requests, WriterInv(req[r]), CheckIP(r)
  PROVE  WriterInv(req[r])'
<1> DEFINE v == req[r].vm
           a == req[r].addr
<1>1. req[r].pc = "checkIP" /\ UNCHANGED <<row, ipv4, used, pve>> /\ v \in VmIds
  BY RequestType DEF CheckIP, db, world, DeletePcs
<1>2. CASE Answer(r, "not acceptable")
  BY <1>1, <1>2, AnswerReadOnly
<1>3. CASE Holders(a) # {} /\ Goto(r, "deleteLxc")
  <2>1. a # Outside
    BY <1>3, ProvisioningAssumption DEF Holders, TypeOK
  <2>2. a \in Addrs /\ pve[v] = a
    BY <1>1, <2>1 DEF WriterInv, DeleteFacts
  <2>3. row[v] = a
    BY <1>1, <2>2 DEF WriterInv
  <2>4. req'[r].pc = "deleteLxc" /\ req'[r].addr = a /\ req'[r].vm = v
    BY <1>3, GotoAfter
  <2>5. DeleteFacts(req[r])'
    BY <1>1, <2>2, <2>3, <2>4 DEF DeleteFacts
  <2>6. CreateFacts(req[r])' /\ PoolFacts(req[r])'
    BY <2>4 DEF CreateFacts, PoolFacts
  <2> QED BY <1>1, <2>5, <2>6, ReadOnly
<1> QED BY <1>2, <1>3 DEF CheckIP

(* Proxmox deletes the container; its row stays behind. *)
LEMMA DeleteLxcStep ==
  ASSUME Serial, TypeOK, NEW r \in Requests, WriterInv(req[r]), DeleteLxc(r)
  PROVE  WriterInv(req[r])'
<1> DEFINE v == req[r].vm
           a == req[r].addr
<1>1. req[r].pc = "deleteLxc" /\ UNCHANGED <<row, ipv4, used>> /\ v \in VmIds
  BY RequestType DEF DeleteLxc, db, DeletePcs
<1>2. a \in Addrs /\ row[v] = a /\ pve[v] = a /\ a # None
  BY <1>1, ProvisioningAssumption DEF WriterInv, DeleteFacts
<1>3. Destroy(r) /\ Proceed(r, [req[r] EXCEPT !.pc = "getIP", !.ok = TRUE])
  BY <1>2 DEF DeleteLxc, Serial
<1>4. pve' = [pve EXCEPT ![v] = None]
  BY <1>3 DEF Destroy
<1>5. req'[r].pc = "getIP" /\ req'[r].addr = a /\ req'[r].vm = v /\ req'[r].ok
  <2>1. req'[r] = [req[r] EXCEPT !.pc = "getIP", !.ok = TRUE] BY <1>3, SlotAfter
  <2> QED BY <2>1, RequestType DEF Fields
<1>6. pve'[v] = None /\ \A w \in VmIds \ {v} : pve'[w] = pve[w]
  BY <1>1, <1>4 DEF TypeOK
<1>7. UniqueIps' /\ DistinctAddresses' /\ RowsArePooled'
  BY <1>1 DEF WriterInv, UniqueIps, DistinctAddresses, RowsArePooled, InPool
<1>8. \A w \in VmIds : row'[w] # None => pve'[w] = row'[w] \/ w = v
  BY <1>1, <1>6 DEF WriterInv
<1>9. \A w \in VmIds : pve'[w] \in Addrs => row'[w] = pve'[w]
  BY <1>1, <1>6, ProvisioningAssumption DEF WriterInv
<1>10. \A k \in Keys : ipv4'[k] # None => (k \in used' <=> Holders(ipv4[k])' # {})
  BY <1>1 DEF WriterInv, Holders
<1>11. CreateFacts(req[r])' /\ DeleteFacts(req[r])' /\ PoolFacts(req[r])'
  BY <1>1, <1>2, <1>5, <1>6, ProvisioningAssumption DEF CreateFacts, DeleteFacts, PoolFacts
<1> QED BY <1>1, <1>5, <1>7, <1>8, <1>9, <1>10, <1>11 DEF WriterInv

(* The row of the address is found, since the pool holds it. *)
LEMMA GetIPStep ==
  ASSUME TypeOK, NEW r \in Requests, WriterInv(req[r]), GetIP(r)
  PROVE  WriterInv(req[r])'
<1> DEFINE v == req[r].vm
           a == req[r].addr
<1>1. req[r].pc = "getIP" /\ UNCHANGED <<row, ipv4, used, pve>> /\ v \in VmIds
  BY RequestType DEF GetIP, db, world, DeletePcs
<1>2. a \in Addrs /\ a # None /\ row[v] = a /\ pve[v] \notin Addrs /\ req[r].ok
  BY <1>1, ProvisioningAssumption DEF WriterInv, DeleteFacts
<1>3. PICK k \in Keys :
        ipv4[k] = a /\ Proceed(r, [req[r] EXCEPT !.pc = "markUnused", !.key = k])
  <2>1. \E k \in Keys : ipv4[k] = a
    BY <1>1, <1>2 DEF WriterInv, RowsArePooled, InPool
  <2> QED BY <2>1 DEF GetIP
<1>4. /\ req'[r].pc = "markUnused" /\ req'[r].addr = a /\ req'[r].vm = v /\ req'[r].ok
      /\ req'[r].key = k
  <2>1. req'[r] = [req[r] EXCEPT !.pc = "markUnused", !.key = k] BY <1>3, SlotAfter
  <2> QED BY <1>2, <2>1, RequestType DEF Fields
<1>5. UniqueIps' /\ DistinctAddresses' /\ RowsArePooled'
  BY <1>1 DEF WriterInv, UniqueIps, DistinctAddresses, RowsArePooled, InPool
<1>6. \A w \in VmIds : row'[w] # None => pve'[w] = row'[w] \/ w = v
  BY <1>1 DEF WriterInv
<1>7. \A w \in VmIds : pve'[w] \in Addrs => row'[w] = pve'[w]
  BY <1>1 DEF WriterInv
<1>8. \A i \in Keys : ipv4'[i] # None => (i \in used' <=> Holders(ipv4[i])' # {})
  BY <1>1 DEF WriterInv, Holders
<1>9. CreateFacts(req[r])' /\ DeleteFacts(req[r])' /\ PoolFacts(req[r])'
  BY <1>1, <1>2, <1>3, <1>4 DEF CreateFacts, DeleteFacts, PoolFacts
<1> QED BY <1>1, <1>4, <1>5, <1>6, <1>7, <1>8, <1>9 DEF WriterInv

(* The flag is reset while the row still holds the address. *)
LEMMA MarkUnusedStep ==
  ASSUME TypeOK, NEW r \in Requests, WriterInv(req[r]), MarkUnused(r)
  PROVE  WriterInv(req[r])'
<1> DEFINE v == req[r].vm
           a == req[r].addr
           j == req[r].key
<1>1. /\ req[r].pc = "markUnused" /\ UNCHANGED <<row, ipv4, pve>>
      /\ v \in VmIds /\ j \in Keys
  BY RequestType DEF MarkUnused, world, DeletePcs
<1>2. /\ a \in Addrs /\ a # None /\ row[v] = a /\ pve[v] \notin Addrs /\ req[r].ok
      /\ ipv4[j] = a
  BY <1>1, ProvisioningAssumption DEF WriterInv, DeleteFacts
<1>3. used' = used \ {j} /\ Goto(r, "deleteRow")
  BY <1>2 DEF MarkUnused
<1>4. /\ req'[r].pc = "deleteRow" /\ req'[r].addr = a /\ req'[r].vm = v /\ req'[r].ok
      /\ req'[r].key = j
  BY <1>2, <1>3, GotoAfter
<1>5. UniqueIps' /\ DistinctAddresses' /\ RowsArePooled'
  BY <1>1 DEF WriterInv, UniqueIps, DistinctAddresses, RowsArePooled, InPool
<1>6. \A w \in VmIds : row'[w] # None => pve'[w] = row'[w] \/ w = v
  BY <1>1 DEF WriterInv
<1>7. \A w \in VmIds : pve'[w] \in Addrs => row'[w] = pve'[w]
  BY <1>1 DEF WriterInv
<1>8. \A i \in Keys : ipv4'[i] # None =>
        /\ i \in used' => Holders(ipv4[i])' # {}
        /\ Holders(ipv4[i])' # {} => i \in used' \/ i = j
  BY <1>1, <1>3 DEF WriterInv, Holders
<1>9. CreateFacts(req[r])' /\ DeleteFacts(req[r])' /\ PoolFacts(req[r])'
  BY <1>1, <1>2, <1>3, <1>4 DEF CreateFacts, DeleteFacts, PoolFacts
<1> QED BY <1>4, <1>5, <1>6, <1>7, <1>8, <1>9 DEF WriterInv

(* The row goes, and with it the deletion is complete. *)
LEMMA DeleteRowStep ==
  ASSUME TypeOK, NEW r \in Requests, WriterInv(req[r]), DeleteContainerFromDB(r)
  PROVE  WriterInv(req[r])'
<1> DEFINE v == req[r].vm
           a == req[r].addr
           j == req[r].key
<1>1. /\ req[r].pc = "deleteRow" /\ UNCHANGED <<ipv4, used, pve>>
      /\ v \in VmIds /\ j \in Keys
  BY RequestType DEF DeleteContainerFromDB, world, DeletePcs
<1>2. /\ a \in Addrs /\ a # None /\ row[v] = a /\ pve[v] \notin Addrs
      /\ ipv4[j] = a /\ j \notin used
  BY <1>1, ProvisioningAssumption DEF WriterInv, DeleteFacts
<1>3. row' = [row EXCEPT ![v] = None] /\ \E code : Answer(r, code)
  BY <1>2 DEF DeleteContainerFromDB
<1>4. row'[v] = None /\ \A w \in VmIds \ {v} : row'[w] = row[w]
  BY <1>1, <1>3 DEF TypeOK
<1>5. req'[r].pc \notin Writers
  BY <1>3, SlotAfter DEF Idle, Writers, CreatePcs, DeletePcs, PoolPcs
<1>6. UniqueIps' /\ DistinctAddresses' /\ RowsArePooled'
  BY <1>1, <1>4 DEF WriterInv, UniqueIps, DistinctAddresses, RowsArePooled, InPool
<1>7. \A w \in VmIds : row'[w] # None => pve'[w] = row'[w]
  BY <1>1, <1>4 DEF WriterInv
<1>8. \A w \in VmIds : pve'[w] \in Addrs => row'[w] = pve'[w]
  BY <1>1, <1>2, <1>4 DEF WriterInv
<1>9. \A k \in Keys : ipv4'[k] # None => (k \in used' <=> Holders(ipv4[k])' # {})
  <2> SUFFICES ASSUME NEW k \in Keys, ipv4[k] # None
               PROVE  k \in used <=> Holders(ipv4[k])' # {}
    BY <1>1
  <2>1. CASE k = j
    <3>1. \A w \in VmIds : row'[w] # a
      BY <1>1, <1>2, <1>4 DEF WriterInv, DistinctAddresses
    <3> QED BY <1>1, <1>2, <2>1, <3>1 DEF Holders
  <2>2. CASE k # j
    <3>1. ipv4[k] # a
      BY <1>1, <1>2, <2>2 DEF WriterInv, UniqueIps
    <3>2. \A w \in VmIds : row'[w] = ipv4[k] <=> row[w] = ipv4[k]
      BY <1>2, <1>4, <3>1
    <3> QED BY <1>1, <2>2, <3>2 DEF WriterInv, Holders
  <2> QED BY <2>1, <2>2
<1> QED BY <1>5, <1>6, <1>7, <1>8, <1>9, NoFacts DEF WriterInv

(* An address new to the pool is in no row of cts. *)
LEMMA AddIPStep ==
  ASSUME TypeOK, NEW r \in Requests, WriterInv(req[r]), AddIPToDatabase(r)
  PROVE  WriterInv(req[r])'
<1>1. /\ req[r].pc = "insertIp" /\ UNCHANGED <<row, pve>>
      /\ req[r].todo \subseteq Addrs /\ \A b \in req[r].todo : ~InPool(b)
  BY RequestType DEF AddIPToDatabase, world, WriterInv, PoolFacts
<1>2. PICK a \in req[r].todo, k \in FreshKeys :
        /\ ipv4' = [ipv4 EXCEPT ![k] = a]
        /\ used' = used \ {k}
        /\ IF req[r].todo = {a}
             THEN Answer(r, "created")
             ELSE Proceed(r, [req[r] EXCEPT !.todo = @ \ {a}])
  BY <1>1 DEF AddIPToDatabase
<1>3. /\ a \in Addrs /\ a # None /\ k \in Keys /\ ipv4[k] = None
      /\ \A i \in Keys : ipv4[i] # a
  BY <1>1, ProvisioningAssumption DEF FreshKeys, InPool
<1>4. ipv4'[k] = a /\ \A i \in Keys \ {k} : ipv4'[i] = ipv4[i]
  BY <1>2, <1>3 DEF TypeOK
<1>5. UniqueIps'
  BY <1>3, <1>4 DEF WriterInv, UniqueIps
<1>6. DistinctAddresses'
  BY <1>1 DEF WriterInv, DistinctAddresses
<1>7. RowsArePooled'
  BY <1>1, <1>3, <1>4 DEF WriterInv, RowsArePooled, InPool
<1>8. \A w \in VmIds : row'[w] # None => pve'[w] = row'[w]
  BY <1>1 DEF WriterInv
<1>9. \A w \in VmIds : pve'[w] \in Addrs => row'[w] = pve'[w]
  BY <1>1 DEF WriterInv
<1>10. \A i \in Keys : ipv4'[i] # None => (i \in used' <=> Holders(ipv4[i])' # {})
  <2>1. \A w \in VmIds : row[w] # a
    BY <1>3 DEF WriterInv, RowsArePooled, InPool
  <2>2. Holders(ipv4[k])' = {} /\ k \notin used'
    BY <1>1, <1>2, <1>4, <2>1 DEF Holders
  <2>3. ASSUME NEW i \in Keys \ {k}, ipv4[i] # None
        PROVE  i \in used' <=> Holders(ipv4[i])' # {}
    BY <1>1, <1>2, <1>4, <2>3 DEF WriterInv, Holders
  <2> QED BY <1>4, <2>2, <2>3
<1>11. CASE Answer(r, "created")
  <2>1. req'[r].pc \notin Writers
    BY <1>11, SlotAfter DEF Idle, Writers, CreatePcs, DeletePcs, PoolPcs
  <2> QED BY <2>1, <1>5, <1>6, <1>7, <1>8, <1>9, <1>10, NoFacts DEF WriterInv
<1>12. CASE Proceed(r, [req[r] EXCEPT !.todo = @ \ {a}])
  <2>1. req'[r].pc = "insertIp" /\ req'[r].todo = req[r].todo \ {a}
    <3>1. req'[r] = [req[r] EXCEPT !.todo = @ \ {a}] BY <1>12, SlotAfter
    <3> QED BY <1>1, <3>1, RequestType DEF Fields
  <2>2. PoolFacts(req[r])'
    BY <1>1, <1>3, <1>4, <2>1 DEF PoolFacts, InPool
  <2>3. CreateFacts(req[r])' /\ DeleteFacts(req[r])'
    BY <2>1 DEF CreateFacts, DeleteFacts, DeletePcs
  <2> QED BY <2>1, <2>2, <2>3, <1>5, <1>6, <1>7, <1>8, <1>9, <1>10 DEF WriterInv
<1> QED BY <1>2, <1>11, <1>12

(* An address that no container holds leaves the pool. *)
LEMMA RemoveIPStep ==
  ASSUME TypeOK, NEW r \in Requests, WriterInv(req[r]), RemoveIPFromDatabase(r)
  PROVE  WriterInv(req[r])'
<1> DEFINE a == req[r].addr
<1>1. /\ req[r].pc = "deleteIp" /\ UNCHANGED <<row, pve>>
      /\ a \in Addrs /\ a # None /\ InPool(a) /\ Holders(a) = {}
  BY ProvisioningAssumption DEF RemoveIPFromDatabase, world, WriterInv, PoolFacts
<1>2. PICK k \in Keys :
        /\ ipv4[k] = a
        /\ ipv4' = [ipv4 EXCEPT ![k] = None]
        /\ used' = used \ {k}
        /\ Answer(r, "ok")
  BY <1>1 DEF RemoveIPFromDatabase
<1>3. ipv4'[k] = None /\ \A i \in Keys \ {k} : ipv4'[i] = ipv4[i]
  BY <1>2 DEF TypeOK
<1>4. \A v \in VmIds : row[v] # a
  BY <1>1 DEF Holders
<1>5. UniqueIps' /\ DistinctAddresses'
  BY <1>1, <1>3 DEF WriterInv, UniqueIps, DistinctAddresses
<1>6. RowsArePooled'
  BY <1>1, <1>2, <1>3, <1>4 DEF WriterInv, RowsArePooled, InPool
<1>7. \A w \in VmIds : row'[w] # None => pve'[w] = row'[w]
  BY <1>1 DEF WriterInv
<1>8. \A w \in VmIds : pve'[w] \in Addrs => row'[w] = pve'[w]
  BY <1>1 DEF WriterInv
<1>9. \A i \in Keys : ipv4'[i] # None => (i \in used' <=> Holders(ipv4[i])' # {})
  <2>1. ASSUME NEW i \in Keys \ {k}, ipv4[i] # None
        PROVE  i \in used' <=> Holders(ipv4[i])' # {}
    BY <1>1, <1>2, <1>3, <2>1 DEF WriterInv, Holders
  <2> QED BY <1>3, <2>1
<1>10. req'[r].pc \notin Writers
  BY <1>2, SlotAfter DEF Idle, Writers, CreatePcs, DeletePcs, PoolPcs
<1> QED BY <1>5, <1>6, <1>7, <1>8, <1>9, <1>10, NoFacts DEF WriterInv

-----------------------------------------------------------------------------
(* A writing request begins when there is none. *)

(* Under Serial a writing request begins when none is in flight. *)
LEMMA BeginAlone ==
  ASSUME Serial, NEW r \in Requests, NEW kind \in {"create", "delete", "pool"},
         NEW q, Begin(r, kind, q)
  PROVE  \A s \in Requests : req[s].pc \notin Writers
BY PcsOfKinds DEF Serial, Begin, MayBegin, Writers

(* A creation and a deletion begin without relying on anything. *)
LEMMA NothingReadYet ==
  ASSUME TypeOK, NEW r \in Requests, WriterInv(req[r]), NEW kind, NEW q,
         Begin(r, kind, q), q.pc \in {"getFreeIP", "readConfig"},
         UNCHANGED <<row, ipv4, used, pve>>
  PROVE  WriterInv(req[r])'
<1>1. req[r].pc = "idle" BY DEF Begin
<1>2. req'[r].pc \in {"getFreeIP", "readConfig"}
  BY SlotAfter
<1>3. CreateFacts(req[r])' /\ DeleteFacts(req[r])' /\ PoolFacts(req[r])'
  BY <1>2 DEF CreateFacts, DeleteFacts, PoolFacts, DeletePcs
<1> QED BY <1>1, <1>3, ReadOnly

(* The addresses to be added are not in the pool. *)
LEMMA AddIpsBegins ==
  ASSUME TypeOK, NEW r \in Requests, WriterInv(req[r]), NEW S \in AddrLists,
         Begin(r, "pool", [Idle EXCEPT !.pc = "insertIp", !.todo = {a \in S : ~InPool(a)}]),
         UNCHANGED <<row, ipv4, used, pve>>
  PROVE  WriterInv(req[r])'
<1>1. req[r].pc = "idle" BY DEF Begin
<1>2. req'[r].pc = "insertIp" /\ req'[r].todo = {a \in S : ~InPool(a)}
  <2>1. req'[r] = [Idle EXCEPT !.pc = "insertIp", !.todo = {a \in S : ~InPool(a)}]
    BY SlotAfter
  <2> QED BY <2>1 DEF Idle
<1>3. CreateFacts(req[r])' /\ DeleteFacts(req[r])' /\ PoolFacts(req[r])'
  BY <1>2 DEF CreateFacts, DeleteFacts, PoolFacts, DeletePcs, InPool
<1> QED BY <1>1, <1>3, ReadOnly

(* The address to be removed is in the pool and not used. *)
LEMMA RemoveIpBegins ==
  ASSUME Serial, TypeOK, NEW r \in Requests, WriterInv(req[r]), NEW b \in Addrs, InPool(b),
         (\E k \in used : ipv4[k] = b) => "unpool" \in Env,
         Begin(r, "pool", [Idle EXCEPT !.pc = "deleteIp", !.addr = b]),
         UNCHANGED <<row, ipv4, used, pve>>
  PROVE  WriterInv(req[r])'
<1>1. req[r].pc = "idle" BY DEF Begin
<1>2. req'[r].pc = "deleteIp" /\ req'[r].addr = b
  <2>1. req'[r] = [Idle EXCEPT !.pc = "deleteIp", !.addr = b]
    BY SlotAfter
  <2> QED BY <2>1 DEF Idle
<1>3. PICK k \in Keys : ipv4[k] = b /\ b # None
  BY ProvisioningAssumption DEF InPool
<1>4. k \notin used
  BY <1>3 DEF Serial
<1>5. Holders(b) = {}
  BY <1>1, <1>3, <1>4 DEF WriterInv
<1>6. CreateFacts(req[r])' /\ DeleteFacts(req[r])' /\ PoolFacts(req[r])'
  BY <1>2, <1>5 DEF CreateFacts, DeleteFacts, PoolFacts, DeletePcs, InPool, Holders
<1> QED BY <1>1, <1>6, ReadOnly

-----------------------------------------------------------------------------
(* Every step keeps the stores in agreement. *)

(* With the stores as they were, only a change to a writing request matters. *)
LEMMA StoresFrame ==
  ASSUME StoresInv, UNCHANGED <<row, ipv4, used, pve>>,
         \A s \in Requests :
           req'[s] = req[s] \/ (req[s].pc \notin Writers /\ req'[s].pc \notin Writers)
  PROVE  StoresInv'
<1> USE DEF StoresInv
<1>1. UniqueIps' /\ DistinctAddresses' /\ RowsArePooled'
  BY DEF UniqueIps, DistinctAddresses, RowsArePooled, InPool
<1>2. \A s \in Requests : req[s].pc \in Writers => req'[s] = req[s]
  OBVIOUS
<1>3. RowHasContainer'
  BY <1>2 DEF RowHasContainer, Writers, DeletePcs
<1>4. ContainerHasRow'
  BY <1>2 DEF ContainerHasRow, Writers, CreatePcs
<1>5. UsedIsHeld'
  BY <1>2 DEF UsedIsHeld, Holders, Writers, CreatePcs, DeletePcs
<1>6. RequestFacts'
  <2> SUFFICES ASSUME NEW s \in Requests
               PROVE  CreateFacts(req[s])' /\ DeleteFacts(req[s])' /\ PoolFacts(req[s])'
    BY DEF RequestFacts
  <2>1. CASE req'[s].pc \notin Writers
    BY <2>1, NoFacts
  <2>2. CASE req'[s] = req[s]
    BY <2>2 DEF RequestFacts, CreateFacts, DeleteFacts, PoolFacts, Holders, InPool
  <2> QED BY <2>1, <2>2
<1> QED BY <1>1, <1>3, <1>4, <1>5, <1>6

(* A writing request goes on. *)
LEMMA WriterStep ==
  ASSUME Serial, TypeOK, OneAtATime, StoresInv,
         NEW r \in Requests, req[r].pc \in Busy, Step(r)
  PROVE  StoresInv'
<1>1. \A s \in Requests \ {r} : req[s].pc \notin Writers
  BY OnlyWriter DEF Busy
<1>2. WriterInv(req[r])
  BY <1>1, Localize
<1>3. \A s \in Requests \ {r} : req'[s].pc \notin Writers
  BY <1>1, ControlSteps, OthersAfter DEF Idle, Writers, CreatePcs, DeletePcs, PoolPcs
<1>4. ~GetContainerID(r) /\ ~ChangeCTHostname(r) /\ ~SetCTAsReady(r)
  BY DEF GetContainerID, ChangeCTHostname, SetCTAsReady, Busy, Writers, CreatePcs, DeletePcs,
         PoolPcs
<1>5. WriterInv(req[r])'
  BY <1>2, <1>4, GetFreeIPStep, NextIdStep, PostLxcStep, AddContainerStep, MarkUsedStep,
     ReadConfigStep, CheckIPStep, DeleteLxcStep, GetIPStep, MarkUnusedStep, DeleteRowStep,
     AddIPStep, RemoveIPStep DEF Step
<1> QED BY <1>3, <1>5, Globalize

(* An agent's request goes on: it writes nothing that matters here. *)
LEMMA InitStep ==
  ASSUME Serial, TypeOK, OneAtATime, StoresInv,
         NEW r \in Requests, req[r].pc \notin Busy, Step(r)
  PROVE  StoresInv'
<1>1. GetContainerID(r) \/ ChangeCTHostname(r) \/ SetCTAsReady(r)
  BY DEF Step, GetFreeIP, NextId, PostLxc, AddContainerToDatabase, MarkUsed, ReadConfig,
         CheckIP, DeleteLxc, GetIP, MarkUnused, DeleteContainerFromDB, AddIPToDatabase,
         RemoveIPFromDatabase, Busy, Writers, CreatePcs, DeletePcs, PoolPcs
<1>2. req[r].pc \in InitPcs /\ UNCHANGED <<row, ipv4, used, pve>>
  BY <1>1 DEF GetContainerID, ChangeCTHostname, SetCTAsReady, InitPcs, db, world
<1>3. \/ \E v \in VmIds : Proceed(r, [req[r] EXCEPT !.pc = "setHostname", !.vm = v])
      \/ Goto(r, "setReady")
      \/ Answer(r, "ok")
      \/ Unhandled(r)
  BY <1>1 DEF GetContainerID, ChangeCTHostname, SetCTAsReady, Holders
<1>4. CASE Die /\ RejectionKills
  <2>1. \A s \in Requests \ {r} : req[s].pc \notin Writers
    BY <1>2, <1>4, PcsOfKinds DEF Serial, OneAtATime, Writers
  <2>2. \A s \in Requests : req'[s].pc \notin Writers
    BY <1>4 DEF Die, Idle, Writers, CreatePcs, DeletePcs, PoolPcs
  <2>3. req[r].pc \notin Writers
    BY <1>2 DEF InitPcs, Writers, CreatePcs, DeletePcs, PoolPcs
  <2> QED BY <1>2, <2>1, <2>2, <2>3, StoresFrame
<1>5. CASE ~(Die /\ RejectionKills)
  <2>1. \A s \in Requests \ {r} : req'[s] = req[s]
    BY <1>3, <1>5 DEF Unhandled, Proceed, Answer, TypeOK
  <2>2. ASSUME NEW v \in VmIds, Proceed(r, [req[r] EXCEPT !.pc = "setHostname", !.vm = v])
        PROVE  req'[r].pc = "setHostname"
    <3>1. req'[r] = [req[r] EXCEPT !.pc = "setHostname", !.vm = v] BY <2>2, SlotAfter
    <3> QED BY <3>1, RequestType DEF Fields
  <2>3. ASSUME Goto(r, "setReady") PROVE req'[r].pc = "setReady"
    BY <2>3, GotoAfter
  <2>4. ASSUME NEW code, Answer(r, code) PROVE req'[r].pc = "idle"
    BY <2>4, SlotAfter DEF Idle
  <2>5. req'[r].pc \in {"setHostname", "setReady", "idle"}
    BY <1>3, <1>5, <2>2, <2>3, <2>4 DEF Unhandled
  <2>6. req'[r].pc \notin Writers
    BY <2>5 DEF Writers, CreatePcs, DeletePcs, PoolPcs
  <2>7. req[r].pc \notin Writers
    BY <1>2 DEF InitPcs, Writers, CreatePcs, DeletePcs, PoolPcs
  <2> QED BY <1>2, <2>1, <2>6, <2>7, StoresFrame
<1> QED BY <1>4, <1>5

(* A request arrives. *)
LEMMA ArrivalStep ==
  ASSUME Serial, TypeOK, OneAtATime, StoresInv, NEW r \in Requests, Arrival(r)
  PROVE  StoresInv'
<1>1. UNCHANGED <<row, ipv4, used, pve>>
  BY DEF Arrival, CreateByNode, CreateByLocation, DeleteContainer, InitHostname, AddIps,
         RemoveIp, AnswerAtOnce, db, world
<1>2. ASSUME NEW code, AnswerAtOnce(r, code) PROVE StoresInv'
  BY <1>1, <1>2, StoresFrame DEF AnswerAtOnce
<1>3. \A s \in Requests \ {r} : req'[s] = req[s] \/ req'[s] = Idle
  BY ControlSteps, OthersAfter
<1>4. ASSUME NEW kind \in {"create", "delete", "pool"}, NEW q, Begin(r, kind, q)
      PROVE  /\ WriterInv(req[r])
             /\ WriterInv(req[r])' => StoresInv'
  <2>1. \A s \in Requests : req[s].pc \notin Writers
    BY <1>4, BeginAlone
  <2>2. \A s \in Requests \ {r} : req'[s].pc \notin Writers
    BY <1>3, <2>1 DEF Idle, Writers, CreatePcs, DeletePcs, PoolPcs
  <2> QED BY <2>1, <2>2, Localize, Globalize
<1>5. ASSUME NEW n, Begin(r, "create", [Idle EXCEPT !.pc = "getFreeIP", !.node = n])
      PROVE  StoresInv'
  BY <1>1, <1>4, <1>5, NothingReadYet DEF Idle
<1>6. ASSUME (\E n \in Nodes : CreateByNode(r, n)) \/ (\E l \in Locations : CreateByLocation(r, l))
      PROVE  StoresInv'
  BY <1>2, <1>5, <1>6 DEF CreateByNode, CreateByLocation
<1>7. ASSUME NEW v \in VmIds, DeleteContainer(r, v) PROVE StoresInv'
  <2>1. CASE AnswerAtOnce(r, "not found")
    BY <1>2, <2>1
  <2>2. CASE Begin(r, "delete", [Idle EXCEPT !.pc = "readConfig", !.vm = v])
    BY <1>1, <1>4, <2>2, NothingReadYet DEF Idle
  <2> QED BY <1>7, <2>1, <2>2 DEF DeleteContainer
<1>8. ASSUME NEW S \in AddrLists, AddIps(r, S) PROVE StoresInv'
  <2>1. CASE AnswerAtOnce(r, "conflict")
    BY <1>2, <2>1
  <2>2. CASE Begin(r, "pool", [Idle EXCEPT !.pc = "insertIp", !.todo = {a \in S : ~InPool(a)}])
    BY <1>1, <1>4, <2>2, AddIpsBegins
  <2> QED BY <1>8, <2>1, <2>2 DEF AddIps
<1>9. ASSUME NEW a \in Addrs, RemoveIp(r, a) PROVE StoresInv'
  <2>1. CASE AnswerAtOnce(r, "not found")
    BY <1>2, <2>1
  <2>2. CASE /\ InPool(a)
             /\ (\E k \in used : ipv4[k] = a) => "unpool" \in Env
             /\ Begin(r, "pool", [Idle EXCEPT !.pc = "deleteIp", !.addr = a])
    BY <1>1, <1>4, <2>2, RemoveIpBegins
  <2> QED BY <1>9, <2>1, <2>2 DEF RemoveIp
<1>10. ASSUME NEW v \in VmIds, InitHostname(r, v) PROVE StoresInv'
  <2>1. Begin(r, "init", [Idle EXCEPT !.pc = "getContainerID", !.addr = pve[v]])
    BY <1>10 DEF InitHostname
  <2>2. req[r].pc = "idle" /\ \A s \in Requests \ {r} : req'[s] = req[s]
    BY <2>1 DEF Begin, TypeOK
  <2>3. req'[r].pc = "getContainerID"
    <3>1. req'[r] = [Idle EXCEPT !.pc = "getContainerID", !.addr = pve[v]]
      BY <2>1, SlotAfter
    <3> QED BY <3>1 DEF Idle
  <2>4. req[r].pc \notin Writers /\ req'[r].pc \notin Writers
    BY <2>2, <2>3 DEF Writers, CreatePcs, DeletePcs, PoolPcs
  <2> QED BY <1>1, <2>2, <2>4, StoresFrame
<1> QED BY <1>6, <1>7, <1>8, <1>9, <1>10 DEF Arrival

(* People change containers the service does not manage, and links. *)
LEMMA OperatorStep ==
  ASSUME TypeOK, StoresInv, Operator
  PROVE  StoresInv'
<1>1. CASE \E k \in Keys, n \in Nodes : OperatorLinks(k, n)
  BY <1>1, StoresFrame DEF OperatorLinks, world
<1>2. ASSUME NEW v \in VmIds, OperatorCreate(v) \/ OperatorDestroy(v)
      PROVE  StoresInv'
  <2>1. /\ UNCHANGED <<row, ipv4, used, req>>
        /\ pve[v] \in {None, Outside}
        /\ \E x \in {None, Outside} : pve' = [pve EXCEPT ![v] = x]
    BY <1>2 DEF OperatorCreate, OperatorDestroy, db
  <2>2. /\ pve'[v] \in {None, Outside}
        /\ \A w \in VmIds \ {v} : pve'[w] = pve[w]
    BY <2>1 DEF TypeOK
  <2>3. None \notin Addrs /\ Outside \notin Addrs /\ \A w \in VmIds : row[w] # Outside
    BY ProvisioningAssumption DEF TypeOK
  <2>4. UniqueIps' /\ DistinctAddresses' /\ RowsArePooled' /\ UsedIsHeld'
    BY <2>1 DEF StoresInv, UniqueIps, DistinctAddresses, RowsArePooled, UsedIsHeld, InPool, Holders
  <2>5. RowHasContainer'
    <3> SUFFICES ASSUME NEW w \in VmIds, row[w] # None, pve'[w] # row[w]
                 PROVE  \E r \in Requests :
                          req[r].pc \in {"getIP", "markUnused", "deleteRow"} /\ req[r].vm = w
      BY <2>1 DEF RowHasContainer
    <3>1. pve[w] # row[w]
      BY <2>1, <2>2, <2>3
    <3> QED BY <3>1 DEF StoresInv, RowHasContainer
  <2>6. ContainerHasRow'
    BY <2>1, <2>2, <2>3 DEF StoresInv, ContainerHasRow
  <2>7. ASSUME NEW r \in Requests
        PROVE  CreateFacts(req[r])' /\ DeleteFacts(req[r])' /\ PoolFacts(req[r])'
    <3>1. CreateFacts(req[r]) /\ DeleteFacts(req[r]) /\ PoolFacts(req[r])
      BY DEF StoresInv, RequestFacts
    <3>2. \A w \in VmIds : /\ pve[w] \in Addrs => pve'[w] = pve[w]
                           /\ pve[w] \notin Addrs => pve'[w] \notin Addrs
      BY <2>1, <2>2, <2>3
    <3>3. CreateFacts(req[r])'
      BY <2>1, <3>1, <3>2, RequestType DEF CreateFacts, Holders
    <3>4. DeleteFacts(req[r])'
      BY <2>1, <3>1, <3>2, RequestType DEF DeleteFacts, DeletePcs
    <3>5. PoolFacts(req[r])'
      BY <2>1, <3>1 DEF PoolFacts, InPool, Holders
    <3> QED BY <3>3, <3>4, <3>5
  <2> QED BY <2>4, <2>5, <2>6, <2>7 DEF StoresInv, RequestFacts
<1> QED BY <1>1, <1>2 DEF Operator

(* Every step keeps StoresInv. *)
LEMMA StoresStep ==
  ASSUME Serial, TypeOK, OneAtATime, StoresInv, [Next]_vars
  PROVE  StoresInv'
<1>1. ASSUME NEW r \in Requests, CallThrows(r) \/ AnswerLost(r) PROVE FALSE
  BY <1>1 DEF Serial, CallThrows, AnswerLost
<1>2. ~Crash BY DEF Serial, Crash
<1>3. CASE UNCHANGED vars
  BY <1>3, StoresFrame DEF vars
<1> QED BY <1>1, <1>2, <1>3, ArrivalStep, WriterStep, InitStep, OperatorStep DEF Next

-----------------------------------------------------------------------------
(* The theorems. *)

(* SerialInv is inductive. *)
LEMMA SerialInvStep == ASSUME Serial, SerialInv, [Next]_vars PROVE SerialInv'
BY TypeStep, SlotsStep, StoresStep DEF SerialInv, StoresInv

(* When writing requests come one at a time and no call fails half-way, the  *)
(* stores differ only by what the request in flight is about to do: for any  *)
(* number of containers, addresses and agents asking meanwhile.              *)
THEOREM SerialInvariant == ASSUME Serial PROVE Spec => []SerialInv
<1>1. Init => SerialInv
  <2> SUFFICES ASSUME Init PROVE SerialInv
    OBVIOUS
  <2>1. TypeOK
    BY ProvisioningAssumption, IdleType DEF Init, TypeOK, Replies
  <2>2. \A r \in Requests : req[r].pc = "idle"
    BY DEF Init, Idle
  <2>3. OneAtATime /\ InFlightUnanswered
    BY <2>2, IdlePc, ProvisioningAssumption DEF OneAtATime, InFlightUnanswered
  <2>4. RequestFacts
    BY <2>2 DEF RequestFacts, CreateFacts, DeleteFacts, PoolFacts, DeletePcs
  <2>5. UniqueIps /\ DistinctAddresses /\ RowsArePooled
    BY ProvisioningAssumption DEF Init, UniqueIps, DistinctAddresses, RowsArePooled
  <2>6. RowHasContainer /\ ContainerHasRow /\ UsedIsHeld
    BY ProvisioningAssumption DEF Init, RowHasContainer, ContainerHasRow, UsedIsHeld, Holders
  <2> QED BY <2>1, <2>3, <2>4, <2>5, <2>6 DEF SerialInv
<1> QED BY <1>1, SerialInvStep, PTL DEF Spec

(* With one writing request at a time and no call that fails half-way, which *)
(* the code does not see to, the cluster, the table cts and the flags of ips *)
(* agree whenever no writing request is in flight (apiTools.ts:283-312,      *)
(* 388-518).                                                                 *)
THEOREM AgreementHolds == ASSUME Serial PROVE Spec => []Agreement
<1>1. SerialInv => Agreement
  <2> SUFFICES ASSUME SerialInv, Quiet
               PROVE  /\ RowsMatchCluster /\ DistinctAddresses
                      /\ UsedMatchesRows /\ RowsArePooled
    BY DEF Agreement
  <2>1. RowsMatchCluster
    BY DEF SerialInv, Quiet, RowHasContainer, ContainerHasRow, RowsMatchCluster, CreatePcs, DeletePcs
  <2>2. UsedMatchesRows
    BY DEF SerialInv, Quiet, UsedIsHeld, UsedMatchesRows, CreatePcs, DeletePcs
  <2> QED BY <2>1, <2>2 DEF SerialInv
<1> QED BY <1>1, SerialInvariant, PTL

-----------------------------------------------------------------------------
(* What a 201 says, and the fleet. *)

(* With one writing request at a time and no call that fails half-way, which *)
(* the code does not see to, a 201 is true at the moment it is sent; without *)
(* that condition see CreatedTrueUnlessSpoiled.                              *)
THEOREM CreatedHolds == ASSUME Serial PROVE Spec => CreatedIsTrue
<1>1. ASSUME SerialInv, [Next]_vars
      PROVE  [\A r \in Requests :
                At(r, "markUsed") /\ reply'[r] = "created" =>
                  /\ pve[req[r].vm] = req[r].addr
                  /\ Holders(req[r].addr) = {req[r].vm}
                  /\ req[r].key \in used' /\ ipv4[req[r].key] = req[r].addr]_vars
  <2> SUFFICES ASSUME NEW r \in Requests, req[r].pc = "markUsed", reply'[r] = "created"
               PROVE  /\ pve[req[r].vm] = req[r].addr
                      /\ Holders(req[r].addr) = {req[r].vm}
                      /\ req[r].key \in used' /\ ipv4[req[r].key] = req[r].addr
    OBVIOUS
  <2>1. TypeOK /\ CreateFacts(req[r]) /\ DistinctAddresses /\ reply[r] = "none"
    BY <1>1 DEF SerialInv, RequestFacts, InFlightUnanswered
  <2>2. /\ pve[req[r].vm] = req[r].addr /\ row[req[r].vm] = req[r].addr
        /\ ipv4[req[r].key] = req[r].addr
    BY <2>1 DEF CreateFacts
  <2>3. req[r].vm \in VmIds /\ req[r].addr # None
    BY <2>1, RequestType, ProvisioningAssumption
  <2>4. Holders(req[r].addr) = {req[r].vm}
    BY <2>1, <2>2, <2>3 DEF Holders, DistinctAddresses
  <2>5. MarkUsed(r)
    BY <1>1, <2>1, CreatedOnlyBy
  <2>6. req[r].key \in used'
    BY <2>5, <2>2, <2>3 DEF MarkUsed
  <2> QED BY <2>2, <2>4, <2>6
<1> QED BY <1>1, SerialInvariant, PTL DEF Spec, CreatedIsTrue

(* With one writing request at a time and no call that fails half-way cts    *)
(* implements Fleet: a creation and a deletion take effect in one step, the  *)
(* insertion and the removal of the row.  Two creations at once break this:  *)
(* the run provisioning_shared_address shows how.                            *)
THEOREM FleetImplemented == ASSUME Serial PROVE Spec => ImplementsFleet
<1>1. Init => F!Init
  BY DEF Init, F!Init
<1>2. ASSUME SerialInv, [Next]_vars PROVE [F!Next]_row
  <2>1. ASSUME NEW r \in Requests, AddContainerToDatabase(r) PROVE [F!Next]_row
    <3>1. /\ req[r].pc = "insertRow" /\ CreateFacts(req[r])
          /\ req[r].vm \in VmIds /\ req[r].addr \in Addrs
      BY <1>2, <2>1, RequestType DEF AddContainerToDatabase, SerialInv, RequestFacts
    <3>2. /\ row[req[r].vm] = None
          /\ \A w \in VmIds : row[w] # req[r].addr
          /\ row' = [row EXCEPT ![req[r].vm] = req[r].addr]
      BY <2>1, <3>1 DEF AddContainerToDatabase, CreateFacts, Holders
    <3>3. F!Create(req[r].vm, req[r].addr)
      BY <3>2 DEF F!Create
    <3> QED BY <3>1, <3>3 DEF F!Next
  <2>2. ASSUME NEW r \in Requests, DeleteContainerFromDB(r) PROVE [F!Next]_row
    <3>1. req[r].pc = "deleteRow" /\ req[r].vm \in VmIds
      BY <1>2, <2>2, RequestType DEF DeleteContainerFromDB, SerialInv, DeletePcs
    <3>2. \/ /\ row[req[r].vm] # None
             /\ row' = [row EXCEPT ![req[r].vm] = None]
          \/ UNCHANGED row
      BY <2>2 DEF DeleteContainerFromDB
    <3>3. F!Delete(req[r].vm) \/ UNCHANGED row
      BY <3>2 DEF F!Delete
    <3> QED BY <3>1, <3>3 DEF F!Next
  <2> QED BY <1>2, <2>1, <2>2, RowFrame
<1> QED BY <1>1, <1>2, SerialInvariant, PTL DEF Spec, ImplementsFleet, F!Spec

-----------------------------------------------------------------------------
(* No mishaps, one at a time.                                                *)

(* An agent's step leaves the other requests where they are.                 *)
LEMMA AgentDisturbsNobody ==
  ASSUME Serial, TypeOK, OneAtATime, NEW r \in Requests, req[r].pc \in Writers,
         NEW s \in Requests \ {r}, Step(s)
  PROVE  req'[r] = req[r]
<1>1. req[s].pc \notin Busy
  BY OnlyWriter DEF Busy
<1>2. GetContainerID(s) \/ ChangeCTHostname(s) \/ SetCTAsReady(s)
  BY <1>1 DEF Step, GetFreeIP, NextId, PostLxc, AddContainerToDatabase, MarkUsed, ReadConfig,
         CheckIP, DeleteLxc, GetIP, MarkUnused, DeleteContainerFromDB, AddIPToDatabase,
         RemoveIPFromDatabase, Busy, Writers, CreatePcs, DeletePcs, PoolPcs
<1>3. req[s].pc \in InitPcs
  BY <1>2 DEF GetContainerID, ChangeCTHostname, SetCTAsReady, InitPcs
<1>4. ~RejectionKills
  BY <1>3, PcsOfKinds DEF Serial, OneAtATime, Writers
<1>5. (\E q : Proceed(s, q)) \/ (\E code : Answer(s, code))
  BY <1>2, <1>4 DEF GetContainerID, ChangeCTHostname, SetCTAsReady, Unhandled
<1> QED
  BY <1>5 DEF Proceed, Answer, TypeOK

(* A writing request that changes has made its own next call.                *)
LEMMA WriterMoves ==
  ASSUME Serial, TypeOK, OneAtATime, [Next]_vars, NEW r \in Requests,
         req[r].pc \in Writers, req'[r] # req[r]
  PROVE  Step(r)
<1>1. ~Operator /\ ~UNCHANGED vars
  BY DEF Operator, OperatorCreate, OperatorDestroy, OperatorLinks, vars
<1>2. ~Crash /\ \A s \in Requests : ~CallThrows(s) /\ ~AnswerLost(s)
  BY DEF Serial, Crash, CallThrows, AnswerLost
<1>3. PICK s \in Requests : Arrival(s) \/ Step(s)
  BY <1>1, <1>2 DEF Next
<1>4. ~Arrival(s)
  <2>1. SUFFICES ASSUME Arrival(s) PROVE FALSE
    OBVIOUS
  <2>2. req[s].pc = "idle" /\ (req' = req \/ \E q : req' = [req EXCEPT ![s] = q])
    BY <2>1 DEF Arrival, CreateByNode, CreateByLocation, DeleteContainer, InitHostname,
                AddIps, RemoveIp, Begin, AnswerAtOnce
  <2>3. s # r
    BY <2>2 DEF Writers, CreatePcs, DeletePcs, PoolPcs
  <2> QED
    BY <2>2, <2>3 DEF TypeOK
<1> QED
  BY <1>3, <1>4, AgentDisturbsNobody

(* What it was told holds, so no call of it is refused half-way.             *)
LEMMA NoMishap ==
  ASSUME Serial, SerialInv, [Next]_vars, NEW r \in Requests, req[r].pc \in Writers
  PROVE  ~Mishap(r)
<1>1. TypeOK /\ OneAtATime /\ RowsArePooled
      /\ CreateFacts(req[r]) /\ DeleteFacts(req[r]) /\ PoolFacts(req[r])
  BY DEF SerialInv, RequestFacts
<1>2. req'[r].pc # req[r].pc => Step(r)
  BY <1>1, WriterMoves
<1>3. "idle" \notin Writers /\ None \notin Addrs
  BY ProvisioningAssumption DEF Writers, CreatePcs, DeletePcs, PoolPcs
<1>4. ~StopsHalfway(r)
  <2>1. SUFFICES ASSUME req[r].pc \in HalfDone, Ended(r)
                 PROVE  reply'[r] \in {"created", "ok"}
    BY DEF StopsHalfway
  <2>2. Step(r) /\ req'[r].pc = "idle"
    BY <1>2, <2>1 DEF Ended
  <2>3. \A code : Answer(r, code) => reply'[r] = code
    BY <1>1 DEF Answer, TypeOK
  <2>4. CASE req[r].pc = "insertRow"
    <3>1. AddContainerToDatabase(r)
      BY <2>2, <2>4 DEF Step, GetFreeIP, NextId, PostLxc, MarkUsed, ReadConfig, CheckIP, DeleteLxc, GetIP,
                        MarkUnused, DeleteContainerFromDB, GetContainerID, ChangeCTHostname,
                        SetCTAsReady, AddIPToDatabase, RemoveIPFromDatabase
    <3>2. Goto(r, "markUsed")
      BY <1>1, <2>4, <3>1 DEF AddContainerToDatabase, CreateFacts
    <3> QED
      BY <1>1, <2>2, <3>2, GotoAfter
  <2>5. CASE req[r].pc = "markUsed"
    <3>1. MarkUsed(r)
      BY <2>2, <2>5 DEF Step, GetFreeIP, NextId, PostLxc, AddContainerToDatabase, ReadConfig, CheckIP,
                        DeleteLxc, GetIP, MarkUnused, DeleteContainerFromDB, GetContainerID,
                        ChangeCTHostname, SetCTAsReady, AddIPToDatabase, RemoveIPFromDatabase
    <3>2. ipv4[req[r].key] # None
      BY <1>1, <1>3, <2>5, RequestType DEF CreateFacts
    <3> QED
      BY <2>3, <3>1, <3>2 DEF MarkUsed
  <2>6. CASE req[r].pc = "getIP"
    <3>1. GetIP(r)
      BY <2>2, <2>6 DEF Step, GetFreeIP, NextId, PostLxc, AddContainerToDatabase, MarkUsed,
                        ReadConfig, CheckIP, DeleteLxc, MarkUnused, DeleteContainerFromDB, GetContainerID,
                        ChangeCTHostname, SetCTAsReady, AddIPToDatabase, RemoveIPFromDatabase
    <3>2. InPool(req[r].addr)
      BY <1>1, <1>3, <2>6, RequestType DEF DeleteFacts, RowsArePooled, DeletePcs
    <3>3. PICK k \in Keys : Proceed(r, [req[r] EXCEPT !.pc = "markUnused", !.key = k])
      BY <3>1, <3>2 DEF GetIP, InPool
    <3>4. req'[r].pc = "markUnused"
      <4>1. req'[r] = [req[r] EXCEPT !.pc = "markUnused", !.key = k]
        BY <1>1, <3>3, SlotAfter
      <4> QED
        BY <1>1, <4>1, RequestType DEF Fields
    <3> QED
      BY <2>2, <3>4
  <2>7. CASE req[r].pc = "markUnused"
    <3>1. MarkUnused(r)
      BY <2>2, <2>7 DEF Step, GetFreeIP, NextId, PostLxc, AddContainerToDatabase, MarkUsed,
                        ReadConfig, CheckIP, DeleteLxc, GetIP, DeleteContainerFromDB, GetContainerID,
                        ChangeCTHostname, SetCTAsReady, AddIPToDatabase, RemoveIPFromDatabase
    <3>2. ipv4[req[r].key] # None
      BY <1>1, <1>3, <2>7 DEF DeleteFacts
    <3> QED
      BY <1>1, <2>2, <3>1, <3>2, GotoAfter DEF MarkUnused
  <2>8. CASE req[r].pc = "deleteRow"
    <3>1. DeleteContainerFromDB(r)
      BY <2>2, <2>8 DEF Step, GetFreeIP, NextId, PostLxc, AddContainerToDatabase, MarkUsed,
                        ReadConfig, CheckIP, DeleteLxc, GetIP, MarkUnused, GetContainerID,
                        ChangeCTHostname, SetCTAsReady, AddIPToDatabase, RemoveIPFromDatabase
    <3>2. row[req[r].vm] # None /\ req[r].ok
      BY <1>1, <1>3, <2>8 DEF DeleteFacts
    <3> QED
      BY <2>3, <3>1, <3>2 DEF DeleteContainerFromDB
  <2> QED
    BY <2>1, <2>4, <2>5, <2>6, <2>7, <2>8 DEF HalfDone
<1>5. ASSUME req[r].pc = "deleteLxc", Step(r) PROVE pve' # pve /\ req'[r].pc = "getIP"
  <2>1. DeleteLxc(r)
    BY <1>5 DEF Step, GetFreeIP, NextId, PostLxc, AddContainerToDatabase, MarkUsed, ReadConfig, CheckIP,
                GetIP, MarkUnused, DeleteContainerFromDB, GetContainerID, ChangeCTHostname,
                SetCTAsReady, AddIPToDatabase, RemoveIPFromDatabase
  <2>2. pve[req[r].vm] # None /\ req[r].vm \in VmIds /\ "refuseDelete" \notin Env
    BY <1>1, <1>3, <1>5, RequestType DEF DeleteFacts, Serial, DeletePcs
  <2>3. /\ pve' = [pve EXCEPT ![req[r].vm] = None]
        /\ Proceed(r, [req[r] EXCEPT !.pc = "getIP", !.ok = TRUE])
    BY <2>1, <2>2 DEF DeleteLxc, Destroy
  <2>4. req'[r] = [req[r] EXCEPT !.pc = "getIP", !.ok = TRUE]
    BY <1>1, <2>3, SlotAfter
  <2> QED
    BY <1>1, <2>2, <2>3, <2>4, RequestType DEF TypeOK, Fields
<1>6. ~EndsUnaware(r)
  <2>1. SUFFICES ASSUME req[r].pc \in {"postLxc", "deleteLxc"}, Ended(r) PROVE pve' = pve
    BY DEF EndsUnaware
  <2>2. Step(r) /\ req'[r].pc = "idle"
    BY <1>2, <2>1 DEF Ended
  <2>3. PostLxc(r)
    BY <1>5, <2>1, <2>2 DEF Step, GetFreeIP, NextId, AddContainerToDatabase, MarkUsed, ReadConfig, CheckIP,
       DeleteLxc, GetIP, MarkUnused, DeleteContainerFromDB, GetContainerID, ChangeCTHostname,
       SetCTAsReady, AddIPToDatabase, RemoveIPFromDatabase
  <2>4. ~Goto(r, "insertRow")
    BY <1>1, <2>2, GotoAfter
  <2> QED
    BY <2>3, <2>4 DEF PostLxc, world
<1>7. ~GoesOnRefused(r)
  BY <1>2, <1>5 DEF GoesOnRefused
<1>8. ~Unpools(r)
  BY <1>1 DEF Unpools, PoolFacts
<1> QED
  BY <1>4, <1>6, <1>7, <1>8 DEF Mishap

(* Under the same conditions no address is ever spoiled: DisagreeOnlyForCause *)
(* and CreatedUnlessSpoiled are then about every address, and failures and    *)
(* overlapping requests are the only causes (apiTools.ts:286-312, 391-518).   *)
THEOREM NothingSpoiledSerially == ASSUME Serial PROVE MishapSpec => [](spoiled = {})
<1>1. SerialInv /\ SerialInv' /\ spoiled = {} /\ [MishapNext]_mishapVars => (spoiled = {})'
  <2>0. SUFFICES ASSUME SerialInv, SerialInv', spoiled = {}, [MishapNext]_mishapVars
                 PROVE  spoiled' = {}
    OBVIOUS
  <2>1. CASE UNCHANGED mishapVars
    BY <2>0, <2>1 DEF mishapVars, history
  <2>2. CASE MishapNext
    <3>1. ASSUME NEW a \in Addrs PROVE ~Overlap(a)'
      <4>1. \A r, s \in Requests : req'[r].pc \in Writers /\ req'[s].pc \in Writers => r = s
        BY <2>0, PcsOfKinds DEF SerialInv, OneAtATime, Serial, Writers
      <4> QED
        BY <4>1 DEF Overlap, Handles, Writers
    <3>2. ASSUME NEW a \in Addrs, NEW r \in Requests, Handles(r, a) PROVE ~Mishap(r)
      BY <2>0, <2>2, <3>2, NoMishap DEF MishapNext, Handles
    <3> QED
      BY <2>0, <2>2, <3>1, <3>2 DEF MishapNext, Record
  <2> QED
    BY <2>0, <2>1, <2>2
<1>2. MishapInit => spoiled = {}
  BY DEF MishapInit
<1> QED
  BY <1>1, <1>2, HistoryOnlyWatches, SerialInvariant, PTL DEF MishapSpec
=============================================================================
