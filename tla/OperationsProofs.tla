-------------------------- MODULE OperationsProofs --------------------------
(***************************************************************************)
(* Theorems about Operations, for all values of its constants: its types,   *)
(* and that requests keep to the containers of the service, bring none      *)
(* back and do not end the process, as long as no deletion comes in         *)
(* between.                                                                 *)
(***************************************************************************)
EXTENDS Operations, SequenceTheorems, TLAPS

-----------------------------------------------------------------------------
(* The routes, call by call.                                                 *)

Asked == {"rows", "resources", "validate", "checkContainerID", "ownNode", "current",
          "row", "change", "create", "insert", "config", "checkIP", "node", "destroy", "unrow",
          "storages", "vzdump", "content", "restore", "erase", "list"}

(* u is s and then t, said of the elements, which the provers can evaluate.  *)
Join(s, t, u) == /\ s \in Seq(Asked) /\ t \in Seq(Asked) /\ u \in Seq(Asked)
                 /\ Len(u) = Len(s) + Len(t)
                 /\ \A i \in 1 .. Len(u) :
                      u[i] = IF i <= Len(s) THEN s[i] ELSE t[i - Len(s)]

LEMMA Joined ==
  ASSUME NEW s, NEW t, NEW u, Join(s, t, u)
  PROVE  s \o t = u
<1>1. s \o t \in Seq(Asked) /\ Len(s \o t) = Len(u)
  BY ConcatProperties DEF Join
<1>2. \A i \in 1 .. Len(u) : (s \o t)[i] = u[i]
  BY ConcatProperties DEF Join
<1> QED
  BY <1>1, <1>2, SeqEqual DEF Join

LEMMA StorageOfBackup == GetStorageOfBackup = <<"storages", "content">>
<1>1. Join(<<"storages">>, <<"content">>, <<"storages", "content">>)
  BY DEF Join, Asked
<1> QED
  BY <1>1, Joined DEF GetStorageOfBackup, GetStorages

LEMMA BackupCreation ==
  CreateBackup =
    <<"node", "storages", "ownNode", "current", "vzdump">>
<1>1. Join(<<"node">>, <<"storages">>, <<"node", "storages">>)
  BY DEF Join, Asked
<1>2. Join(<<"node", "storages">>, <<"ownNode", "current">>,
           <<"node", "storages", "ownNode", "current">>)
  BY DEF Join, Asked
<1>3. Join(<<"node", "storages", "ownNode", "current">>, <<"vzdump">>,
           <<"node", "storages", "ownNode", "current", "vzdump">>)
  BY DEF Join, Asked
<1>4. <<"node">> \o GetStorages = <<"node", "storages">>
  BY <1>1, Joined DEF GetStorages
<1>5. <<"node">> \o GetStorages \o GetContainerStatus = <<"node", "storages", "ownNode", "current">>
  BY <1>2, <1>4, Joined DEF GetContainerStatus
<1> QED
  BY <1>3, <1>5, Joined DEF CreateBackup

LEMMA BackupDeletion == DeleteBackup = <<"node", "storages", "content", "erase">>
<1>1. Join(<<"node">>, <<"storages", "content">>, <<"node", "storages", "content">>)
  BY DEF Join, Asked
<1>2. Join(<<"node", "storages", "content">>, <<"erase">>,
           <<"node", "storages", "content", "erase">>)
  BY DEF Join, Asked
<1> QED
  BY <1>1, <1>2, Joined, StorageOfBackup DEF DeleteBackup

LEMMA BackupRestoration == RestoreBackup = <<"node", "storages", "content", "restore">>
<1>1. Join(<<"node">>, <<"storages", "content">>, <<"node", "storages", "content">>)
  BY DEF Join, Asked
<1>2. Join(<<"node", "storages", "content">>, <<"restore">>,
           <<"node", "storages", "content", "restore">>)
  BY DEF Join, Asked
<1> QED
  BY <1>1, <1>2, Joined, StorageOfBackup DEF RestoreBackup

LEMMA BackupList == GetBackups = <<"node", "storages", "list">>
<1>1. Join(<<"node">>, <<"storages">>, <<"node", "storages">>)
  BY DEF Join, Asked
<1>2. Join(<<"node", "storages">>, <<"list">>, <<"node", "storages", "list">>)
  BY DEF Join, Asked
<1> QED
  BY <1>1, <1>2, Joined DEF GetBackups, GetStorages

(* The routes, whose names are the kinds of the requests.                     *)
LEMMA AllRoute == Routes.all = <<"rows", "rows", "resources">>
<1>1. Join(<<"rows">>, <<"rows", "resources">>, <<"rows", "rows", "resources">>)
  BY DEF Join, Asked
<1> QED
  BY <1>1, Joined DEF Routes, GetContainers, GetContainerStatuses

LEMMA SpecificRoute == Routes.specific = <<"rows", "ownNode", "current">>
<1>1. Join(<<"rows">>, <<"ownNode", "current">>, <<"rows", "ownNode", "current">>)
  BY DEF Join, Asked
<1> QED
  BY <1>1, Joined DEF Routes, GetSpecificContainerStatuses, GetContainerStatus

LEMMA OneRoute ==
  Routes.one =
    <<"validate", "checkContainerID", "ownNode", "current", "row">>
<1>1. Join(<<"validate", "checkContainerID">>, <<"ownNode", "current">>,
           <<"validate", "checkContainerID", "ownNode", "current">>)
  BY DEF Join, Asked
<1>2. Join(<<"validate", "checkContainerID", "ownNode", "current">>, <<"row">>,
           <<"validate", "checkContainerID", "ownNode", "current", "row">>)
  BY DEF Join, Asked
<1> QED
  BY <1>1, <1>2, Joined DEF Routes, GetContainer, GetContainerStatus, ValidateContainerID

LEMMA StatusRoute ==
  Routes.status =
    <<"validate", "checkContainerID", "ownNode", "change">>
<1>1. Join(<<"validate", "checkContainerID">>, <<"ownNode", "change">>,
           <<"validate", "checkContainerID", "ownNode", "change">>)
  BY DEF Join, Asked
<1> QED
  BY <1>1, Joined DEF Routes, TriggerStatusChange, ChangeContainerStatus,
                      ValidateContainerID

LEMMA BackupRoute ==
  Routes.backup =
    <<"validate", "checkContainerID", "node", "storages", "ownNode", "current", "vzdump">>
<1>1. Join(<<"validate", "checkContainerID">>, <<"node", "storages", "ownNode", "current", "vzdump">>,
           <<"validate", "checkContainerID", "node", "storages", "ownNode", "current", "vzdump">>)
  BY DEF Join, Asked
<1> QED
  BY <1>1, Joined, BackupCreation DEF Routes, Backups, ValidateContainerID

LEMMA RestoreRoute ==
  Routes.restore =
    <<"validate", "checkContainerID", "node", "storages", "content", "restore">>
<1>1. Join(<<"validate", "checkContainerID">>, <<"node", "storages", "content", "restore">>,
           <<"validate", "checkContainerID", "node", "storages", "content", "restore">>)
  BY DEF Join, Asked
<1> QED
  BY <1>1, Joined, BackupRestoration DEF Routes, Backups, ValidateContainerID

LEMMA EraseRoute ==
  Routes.erase =
    <<"validate", "checkContainerID", "node", "storages", "content", "erase">>
<1>1. Join(<<"validate", "checkContainerID">>, <<"node", "storages", "content", "erase">>,
           <<"validate", "checkContainerID", "node", "storages", "content", "erase">>)
  BY DEF Join, Asked
<1> QED
  BY <1>1, Joined, BackupDeletion DEF Routes, Backups, ValidateContainerID

LEMMA BackupsRoute ==
  Routes.backups =
    <<"validate", "checkContainerID", "node", "storages", "list">>
<1>1. Join(<<"validate", "checkContainerID">>, <<"node", "storages", "list">>,
           <<"validate", "checkContainerID", "node", "storages", "list">>)
  BY DEF Join, Asked
<1> QED
  BY <1>1, Joined, BackupList DEF Routes, Backups, ValidateContainerID

LEMMA DeleteRoute ==
  Routes.delete =
    <<"ownNode", "config", "checkIP", "node", "destroy", "unrow">>
<1>1. Join(<<"ownNode", "config", "checkIP">>, <<"node", "destroy", "unrow">>,
           <<"ownNode", "config", "checkIP", "node", "destroy", "unrow">>)
  BY DEF Join, Asked
<1> QED
  BY <1>1, Joined DEF Routes, Delete, GetContainerIP, DeleteContainer

(* The kinds of requests that ask validateContainerID first.                 *)
Validated == {"one", "status", "backup", "restore", "erase", "backups"}

LEMMA KindsAre == Kinds = Validated \cup {"all", "specific", "create", "delete"}
BY DEF Kinds, Routes, Validated

LEMMA Lengths ==
  ASSUME NEW k \in Kinds
  PROVE  Len(Routes[k]) \in 1 .. 7 /\ 1 <= Len(Routes[k])
<1>1. /\ Len(Routes["all"]) = 3 /\ Len(Routes["specific"]) = 3
      /\ Len(Routes["one"]) = 5 /\ Len(Routes["status"]) = 4
  BY AllRoute, SpecificRoute, OneRoute, StatusRoute
<1>2. /\ Len(Routes["backup"]) = 7 /\ Len(Routes["restore"]) = 6
      /\ Len(Routes["erase"]) = 6 /\ Len(Routes["backups"]) = 5
  BY BackupRoute, RestoreRoute, EraseRoute, BackupsRoute
<1>3. Len(Routes["create"]) = 2 /\ Len(Routes["delete"]) = 6
  BY DeleteRoute DEF Routes, CreateContainer
<1>4. PICK n \in {2, 3, 4, 5, 6, 7} : n = Len(Routes[k])
  BY <1>1, <1>2, <1>3, KindsAre DEF Validated
<1>5. n \in 1 .. 7 /\ 1 <= n
  OBVIOUS
<1> QED
  BY <1>4, <1>5, Zenon

(* Where a step can be in a route, and what it is there for.                 *)
LEMMA StepAt ==
  ASSUME NEW k \in Kinds, NEW i \in Nat, 1 <= i, i <= Len(Routes[k])
  PROVE  LET step == Routes[k][i]
         IN  /\ Len(Routes[k]) \in 1 .. 7
             /\ step \in Asked
             /\ step \in {"resources", "insert", "create"} => k \in {"all", "create"}
             /\ k = "all" => step \in {"rows", "resources"}
             /\ k = "create" => step = IF i = 1 THEN "create" ELSE "insert"
             /\ k = "delete" => /\ i = 1 <=> step = "ownNode"
                                /\ i = 2 <=> step = "config"
                                /\ i = 3 <=> step = "checkIP"
                                /\ i = 4 <=> step = "node"
                                /\ i = 5 <=> step = "destroy"
                                /\ i = 6 <=> step = "unrow"
                                /\ i \in 1 .. 6
             /\ step \in {"config", "checkIP", "destroy", "unrow"} => k = "delete"
             /\ k = "specific" => step \in {"rows", "ownNode", "current"}
             /\ k \in Validated =>
                  /\ i = 1 <=> step = "validate"
                  /\ i = 2 <=> step = "checkContainerID"
                  /\ step \notin {"rows", "resources", "config", "checkIP", "destroy", "unrow",
                                  "create", "insert"}
             /\ step \in {"content", "restore", "erase"} => k \in {"restore", "erase"}
<1>1. CASE k = "all"
  <2>1. Len(Routes[k]) = 3
    BY <1>1, AllRoute
  <2>2. /\ Routes[k][1] = "rows" /\ Routes[k][2] = "rows" /\ Routes[k][3] = "resources"
    BY <1>1, AllRoute
  <2> QED
    BY <1>1, <2>1, <2>2 DEF Asked, Validated
<1>2. CASE k = "specific"
  <2>1. Len(Routes[k]) = 3
    BY <1>2, SpecificRoute
  <2>2. /\ Routes[k][1] = "rows" /\ Routes[k][2] = "ownNode" /\ Routes[k][3] = "current"
    BY <1>2, SpecificRoute
  <2> QED
    BY <1>2, <2>1, <2>2 DEF Asked, Validated
<1>3. CASE k = "create"
  BY <1>3 DEF Routes, CreateContainer, Asked, Validated
<1>4. CASE k = "delete"
  <2>1. Len(Routes[k]) = 6
    BY <1>4, DeleteRoute
  <2>2. /\ Routes[k][1] = "ownNode" /\ Routes[k][2] = "config" /\ Routes[k][3] = "checkIP"
        /\ Routes[k][4] = "node" /\ Routes[k][5] = "destroy" /\ Routes[k][6] = "unrow"
    BY <1>4, DeleteRoute
  <2>3. i \in 1 .. 6
    BY <2>1
  <2> QED
    BY <1>4, <2>1, <2>2, <2>3 DEF Asked, Validated
<1>5. CASE k = "one"
  <2>1. Len(Routes[k]) = 5
    BY <1>5, OneRoute
  <2>2. /\ Routes[k][1] = "validate" /\ Routes[k][2] = "checkContainerID" /\ Routes[k][3] = "ownNode"
        /\ Routes[k][4] = "current" /\ Routes[k][5] = "row"
    BY <1>5, OneRoute
  <2> QED
    BY <1>5, <2>1, <2>2 DEF Asked, Validated
<1>6. CASE k = "status"
  <2>1. Len(Routes[k]) = 4
    BY <1>6, StatusRoute
  <2>2. /\ Routes[k][1] = "validate" /\ Routes[k][2] = "checkContainerID" /\ Routes[k][3] = "ownNode"
        /\ Routes[k][4] = "change"
    BY <1>6, StatusRoute
  <2> QED
    BY <1>6, <2>1, <2>2 DEF Asked, Validated
<1>7. CASE k = "backup"
  <2>1. Len(Routes[k]) = 7
    BY <1>7, BackupRoute
  <2>2. /\ Routes[k][1] = "validate" /\ Routes[k][2] = "checkContainerID" /\ Routes[k][3] = "node"
        /\ Routes[k][4] = "storages" /\ Routes[k][5] = "ownNode" /\ Routes[k][6] = "current"
        /\ Routes[k][7] = "vzdump"
    BY <1>7, BackupRoute
  <2> QED
    BY <1>7, <2>1, <2>2 DEF Asked, Validated
<1>8. CASE k = "restore"
  <2>1. Len(Routes[k]) = 6
    BY <1>8, RestoreRoute
  <2>2. /\ Routes[k][1] = "validate" /\ Routes[k][2] = "checkContainerID" /\ Routes[k][3] = "node"
        /\ Routes[k][4] = "storages" /\ Routes[k][5] = "content" /\ Routes[k][6] = "restore"
    BY <1>8, RestoreRoute
  <2> QED
    BY <1>8, <2>1, <2>2 DEF Asked, Validated
<1>9. CASE k = "erase"
  <2>1. Len(Routes[k]) = 6
    BY <1>9, EraseRoute
  <2>2. /\ Routes[k][1] = "validate" /\ Routes[k][2] = "checkContainerID" /\ Routes[k][3] = "node"
        /\ Routes[k][4] = "storages" /\ Routes[k][5] = "content" /\ Routes[k][6] = "erase"
    BY <1>9, EraseRoute
  <2> QED
    BY <1>9, <2>1, <2>2 DEF Asked, Validated
<1>10. CASE k = "backups"
  <2>1. Len(Routes[k]) = 5
    BY <1>10, BackupsRoute
  <2>2. /\ Routes[k][1] = "validate" /\ Routes[k][2] = "checkContainerID" /\ Routes[k][3] = "node"
        /\ Routes[k][4] = "storages" /\ Routes[k][5] = "list"
    BY <1>10, BackupsRoute
  <2> QED
    BY <1>10, <2>1, <2>2 DEF Asked, Validated
<1> QED
  BY <1>1, <1>2, <1>3, <1>4, <1>5, <1>6, <1>7, <1>8, <1>9, <1>10,
     KindsAre DEF Validated

-----------------------------------------------------------------------------
(* Types                                                                     *)

(* What TypeOK says of one request.                                          *)
Sound(q) == q = Idle \/ /\ q \in Served /\ q.pos <= Len(Routes[q.kind])
                        /\ q.kind # "all" => q.id \in VmIds
                        /\ q.stray => Routes[q.kind][q.pos] \in Writes

Requested == req \in [Requests -> {Idle} \cup Served] /\ \A r \in Requests : Sound(req[r])

LEMMA IdleIsNotServed == Idle \notin Served
BY KindsAre DEF Idle, Served, Validated

LEMMA RequestsTyped == TypeOK => Requested
BY DEF TypeOK, Requested, Sound, Step

(* A request under way, and the step it is at.                               *)
LEMMA UnderWay ==
  ASSUME TypeOK, NEW r \in Requests, req[r] # Idle
  PROVE  LET q == req[r]
         IN  /\ q \in Served /\ Step(r) = Routes[q.kind][q.pos]
             /\ q.kind \in Kinds /\ q.pos \in Nat /\ 1 <= q.pos /\ q.pos <= Len(Routes[q.kind])
             /\ q.kind # "all" => q.id \in VmIds
             /\ q.stray => Step(r) \in Writes
BY DEF TypeOK, Served, Step

LEMMA GoesTypes ==
  ASSUME TypeOK, NEW r \in Requests, NEW q, Sound(q), Goes(r, q)
  PROVE  Requested'
<1>1. Requested
  BY RequestsTyped
<1>2. req' = [req EXCEPT ![r] = q] /\ q \in {Idle} \cup Served
  BY DEF Goes, Sound
<1>3. req' \in [Requests -> {Idle} \cup Served]
  BY <1>1, <1>2 DEF Requested
<1>4. \A s \in Requests : Sound(req'[s])
  BY <1>1, <1>2 DEF Requested
<1> QED
  BY <1>3, <1>4 DEF Requested, Sound

LEMMA Successor ==
  ASSUME NEW n \in 1 .. 7, NEW i \in Nat, 1 <= i, i <= n, i # n
  PROVE  i + 1 \in 1 .. 7 /\ i + 1 <= n
OBVIOUS

LEMMA GoesOnTypes ==
  ASSUME TypeOK, NEW r \in Requests, NEW q \in Served, Sound(q), ~q.stray, GoesOn(r, q)
  PROVE  Requested'
<1>1. Sound(Idle)
  BY DEF Sound
<1>2. q # Idle /\ q.kind \in Kinds /\ q.pos \in Nat /\ 1 <= q.pos
      /\ q.pos <= Len(Routes[q.kind]) /\ Len(Routes[q.kind]) \in 1 .. 7
  BY IdleIsNotServed, StepAt DEF Sound, Served
<1>3. ASSUME q.pos # Len(Routes[q.kind])
      PROVE  Sound([q EXCEPT !.pos = @ + 1])
  <2> DEFINE p == [q EXCEPT !.pos = @ + 1]
  <2>1. q.pos + 1 \in 1 .. 7 /\ q.pos + 1 <= Len(Routes[q.kind])
    BY <1>2, <1>3, Successor, Zenon
  <2>2. p \in Served /\ p.pos = q.pos + 1 /\ p.kind = q.kind /\ p.id = q.id /\ ~p.stray
    BY <2>1 DEF Served
  <2> QED
    BY <1>2, <2>1, <2>2 DEF Sound
<1> QED
  BY <1>1, <1>3, GoesTypes DEF GoesOn

(* What Proxmox does leaves the types of what it has.                        *)
WorldOK == /\ cts \in [VmIds -> Owners] /\ rows \subseteq VmIds
           /\ backups \in [BackupIds -> VmIds \cup {None}] /\ harmed \subseteq VmIds

LEMMA CarriedOutTypes ==
  ASSUME TypeOK, NEW r \in Requests, req[r] # Idle, CarriedOut(r)
  PROVE  WorldOK'
<1>1. req[r].id \in VmIds
  <2>1. Step(r) \in {"change", "destroy", "vzdump", "erase", "restore", "create"}
    BY DEF CarriedOut, Possible
  <2> QED
    BY <2>1, UnderWay, StepAt
<1>2. cts' \in [VmIds -> Owners]
  BY <1>1 DEF CarriedOut, TypeOK, OwnerBecomes, Owners
<1>3. backups' \in [BackupIds -> VmIds \cup {None}]
  BY <1>1 DEF CarriedOut, TypeOK
<1>4. harmed' \subseteq VmIds /\ rows' \subseteq VmIds
  BY <1>1 DEF CarriedOut, TypeOK
<1> QED
  BY <1>2, <1>3, <1>4 DEF WorldOK

LEMMA WorldUnchanged == TypeOK /\ UNCHANGED world => WorldOK'
BY DEF TypeOK, WorldOK, world

LEMMA HistoryTypes == TypeOK /\ Remember => muddled' \subseteq VmIds
BY DEF TypeOK, Remember

LEMMA AllTyped ==
  ASSUME Requested', WorldOK', muddled' \subseteq VmIds
  PROVE  TypeOK'
BY DEF TypeOK, Requested, Sound, Step, WorldOK

LEMMA ArriveTypes ==
  ASSUME TypeOK, NEW r \in Requests, Arrive(r)
  PROVE  Requested' /\ WorldOK'
<1>1. PICK k \in Kinds, v \in VmIds, b \in BackupIds :
        Goes(r, [kind |-> k, id |-> IF k = "all" THEN None ELSE v,
                 backup |-> IF k \in {"restore", "erase"} THEN b ELSE None,
                 pos |-> 1, node |-> TRUE, owner |-> "none", stray |-> FALSE])
  BY DEF Arrive
<1> DEFINE q == [kind |-> k, id |-> IF k = "all" THEN None ELSE v,
                 backup |-> IF k \in {"restore", "erase"} THEN b ELSE None,
                 pos |-> 1, node |-> TRUE, owner |-> "none", stray |-> FALSE]
<1>2. 1 <= Len(Routes[k])
  BY Lengths
<1>3. q \in Served
  BY DEF Served, Owners
<1>4. q.pos = 1 /\ q.kind = k /\ q.stray = FALSE /\ (k # "all" => q.id = v)
  OBVIOUS
<1>5. Sound(q)
  <2> HIDE DEF q
  <2> QED
    BY <1>2, <1>3, <1>4 DEF Sound
<1> QED
  BY <1>1, <1>5, GoesTypes, WorldUnchanged DEF Arrive

LEMMA ReadTypes ==
  ASSUME TypeOK, NEW r \in Requests, Read(r)
  PROVE  Requested' /\ WorldOK'
<1>1. Sound(req[r]) /\ req[r] \in Served /\ ~req[r].stray
  BY RequestsTyped, UnderWay DEF Read, Live, Requested
<1> DEFINE q == [req[r] EXCEPT !.node = FALSE]
<1>2. q \in Served /\ Sound(q) /\ ~q.stray
  BY <1>1, IdleIsNotServed DEF Served, Sound
<1>3. Sound(Idle)
  BY DEF Sound
<1>4. GoesOn(r, req[r]) \/ GoesOn(r, q) \/ Goes(r, Idle)
  BY DEF Read
<1>5. Requested'
  <2> HIDE DEF q
  <2> QED
    BY <1>1, <1>2, <1>3, <1>4, GoesTypes, GoesOnTypes
<1> QED
  BY <1>5, WorldUnchanged DEF Read

(* What a deletion reads before it deletes.                                  *)
LEMMA AddressTypes ==
  ASSUME TypeOK, NEW r \in Requests, ReadConfig(r) \/ CheckIP(r)
  PROVE  Requested' /\ WorldOK'
<1>1. Sound(req[r]) /\ req[r] \in Served /\ ~req[r].stray /\ req[r] # Idle
  BY RequestsTyped, UnderWay DEF ReadConfig, CheckIP, Live, Requested
<1> DEFINE q == [req[r] EXCEPT !.owner = cts[req[r].id]]
<1>2. ASSUME ReadConfig(r)
      PROVE  q \in Served /\ Sound(q) /\ ~q.stray
  <2>1. req[r].id \in VmIds
    BY <1>1, <1>2, UnderWay, StepAt DEF ReadConfig
  <2>2. cts[req[r].id] \in Owners
    BY <2>1 DEF TypeOK
  <2> QED
    BY <1>1, <2>2, IdleIsNotServed DEF Served, Sound
<1>3. Sound(Idle)
  BY DEF Sound
<1>4. \/ ReadConfig(r) /\ GoesOn(r, q)
      \/ GoesOn(r, req[r]) \/ Goes(r, Idle)
  BY DEF ReadConfig, CheckIP
<1>5. Requested'
  <2> HIDE DEF q
  <2> QED
    BY <1>1, <1>2, <1>3, <1>4, GoesTypes, GoesOnTypes
<1> QED
  BY <1>5, WorldUnchanged DEF ReadConfig, CheckIP

LEMMA RowTypes ==
  ASSUME TypeOK, NEW r \in Requests, Insert(r) \/ Unrow(r)
  PROVE  Requested' /\ WorldOK'
<1>1. Sound(Idle)
  BY DEF Sound
<1>2. req[r].id \in VmIds
  BY UnderWay, StepAt DEF Insert, Unrow, Live
<1> QED
  BY <1>1, <1>2, GoesTypes DEF Insert, Unrow, TypeOK, WorldOK

LEMMA WriteTypes ==
  ASSUME TypeOK, NEW r \in Requests,
         Write(r) \/ WriteRefused(r) \/ FailureCaught(r) \/ Stray(r)
  PROVE  Requested' /\ WorldOK'
<1>1. req[r] # Idle /\ Sound(Idle)
  BY DEF Write, WriteRefused, FailureCaught, Stray, Live, Sound
<1>2. Sound(req[r]) /\ req[r] \in Served
  BY <1>1, RequestsTyped, UnderWay DEF Requested
<1>3. CASE Write(r) \/ WriteRefused(r)
  <2>1. ~req[r].stray /\ (GoesOn(r, req[r]) \/ Goes(r, Idle))
    BY <1>3 DEF Write, WriteRefused, Live
  <2>2. Requested'
    BY <2>1, <1>1, <1>2, GoesTypes, GoesOnTypes
  <2>3. WorldOK'
    BY <1>1, <1>3, CarriedOutTypes, WorldUnchanged DEF Write, WriteRefused
  <2> QED
    BY <2>2, <2>3
<1>4. CASE FailureCaught(r) \/ Stray(r)
  <2>1. Goes(r, Idle) /\ (CarriedOut(r) \/ UNCHANGED world)
    BY <1>4 DEF FailureCaught, Stray
  <2> QED
    BY <2>1, <1>1, GoesTypes, CarriedOutTypes, WorldUnchanged
<1> QED
  BY <1>3, <1>4

LEMMA DieTypes ==
  ASSUME TypeOK, Die
  PROVE  Requested' /\ WorldOK'
<1>1. ASSUME NEW r \in Requests
      PROVE  Sound(req'[r])
  <2>1. CASE Step(r) \notin Writes
    BY <2>1 DEF Die, Sound
  <2>2. CASE Step(r) \in Writes
    <3>1. req[r] # Idle
      BY <2>2 DEF Step, Writes
    <3>2. req[r] \in Served /\ Step(r) = Routes[req[r].kind][req[r].pos] /\ Sound(req[r])
      BY <3>1, UnderWay, RequestsTyped DEF Requested
    <3> DEFINE q == [req[r] EXCEPT !.stray = TRUE]
    <3>3. req'[r] = q
      BY <2>2 DEF Die
    <3>4. q \in Served /\ q.kind = req[r].kind /\ q.pos = req[r].pos /\ q.id = req[r].id
      BY <3>2 DEF Served
    <3> HIDE DEF q
    <3>5. Sound(q)
      BY <2>2, <3>1, <3>2, <3>4 DEF Sound
    <3> QED
      BY <3>3, <3>5
  <2> QED
    BY <2>1, <2>2
<1>2. req' \in [Requests -> {Idle} \cup Served]
  BY <1>1 DEF Die, Sound
<1>3. Requested'
  BY <1>1, <1>2 DEF Requested, Sound
<1> QED
  BY <1>3, WorldUnchanged DEF Die

LEMMA StrangersTypes ==
  ASSUME TypeOK, StrangersCome
  PROVE  Requested' /\ WorldOK'
<1>1. Requested'
  BY RequestsTyped DEF StrangersCome, Requested, Sound
<1> QED
  BY <1>1 DEF StrangersCome, OwnerBecomes, TypeOK, WorldOK, Owners

LEMMA InitTypes == Init => TypeOK
BY DEF Init, TypeOK, Owners

LEMMA StepTypes == TypeOK /\ [Next]_vars => TypeOK'
<1> SUFFICES ASSUME TypeOK, [Next]_vars
             PROVE  TypeOK'
  OBVIOUS
<1>1. CASE UNCHANGED vars
  BY <1>1 DEF vars, TypeOK, Step
<1>2. ASSUME Next  PROVE muddled' \subseteq VmIds
  BY <1>2, HistoryTypes DEF Next
<1>3. ASSUME NEW r \in Requests, Arrive(r) \/ Serve(r), Next
      PROVE  TypeOK'
  BY <1>2, <1>3, ArriveTypes, ReadTypes, AddressTypes, RowTypes, WriteTypes, AllTyped DEF Serve
<1>4. CASE Next /\ Die
  BY <1>2, <1>4, DieTypes, AllTyped
<1>5. CASE Next /\ StrangersCome
  BY <1>2, <1>5, StrangersTypes, AllTyped
<1> QED
  BY <1>1, <1>3, <1>4, <1>5 DEF Next

(* A request is at a step its route has, for a container it was asked for,   *)
(* and what outlives the process are calls that change something             *)
(* (apiTools.ts:463-1030).                                                   *)
THEOREM TypesCorrect == Spec => []TypeOK
BY InitTypes, StepTypes, PTL DEF Spec

-----------------------------------------------------------------------------
(* Containers whose deletion nothing came across                             *)

(* What was asked before still holds: the row of a container that was        *)
(* validated, and the container whose address a deletion has read.  Until it *)
(* is carried out, what it is about has a row only if it is of ours.         *)
Kept(r) ==
  LET q == req[r]
  IN  /\ q.node
      /\ q.kind \in Validated /\ q.pos > 2 => q.id \in rows
      /\ q.kind = "delete" /\ q.pos < 6 /\ q.id \in rows => cts[q.id] = "ours"
      /\ q.kind = "delete" /\ q.pos = 3 /\ q.owner \in {"ours", "revived", "squatter"} =>
           cts[q.id] = "ours"
      /\ q.kind = "delete" /\ q.pos \in {4, 5} => cts[q.id] = "ours"

Undisturbed(v) == /\ cts[v] # "revived" /\ v \notin harmed
                  /\ \A r \in Requests : Concerns(r, v) => Kept(r)

Calm(v) == ~Muddle(v) /\ Undisturbed(v)

CalmInv == \A v \in VmIds \ muddled : Calm(v)

LEMMA DeletedAlone ==
  ASSUME NEW v, Calm(v), NEW r \in Requests, Deletes(r, v),
         NEW s \in Requests, Concerns(s, v)
  PROVE  s = r
BY DEF Calm, Undisturbed, Muddle

(* As long as it is not deleted, what has a row is a container of ours.      *)
LEMMA RowMeansOurs ==
  ASSUME TypeOK, NEW v \in VmIds, Calm(v), v \in rows,
         NEW r \in Requests, Concerns(r, v), req[r].kind # "delete"
  PROVE  cts[v] = "ours"
<1>1. \A s \in Requests : ~Deletes(s, v)
  BY DeletedAlone DEF Deletes
<1>2. cts[v] \in {"ours", "revived"}
  BY <1>1 DEF Calm, Undisturbed, Muddle
<1> QED
  BY <1>2 DEF Calm, Undisturbed

(* Past the validation, and past the address, the container is there.        *)
LEMMA PastCheck ==
  ASSUME TypeOK, NEW v \in VmIds, Calm(v), NEW r \in Requests, Concerns(r, v),
         \/ req[r].kind \in Validated /\ req[r].pos > 2
         \/ req[r].kind = "delete" /\ req[r].pos \in {4, 5}
  PROVE  /\ cts[v] = "ours"
         /\ req[r].kind \in Validated => v \in rows
<1>1. Kept(r) /\ req[r].id = v
  BY DEF Calm, Undisturbed, Concerns
<1>2. CASE req[r].kind = "delete"
  BY <1>1, <1>2 DEF Kept, Validated
<1>3. CASE req[r].kind # "delete"
  <2>1. v \in rows
    BY <1>1, <1>3 DEF Kept
  <2> QED
    BY <1>3, <2>1, RowMeansOurs
<1> QED
  BY <1>2, <1>3

LEMMA ValidatedStep ==
  ASSUME TypeOK, NEW r \in Requests, req[r] # Idle, req[r].kind \in Validated,
         Step(r) \notin {"validate", "checkContainerID"}
  PROVE  req[r].pos > 2
<1>1. /\ req[r].pos \in Nat /\ 1 <= req[r].pos
      /\ req[r].pos # 1 /\ req[r].pos # 2
  BY UnderWay, StepAt
<1> QED
  BY <1>1

LEMMA CarriedOutCalm ==
  ASSUME TypeOK, NEW r \in Requests, req[r] # Idle, CarriedOut(r), NEW v \in VmIds, Calm(v)
  PROVE  /\ cts'[v] # "revived" /\ v \notin harmed' /\ rows' = rows
         /\ cts[v] = "ours" => cts'[v] = "ours" \/ Deletes(r, v)
<1>1. CASE ~Concerns(r, v)
  <2>1. req[r].id # v
    BY <1>1 DEF Concerns
  <2> QED
    BY <2>1 DEF CarriedOut, OwnerBecomes, TypeOK, Calm, Undisturbed
<1>2. CASE Concerns(r, v)
  <2>1. req[r].id = v
    BY <1>2 DEF Concerns
  <2>2. CASE Step(r) \in {"create", "vzdump", "erase"}
    <3>1. cts' = cts \/ (Step(r) = "create" /\ OwnerBecomes(v, "ours"))
      BY <2>1, <2>2 DEF CarriedOut
    <3>2. harmed' = harmed /\ rows' = rows
      BY <2>2 DEF CarriedOut
    <3>3. cts \in [VmIds -> Owners] /\ cts[v] # "revived" /\ v \notin harmed
      BY DEF TypeOK, Calm, Undisturbed
    <3> QED
      BY <3>1, <3>2, <3>3 DEF OwnerBecomes
  <2>3. CASE Step(r) \in {"change", "restore"}
    <3>1. req[r].kind \in Validated
      BY <2>3, UnderWay, StepAt, KindsAre
    <3>2. cts[v] = "ours"
      BY <1>2, <2>3, <3>1, ValidatedStep, PastCheck
    <3> QED
      BY <2>1, <2>3, <3>2 DEF CarriedOut, OwnerBecomes, TypeOK, Calm, Undisturbed, Exists
  <2>4. CASE Step(r) = "destroy"
    <3>1. req[r].kind = "delete" /\ req[r].pos = 5
      BY <2>4, UnderWay, StepAt, KindsAre
    <3>2. cts[v] = "ours" /\ Deletes(r, v)
      BY <1>2, <3>1, PastCheck DEF Deletes
    <3> QED
      BY <2>1, <2>4, <3>2 DEF CarriedOut, OwnerBecomes, TypeOK, Calm, Undisturbed
  <2> QED
    BY <2>2, <2>3, <2>4 DEF CarriedOut, Possible
<1> QED
  BY <1>1, <1>2

(* A step of one request does not take from another what it has asked for.   *)
LEMMA OthersKept ==
  ASSUME TypeOK, NEW v \in VmIds, Calm(v), NEW r \in Requests, NEW q, Goes(r, q),
         v \in rows => v \in rows' \/ Deletes(r, v),
         v \in rows' => v \in rows \/ Concerns(r, v),
         cts[v] = "ours" => cts'[v] = "ours" \/ Deletes(r, v),
         NEW s \in Requests, s # r, Concerns(s, v)'
  PROVE  Kept(s)'
<1>1. req'[s] = req[s] /\ Concerns(s, v)
  BY DEF Goes, TypeOK, Concerns
<1>2. ~Deletes(r, v)
  BY <1>1, DeletedAlone DEF Deletes
<1>3. Kept(s) /\ req[s].id = v
  BY <1>1 DEF Calm, Undisturbed, Concerns
<1>4. req[s].kind = "delete" => (v \in rows' => v \in rows)
  BY <1>1, DeletedAlone DEF Deletes
<1>5. (v \in rows => v \in rows') /\ (cts[v] = "ours" => cts'[v] = "ours")
  BY <1>2
<1> QED
  BY <1>1, <1>3, <1>4, <1>5 DEF Kept

LEMMA AnsweredCalm ==
  ASSUME TypeOK, NEW r \in Requests, Goes(r, Idle), NEW v \in VmIds
  PROVE  ~Concerns(r, v)'
BY DEF Goes, TypeOK, Concerns

(* The next step of a request whose answers so far still hold; q is the      *)
(* request with what it has just been told.                                  *)
LEMMA OwnKept ==
  ASSUME TypeOK, NEW v \in VmIds, NEW r \in Requests, req[r] # Idle,
         cts[v] \notin {"revived", "squatter"}, NEW q \in Served,
         q.kind = req[r].kind, q.id = req[r].id, q.pos = req[r].pos, q.node = req[r].node,
         GoesOn(r, q), Concerns(r, v)', Kept(r), UNCHANGED rows,
         q.kind \in Validated /\ q.pos = 2 => v \in rows,
         q.kind = "delete" /\ q.pos \in 1 .. 4 => UNCHANGED cts,
         q.kind = "delete" /\ q.pos = 2 => q.owner = cts[v],
         q.kind = "delete" /\ q.pos = 3 => cts[v] = "ours"
  PROVE  Kept(r)'
<1> DEFINE p == [q EXCEPT !.pos = @ + 1]
<1>1. q.pos \in Nat /\ 1 <= q.pos
  BY DEF Served
<1>2. req'[r] = p
  BY DEF GoesOn, Goes, TypeOK, Concerns
<1>3. p.pos = q.pos + 1 /\ p.kind = q.kind /\ p.id = q.id /\ p.node = q.node /\ p.owner = q.owner
  BY DEF Served
<1>4. q.id = v
  BY <1>2, <1>3 DEF Concerns
<1>5. q.node
  BY DEF Kept
<1>6. ASSUME q.kind \in Validated, q.pos + 1 > 2
      PROVE  v \in rows'
  <2>1. q.pos = 2 \/ q.pos > 2
    BY <1>1, <1>6
  <2> QED
    BY <1>4, <1>6, <2>1 DEF Kept
<1>7. ASSUME q.kind = "delete", q.pos + 1 < 6, v \in rows'
      PROVE  cts'[v] = "ours"
  <2>1. q.pos \in 1 .. 4 /\ q.pos < 6
    BY <1>1, <1>7
  <2> QED
    BY <1>4, <1>7, <2>1 DEF Kept
<1>8. ASSUME q.kind = "delete", q.pos + 1 = 3, q.owner \in {"ours", "revived", "squatter"}
      PROVE  cts'[v] = "ours"
  <2>1. q.pos = 2 /\ q.pos \in 1 .. 4
    BY <1>1, <1>8
  <2> QED
    BY <1>8, <2>1
<1>9. ASSUME q.kind = "delete", q.pos + 1 \in {4, 5}
      PROVE  cts'[v] = "ours"
  <2>1. q.pos \in {3, 4} /\ q.pos \in 1 .. 4
    BY <1>1, <1>9
  <2>2. CASE q.pos = 3
    BY <1>9, <2>1, <2>2
  <2>3. CASE q.pos = 4
    BY <1>4, <1>9, <2>1, <2>3 DEF Kept
  <2> QED
    BY <2>1, <2>2, <2>3
<1> HIDE DEF p
<1> QED
  BY <1>2, <1>3, <1>4, <1>5, <1>6, <1>7, <1>8, <1>9 DEF Kept

(* What a read finds of a container that nothing deletes, or this request    *)
(* does.                                                                     *)
LEMMA ReadFinds ==
  ASSUME TypeOK, NEW r \in Requests, req[r] # Idle, NEW v \in VmIds, Calm(v), Concerns(r, v)
  PROVE  /\ Step(r) = "node" => Found(r)
         /\ Trips(r) /\ ~Found(r) => Step(r) = "config" /\ v \notin rows
<1>1. req[r].id = v /\ Kept(r)
  BY DEF Concerns, Calm, Undisturbed
<1>2. CASE req[r].kind \in Validated
  <2>1. ASSUME Step(r) \in {"node", "storages", "row", "ownNode", "current"}
        PROVE  cts[v] = "ours" /\ v \in rows
    BY <1>2, <2>1, ValidatedStep, PastCheck
  <2>2. Step(r) # "config"
    BY <1>2, UnderWay, StepAt
  <2> QED
    BY <1>1, <2>1, <2>2 DEF Found, Trips, Exists, IsContainer, Kept
<1>3. CASE req[r].kind = "delete"
  <2>1. Step(r) \in {"ownNode", "config", "checkIP", "node", "destroy", "unrow"}
    BY <1>3, UnderWay, StepAt
  <2>2. ASSUME Step(r) = "node"
        PROVE  cts[v] = "ours"
    <3>1. req[r].pos = 4
      BY <1>3, <2>2, UnderWay, StepAt
    <3> QED
      BY <1>3, <3>1, PastCheck
  <2>3. ASSUME Step(r) = "config", v \in rows
        PROVE  cts[v] = "ours"
    <3>1. req[r].pos = 2
      BY <1>3, <2>3, UnderWay, StepAt
    <3> QED
      BY <1>1, <1>3, <2>3, <3>1 DEF Kept
  <2> QED
    BY <1>1, <1>3, <2>1, <2>2, <2>3 DEF Found, Trips, Exists, IsContainer
<1>4. CASE req[r].kind \in {"all", "specific", "create"}
  <2>1. Step(r) \notin {"node", "storages", "row", "config"}
    BY <1>4, UnderWay, StepAt DEF Validated
  <2>2. Step(r) \in {"ownNode", "current"} => req[r].kind = "specific"
    BY <1>4, UnderWay, StepAt
  <2> QED
    BY <2>1, <2>2 DEF Trips
<1> QED
  BY <1>2, <1>3, <1>4, UnderWay, KindsAre

-----------------------------------------------------------------------------
(* Each action leaves a calm container undisturbed.                          *)

LEMMA ArriveCalm ==
  ASSUME TypeOK, NEW r \in Requests, Arrive(r), NEW v \in VmIds, Calm(v), ~Muddle(v)'
  PROVE  Undisturbed(v)'
<1>1. PICK k \in Kinds, w \in VmIds, b \in BackupIds :
        Goes(r, [kind |-> k, id |-> IF k = "all" THEN None ELSE w,
                 backup |-> IF k \in {"restore", "erase"} THEN b ELSE None,
                 pos |-> 1, node |-> TRUE, owner |-> "none", stray |-> FALSE])
  BY DEF Arrive
<1>2. req'[r].node /\ req'[r].pos = 1
  BY <1>1 DEF Goes, TypeOK
<1>4. UNCHANGED <<cts, rows, harmed>>
  BY DEF Arrive, world
<1>5. ASSUME Concerns(r, v)', req'[r].kind = "delete", v \in rows
      PROVE  cts[v] = "ours"
  <2>1. \A s \in Requests : s # r => ~Concerns(s, v)'
    BY <1>5 DEF Muddle, Deletes
  <2>2. \A s \in Requests : ~Deletes(s, v)
    BY <2>1 DEF Arrive, Goes, TypeOK, Deletes, Concerns
  <2> QED
    BY <1>5, <2>2 DEF Calm, Undisturbed, Muddle
<1>3. Concerns(r, v)' => Kept(r)'
  BY <1>2, <1>4, <1>5 DEF Kept, Concerns
<1> QED
  BY <1>1, <1>3, <1>4, OthersKept DEF Calm, Undisturbed

(* An answer, and what was done to the world before it.                      *)
LEMMA AnswerCalm ==
  ASSUME TypeOK, NEW r \in Requests, req[r] # Idle, Goes(r, Idle), NEW v \in VmIds, Calm(v),
         cts'[v] # "revived", v \notin harmed',
         v \in rows => v \in rows' \/ Deletes(r, v),
         v \in rows' => v \in rows \/ Concerns(r, v),
         cts[v] = "ours" => cts'[v] = "ours" \/ Deletes(r, v)
  PROVE  Undisturbed(v)'
BY AnsweredCalm, OthersKept DEF Undisturbed

LEMMA ReadCalm ==
  ASSUME TypeOK, NEW r \in Requests, Read(r), NEW v \in VmIds, Calm(v)
  PROVE  Undisturbed(v)'
<1>1. req[r] # Idle /\ UNCHANGED <<cts, rows, harmed>>
  BY DEF Read, Live, world
<1>2. cts[v] # "revived" /\ v \notin harmed
  BY DEF Calm, Undisturbed
<1>3. CASE Goes(r, Idle)
  BY <1>1, <1>2, <1>3, AnswerCalm
<1>4. CASE ~Concerns(r, v) /\ ~Goes(r, Idle)
  <2> DEFINE p == [req[r] EXCEPT !.node = FALSE]
  <2>3. req[r] \in Served /\ p \in Served /\ p.id = req[r].id
    BY <1>1, UnderWay DEF Served
  <2>4. GoesOn(r, req[r]) \/ GoesOn(r, p)
    BY <1>4 DEF Read
  <2> HIDE DEF p
  <2>1. PICK q : Goes(r, q) /\ q.id = req[r].id
    BY <1>4, <2>3, <2>4 DEF GoesOn, Served
  <2>2. ~Concerns(r, v)'
    BY <1>1, <1>4, <2>1 DEF Goes, TypeOK, Concerns
  <2> QED
    BY <1>1, <1>2, <2>1, <2>2, OthersKept DEF Undisturbed
<1>5. CASE Concerns(r, v) /\ ~Goes(r, Idle)
  <2>1. Found(r) /\ GoesOn(r, req[r])
    BY <1>1, <1>5, ReadFinds DEF Read
  <2>2. Kept(r) /\ req[r].id = v
    BY <1>5 DEF Calm, Undisturbed, Concerns
  <2>3. ASSUME req[r].kind \in Validated, req[r].pos = 2
        PROVE  v \in rows
    <3>1. Step(r) = "checkContainerID"
      BY <1>1, <2>3, UnderWay, StepAt
    <3> QED
      BY <2>1, <2>2, <3>1 DEF Found
  <2>4. req[r].kind = "delete" => req[r].pos \notin {2, 3}
    BY <1>1, UnderWay, StepAt DEF Read
  <2>7. cts[v] \notin {"revived", "squatter"} /\ req[r] \in Served
    BY <1>1, UnderWay DEF Calm, Undisturbed, Muddle
  <2>5. Concerns(r, v)' => Kept(r)'
    BY <1>1, <2>1, <2>2, <2>3, <2>4, <2>7, OwnKept
  <2>6. PICK q : Goes(r, q)
    BY <2>1 DEF GoesOn
  <2> QED
    BY <1>1, <1>2, <2>5, <2>6, OthersKept DEF Undisturbed
<1> QED
  BY <1>3, <1>4, <1>5

(* A deletion reads an address, and asks whether it is of the service.       *)
LEMMA AddressCalm ==
  ASSUME TypeOK, NEW r \in Requests, ReadConfig(r) \/ CheckIP(r), NEW v \in VmIds, Calm(v)
  PROVE  Undisturbed(v)'
<1>1. req[r] # Idle /\ UNCHANGED <<cts, rows, harmed>>
  BY DEF ReadConfig, CheckIP, Live, world
<1>2. cts[v] \notin {"revived", "squatter"} /\ v \notin harmed
  BY DEF Calm, Undisturbed, Muddle
<1>3. req[r] \in Served /\ req[r].id \in VmIds
  BY <1>1, UnderWay, StepAt DEF ReadConfig, CheckIP
<1>4. CASE Goes(r, Idle)
  BY <1>1, <1>2, <1>4, AnswerCalm
<1>5. ASSUME ~Goes(r, Idle)
      PROVE  \E q \in Served :
               /\ q.kind = req[r].kind /\ q.id = req[r].id /\ q.pos = req[r].pos
               /\ q.node = req[r].node /\ GoesOn(r, q)
               /\ Step(r) = "config" => q.owner = cts[q.id]
               /\ Step(r) = "checkIP" => q.owner \in {"ours", "revived", "squatter"}
               /\ q.owner = req[r].owner \/ Step(r) = "config"
  <2>1. CASE ReadConfig(r)
    <3> DEFINE q == [req[r] EXCEPT !.owner = cts[req[r].id]]
    <3>1. cts[req[r].id] \in Owners
      BY <1>3 DEF TypeOK
    <3>2. q \in Served /\ q.kind = req[r].kind /\ q.id = req[r].id /\ q.pos = req[r].pos
          /\ q.node = req[r].node /\ q.owner = cts[q.id]
      BY <1>3, <3>1 DEF Served
    <3>3. GoesOn(r, q) /\ Step(r) = "config"
      BY <2>1 DEF ReadConfig
    <3> QED
      BY <3>2, <3>3
  <2>2. CASE CheckIP(r)
    BY <1>3, <1>5, <2>2 DEF CheckIP
  <2> QED
    BY <2>1, <2>2
<1>6. CASE ~Goes(r, Idle)
  <2>1. PICK q \in Served :
               /\ q.kind = req[r].kind /\ q.id = req[r].id /\ q.pos = req[r].pos
               /\ q.node = req[r].node /\ GoesOn(r, q)
               /\ Step(r) = "config" => q.owner = cts[q.id]
               /\ Step(r) = "checkIP" => q.owner \in {"ours", "revived", "squatter"}
               /\ q.owner = req[r].owner \/ Step(r) = "config"
    BY <1>5, <1>6
  <2>2. PICK p : Goes(r, p) /\ (p = Idle \/ p.id = q.id)
    BY <2>1 DEF GoesOn, Served
  <2>3. ASSUME Concerns(r, v)'
        PROVE  Kept(r)'
    <3>1. q.id = v
      BY <2>2, <2>3 DEF Goes, TypeOK, Concerns
    <3>2. Kept(r)
      BY <1>1, <2>1, <3>1 DEF Calm, Undisturbed, Concerns
    <3>3. q.kind = "delete" /\ Step(r) \in {"config", "checkIP"}
      BY <1>1, <2>1, UnderWay, StepAt DEF ReadConfig, CheckIP
    <3>4. /\ q.pos = 2 => Step(r) = "config"
          /\ q.pos = 3 => Step(r) = "checkIP"
      BY <1>1, <2>1, <3>3, UnderWay, StepAt
    <3>5. q.pos = 3 => cts[v] = "ours"
      BY <2>1, <3>1, <3>2, <3>3, <3>4 DEF Kept
    <3>6. q.pos = 2 => q.owner = cts[v]
      BY <2>1, <3>1, <3>4
    <3>7. q.kind \notin Validated
      BY <3>3 DEF Validated
    <3> QED
      BY <1>1, <1>2, <2>1, <2>3, <3>2, <3>5, <3>6, <3>7, OwnKept
  <2> QED
    BY <1>1, <1>2, <2>2, <2>3, OthersKept DEF Undisturbed
<1> QED
  BY <1>4, <1>6

LEMMA RowCalm ==
  ASSUME TypeOK, NEW r \in Requests, Insert(r) \/ Unrow(r), NEW v \in VmIds, Calm(v)
  PROVE  Undisturbed(v)'
<1>1. req[r] # Idle /\ Goes(r, Idle) /\ UNCHANGED <<cts, harmed>>
  BY DEF Insert, Unrow, Live
<1>2. cts[v] # "revived" /\ v \notin harmed
  BY DEF Calm, Undisturbed
<1>3. ASSUME v \in rows, v \notin rows'
      PROVE  Deletes(r, v)
  <2>1. Step(r) = "unrow" /\ req[r].id = v
    BY <1>3 DEF Insert, Unrow
  <2>2. req[r].kind = "delete"
    BY <1>1, <2>1, UnderWay, StepAt, KindsAre
  <2> QED
    BY <1>1, <2>1, <2>2 DEF Deletes, Concerns
<1>4. v \in rows' => v \in rows \/ Concerns(r, v)
  BY <1>1 DEF Insert, Unrow, Concerns
<1> QED
  BY <1>1, <1>2, <1>3, <1>4, AnswerCalm

LEMMA WriteCalm ==
  ASSUME TypeOK, NEW r \in Requests, Write(r) \/ WriteRefused(r), NEW v \in VmIds, Calm(v)
  PROVE  Undisturbed(v)'
<1>1. req[r] # Idle /\ (CarriedOut(r) \/ UNCHANGED world)
  BY DEF Write, WriteRefused, Live
<1>2. Step(r) \in Writes
  BY DEF Write, WriteRefused, CarriedOut, Possible, Writes
<1>3. /\ cts'[v] # "revived" /\ v \notin harmed' /\ UNCHANGED rows
      /\ cts[v] = "ours" => cts'[v] = "ours" \/ Deletes(r, v)
  BY <1>1, CarriedOutCalm DEF world, Calm, Undisturbed
<1>4. CASE Goes(r, Idle)
  BY <1>1, <1>3, <1>4, AnswerCalm
<1>5. CASE GoesOn(r, req[r])
  <2>1. ASSUME Concerns(r, v)'
        PROVE  Kept(r)'
    <3>1. Concerns(r, v)
      BY <1>1, <1>5, <2>1, UnderWay DEF GoesOn, Goes, TypeOK, Concerns, Served
    <3>2. Kept(r)
      BY <3>1 DEF Calm, Undisturbed
    <3>3. req[r].kind \in Validated => req[r].pos # 2
      BY <1>1, <1>2, ValidatedStep DEF Writes
    <3>4. req[r].kind = "delete" => req[r].pos \notin 1 .. 4
      <4>1. Step(r) \notin {"ownNode", "config", "checkIP", "node"}
        BY <1>2 DEF Writes
      <4>2. req[r].kind = "delete" => req[r].pos \notin {1, 2, 3, 4}
        BY <1>1, <4>1, UnderWay, StepAt
      <4> QED
        BY <4>2
    <3>5. cts[v] \notin {"revived", "squatter"} /\ req[r] \in Served
      BY <1>1, UnderWay DEF Calm, Undisturbed, Muddle
    <3>6. req[r].kind = "delete" => req[r].pos \notin {2, 3}
      BY <3>4
    <3> QED
      BY <1>1, <1>3, <1>5, <2>1, <3>2, <3>3, <3>4, <3>5, <3>6, OwnKept
  <2>2. PICK q : Goes(r, q)
    BY <1>5 DEF GoesOn
  <2> QED
    BY <1>3, <2>1, <2>2, OthersKept DEF Undisturbed
<1> QED
  BY <1>4, <1>5 DEF Write, WriteRefused

LEMMA LastCallCalm ==
  ASSUME TypeOK, NEW r \in Requests, FailureCaught(r) \/ Stray(r), NEW v \in VmIds, Calm(v)
  PROVE  Undisturbed(v)'
<1>1. req[r] # Idle /\ Goes(r, Idle) /\ (CarriedOut(r) \/ UNCHANGED world)
  BY DEF FailureCaught, Stray, Live
<1>2. /\ cts'[v] # "revived" /\ v \notin harmed' /\ UNCHANGED rows
      /\ cts[v] = "ours" => cts'[v] = "ours" \/ Deletes(r, v)
  BY <1>1, CarriedOutCalm DEF world, Calm, Undisturbed
<1> QED
  BY <1>1, <1>2, AnswerCalm

LEMMA DieCalm ==
  ASSUME TypeOK, Die, NEW v \in VmIds, Calm(v)
  PROVE  Undisturbed(v)'
<1>1. UNCHANGED <<cts, rows, harmed>>
  BY DEF Die, world
<1>2. ASSUME NEW s \in Requests, Concerns(s, v)'
      PROVE  Kept(s)'
  <2>1. Step(s) \in Writes /\ req[s] # Idle /\ req'[s] = [req[s] EXCEPT !.stray = TRUE]
    BY <1>2 DEF Die, Concerns, Step, Writes
  <2>2. req[s] \in Served
    BY <2>1, UnderWay
  <2>3. Kept(s)
    BY <1>2, <2>1, <2>2 DEF Calm, Undisturbed, Concerns, Served
  <2> QED
    BY <1>1, <2>1, <2>2, <2>3 DEF Kept, Served
<1> QED
  BY <1>1, <1>2 DEF Calm, Undisturbed

LEMMA StrangersCalm ==
  ASSUME TypeOK, StrangersCome, NEW v \in VmIds, Calm(v)
  PROVE  Undisturbed(v)'
<1>1. UNCHANGED <<rows, harmed, req>>
  BY DEF StrangersCome
<1>2. cts'[v] # "revived" /\ (cts[v] = "ours" => cts'[v] = "ours")
  BY DEF StrangersCome, OwnerBecomes, TypeOK, Calm, Undisturbed
<1> QED
  BY <1>1, <1>2 DEF Calm, Undisturbed, Concerns, Kept

LEMMA StumblesForCause ==
  ASSUME TypeOK, CalmInv, NEW r \in Requests, Stumbles(r)
  PROVE  \/ req[r].id \in muddled
         \/ Step(r) = "config" /\ req[r].id \notin rows
<1>1. req[r] # Idle /\ Trips(r) /\ ~Found(r)
  BY DEF Stumbles, Live
<1>2. Step(r) \in {"storages", "row", "config", "ownNode", "current"}
  BY <1>1 DEF Trips
<1>3. req[r].id \in VmIds
  BY <1>1, <1>2, UnderWay, StepAt
<1>4. Calm(req[r].id) => Step(r) = "config" /\ req[r].id \notin rows
  BY <1>1, <1>3, ReadFinds DEF Concerns
<1> QED
  BY <1>3, <1>4 DEF CalmInv

LEMMA InitCalm == Init => CalmInv
BY DEF Init, CalmInv, Calm, Undisturbed, Muddle, Deletes, Concerns

LEMMA StepCalm == TypeOK /\ CalmInv /\ [Next]_vars => CalmInv'
<1> SUFFICES ASSUME TypeOK, CalmInv, [Next]_vars
             PROVE  CalmInv'
  OBVIOUS
<1>1. CASE UNCHANGED vars
  BY <1>1 DEF vars, CalmInv, Calm, Undisturbed, Muddle, Deletes, Concerns, Kept
<1>2. CASE Next
  <2> SUFFICES ASSUME NEW v \in VmIds, v \notin muddled'
               PROVE  Calm(v)'
    BY DEF CalmInv
  <2>1. ~Muddle(v)' /\ v \notin muddled
    BY <1>2 DEF Next, Remember
  <2>2. Calm(v)
    BY <2>1 DEF CalmInv
  <2>3. ASSUME NEW r \in Requests, Arrive(r) \/ Serve(r)
        PROVE  Undisturbed(v)'
    BY <2>1, <2>2, <2>3, ArriveCalm, ReadCalm, AddressCalm, RowCalm, WriteCalm, LastCallCalm DEF Serve
  <2>4. Undisturbed(v)'
    BY <1>2, <2>2, <2>3, DieCalm, StrangersCalm DEF Next
  <2> QED
    BY <2>1, <2>4 DEF Calm
<1> QED
  BY <1>1, <1>2

(* Of a container whose deletion nothing came across, no call but its own    *)
(* deletion takes what a request about it has validated or read: the row     *)
(* after validateContainerID (ContainerWorkspaces.ts:503-528), the container *)
(* once its address is known (apiTools.ts:286-312).                          *)
THEOREM Calmness == Spec => []CalmInv
BY InitCalm, StepCalm, TypesCorrect, PTL DEF Spec

(* A stranger's container is changed only under an id in whose deletion      *)
(* something came between (ContainerWorkspaces.ts:503-528).                  *)
THEOREM OnlyOursAreChanged == Spec => []StrangersUnharmed
<1>1. TypeOK /\ CalmInv => StrangersUnharmed
  BY DEF TypeOK, CalmInv, Calm, Undisturbed, StrangersUnharmed
<1> QED
  BY <1>1, TypesCorrect, Calmness, PTL

(* A restoration brings back only what was deleted meanwhile                 *)
(* (apiTools.ts:1009-1030).                                                  *)
THEOREM NoneIsRevivedUnasked == Spec => []RevivedOnlyInMuddle
<1>1. CalmInv => RevivedOnlyInMuddle
  BY DEF CalmInv, Calm, Undisturbed, RevivedOnlyInMuddle
<1> QED
  BY <1>1, Calmness, PTL

(* The nulls that nothing asks about (apiTools.ts:638-1030,                  *)
(* container.ts:68-89) are met only where something came across a deletion,  *)
(* except the configuration of what has no row (apiTools.ts:675).            *)
THEOREM NullsAreMuddle == Spec => []EndsOnlyForCause
<1>1. TypeOK /\ CalmInv => EndsOnlyForCause
  BY StumblesForCause DEF EndsOnlyForCause
<1> QED
  BY <1>1, TypesCorrect, Calmness, PTL
=============================================================================
