------------------------- MODULE ProvisioningMishaps -------------------------
(***************************************************************************)
(* Provisioning with a history of its mishaps.  Nothing in the code repairs *)
(* what a failure or an overlap leaves behind, so without a condition on    *)
(* both, the cluster and the tables disagree sooner or later.  What can be  *)
(* said under every interleaving and every failure is how far the damage    *)
(* goes: to the address of the request that met with it, and no further.    *)
(***************************************************************************)
EXTENDS Provisioning

VARIABLES
  spoiled,  \* history: the addresses a mishap has happened to
  late      \* history: the agents' requests that mishaps have overtaken

history    == <<spoiled, late>>
mishapVars == <<vars, history>>

Writers == CreatePcs \cup DeletePcs \cup PoolPcs

(* The request in slot r writes, and is about address a. *)
Handles(r, a) == req[r].pc \in Writers /\ req[r].addr = a

(* Another request is about the same address, or deletes the same container. *)
Overlap(a) ==
  \E r \in Requests : Handles(r, a) /\
    \E s \in Requests \ {r} :
      \/ Handles(s, a)
      \/ req[s].pc \in DeletePcs /\ req[s].vm = req[r].vm

(* The places between the first and the last change a request makes. *)
HalfDone == {"insertRow", "markUsed", "getIP", "markUnused", "deleteRow"}

Ended(r) == req[r].pc # "idle" /\ req'[r].pc = "idle"

(* It stops there: for an error, a rejection or the end of the process. *)
StopsHalfway(r) ==
  req[r].pc \in HalfDone /\ Ended(r) /\ reply'[r] \notin {"created", "ok"}

(* Proxmox has done it, and the answer is lost. *)
EndsUnaware(r) == req[r].pc \in {"postLxc", "deleteLxc"} /\ Ended(r) /\ pve' # pve

(* The container is still there, and its row and mark are removed. *)
GoesOnRefused(r) == At(r, "deleteLxc") /\ req'[r].pc = "getIP" /\ pve' = pve

(* The address leaves the pool while a container has it. *)
Unpools(r) == At(r, "deleteIp") /\ Ended(r) /\ Holders(req[r].addr) # {}

Mishap(r) == StopsHalfway(r) \/ EndsUnaware(r) \/ GoesOnRefused(r) \/ Unpools(r)

(* An agent's request that has looked up the id of a container. *)
Renames(r) == req[r].pc \in {"setHostname", "setReady"}

(* The container has come or gone since, or Proxmox has refused the rename. *)
Overtaken(r) ==
  \/ pve'[req[r].vm] # pve[req[r].vm]
  \/ At(r, "setHostname") /\ req'[r].pc = "setReady" /\ req[r].vm \notin named'

Record ==
  /\ spoiled' = spoiled \cup {a \in Addrs : Overlap(a)'}
                        \cup {a \in Addrs : \E r \in Requests : Handles(r, a) /\ Mishap(r)}
  /\ late' = {r \in Requests : Renames(r) /\ Renames(r)' /\ (r \in late \/ Overtaken(r))}

MishapInit == Init /\ spoiled = {} /\ late = {}

MishapNext == Next /\ Record

MishapSpec == MishapInit /\ [][MishapNext]_mishapVars

-----------------------------------------------------------------------------
(* Properties *)

(* One container has the address, in the cluster as in cts, and ips shows it. *)
AgreeOn(a) ==
  /\ \A v \in VmIds : row[v] = a <=> pve[v] = a
  /\ \A v, w \in Holders(a) : v = w
  /\ Holders(a) # {} => InPool(a)
  /\ \A k \in Keys : ipv4[k] = a => (k \in used <=> Holders(a) # {})

(* Whatever fails and however requests interleave: cluster, cts and ips      *)
(* agree about an address no request is about (apiTools.ts:286-312,          *)
(* 391-518), unless a request about this very address stopped half-way,      *)
(* went on after a refusal, or met another one.                              *)
DisagreeOnlyForCause ==
  \A a \in Addrs \ spoiled : (\E r \in Requests : Handles(r, a)) \/ AgreeOn(a)

(* 201 "created" (container.ts:457-461) is true although other requests run  *)
(* and fail meanwhile, unless one of them was about the same address.        *)
CreatedUnlessSpoiled ==
  [][\A r \in Requests :
       At(r, "markUsed") /\ reply'[r] = "created" /\ req[r].addr \notin spoiled =>
         /\ pve[req[r].vm] = req[r].addr
         /\ Holders(req[r].addr) = {req[r].vm}
         /\ req[r].key \in used' /\ ipv4[req[r].key] = req[r].addr]_mishapVars

(* The row of a container goes when a deletion of this very container, with  *)
(* the address it has, has destroyed it: it is neither taken by a deletion   *)
(* that read the address of an earlier container with the id, nor            *)
(* overwritten by a creation with the same id (apiTools.ts:298, 476, 523).   *)
RowsGoWithContainers ==
  [][\A v \in VmIds :
       row[v] \in Addrs \ spoiled /\ row'[v] # row[v] =>
         /\ row'[v] = None /\ pve[v] # row[v]
         /\ \E r \in Requests : /\ At(r, "deleteRow") /\ req[r].vm = v
                                /\ req[r].addr = row[v] /\ reply'[r] = "ok"]_mishapVars

(* The container runs as one that is `ready` (container.ts:86) and does not  *)
(* have its own hostname.                                                    *)
FalselyReady(v) == v \in ready \ named /\ pve[v] = row[v] /\ row[v] \notin spoiled

(* That comes about in one way only: an agent's request marks the container  *)
(* and was overtaken after it had looked up the id, so that it marks another *)
(* container than it has renamed, or one that Proxmox would not rename       *)
(* (agent.ts:44-57).                                                         *)
ReadyIsNamedUnlessLate ==
  [][\A v \in VmIds :
       FalselyReady(v)' /\ ~FalselyReady(v) =>
         \E r \in late : At(r, "setReady") /\ req[r].vm = v]_mishapVars

-----------------------------------------------------------------------------
(* Why it holds: what a request about an address that is not spoiled may     *)
(* rely on, whatever the others do.                                          *)

Relies(q) ==
  /\ q.pc \in {"nextid", "postLxc", "insertRow"} => Holders(q.addr) = {}
  /\ q.pc \in {"nextid", "postLxc", "insertRow", "markUsed"} =>
       ipv4[q.key] = q.addr /\ q.key \notin used
  /\ q.pc \in {"insertRow", "markUsed", "checkIP", "deleteLxc"} => pve[q.vm] = q.addr
  /\ q.pc \in {"markUsed"} \cup DeletePcs => row[q.vm] = q.addr
  /\ q.pc \in {"getIP", "markUnused", "deleteRow"} => pve[q.vm] # q.addr /\ q.ok
  /\ q.pc \in {"markUnused", "deleteRow"} => ipv4[q.key] = q.addr
  /\ q.pc = "deleteRow" => q.key \notin used

(* Cluster and cts agree, but for a deletion that still has to remove its    *)
(* row, and a creation that still has to insert it.                          *)
RowsOf(a) ==
  \A v \in VmIds :
    /\ row[v] = a => \/ pve[v] = a
                     \/ \E r \in Requests : /\ Handles(r, a) /\ req[r].vm = v
                                            /\ req[r].pc \in {"getIP", "markUnused", "deleteRow"}
    /\ pve[v] = a => \/ row[v] = a
                     \/ \E r \in Requests : /\ Handles(r, a) /\ req[r].vm = v
                                            /\ At(r, "insertRow")

(* The mark agrees with cts, but for a creation that still has to set it,    *)
(* and a deletion that has just removed it.                                  *)
MarkOf(a) ==
  /\ Holders(a) # {} => InPool(a)
  /\ \A k \in Keys : ipv4[k] = a =>
       /\ k \in used => Holders(a) # {}
       /\ Holders(a) # {} => \/ k \in used
                            \/ \E r \in Requests : /\ Handles(r, a)
                                                   /\ req[r].pc \in {"markUsed", "deleteRow"}

(* No deletion of a container is about an address it no longer has.          *)
NoLateDeletion(a) ==
  \A r \in Requests : req[r].pc \in DeletePcs /\ req[r].addr # a =>
    row[req[r].vm] # a /\ pve[req[r].vm] # a

Sound(a) == /\ ~Overlap(a)
            /\ \A v, w \in Holders(a) : v = w
            /\ RowsOf(a) /\ MarkOf(a) /\ NoLateDeletion(a)
            /\ \A r \in Requests : Handles(r, a) => Relies(req[r])

(* The row of ips a request has read is that of its address, or is gone.     *)
KeysKept == \A r \in Requests :
  req[r].key # None => ipv4[req[r].key] \in {req[r].addr, None}

MishapInv == /\ TypeOK /\ InFlightUnanswered /\ UniqueIps /\ KeysKept
             /\ \A a \in Addrs \ spoiled : Sound(a)
=============================================================================
