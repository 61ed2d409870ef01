--------------------------- MODULE MCProvisioning ---------------------------
(* Provisioning on small instances. *)
EXTENDS Provisioning, TLC

CONSTANTS k1, k2, k3, n1, n2, l1, a1, a2

MCLocationOf == [n \in Nodes |-> l1]

(* Both addresses are linked to both nodes when the service is installed. *)
MCSeedAddr  == [k \in Keys |->
  CASE k = k1 -> a1 [] k = k2 /\ a2 \in Addrs -> a2 [] OTHER -> None]
MCSeedLinks == [k \in Keys |-> IF MCSeedAddr[k] # None THEN Nodes ELSE {}]

MCAddrLists == {S \in {{a1}, {a1, a2}} : S \subseteq Addrs}

(* Slots and ids are interchangeable; no liveness is checked under this. *)
MCSymmetry == Permutations(Requests) \cup Permutations(VmIds)
=============================================================================
