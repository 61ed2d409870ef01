------------------------------- MODULE Fleet -------------------------------
(***************************************************************************)
(* What container provisioning promises, without its steps: every managed  *)
(* container has one address of the pool for as long as it exists, and no  *)
(* two containers have the same one.  Provisioning implements this under   *)
(* the conditions that ProvisioningAgreement assumes.                      *)
(***************************************************************************)
CONSTANTS VmIds,  \* container ids
          Addrs,  \* addresses of the pool
          None    \* "no container with this id"

VARIABLE fleet    \* the address of every container, or None

FleetTypeOK == fleet \in [VmIds -> Addrs \cup {None}]

Init == fleet = [v \in VmIds |-> None]

(* A new container gets an address no other container has. *)
Create(v, a) == /\ fleet[v] = None
                /\ \A w \in VmIds : fleet[w] # a
                /\ fleet' = [fleet EXCEPT ![v] = a]

(* A container and its address are given up together. *)
Delete(v) == /\ fleet[v] # None
             /\ fleet' = [fleet EXCEPT ![v] = None]

Next == \E v \in VmIds : Delete(v) \/ \E a \in Addrs : Create(v, a)

Spec == Init /\ [][Next]_fleet
=============================================================================
