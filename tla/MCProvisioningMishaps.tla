------------------------ MODULE MCProvisioningMishaps ------------------------
(* ProvisioningMishaps on a small instance. *)
EXTENDS MCProvisioning, ProvisioningMishaps

MCAllLists == SUBSET Addrs \ {{}}

(* Each address comes with its row of ips, and they are interchangeable. *)
MCSymmetryOfAddrs == MCSymmetry \cup {a1 :> a2 @@ a2 :> a1 @@ k1 :> k2 @@ k2 :> k1}

(* What no guard reads is left out: ready, named, reply and late are only    *)
(* written, so the states that differ in them alone have the same steps.     *)
MCView == <<row, ipv4, used, links, pve, req, spoiled>>
=============================================================================
