---------------------------- MODULE MCOperations ----------------------------
(* Operations on small instances. *)
EXTENDS Operations

MCSymmetry == Permutations(Requests) \cup Permutations(VmIds)
=============================================================================
