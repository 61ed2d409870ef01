----------------------------- MODULE MCPlacement -----------------------------
(* Placement on small instances. *)
EXTENDS Placement, TLC

CONSTANTS n1, n2, n3

(* A node with little load, one with more, and one that is full. *)
MCStatuses == {[status |-> "online", cpu |-> c, mem |-> 40, disk |-> 90] : c \in {10, 90, 91}}
MCSeed == [n \in Cluster |-> CHOOSE s \in MCStatuses : s.cpu = IF n = n1 THEN 10 ELSE 90]

MCSymmetry == Permutations(Requests)
=============================================================================
