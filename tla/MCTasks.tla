------------------------------- MODULE MCTasks -------------------------------
(* Tasks on small instances. *)
EXTENDS Tasks, TLC

(* Ids of tasks and of containers are interchangeable; no liveness is       *)
(* checked under this.                                                      *)
MCSymmetry == Permutations(TaskIds) \cup Permutations(Containers)
=============================================================================
