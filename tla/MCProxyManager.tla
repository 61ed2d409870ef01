--------------------------- MODULE MCProxyManager ---------------------------
(* ProxyManager on small instances. *)
EXTENDS ProxyManager, TLC

(* For runs without liveness properties. *)
MCSymmetry == Permutations(Requests) \cup Permutations(Containers) \cup Permutations(Tokens)

(* What later steps and the invariants depend on: not the answers, nor what  *)
(* a request that is over carried, nor the time of a token that is gone.     *)
OfBusy(f) == [r \in Requests |-> IF pc[r] \in Busy THEN f[r] ELSE None]

MCView == <<cluster, valid, granted, expired \cap valid, clients, pc, asked, reached,
            OfBusy(uses), OfBusy(held), OfBusy(given)>>
=============================================================================
