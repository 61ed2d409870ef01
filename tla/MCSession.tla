------------------------------ MODULE MCSession ------------------------------
(* ProxmoxSession on a small instance. *)
EXTENDS ProxmoxSession
=============================================================================
