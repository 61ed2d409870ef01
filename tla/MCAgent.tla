------------------------------- MODULE MCAgent -------------------------------
(* AgentConnection, and with it AgentInit and ConfigStore, on small instances. *)
EXTENDS AgentConnection, TLC

CONSTANTS o1, c1

MCCommandLists == {{c1}}
MCSeed == [ct_options |-> o1, init_commands |-> {c1}]
=============================================================================
