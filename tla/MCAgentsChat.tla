---------------------------- MODULE MCAgentsChat ----------------------------
(* Small instances of AgentsChat for TLC. *)
EXTENDS AgentsChat
=============================================================================
