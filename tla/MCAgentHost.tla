---------------------------- MODULE MCAgentHost ----------------------------
(* Instances of AgentHost for TLC. *)
EXTENDS AgentHost
=============================================================================
