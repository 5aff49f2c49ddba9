-------------------------- MODULE MCAgentLiveness --------------------------
(* Small instances of AgentLiveness for TLC.                               *)
EXTENDS AgentLiveness
=============================================================================
