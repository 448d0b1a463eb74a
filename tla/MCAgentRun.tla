----------------------------- MODULE MCAgentRun -----------------------------
(* AgentRun for TLC: its constants are plain numbers. *)
EXTENDS AgentRun
=============================================================================
