------------------------ MODULE MCAgentDurableObject ------------------------
(* TLC instance of AgentDurableObject. *)
EXTENDS AgentDurableObject, TLC

\* Ids of the successive object instances: one more than there can be crashes.
MCInstances == 1 .. MaxFaults + 1
=============================================================================
