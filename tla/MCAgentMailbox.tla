--------------------------- MODULE MCAgentMailbox ---------------------------
(* TLC instance of AgentMailbox. *)
EXTENDS AgentMailbox, TLC

Symmetry == Permutations(EventIds) \cup Permutations(Instances)
=============================================================================
