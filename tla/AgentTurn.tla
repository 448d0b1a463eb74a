------------------------------ MODULE AgentTurn ------------------------------
(***************************************************************************)
(* A run of the agent in its conversation, whose model calls tools: what   *)
(* is sent to which model (Conversation) and what its calls may do         *)
(* (Permissions), while administrators change both.                        *)
(***************************************************************************)
EXTENDS Conversation, Permissions

turnVars == <<vars, permissionVars>>

TurnInit == Init /\ PermissionInit

\* The run waits for the decision on its model's call.
Deciding == call.at = "read" /\ ~call.confirmed

ConversationStep ==
  /\ Next
  /\ Deciding => run'.at = run.at
  /\ UNCHANGED permissionVars

ToolCallStep ==
  \/ run.at = "call" /\ \E dangerous \in BOOLEAN : RequestCall(dangerous)
  \/ ReadSubject \/ Decide \/ ConfirmCall \/ CallEnds

TurnNext ==
  \/ ConversationStep
  \/ (ToolCallStep \/ PolicyStep) /\ UNCHANGED vars

TurnSpec == TurnInit /\ [][TurnNext]_turnVars
=============================================================================
