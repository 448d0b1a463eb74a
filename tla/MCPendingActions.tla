-------------------------- MODULE MCPendingActions --------------------------
(* TLC instance of PendingActions: the runs that ask were asked on Telegram,   *)
(* where actions can be decided by buttons and from the admin API.             *)
EXTENDS PendingActions

MCOrigin == [a \in Actions |-> "telegram"]
=============================================================================
