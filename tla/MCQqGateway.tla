----------------------------- MODULE MCQqGateway -----------------------------
(* QqGateway for TLC: its constants are model values and plain numbers. *)
EXTENDS QqGateway
=============================================================================
