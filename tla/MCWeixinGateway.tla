--------------------------- MODULE MCWeixinGateway ---------------------------
(* WeixinGateway for TLC: its constants are model values and plain numbers. *)
EXTENDS WeixinGateway
=============================================================================
