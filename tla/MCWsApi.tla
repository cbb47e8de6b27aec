------------------------------ MODULE MCWsApi -------------------------------
(* Instances of WsApi for TLC: the configurations give the constants.       *)
EXTENDS WsApi
=============================================================================
