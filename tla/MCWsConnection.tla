--------------------------- MODULE MCWsConnection ---------------------------
(* Instances of WsConnection for TLC: the configurations give the bounds.   *)
EXTENDS WsConnection
=============================================================================
