---------------------------- MODULE MCStreamPool ----------------------------
(* Instances of StreamPool for TLC: two Subscriptions of stream "a", one or *)
(* two of stream "b".                                                       *)
EXTENDS StreamPool
MCStreamOf == [u \in Subs |-> IF u \in {"a1", "a2"} THEN "a" ELSE "b"]
=============================================================================
