---------------------------- MODULE MCBookEngine ----------------------------
(* Instances of BookEngine for TLC: the configurations give the bounds.     *)
EXTENDS BookEngine, TLC

CONSTANTS w1, w2

OneWatch == {w1}
TwoWatches == {w1, w2}
Both == {"usdm", "spot"}
Spot == {"spot"}
=============================================================================
