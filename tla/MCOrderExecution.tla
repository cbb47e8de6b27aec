-------------------------- MODULE MCOrderExecution --------------------------
(* Instances of OrderExecution for TLC: the configurations give the bounds. *)
EXTENDS OrderExecution, TLC

CONSTANTS i1, i2, i3, k1, c1, c2

OneIntent == {i1}
ThreeIntents == {i1, i2, i3}
OneCancel == {k1}
NoCancel == {}
OneId == {c1}
TwoIds == {c1, c2}
SharedId == (i1 :> c1) @@ (i2 :> c2) @@ (i3 :> c1)
OnlyId == i1 :> c1
=============================================================================
