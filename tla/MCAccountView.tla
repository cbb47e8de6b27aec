--------------------------- MODULE MCAccountView ----------------------------
(* A buy and a sell of two lots each. *)
EXTENDS AccountView

MCSells == {"o2"}

=============================================================================
