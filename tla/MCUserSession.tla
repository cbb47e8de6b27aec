--------------------------- MODULE MCUserSession ----------------------------
(* Two successive sessions of one platform. *)
EXTENDS UserSession

=============================================================================
