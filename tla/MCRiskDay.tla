----------------------------- MODULE MCRiskDay ------------------------------
(* Gains and losses of one unit over two days, pages of one row. *)
EXTENDS RiskDay

MCAmounts == {-1, 1}

=============================================================================
