----------------------------- MODULE MCCostCaps -----------------------------
(* Small instances of CostCaps for TLC.                                    *)
EXTENDS CostCaps

\* A strict host may also lose one of its caps, but not both.
Uneven  == {<<1, 1>>, <<2, 0>>}
=============================================================================
