------------------------------ MODULE MCOrders ------------------------------
(* Small instances of the order lifecycle for TLC.                          *)
EXTENDS Orders, TLC

CONSTANTS o1, o2, c1

OneUse == c1 :> 1
TwoUses == c1 :> 2
=============================================================================
