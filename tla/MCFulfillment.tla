--------------------------- MODULE MCFulfillment ----------------------------
(***************************************************************************)
(* Fulfillment on small instances, for TLC.                                *)
(***************************************************************************)
EXTENDS Fulfillment, TLC

Symmetry == Permutations(TaskIds) \cup Permutations(CaseIds) \cup Permutations(Couriers)
=============================================================================
