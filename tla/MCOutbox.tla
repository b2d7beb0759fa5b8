------------------------------ MODULE MCOutbox ------------------------------
(***************************************************************************)
(* Outbox on small instances, for TLC.                                     *)
(***************************************************************************)
EXTENDS Outbox, TLC

Symmetry == Permutations(Events) \cup Permutations(Relays) \cup Permutations(Workers)
=============================================================================
