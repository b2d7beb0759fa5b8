------------------------------- MODULE MCAgent ------------------------------
(* Instances of Agent for TLC. *)
EXTENDS Agent, TLC

Symmetry == Permutations(Turns) \cup Permutations(Forms) \cup Permutations(Grants)
            \cup Permutations(Parcels)
=============================================================================
