---------------------------- MODULE MCKnowledge -----------------------------
(***************************************************************************)
(* KnowledgePipeline on small instances, for TLC.                          *)
(***************************************************************************)
EXTENDS KnowledgePipeline, TLC

Symmetry == Permutations(Workers)
=============================================================================
