------------------------------- MODULE MCSla --------------------------------
(***************************************************************************)
(* Sla on small instances, for TLC.                                        *)
(***************************************************************************)
EXTENDS Sla
=============================================================================
