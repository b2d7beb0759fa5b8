-------------------------- MODULE MCNotifications ---------------------------
(***************************************************************************)
(* Notifications over the outbox on a small instance, for TLC.             *)
(***************************************************************************)
EXTENDS Notifications
=============================================================================
