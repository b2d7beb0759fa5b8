----------------------------- MODULE MCChunking -----------------------------
(* Chunking on short documents and small policies, for TLC. *)
EXTENDS Chunking
=============================================================================
