----------------------------- MODULE MCChunking -----------------------------
(* Instance of Chunking for TLC: every section up to MaxLength characters. *)
EXTENDS Chunking
=============================================================================
