---------------------------- MODULE MCGlobMatch ----------------------------
(* The module the run of GlobMatch loads. *)
EXTENDS GlobMatch
=============================================================================
