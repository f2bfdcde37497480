---------------------------- MODULE MCMintScripts ----------------------------
(* A small instance of MintScripts for TLC. *)
EXTENDS MintScripts

CONSTANTS t1, n1, n2
=============================================================================
