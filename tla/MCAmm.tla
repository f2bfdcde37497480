------------------------------- MODULE MCAmm -------------------------------
(* Small instances of Amm for TLC. *)
EXTENDS Amm

CONSTANTS u1

EightTokens == [u \in Users |-> 8]
=============================================================================
