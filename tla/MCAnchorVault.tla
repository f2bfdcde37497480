---------------------------- MODULE MCAnchorVault ----------------------------
(* A small instance of AnchorVault for TLC. *)
EXTENDS AnchorVault

CONSTANTS u1, u2

Sixes == [u \in Users |-> 6]
=============================================================================
