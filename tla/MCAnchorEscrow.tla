--------------------------- MODULE MCAnchorEscrow ---------------------------
(* A small instance of AnchorEscrow for TLC. *)
EXTENDS AnchorEscrow

CONSTANTS u1, u2, ma, mb, s1

\* The first user starts with tokens of one mint, the second with the other.
OneEach ==
  [mint \in Mints |-> [u \in Users |-> IF (mint = ma) = (u = u1) THEN 2 ELSE 0]]
=============================================================================
