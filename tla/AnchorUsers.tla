---------------------------- MODULE AnchorUsers ----------------------------
(***************************************************************************)
(* What the two programs of Assignment_02 have in common.                  *)
(***************************************************************************)
EXTENDS FixedWidth, FiniteSets, Functions

CONSTANTS
  Users,
  Amounts     \* the amounts that are tried

ASSUME UsersAssumption ==
  /\ IsFiniteSet(Users)
  /\ Amounts \subseteq U64

=============================================================================
