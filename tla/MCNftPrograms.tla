---------------------------- MODULE MCNftPrograms ----------------------------
(* A small instance of NftPrograms for TLC. *)
EXTENDS NftPrograms

CONSTANTS u1, u2, a1, m1, c1, staked_count

OneCollection == [a \in Assets |-> c1]
NoAttributes == {[mentioned |-> FALSE, attributes |-> <<>>]}
OwnedByFirst == [a \in Assets |-> u1]
Twos == [c \in {Sol} |-> [h \in Users \cup Markets |-> IF h \in Users THEN 2 ELSE 0]]
=============================================================================
