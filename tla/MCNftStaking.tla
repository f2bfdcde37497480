---------------------------- MODULE MCNftStaking ----------------------------
(* Small instances of NftStaking for TLC. *)
EXTENDS NftStaking

CONSTANTS u1, u2, a1, a2, c1, staked_count, unstaked_count, staked_count_max, rarity

OneCollection == [a \in Assets |-> c1]
OwnedByFirst == [a \in Assets |-> u1]

\* No attribute; a count among others; keys and names that mislead the search.
Holding(list) == [mentioned |-> FALSE, attributes |-> list]
Kinds ==
  {Holding(<<>>),
   Holding(<<[key |-> rarity, value |-> Text], [key |-> staked_count, value |-> 1]>>),
   Holding(<<[key |-> unstaked_count, value |-> 2], [key |-> staked_count, value |-> 0]>>),
   Holding(<<[key |-> staked_count_max, value |-> 2]>>),
   [mentioned |-> TRUE, attributes |-> <<[key |-> staked_count, value |-> 1]>>]}
=============================================================================
