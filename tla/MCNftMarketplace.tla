-------------------------- MODULE MCNftMarketplace --------------------------
(* Small instances of NftMarketplace for TLC. *)
EXTENDS NftMarketplace, TLC

CONSTANTS u1, u2, a1, a2, m1, m2, usd

OwnedByFirst == [a \in Assets |-> u1]

\* The wallets hold 4 of each currency, the treasuries nothing.
Fours == [c \in Currencies |-> [h \in Holders |-> IF h \in Users THEN 4 ELSE 0]]

\* Nothing tells the marketplaces apart, nor the assets of one owner.
Symmetry == Permutations(Markets) \cup Permutations(Assets)
=============================================================================
