------------------------- MODULE MCIntrospectionAmm -------------------------
(* Small instances of IntrospectionAmm for TLC. *)
EXTENDS IntrospectionAmm

CONSTANTS u1, m1, m2, m3

OnePool == {<<m1, m2>>}
TwoPools == {<<m1, m2>>, <<m2, m3>>}

\* A token account of the first pool for a mint that is not the pool's.
Foreign == {<<<<m1, m2>>, m3>>}

\* Every user starts with the same number of tokens of every mint, or with
\* fewer of the last.
Wallets(n) == [x \in Users \X Mints |-> n]
OneOfTheLast == [x \in Users \X Mints |-> IF x[2] = m3 THEN 1 ELSE 2]
SixEach == Wallets(6)
AllTokens == Wallets(MaxU64)
=============================================================================
