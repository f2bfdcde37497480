------------------------ MODULE ConstantProductPool ------------------------
(***************************************************************************)
(* What a constant-product pool promises the holders of its shares,        *)
(* whatever the formulas that compute the amounts: liquidity comes and     *)
(* goes without diluting the shares that stay, and a trade does not lower  *)
(* the product of the reserves.                                            *)
(***************************************************************************)
EXTENDS Integers

VARIABLES x, y, shares   \* the two reserves and the outstanding shares

vars == <<x, y, shares>>

Init == x = 0 /\ y = 0 /\ shares = 0

\* The first shares are minted against tokens of both kinds.
Open == shares = 0 /\ shares' > 0 /\ x' > x /\ y' > y

\* Shares are minted or burned; each keeps its claim on both reserves.
Resize ==
  /\ shares > 0 /\ shares' > 0
  /\ x' * shares >= x * shares'
  /\ y' * shares >= y * shares'

\* The last shares are burned.
Close == shares > 0 /\ shares' = 0 /\ x' <= x /\ y' <= y

Trade ==
  /\ shares' = shares
  /\ x > 0 /\ y > 0
  /\ x' * y' >= x * y

Donate == shares' = shares /\ x' >= x /\ y' >= y

Next ==
  /\ x' \in Nat /\ y' \in Nat /\ shares' \in Nat
  /\ Open \/ Resize \/ Close \/ Trade \/ Donate

Spec == Init /\ [][Next]_vars

-----------------------------------------------------------------------------
(***************************************************************************)
(* Outstanding shares are never worthless: while there are any, neither    *)
(* reserve is empty.                                                       *)
(***************************************************************************)
Backed == shares > 0 => x > 0 /\ y > 0

(***************************************************************************)
(* The value of a share, the geometric mean of the reserves per share,     *)
(* never falls while shares are outstanding.                               *)
(***************************************************************************)
ShareValueKept ==
  [][shares > 0 /\ shares' > 0
       => x' * y' * shares * shares >= x * y * shares' * shares']_vars

=============================================================================
