---------------------------- MODULE AssetCustody ----------------------------
(***************************************************************************)
(* What programs that take custody of assets without holding them owe to   *)
(* the owners, and to each other: an asset is in the custody of one of     *)
(* them at a time, stays with its owner for as long, and leaves with that  *)
(* owner, or with somebody it was sold to.  Only a free asset is given     *)
(* away by its owner.                                                      *)
(***************************************************************************)
CONSTANTS
  Assets, Users,
  Custodians,   \* the programs,
  Sellers,      \*   those of them that sell what they have in custody,
  Free          \*   and none of them

VARIABLES
  owner,        \* the owner of each asset
  custodian     \* who has it in custody

vars == <<owner, custodian>>

Init ==
  /\ owner \in [Assets -> Users]
  /\ custodian = [a \in Assets |-> Free]

Give(a, u) ==
  /\ custodian[a] = Free
  /\ owner' = [owner EXCEPT ![a] = u]
  /\ UNCHANGED custodian

Enter(a, p) ==
  /\ custodian[a] = Free
  /\ custodian' = [custodian EXCEPT ![a] = p]
  /\ UNCHANGED owner

Leave(a) ==
  /\ custodian[a] # Free
  /\ custodian' = [custodian EXCEPT ![a] = Free]
  /\ UNCHANGED owner

Sell(a, u) ==
  /\ custodian[a] \in Sellers
  /\ owner' = [owner EXCEPT ![a] = u]
  /\ custodian' = [custodian EXCEPT ![a] = Free]

Next ==
  \E a \in Assets :
    \/ \E u \in Users : Give(a, u) \/ Sell(a, u)
    \/ \E p \in Custodians : Enter(a, p)
    \/ Leave(a)

Spec == Init /\ [][Next]_vars

=============================================================================
