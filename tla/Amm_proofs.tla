----------------------------- MODULE Amm_proofs -----------------------------
(***************************************************************************)
(* Proofs about ConstantProductPool, and about Amm: what is given the      *)
(* pool's vaults implements that abstract pool, and so inherits what is    *)
(* proved of it; and about NewtonRoot: what it returns, when it fails and  *)
(* why it ends.                                                            *)
(***************************************************************************)
EXTENDS Amm, NewtonRoot, Arithmetic

USE ConstantsAssumption, MaxU64Assumption DEF U64

\* The three variables of the abstract pool.
poolVars == <<token_x[Vault], token_y[Vault], supply>>

-----------------------------------------------------------------------------
(***************************************************************************)
(* The abstract pool by itself, over any three variables.                  *)
(***************************************************************************)
PoolNumbers == token_x[Vault] \in Nat /\ token_y[Vault] \in Nat /\ supply \in Nat

\* Pool!Backed alone is not inductive: the reserves must be numbers.
PoolInv == PoolNumbers /\ Pool!Backed

LEMMA PoolNextInv == PoolInv /\ [Pool!Next]_(Pool!vars) => PoolInv'
<1> SUFFICES ASSUME PoolInv, Pool!Next PROVE PoolInv'
  BY DEF PoolInv, PoolNumbers, Pool!Backed, Pool!vars
<1>1. token_x[Vault]' \in Nat /\ token_y[Vault]' \in Nat /\ supply' \in Nat
  BY DEF Pool!Next
<1>0. token_x[Vault] \in Nat /\ token_y[Vault] \in Nat /\ supply \in Nat
  BY DEF PoolInv, PoolNumbers
<1>2. CASE Pool!Open
  BY <1>0, <1>1, <1>2 DEF PoolInv, PoolNumbers, Pool!Backed, Pool!Open
<1>3. CASE Pool!Resize
  <2>1. token_x[Vault] > 0 /\ token_y[Vault] > 0 /\ supply > 0 /\ supply' > 0
    BY <1>3 DEF PoolInv, Pool!Backed, Pool!Resize
  <2>2. token_x[Vault]' > 0 /\ token_y[Vault]' > 0
    BY <1>0, <1>1, <1>3, <2>1, PositiveFactors DEF Pool!Resize
  <2>3. QED
    BY <1>1, <2>2 DEF PoolInv, PoolNumbers, Pool!Backed
<1>4. CASE Pool!Close
  BY <1>0, <1>1, <1>4 DEF PoolInv, PoolNumbers, Pool!Backed, Pool!Close
<1>5. CASE Pool!Trade
  <2>2. token_x[Vault]' > 0 /\ token_y[Vault]' > 0
    BY <1>0, <1>1, <1>5, PositiveFactors DEF Pool!Trade
  <2>3. QED
    BY <1>1, <2>2 DEF PoolInv, PoolNumbers, Pool!Backed
<1>6. CASE Pool!Donate
  BY <1>0, <1>1, <1>6 DEF PoolInv, PoolNumbers, Pool!Backed, Pool!Donate
<1>7. QED
  BY <1>2, <1>3, <1>4, <1>5, <1>6 DEF Pool!Next

(***************************************************************************)
(* Of the abstract pool: outstanding shares are backed by both tokens.     *)
(***************************************************************************)
THEOREM PoolBacked == Pool!Spec => []Pool!Backed
<1>1. Pool!Init => PoolInv
  BY DEF Pool!Init, PoolInv, PoolNumbers, Pool!Backed
<1>2. PoolInv => Pool!Backed
  BY DEF PoolInv
<1>3. QED
  BY <1>1, <1>2, PoolNextInv, PTL DEF Pool!Spec

\* The value of a share does not fall in this step.
KeepsValue ==
  supply > 0 /\ supply' > 0
    => token_x[Vault]' * token_y[Vault]' * supply * supply
         >= token_x[Vault] * token_y[Vault] * supply' * supply'

LEMMA StepKeepsValue ==
  ASSUME PoolNumbers, Pool!Next
  PROVE  KeepsValue
<1> SUFFICES ASSUME supply > 0, supply' > 0
             PROVE  token_x[Vault]' * token_y[Vault]' * supply * supply
                      >= token_x[Vault] * token_y[Vault] * supply' * supply'
  BY DEF KeepsValue
<1>1. /\ token_x[Vault] \in Nat /\ token_y[Vault] \in Nat /\ supply \in Nat
      /\ token_x[Vault]' \in Nat /\ token_y[Vault]' \in Nat /\ supply' \in Nat
  BY DEF PoolNumbers, Pool!Next
<1>2. CASE Pool!Resize
  BY <1>1, <1>2, ClaimsKept DEF Pool!Resize
<1>3. ASSUME supply' = supply,
             token_x[Vault]' * token_y[Vault]' >= token_x[Vault] * token_y[Vault]
      PROVE  token_x[Vault]' * token_y[Vault]' * supply * supply
               >= token_x[Vault] * token_y[Vault] * supply' * supply'
  BY <1>1, <1>3, SameShares
<1>4. CASE Pool!Trade
  BY <1>3, <1>4 DEF Pool!Trade
<1>5. CASE Pool!Donate
  <2>1. token_x[Vault]' * token_y[Vault]' >= token_x[Vault] * token_y[Vault]
    BY <1>1, <1>5, MulMono DEF Pool!Donate
  <2>2. QED
    BY <1>3, <1>5, <2>1 DEF Pool!Donate
<1>6. QED
  BY <1>1, <1>2, <1>4, <1>5 DEF Pool!Next, Pool!Open, Pool!Close

(***************************************************************************)
(* Of the abstract pool: the value of a share never falls while shares are *)
(* outstanding.                                                            *)
(***************************************************************************)
THEOREM PoolKeepsValue == Pool!Spec => Pool!ShareValueKept
<1>1. Pool!Init => PoolInv
  BY DEF Pool!Init, PoolInv, PoolNumbers, Pool!Backed
<1>2. PoolInv /\ [Pool!Next]_(Pool!vars)
        => [supply > 0 /\ supply' > 0
              => token_x[Vault]' * token_y[Vault]' * supply * supply
                   >= token_x[Vault] * token_y[Vault] * supply' * supply']_(Pool!vars)
  BY StepKeepsValue DEF KeepsValue, PoolInv
<1>3. QED
  BY <1>1, <1>2, PoolNextInv, PTL DEF Pool!Spec, Pool!ShareValueKept

-----------------------------------------------------------------------------
Inv == TypeOK /\ Backed

\* All that matters of the fee's denominator.
LEMMA FeeDenomNat == FeeDenom \in Nat \ {0}
BY DEF FeeDenom

USE FeeDenomNat

\* The pool's vault is a holder that is no user.
LEMMA VaultHolds == Vault \in Holders /\ Vault \notin Users /\ Users \subseteq Holders
BY DEF Vault, Holders, ConfigOwned

\* The types of the numbers the lemmas are about.
LEMMA Numbers ==
  TypeOK => /\ \A h \in Holders : token_x[h] \in Nat /\ token_y[h] \in Nat
            /\ supply \in Nat /\ fee \in 0 .. FeeDenom
            /\ PoolNumbers
BY VaultHolds DEF TypeOK, PoolNumbers

\* What a transfer does, if it can be made.
LEMMA TransferMoves ==
  ASSUME NEW t \in [Holders -> U64], NEW h \in Holders, NEW g \in Holders,
         NEW k \in Nat, CanSend(t, h, g, k)
  PROVE  /\ Sent(t, h, g, k) \in [Holders -> U64]
         /\ Sent(t, h, g, k)[h] = t[h] - k
         /\ Sent(t, h, g, k)[g] = t[g] + k
         /\ \A e \in Holders \ {h, g} : Sent(t, h, g, k)[e] = t[e]
         /\ k <= t[h] /\ t[g] + k \in U64
<1>1. h # g /\ k <= t[h] /\ t[g] + k \in U64
  BY DEF CanSend
<1>2. t[h] \in U64 /\ t[h] - k \in U64
  BY <1>1
<1> QED  BY <1>1, <1>2 DEF Sent

\* The pro rata shares are no more than either side of the deposit earns.
LEMMA LpOutBounds ==
  ASSUME NEW dx \in Nat, NEW dy \in Nat, NEW rx \in Nat, NEW ry \in Nat,
         supply \in Nat, supply > 0, rx > 0, ry > 0
  PROVE  /\ LpOut(dx, dy, rx, ry) \in U64
         /\ LpOut(dx, dy, rx, ry) * rx <= dx * supply
         /\ LpOut(dx, dy, rx, ry) * ry <= dy * supply
<1> DEFINE lx == MulDiv(dx, supply, rx)
           ly == MulDiv(dy, supply, ry)
<1>1. /\ dx \in Nat /\ dy \in Nat /\ supply \in Nat
      /\ rx \in Nat \ {0} /\ ry \in Nat \ {0}
  OBVIOUS
<1>2. lx \in U64 /\ lx * rx <= dx * supply
  BY ONLY <1>1, MaxU64Assumption, CastQuotientBounds DEF MulDiv, AsU64, U64
<1>3. ly \in U64 /\ ly * ry <= dy * supply
  BY ONLY <1>1, MaxU64Assumption, CastQuotientBounds DEF MulDiv, AsU64, U64
<1>4. LpOut(dx, dy, rx, ry) = Lesser(lx, ly)
  BY DEF LpOut
<1> HIDE DEF lx, ly
<1>5. lx \in Nat /\ ly \in Nat
  BY <1>2, <1>3
<1>6. /\ Lesser(lx, ly) \in U64
      /\ Lesser(lx, ly) <= lx /\ Lesser(lx, ly) <= ly
  BY <1>2, <1>3, <1>5 DEF Lesser
<1>7. Lesser(lx, ly) \in Nat
  BY <1>6
<1>8. /\ Lesser(lx, ly) * rx <= lx * rx
      /\ Lesser(lx, ly) * ry <= ly * ry
  BY <1>1, <1>5, <1>6, <1>7, MulMono
<1>9. /\ Lesser(lx, ly) * rx \in Nat /\ lx * rx \in Nat
      /\ Lesser(lx, ly) * ry \in Nat /\ ly * ry \in Nat
      /\ dx * supply \in Nat /\ dy * supply \in Nat
  BY <1>1, <1>5, <1>7
<1>10. QED
  BY <1>2, <1>3, <1>4, <1>6, <1>8, <1>9

\* A payout is no more than the shares' part of the reserve.
LEMMA PayoutBounds ==
  ASSUME NEW k \in Nat, NEW r \in Nat, supply \in Nat, supply > 0
  PROVE  Payout(k, r) \in U64 /\ Payout(k, r) * supply <= k * r
<1>1. k \in Nat /\ r \in Nat /\ supply \in Nat \ {0}
  OBVIOUS
<1> QED
  BY ONLY <1>1, MaxU64Assumption, CastQuotientBounds DEF Payout, MulDiv, AsU64, U64

-----------------------------------------------------------------------------
(***************************************************************************)
(* The types, whichever accounts are passed as the vaults.                 *)
(***************************************************************************)
LEMMA AddLiquidityTypes ==
  ASSUME TypeOK, NEW u \in Users, NEW vx \in Holders, NEW vy \in Holders,
         NEW dx \in U64, NEW dy \in U64, NEW m, AddLiquidity(u, vx, vy, dx, dy, m)
  PROVE  TypeOK'
<1> DEFINE k == LpOut(dx, dy, token_x[vx], token_y[vy])
<1>1. /\ k \in 1 .. MaxU64
      /\ CanSend(token_x, u, vx, dx) /\ CanSend(token_y, u, vy, dy)
      /\ supply + k \in U64 /\ lp[u] + k \in U64
      /\ token_x' = Sent(token_x, u, vx, dx) /\ token_y' = Sent(token_y, u, vy, dy)
      /\ supply' = supply + k /\ lp' = [lp EXCEPT ![u] = @ + k]
      /\ created' = created /\ fee' = fee /\ Given(vx, vy)
  BY DEF AddLiquidity
<1> HIDE DEF k
<1>2. token_x' \in [Holders -> U64] /\ token_y' \in [Holders -> U64]
  <2>1. dx \in Nat /\ dy \in Nat /\ u \in Holders
    BY VaultHolds
  <2>2. token_x \in [Holders -> U64] /\ token_y \in [Holders -> U64]
    BY DEF TypeOK
  <2> QED  BY ONLY <1>1, <2>1, <2>2, vx \in Holders, vy \in Holders, TransferMoves
<1>3. own' \in BOOLEAN
  BY <1>1 DEF Given, TypeOK
<1> QED  BY <1>1, <1>2, <1>3 DEF TypeOK

LEMMA RemoveLiquidityTypes ==
  ASSUME TypeOK, NEW u \in Users, NEW vx \in Holders, NEW vy \in Holders,
         NEW k \in U64, NEW mx, NEW my, RemoveLiquidity(u, vx, vy, k, mx, my)
  PROVE  TypeOK'
<1> DEFINE a == Payout(k, token_x[vx])
           b == Payout(k, token_y[vy])
<1>1. /\ supply > 0 /\ k <= lp[u] /\ k <= supply
      /\ CanSend(token_x, vx, u, a) /\ CanSend(token_y, vy, u, b)
      /\ lp' = [lp EXCEPT ![u] = @ - k] /\ supply' = supply - k
      /\ token_x' = Sent(token_x, vx, u, a) /\ token_y' = Sent(token_y, vy, u, b)
      /\ created' = created /\ fee' = fee /\ Given(vx, vy)
  BY DEF RemoveLiquidity
<1>2. a \in Nat /\ b \in Nat
  <2>1. /\ k \in Nat /\ supply \in Nat
        /\ token_x[vx] \in Nat /\ token_y[vy] \in Nat
    BY Numbers
  <2>2. a \in U64 /\ b \in U64
    BY ONLY <1>1, <2>1, PayoutBounds
  <2> QED  BY <2>2
<1> HIDE DEF a, b
<1>3. token_x' \in [Holders -> U64] /\ token_y' \in [Holders -> U64]
  <2>1. /\ u \in Holders
        /\ token_x \in [Holders -> U64] /\ token_y \in [Holders -> U64]
    BY VaultHolds DEF TypeOK
  <2> QED  BY ONLY <1>1, <1>2, <2>1, vx \in Holders, vy \in Holders, TransferMoves
<1>4. own' \in BOOLEAN
  BY <1>1 DEF Given, TypeOK
<1> QED  BY <1>1, <1>3, <1>4 DEF TypeOK

LEMMA SplBurnTypes ==
  ASSUME TypeOK, NEW u \in Users, NEW k \in U64, SplBurn(u, k)
  PROVE  TypeOK'
BY DEF SplBurn, TypeOK

LEMMA SplTransferTypes ==
  ASSUME TypeOK, NEW u \in Users, NEW h \in Holders, NEW k \in U64,
         SplTransferX(u, h, k) \/ SplTransferY(u, h, k)
  PROVE  TypeOK'
<1>1. CASE SplTransferX(u, h, k)
  <2>1. token_x' \in [Holders -> U64]
    BY <1>1, TransferMoves, VaultHolds DEF SplTransferX, TypeOK
  <2> QED  BY <1>1, <2>1 DEF SplTransferX, TypeOK
<1>2. CASE SplTransferY(u, h, k)
  <2>1. token_y' \in [Holders -> U64]
    BY <1>2, TransferMoves, VaultHolds DEF SplTransferY, TypeOK
  <2> QED  BY <1>2, <2>1 DEF SplTransferY, TypeOK
<1> QED  BY <1>1, <1>2

-----------------------------------------------------------------------------
(***************************************************************************)
(* The steps that are given the pool's vaults, as steps of the abstract    *)
(* pool.                                                                   *)
(***************************************************************************)
LEMMA AddLiquidityStep ==
  ASSUME TypeOK, NEW u \in Users, NEW dx \in U64, NEW dy \in U64, NEW m,
         AddLiquidity(u, Vault, Vault, dx, dy, m)
  PROVE  Pool!Next
<1> DEFINE k == LpOut(dx, dy, token_x[Vault], token_y[Vault])
<1>1. /\ k \in 1 .. MaxU64 /\ dx > 0 /\ dy > 0
      /\ supply > 0 => token_x[Vault] > 0 /\ token_y[Vault] > 0
      /\ CanSend(token_x, u, Vault, dx) /\ CanSend(token_y, u, Vault, dy)
      /\ token_x' = Sent(token_x, u, Vault, dx)
      /\ token_y' = Sent(token_y, u, Vault, dy)
      /\ supply' = supply + k
  BY DEF AddLiquidity
<1>2. PoolNumbers /\ dx \in Nat /\ dy \in Nat
  BY Numbers
<1>3. supply > 0 => /\ k * token_x[Vault] <= dx * supply
                    /\ k * token_y[Vault] <= dy * supply
  BY <1>1, <1>2, LpOutBounds DEF PoolNumbers
<1> HIDE DEF k
<1>4. token_x[Vault]' = token_x[Vault] + dx /\ token_y[Vault]' = token_y[Vault] + dy
  <2>1. /\ u \in Holders /\ Vault \in Holders
        /\ token_x \in [Holders -> U64] /\ token_y \in [Holders -> U64]
    BY VaultHolds DEF TypeOK
  <2> QED  BY ONLY <1>1, <1>2, <2>1, TransferMoves
<1>5. k \in Nat /\ supply' = supply + k
  BY <1>1
<1>6. /\ token_x[Vault] \in Nat /\ token_y[Vault] \in Nat /\ supply \in Nat
      /\ token_x[Vault]' \in Nat /\ token_y[Vault]' \in Nat /\ supply' \in Nat
  BY <1>2, <1>4, <1>5 DEF PoolNumbers
<1>7. CASE supply = 0
  BY <1>1, <1>2, <1>4, <1>5, <1>6, <1>7 DEF Pool!Next, Pool!Open
<1>8. CASE supply > 0
  <2>1. /\ (token_x[Vault] + dx) * supply >= token_x[Vault] * (supply + k)
        /\ (token_y[Vault] + dy) * supply >= token_y[Vault] * (supply + k)
    BY <1>2, <1>3, <1>5, <1>6, <1>8, DepositFair
  <2>2. supply' > 0
    BY <1>5, <1>6, <1>8
  <2>3. Pool!Resize
    BY <1>4, <1>5, <1>8, <2>1, <2>2 DEF Pool!Resize
  <2>4. QED
    BY <1>6, <2>3 DEF Pool!Next
<1> QED  BY <1>6, <1>7, <1>8

\* Burning n shares for payouts a and b that are no more than their claim.
LEMMA ExitStep ==
  ASSUME NEW k \in Nat, NEW a \in Nat, NEW b \in Nat,
         PoolNumbers, k <= supply, supply > 0, a <= token_x[Vault], b <= token_y[Vault],
         a * supply <= k * token_x[Vault], b * supply <= k * token_y[Vault],
         token_x[Vault]' = token_x[Vault] - a, token_y[Vault]' = token_y[Vault] - b,
         supply' = supply - k
  PROVE  Pool!Next
<1>1. /\ token_x[Vault] \in Nat /\ token_y[Vault] \in Nat /\ supply \in Nat
      /\ token_x[Vault]' \in Nat /\ token_y[Vault]' \in Nat /\ supply' \in Nat
  BY DEF PoolNumbers
<1>2. CASE k = supply
  BY <1>1, <1>2 DEF Pool!Next, Pool!Close
<1>3. CASE k < supply
  <2>1. /\ (token_x[Vault] - a) * supply >= token_x[Vault] * (supply - k)
        /\ (token_y[Vault] - b) * supply >= token_y[Vault] * (supply - k)
    BY <1>1, PayoutFair
  <2>2. supply' > 0
    BY <1>1, <1>3
  <2>3. Pool!Resize
    BY <2>1, <2>2 DEF Pool!Resize
  <2>4. QED
    BY <1>1, <2>3 DEF Pool!Next
<1>4. k = supply \/ k < supply
  BY ONLY <1>1, k \in Nat, k <= supply
<1> QED  BY <1>2, <1>3, <1>4

LEMMA RemoveLiquidityStep ==
  ASSUME TypeOK, NEW u \in Users, NEW k \in U64, NEW mx, NEW my,
         RemoveLiquidity(u, Vault, Vault, k, mx, my)
  PROVE  Pool!Next
<1> DEFINE a == Payout(k, token_x[Vault])
           b == Payout(k, token_y[Vault])
<1>1. /\ supply > 0 /\ k <= supply /\ supply' = supply - k
      /\ CanSend(token_x, Vault, u, a) /\ CanSend(token_y, Vault, u, b)
      /\ token_x' = Sent(token_x, Vault, u, a)
      /\ token_y' = Sent(token_y, Vault, u, b)
  BY DEF RemoveLiquidity
<1>2. k \in Nat /\ PoolNumbers
  BY Numbers
<1>3. /\ a \in Nat /\ a * supply <= k * token_x[Vault]
      /\ b \in Nat /\ b * supply <= k * token_y[Vault]
  <2>1. /\ a \in U64 /\ a * supply <= k * token_x[Vault]
        /\ b \in U64 /\ b * supply <= k * token_y[Vault]
    BY ONLY <1>1, <1>2, PayoutBounds DEF PoolNumbers
  <2> QED  BY <2>1
<1> HIDE DEF a, b
<1>4. /\ token_x[Vault]' = token_x[Vault] - a /\ a <= token_x[Vault]
      /\ token_y[Vault]' = token_y[Vault] - b /\ b <= token_y[Vault]
  <2>1. /\ u \in Holders /\ Vault \in Holders
        /\ token_x \in [Holders -> U64] /\ token_y \in [Holders -> U64]
    BY VaultHolds DEF TypeOK
  <2> QED  BY ONLY <1>1, <1>3, <2>1, TransferMoves
<1> QED  BY <1>1, <1>2, <1>3, <1>4, ExitStep

LEMMA SplBurnStep ==
  ASSUME TypeOK, NEW u \in Users, NEW k \in U64, SplBurn(u, k)
  PROVE  [Pool!Next]_poolVars
<1>1. k <= supply /\ supply' = supply - k /\ UNCHANGED <<token_x, token_y>>
  BY DEF SplBurn
<1>2. k \in Nat /\ PoolNumbers
  BY Numbers
<1>3. CASE supply = 0
  BY <1>1, <1>2, <1>3 DEF PoolNumbers, poolVars
<1>4. CASE supply > 0
  <2>1. /\ 0 * supply <= k * token_x[Vault] /\ 0 * supply <= k * token_y[Vault]
        /\ 0 <= token_x[Vault] /\ 0 <= token_y[Vault]
        /\ token_x[Vault]' = token_x[Vault] - 0 /\ token_y[Vault]' = token_y[Vault] - 0
    <3>1. /\ k * token_x[Vault] \in Nat /\ k * token_y[Vault] \in Nat
          /\ 0 * supply = 0
      BY ONLY <1>2 DEF PoolNumbers
    <3>2. QED
      BY <1>1, <1>2, <3>1 DEF PoolNumbers
  <2>2. Pool!Next
    BY <1>1, <1>2, <1>4, <2>1, ExitStep
  <2> QED  BY <2>2
<1> QED  BY <1>2, <1>3, <1>4 DEF PoolNumbers

LEMMA SplTransferStep ==
  ASSUME TypeOK, NEW u \in Users, NEW h \in Holders, NEW k \in U64,
         SplTransferX(u, h, k) \/ SplTransferY(u, h, k)
  PROVE  Pool!Next
<1>1. /\ k \in Nat /\ u \in Holders /\ u # Vault
      /\ token_x \in [Holders -> U64] /\ token_y \in [Holders -> U64]
  BY VaultHolds DEF TypeOK
<1>2. PoolNumbers /\ TypeOK'
  BY Numbers, SplTransferTypes
<1>3. supply' = supply /\ token_x[Vault]' >= token_x[Vault]
      /\ token_y[Vault]' >= token_y[Vault]
  <2>1. ASSUME NEW t \in [Holders -> U64], CanSend(t, u, h, k)
        PROVE  Sent(t, u, h, k)[Vault] >= t[Vault]
    <3>1. t[Vault] \in Nat
      BY VaultHolds
    <3>2. CASE h = Vault
      BY <1>1, <2>1, <3>1, <3>2, TransferMoves
    <3>3. CASE h # Vault
      BY <1>1, <2>1, <3>1, <3>3, TransferMoves, VaultHolds
    <3> QED  BY <3>2, <3>3
  <2>2. CASE SplTransferX(u, h, k)
    BY <1>1, <1>2, <2>1, <2>2 DEF SplTransferX, PoolNumbers
  <2>3. CASE SplTransferY(u, h, k)
    BY <1>1, <1>2, <2>1, <2>3 DEF SplTransferY, PoolNumbers
  <2> QED  BY <2>2, <2>3
<1>4. token_x[Vault]' \in Nat /\ token_y[Vault]' \in Nat /\ supply' \in Nat
  BY <1>2, VaultHolds DEF TypeOK
<1> QED  BY <1>3, <1>4 DEF Pool!Next, Pool!Donate

-----------------------------------------------------------------------------
\* The output of a swap is a u64, within what its numerator pays for.
LEMMA SwapOutBounds ==
  ASSUME NEW k \in Nat, NEW i \in Nat, NEW o \in Nat, i > 0, fee \in 0 .. FeeDenom
  PROVE  /\ SwapOut(k, i, o) \in U64
         /\ PaidFor(k, i, o, FeeDenom, SwapOut(k, i, o))
<1> DEFINE f == FeeDenom - fee
           e == k * f
           den == i * FeeDenom + e
           q == (e * o) \div den
<1>1. f \in Nat /\ f <= FeeDenom
  OBVIOUS
<1>2. e \in Nat /\ e <= k * FeeDenom
  BY <1>1
<1> HIDE DEF e
<1>3. den \in Nat \ {0} /\ e * o \in Nat
  BY <1>2
<1> HIDE DEF den
<1>4. q \in Nat /\ den * q <= e * o
  BY <1>3, DivBounds
<1> HIDE DEF q
<1>5. AsU64(q) \in U64 /\ AsU64(q) <= q
  BY <1>4, MaxU64Assumption, CastBounds DEF AsU64, U64
<1>6. AsU64(q) \in Nat
  BY <1>5
<1>7. AsU64(q) * den <= q * den
  BY <1>3, <1>4, <1>5, <1>6, MulMono
<1>8. AsU64(q) * den \in Nat /\ q * den \in Nat /\ q * den = den * q
  BY <1>3, <1>4, <1>6
<1>9. AsU64(q) * den <= e * o
  BY <1>3, <1>4, <1>7, <1>8
<1>10. SwapOut(k, i, o) = AsU64(q)
  BY DEF SwapOut, q, den, e
<1>11. SwapOut(k, i, o) * (i * FeeDenom + e) <= e * o
  BY <1>9, <1>10 DEF den
<1>12. PaidFor(k, i, o, FeeDenom, SwapOut(k, i, o))
  BY <1>2, <1>11 DEF PaidFor
<1>13. QED
  BY <1>5, <1>10, <1>12

\* What the checks of swap leave: the product of the reserves does not fall.
LEMMA SwapPaysFair ==
  ASSUME NEW k \in Nat, NEW i \in Nat, NEW o \in Nat, NEW m,
         fee \in 0 .. FeeDenom, SwapPays(k, i, o, m, SwapOut(k, i, o)),
         SwapOut(k, i, o) <= o
  PROVE  /\ i > 0 /\ o > 0
         /\ SwapOut(k, i, o) \in U64
         /\ (i + k) * (o - SwapOut(k, i, o)) >= i * o
<1>1. i > 0 /\ o > 0 /\ SwapOut(k, i, o) <= o
  BY DEF SwapPays
<1>2. SwapOut(k, i, o) \in U64 /\ PaidFor(k, i, o, FeeDenom, SwapOut(k, i, o))
  BY ONLY k \in Nat, i \in Nat, o \in Nat, fee \in 0 .. FeeDenom, <1>1,
          SwapOutBounds
<1>3. SwapOut(k, i, o) \in Nat /\ FeeDenom \in Nat \ {0}
  BY <1>2
<1>4. (i + k) * (o - SwapOut(k, i, o)) >= i * o
  BY ONLY k \in Nat, i \in Nat, o \in Nat, <1>1, <1>2, <1>3, SwapFair
<1>5. QED
  BY <1>1, <1>2, <1>4

LEMMA SwapTypes ==
  ASSUME TypeOK, NEW u \in Users, NEW vx \in Holders, NEW vy \in Holders,
         NEW k \in U64, NEW m,
         SwapXToY(u, vx, vy, k, m) \/ SwapYToX(u, vx, vy, k, m)
  PROVE  TypeOK'
<1>1. /\ k \in Nat /\ token_x[vx] \in Nat /\ token_y[vy] \in Nat
      /\ fee \in 0 .. FeeDenom
  BY Numbers
<1>2. token_x' \in [Holders -> U64] /\ token_y' \in [Holders -> U64]
  <2>1. CASE SwapXToY(u, vx, vy, k, m)
    <3> DEFINE out == SwapOut(k, token_x[vx], token_y[vy])
    <3>1. /\ token_x[vx] > 0
          /\ CanSend(token_x, u, vx, k) /\ CanSend(token_y, vy, u, out)
          /\ token_x' = Sent(token_x, u, vx, k) /\ token_y' = Sent(token_y, vy, u, out)
      BY <2>1 DEF SwapXToY, SwapPays
    <3>2. out \in Nat
      <4>1. out \in U64
        BY ONLY <1>1, <3>1, SwapOutBounds
      <4> QED  BY <4>1
    <3> HIDE DEF out
    <3> QED  BY <1>1, <3>1, <3>2, TransferMoves, VaultHolds DEF TypeOK
  <2>2. CASE SwapYToX(u, vx, vy, k, m)
    <3> DEFINE out == SwapOut(k, token_y[vy], token_x[vx])
    <3>1. /\ token_y[vy] > 0
          /\ CanSend(token_y, u, vy, k) /\ CanSend(token_x, vx, u, out)
          /\ token_y' = Sent(token_y, u, vy, k) /\ token_x' = Sent(token_x, vx, u, out)
      BY <2>2 DEF SwapYToX, SwapPays
    <3>2. out \in Nat
      <4>1. out \in U64
        BY ONLY <1>1, <3>1, SwapOutBounds
      <4> QED  BY <4>1
    <3> HIDE DEF out
    <3> QED  BY <1>1, <3>1, <3>2, TransferMoves, VaultHolds DEF TypeOK
  <2> QED  BY <2>1, <2>2
<1>3. UNCHANGED <<created, fee, supply, lp>> /\ Given(vx, vy)
  BY DEF SwapXToY, SwapYToX
<1>4. own' \in BOOLEAN
  BY <1>3 DEF Given, TypeOK
<1> QED  BY <1>2, <1>3, <1>4 DEF TypeOK

LEMMA SwapXToYStep ==
  ASSUME TypeOK, NEW u \in Users, NEW k \in U64, NEW m,
         SwapXToY(u, Vault, Vault, k, m)
  PROVE  Pool!Next
<1> DEFINE out == SwapOut(k, token_x[Vault], token_y[Vault])
<1>1. /\ SwapPays(k, token_x[Vault], token_y[Vault], m, out)
      /\ CanSend(token_x, u, Vault, k) /\ CanSend(token_y, Vault, u, out)
      /\ token_x' = Sent(token_x, u, Vault, k)
      /\ token_y' = Sent(token_y, Vault, u, out)
      /\ supply' = supply
  BY DEF SwapXToY
<1>2. /\ k \in Nat /\ token_x[Vault] \in Nat /\ token_y[Vault] \in Nat
      /\ supply \in Nat /\ fee \in 0 .. FeeDenom
  BY Numbers DEF PoolNumbers
<1>3. out <= token_y[Vault]
  BY <1>1 DEF CanSend
<1>4. /\ token_x[Vault] > 0 /\ token_y[Vault] > 0 /\ out \in Nat
      /\ (token_x[Vault] + k) * (token_y[Vault] - out) >= token_x[Vault] * token_y[Vault]
  BY <1>1, <1>2, <1>3, SwapPaysFair
<1> HIDE DEF out
<1>5. token_x[Vault]' = token_x[Vault] + k /\ token_y[Vault]' = token_y[Vault] - out
  <2>1. /\ u \in Holders /\ Vault \in Holders
        /\ token_x \in [Holders -> U64] /\ token_y \in [Holders -> U64]
    BY VaultHolds DEF TypeOK
  <2> QED  BY ONLY <1>1, <1>2, <1>4, <2>1, TransferMoves
<1>6. Pool!Trade
  BY <1>1, <1>4, <1>5 DEF Pool!Trade
<1>7. token_x[Vault]' \in Nat /\ token_y[Vault]' \in Nat /\ supply' \in Nat
  BY <1>1, <1>2, <1>3, <1>4, <1>5
<1> QED  BY <1>6, <1>7 DEF Pool!Next

LEMMA SwapYToXStep ==
  ASSUME TypeOK, NEW u \in Users, NEW k \in U64, NEW m,
         SwapYToX(u, Vault, Vault, k, m)
  PROVE  Pool!Next
<1> DEFINE out == SwapOut(k, token_y[Vault], token_x[Vault])
<1>1. /\ SwapPays(k, token_y[Vault], token_x[Vault], m, out)
      /\ CanSend(token_y, u, Vault, k) /\ CanSend(token_x, Vault, u, out)
      /\ token_y' = Sent(token_y, u, Vault, k)
      /\ token_x' = Sent(token_x, Vault, u, out)
      /\ supply' = supply
  BY DEF SwapYToX
<1>2. /\ k \in Nat /\ token_x[Vault] \in Nat /\ token_y[Vault] \in Nat
      /\ supply \in Nat /\ fee \in 0 .. FeeDenom
  BY Numbers DEF PoolNumbers
<1>3. out <= token_x[Vault]
  BY <1>1 DEF CanSend
<1>4. /\ token_x[Vault] > 0 /\ token_y[Vault] > 0 /\ out \in Nat
      /\ (token_y[Vault] + k) * (token_x[Vault] - out) >= token_y[Vault] * token_x[Vault]
  BY <1>1, <1>2, <1>3, SwapPaysFair
<1> HIDE DEF out
<1>5. token_y[Vault]' = token_y[Vault] + k /\ token_x[Vault]' = token_x[Vault] - out
  <2>1. /\ u \in Holders /\ Vault \in Holders
        /\ token_x \in [Holders -> U64] /\ token_y \in [Holders -> U64]
    BY VaultHolds DEF TypeOK
  <2> QED  BY ONLY <1>1, <1>2, <1>4, <2>1, TransferMoves
<1>6. token_x[Vault]' * token_y[Vault]' >= token_x[Vault] * token_y[Vault]
  <2>1. /\ (token_y[Vault] + k) * (token_x[Vault] - out)
             = (token_x[Vault] - out) * (token_y[Vault] + k)
        /\ token_y[Vault] * token_x[Vault] = token_x[Vault] * token_y[Vault]
    BY ONLY <1>2, <1>4
  <2> QED  BY <1>4, <1>5, <2>1
<1>7. Pool!Trade
  BY <1>1, <1>4, <1>6 DEF Pool!Trade
<1>8. token_x[Vault]' \in Nat /\ token_y[Vault]' \in Nat /\ supply' \in Nat
  BY <1>1, <1>2, <1>3, <1>4, <1>5
<1> QED  BY <1>7, <1>8 DEF Pool!Next

-----------------------------------------------------------------------------
LEMMA InitialTypes == Init => TypeOK /\ own
<1> SUFFICES ASSUME Init PROVE TypeOK /\ own
  OBVIOUS
<1>1. token_x \in [Holders -> U64] /\ token_y \in [Holders -> U64]
  BY DEF Init
<1>2. lp \in [Users -> U64] /\ supply \in U64 /\ fee \in 0 .. FeeDenom
  BY DEF Init
<1>3. created \in BOOLEAN /\ own \in BOOLEAN /\ own
  BY Zenon DEF Init
<1> QED  BY <1>1, <1>2, <1>3 DEF TypeOK

LEMMA InitialPool == Init => Pool!Init
BY VaultHolds DEF Init, Pool!Init

LEMMA NextTypes == TypeOK /\ [Next]_vars => TypeOK'
<1> SUFFICES ASSUME TypeOK, [Next]_vars PROVE TypeOK'
  OBVIOUS
<1>1. ASSUME NEW f \in Fees, Initialize(f) PROVE TypeOK'
  <2>1. /\ f \in Nat /\ f <= FeeDenom /\ created' = TRUE /\ fee' = f
        /\ UNCHANGED <<supply, lp, token_x, token_y, own>>
    BY <1>1 DEF Initialize
  <2>2. fee' \in 0 .. FeeDenom
    BY ONLY <2>1
  <2> QED  BY <2>1, <2>2 DEF TypeOK
<1>2. ASSUME NEW u \in Users, NEW vx \in Holders, NEW vy \in Holders, PoolStep(u, vx, vy)
      PROVE  TypeOK'
  BY <1>2, AddLiquidityTypes, RemoveLiquidityTypes, SwapTypes DEF PoolStep
<1>3. ASSUME NEW u \in Users, TokenStep(u) PROVE TypeOK'
  BY <1>3, SplBurnTypes, SplTransferTypes DEF TokenStep
<1>4. CASE UNCHANGED vars
  BY <1>4 DEF vars, TypeOK
<1> QED  BY <1>1, <1>2, <1>3, <1>4 DEF Next

\* What is given the pool's vaults is a step of the abstract pool.
LEMMA OwnPoolStep ==
  ASSUME TypeOK, NEW u \in Users, PoolStep(u, Vault, Vault)
  PROVE  Pool!Next
BY AddLiquidityStep, RemoveLiquidityStep, SwapXToYStep, SwapYToXStep DEF PoolStep

LEMMA TokenStepOfPool ==
  ASSUME TypeOK, NEW u \in Users, TokenStep(u)
  PROVE  [Pool!Next]_poolVars
BY SplBurnStep, SplTransferStep DEF TokenStep

\* As long as the history says so, every step is one of the abstract pool.
LEMMA OwnHistory ==
  ASSUME TypeOK, [Next]_vars, own'
  PROVE  own /\ [Pool!Next]_poolVars
<1>1. ASSUME NEW f \in Fees, Initialize(f) PROVE own /\ UNCHANGED poolVars
  BY <1>1 DEF Initialize, poolVars
<1>2. ASSUME NEW u \in Users, NEW vx \in Holders, NEW vy \in Holders, PoolStep(u, vx, vy)
      PROVE  own /\ Pool!Next
  <2>1. Given(vx, vy)
    BY <1>2 DEF PoolStep, AddLiquidity, RemoveLiquidity, SwapXToY, SwapYToX
  <2>2. own /\ vx = Vault /\ vy = Vault
    BY <2>1 DEF Given
  <2> QED  BY <1>2, <2>2, OwnPoolStep
<1>3. ASSUME NEW u \in Users, TokenStep(u) PROVE own /\ [Pool!Next]_poolVars
  <2>1. own' = own
    BY <1>3 DEF TokenStep, SplBurn, SplTransferX, SplTransferY
  <2> QED  BY <1>3, <2>1, TokenStepOfPool
<1>4. CASE UNCHANGED vars
  BY <1>4 DEF vars, poolVars
<1> QED  BY <1>1, <1>2, <1>3, <1>4 DEF Next

(***************************************************************************)
(* The accounts stay u64s and the fee stays a fraction.                    *)
(***************************************************************************)
THEOREM TypeCorrect == Spec => []TypeOK
BY InitialTypes, NextTypes, PTL DEF Spec

(***************************************************************************)
(* While LP tokens are outstanding neither vault is empty, as long as the  *)
(* instructions were given the pool's vaults.                              *)
(***************************************************************************)
THEOREM AlwaysBacked == Spec => []Backed
<1>1. Init => Backed
  BY InitialPool DEF Backed, Pool!Init, Pool!Backed
<1>2. TypeOK /\ Backed /\ [Next]_vars => Backed'
  <2> SUFFICES ASSUME TypeOK, Backed, [Next]_vars, own' PROVE (Pool!Backed)'
    BY DEF Backed
  <2>1. own /\ [Pool!Next]_poolVars
    BY OwnHistory
  <2>2. PoolInv
    BY <2>1, Numbers DEF Backed, PoolInv
  <2>3. [Pool!Next]_(Pool!vars)
    BY <2>1 DEF poolVars, Pool!vars
  <2> QED  BY <2>2, <2>3, PoolNextInv DEF PoolInv
<1> QED  BY <1>1, <1>2, TypeCorrect, PTL DEF Spec

(***************************************************************************)
(* Every instruction that is given the pool's vaults is a step of the      *)
(* abstract pool, for every fee and all amounts, whatever was done before  *)
(* with other accounts.                                                    *)
(***************************************************************************)
THEOREM Implements == Spec => ImplementsPool
<1>1. TypeOK /\ [Next]_vars => [Pool!Next \/ ~OwnStep]_poolVars
  BY OwnPoolStep, TokenStepOfPool DEF OwnStep
<1> QED
  BY <1>1, InitialPool, TypeCorrect, PTL DEF Spec, ImplementsPool, poolVars

(***************************************************************************)
(* A program whose clients always pass the pool's vaults implements the    *)
(* abstract pool.                                                          *)
(***************************************************************************)
THEOREM ImplementsInFull == Spec /\ []own => Pool!Spec
<1>1. TypeOK /\ [Next]_vars /\ own' => [Pool!Next]_(Pool!vars)
  BY OwnHistory DEF poolVars, Pool!vars
<1> QED  BY <1>1, InitialPool, TypeCorrect, PTL DEF Spec, Pool!Spec

(***************************************************************************)
(* The value of a share never falls while LP tokens are outstanding in a   *)
(* step that is given the pool's vaults, whatever was done before.         *)
(***************************************************************************)
THEOREM ShareValueKept == Spec => [][OwnStep => KeepsValue]_poolVars
<1>1. TypeOK /\ [Next]_vars => [OwnStep => KeepsValue]_poolVars
  BY OwnPoolStep, TokenStepOfPool, StepKeepsValue, Numbers DEF OwnStep
<1> QED  BY <1>1, TypeCorrect, PTL DEF Spec

-----------------------------------------------------------------------------
(***************************************************************************)
(* integer_sqrt, which Amm takes as one operator, is the loop of           *)
(* NewtonRoot.  It returns the root rounded down, for every width and      *)
(* every argument but the largest u64, on which alone it fails.            *)
(***************************************************************************)
(***************************************************************************)
(* The loop.  Its invariant: the root is below x + 1, and y is the guess   *)
(* after x, unless the first sum wrapped around.                           *)
(***************************************************************************)
LoopInvariant ==
  /\ n > 0 /\ x \in 1 .. n
  /\ n < (x + 1) * (x + 1)
  /\ IF n = top THEN y = 0 ELSE y = (x + n \div x) \div 2

RootInv ==
  /\ RootTypeOK
  /\ pc = "loop" => LoopInvariant
  /\ pc = "done" => n # top /\ x * x <= n /\ n < (x + 1) * (x + 1)
  /\ pc = "panicked" => n = top

\* What the arguments are, as numbers.
LEMMA ArgumentBounds ==
  ASSUME top \in {MaxU64, MaxU128}, n \in Arguments(top)
  PROVE  /\ top \in Nat \ {0} /\ n \in Nat /\ n <= top
         /\ n <= MaxU64 * MaxU64
<1>1. MaxU64 \in Nat /\ MaxU64 > 0 /\ MaxU64 * MaxU64 \in Nat
  BY MaxU64Assumption
<1>2. MaxU128 = MaxU64 * MaxU64 + 2 * MaxU64
  BY <1>1 DEF MaxU128
<1>3. MaxU64 <= MaxU64 * MaxU64
  <2>1. MaxU64 * 1 <= MaxU64 * MaxU64
    BY <1>1, MulMono
  <2>2. QED
    BY <1>1, <2>1
<1>4. CASE top = MaxU64
  BY <1>1, <1>3, <1>4 DEF Arguments, U64
<1>5. CASE top = MaxU128 /\ top # MaxU64
  <2>1. PICK a \in U64, b \in U64 : n = a * b
    BY <1>5 DEF Arguments
  <2>2. a \in Nat /\ b \in Nat /\ a <= MaxU64 /\ b <= MaxU64
    BY <1>1 DEF U64
  <2>3. a * b <= MaxU64 * MaxU64 /\ a * b \in Nat
    BY <1>1, <2>2, MulMono
  <2>4. QED
    BY <1>1, <1>2, <1>5, <2>1, <2>3
<1>6. QED
  BY <1>4, <1>5

\* A sum within the width does not wrap around.
LEMMA AverageFits ==
  ASSUME NEW a \in Nat, NEW b \in Nat, top \in Nat, a + b <= top
  PROVE  Average(a, b) = (a + b) \div 2
<1>1. (a + b) % (top + 1) = a + b
  OBVIOUS
<1>2. QED
  BY <1>1 DEF Average

\* The call begins with the invariant.
LEMMA InitRootInv == RootInit => RootInv
<1>1. SUFFICES ASSUME RootInit PROVE RootInv
  OBVIOUS
<1>2. top \in Nat
  BY <1>1, ArgumentBounds DEF RootInit
<1>3. QED
  BY <1>1, <1>2 DEF RootInit, RootInv, RootTypeOK

\* The first guess, whose sum wraps around for the largest argument.
LEMMA StartKeepsInv == RootInv /\ Start => RootInv'
<1>1. SUFFICES ASSUME RootInv, Start PROVE RootInv'
  OBVIOUS
<1>2. /\ top \in Nat \ {0} /\ n \in Nat /\ n <= top
      /\ top \in {MaxU64, MaxU128} /\ n \in Arguments(top)
  BY <1>1, ArgumentBounds DEF RootInv, RootTypeOK
<1>3. top' = top /\ n' = n /\ x' = n /\ pc = "start"
  BY <1>1 DEF Start
<1>4. CASE n = 0
  <2>1. pc' = "done" /\ y' = y
    BY <1>1, <1>4 DEF Start
  <2>2. QED
    BY <1>1, <1>2, <1>3, <1>4, <2>1 DEF RootInv, RootTypeOK
<1>5. CASE n # 0 /\ n = top
  <2>1. pc' = "loop" /\ y' = FirstGuess
    BY <1>1, <1>5 DEF Start
  <2>2. FirstGuess = 0
    BY <1>2, <1>5 DEF FirstGuess, Average
  <2>3. n < (n + 1) * (n + 1)
    <3>1. (n + 1) * (n + 1) = n * n + 2 * n + 1 /\ n * n \in Nat
      BY <1>2
    <3>2. QED
      BY <1>2, <3>1
  <2>4. QED
    BY <1>2, <1>3, <1>5, <2>1, <2>2, <2>3 DEF RootInv, RootTypeOK, LoopInvariant
<1>6. CASE n # 0 /\ n # top
  <2>1. pc' = "loop" /\ y' = FirstGuess
    BY <1>1, <1>6 DEF Start
  <2>2. FirstGuess = (n + 1) \div 2
    BY <1>2, <1>6, AverageFits DEF FirstGuess
  <2>3. n \div n = 1
    BY <1>2, <1>6
  <2>4. FirstGuess = (n + n \div n) \div 2 /\ FirstGuess \in 0 .. top
    BY <1>2, <1>6, <2>2, <2>3
  <2>5. n < (n + 1) * (n + 1)
    <3>1. (n + 1) * (n + 1) = n * n + 2 * n + 1 /\ n * n \in Nat
      BY <1>2
    <3>2. QED
      BY <1>2, <3>1
  <2>6. QED
    BY <1>2, <1>3, <1>6, <2>1, <2>4, <2>5 DEF RootInv, RootTypeOK, LoopInvariant
<1>7. QED
  BY <1>4, <1>5, <1>6

\* A better guess is still not below the root, and its sum does not wrap.
LEMMA IterateKeepsInv == RootInv /\ Iterate => RootInv'
<1>1. SUFFICES ASSUME RootInv, Iterate PROVE RootInv'
  OBVIOUS
<1>2. /\ top \in Nat \ {0} /\ n \in Nat /\ n <= top
      /\ top \in {MaxU64, MaxU128} /\ n \in Arguments(top)
  BY <1>1, ArgumentBounds DEF RootInv, RootTypeOK
<1>3. top' = top /\ n' = n /\ x' = y /\ pc = "loop" /\ y < x
  BY <1>1 DEF Iterate, Improves
<1>4. LoopInvariant /\ y \in 0 .. top
  BY <1>1, <1>3 DEF RootInv, RootTypeOK
<1>5. CASE y = 0
  <2>1. pc' = "panicked" /\ y' = y
    BY <1>1, <1>5 DEF Iterate
  <2>2. n = top
    <3>1. SUFFICES ASSUME n # top PROVE FALSE
      OBVIOUS
    <3>2. y \in 1 .. n
      BY <1>2, <1>4, <3>1, NextGuessBounds DEF LoopInvariant
    <3>3. QED
      BY <1>5, <3>2
  <2>3. QED
    BY <1>2, <1>3, <1>4, <1>5, <2>1, <2>2 DEF RootInv, RootTypeOK
<1>6. CASE y # 0
  <2>1. pc' = "loop" /\ y' = Average(y, n \div y)
    BY <1>1, <1>3, <1>6 DEF Iterate
  <2>2. n # top /\ y = (x + n \div x) \div 2 /\ x \in 1 .. n /\ n > 0
    BY <1>4, <1>6 DEF LoopInvariant
  <2>3. y \in Nat \ {0} /\ y <= n
    BY <1>2, <1>3, <1>4, <1>6, <2>2
  <2>4. n < (y + 1) * (y + 1)
    BY <1>2, <2>2, <2>3, NextGuessAbove
  <2>5. n \div y \in Nat /\ y + n \div y <= top
    <3>1. n \div y \in Nat /\ y + n \div y <= n + 1
      BY <1>2, <2>3, SumBounded
    <3>2. n + 1 <= top
      BY <1>2, <2>2
    <3>3. QED
      BY <1>2, <2>3, <3>1, <3>2
  <2>6. y' = (y + n \div y) \div 2
    BY <1>2, <2>1, <2>3, <2>5, AverageFits
  <2>7. y' \in 0 .. top
    BY <1>2, <2>3, <2>6, NextGuessBounds
  <2>8. QED
    BY <1>2, <1>3, <2>1, <2>2, <2>3, <2>4, <2>6, <2>7 DEF RootInv, RootTypeOK, LoopInvariant
<1>7. QED
  BY <1>5, <1>6

\* The loop ends on a guess that is not above the root.
LEMMA ReturnKeepsInv == RootInv /\ Return => RootInv'
<1>1. SUFFICES ASSUME RootInv, Return PROVE RootInv'
  OBVIOUS
<1>2. n \in Nat /\ pc = "loop" /\ pc' = "done" /\ UNCHANGED <<top, n, x, y>>
  BY <1>1, ArgumentBounds DEF RootInv, RootTypeOK, Return
<1>3. LoopInvariant /\ ~(y < x) /\ y \in Nat
  BY <1>1, <1>2, ArgumentBounds DEF RootInv, RootTypeOK, Return, Improves
<1>4. n # top /\ y = (x + n \div x) \div 2 /\ x \in Nat \ {0} /\ x <= y
  BY <1>2, <1>3 DEF LoopInvariant
<1>5. x * x <= n
  BY <1>2, <1>4, LastGuessBelow
<1>6. n < (x + 1) * (x + 1)
  BY <1>3 DEF LoopInvariant
<1>7. QED
  BY <1>1, <1>2, <1>4, <1>5, <1>6 DEF RootInv, RootTypeOK

\* The types and the loop invariant hold throughout.
THEOREM RootInvariant == RootSpec => []RootInv
<1>1. RootInv /\ [RootNext]_root_vars => RootInv'
  <2>1. SUFFICES ASSUME RootInv, [RootNext]_root_vars PROVE RootInv'
    OBVIOUS
  <2>2. CASE Start
    BY <2>1, <2>2, StartKeepsInv
  <2>3. CASE Iterate
    BY <2>1, <2>3, IterateKeepsInv
  <2>4. CASE Return
    BY <2>1, <2>4, ReturnKeepsInv
  <2>5. CASE UNCHANGED root_vars
    BY <2>1, <2>5 DEF RootInv, RootTypeOK, LoopInvariant, root_vars
  <2>6. QED
    BY <2>1, <2>2, <2>3, <2>4, <2>5 DEF RootNext
<1>2. QED
  BY InitRootInv, <1>1, PTL DEF RootSpec

(***************************************************************************)
(* The locals stay within the width, whichever it is.                      *)
(***************************************************************************)
THEOREM RootTypeCorrect == RootSpec => []RootTypeOK
BY RootInvariant, PTL DEF RootInv

\* The cast to u64 keeps what the loop ends on.
LEMMA CastKeepsRoot ==
  ASSUME RootInv, pc = "done"
  PROVE  n \in Nat /\ x \in Nat /\ Result = x /\ IsRoot(x, n)
<1>1. /\ x \in Nat /\ n \in Nat /\ n <= MaxU64 * MaxU64
      /\ x * x <= n /\ n < (x + 1) * (x + 1)
  BY ArgumentBounds DEF RootInv, RootTypeOK
<1>2. MaxU64 \in Nat
  BY MaxU64Assumption
<1>3. x <= MaxU64
  <2>1. SUFFICES ASSUME MaxU64 + 1 <= x PROVE FALSE
    BY <1>1, <1>2
  <2>2. (MaxU64 + 1) * (MaxU64 + 1) <= x * x
    BY <1>1, <1>2, <2>1, MulMono
  <2>3. (MaxU64 + 1) * (MaxU64 + 1) = MaxU64 * MaxU64 + 2 * MaxU64 + 1
    BY <1>2
  <2>4. MaxU64 * MaxU64 \in Nat /\ x * x \in Nat
    BY <1>1, <1>2
  <2>5. QED
    BY <1>1, <1>2, <2>2, <2>3, <2>4
<1>4. Result = x
  BY <1>1, <1>2, <1>3 DEF Result, AsU64
<1>5. QED
  BY <1>1, <1>4 DEF IsRoot

(***************************************************************************)
(* integer_sqrt returns the square root rounded down, whatever the width   *)
(* and the argument, and the cast to u64 keeps it.                         *)
(***************************************************************************)
THEOREM RootIsCorrect == RootSpec => []RootCorrect
<1>1. RootInv => RootCorrect
  BY CastKeepsRoot DEF IsRoot, RootCorrect
<1>2. QED
  BY <1>1, RootInvariant, PTL

(***************************************************************************)
(* The loop returns what the operator IntegerSqrt is, which stands for it  *)
(* in the models of the market makers.                                     *)
(***************************************************************************)
THEOREM OperatorIsLoop == RootSpec => []OperatorAgrees
<1>1. RootInv => OperatorAgrees
  BY CastKeepsRoot, IntegerSqrtIsRoot DEF OperatorAgrees
<1>2. QED
  BY <1>1, RootInvariant, PTL

(***************************************************************************)
(* It fails on the largest value of its width and on nothing else.         *)
(***************************************************************************)
THEOREM OneFailure == RootSpec => []FailsOnlyAtTop
<1>1. RootInv => FailsOnlyAtTop
  BY DEF RootInv, FailsOnlyAtTop
<1>2. QED
  BY <1>1, RootInvariant, PTL

-----------------------------------------------------------------------------
(***************************************************************************)
(* Why a call of integer_sqrt ends: the guesses fall.                      *)
(***************************************************************************)
RootRank ==
  CASE pc = "start" -> top + 2
    [] pc = "loop" -> x + 1
    [] pc \in {"done", "panicked"} -> 0

LEMMA RootRanks ==
  ASSUME RootTypeOK
  PROVE  /\ RootRank \in 0 .. top + 2 /\ n <= top
         /\ top \in Nat /\ x \in Nat /\ y \in Nat /\ n \in Nat
<1>1. n \in Nat /\ top \in Nat /\ n <= top
  BY ArgumentBounds DEF RootTypeOK
<1> QED  BY <1>1 DEF RootTypeOK, RootRank

LEMMA RankFalls ==
  ASSUME RootTypeOK, RootNext
  PROVE  RootRank' < RootRank
<1>1. /\ top \in Nat /\ x \in Nat /\ y \in Nat /\ n \in Nat /\ n <= top
  BY RootRanks
<1>2. CASE Start
  BY <1>1, <1>2 DEF Start, RootRank
<1>3. CASE Iterate
  BY <1>1, <1>3 DEF Iterate, Improves, RootRank
<1>4. CASE Return
  BY <1>1, <1>4 DEF Return, RootRank
<1> QED  BY <1>2, <1>3, <1>4 DEF RootNext

(***************************************************************************)
(* Every step of a call brings it nearer to its end, whatever the argument *)
(* and the width: it takes top + 2 steps at most, and whatever is fair to  *)
(* it ends it.                                                             *)
(***************************************************************************)
Descends == RootRank' < RootRank /\ RootRank' \in Nat

\* No call of integer_sqrt goes on for ever.
THEOREM RootDescends == RootSpec => [][Descends]_root_vars
<1>1. RootInv /\ RootInv' /\ [RootNext]_root_vars => [Descends]_root_vars
  <2> SUFFICES ASSUME RootInv, RootInv', RootNext PROVE Descends
    OBVIOUS
  <2>1. RootRank' < RootRank
    BY RankFalls DEF RootInv
  <2>2. RootRank' \in Nat
    <3>1. (RootTypeOK => RootRank \in 0 .. top + 2 /\ top \in Nat)'
      BY RootRanks, PTL
    <3> QED  BY <3>1 DEF RootInv
  <2> QED  BY <2>1, <2>2 DEF Descends
<1> QED  BY <1>1, RootInvariant, PTL DEF RootSpec

(***************************************************************************)
(* A call is not stuck before its end: one of the steps of RootNext goes   *)
(* on, to these values.                                                    *)
(***************************************************************************)
RootNextValues ==
  CASE pc = "start" ->
         IF n = 0 THEN <<top, n, n, y, "done">> ELSE <<top, n, n, FirstGuess, "loop">>
    [] pc = "loop" /\ y < x ->
         IF y = 0 THEN <<top, n, y, y, "panicked">>
                  ELSE <<top, n, y, Average(y, n \div y), "loop">>
    [] pc = "loop" /\ ~(y < x) -> <<top, n, x, y, "done">>

\* A step is there for every state of the loop that has not ended.
THEOREM RootNeverStuck ==
  ASSUME RootInv, pc \notin {"done", "panicked"}, root_vars' = RootNextValues
  PROVE  RootNext /\ root_vars' # root_vars
<1>1. pc \in {"start", "loop"}
  BY DEF RootInv, RootTypeOK
<1>2. RootNext
  <2>1. CASE pc = "start"
    <3>1. root_vars' = IF n = 0 THEN <<top, n, n, y, "done">>
                                ELSE <<top, n, n, FirstGuess, "loop">>
      BY <2>1 DEF RootNextValues
    <3> QED  BY <2>1, <3>1 DEF root_vars, Start, RootNext
  <2>2. CASE pc = "loop" /\ y < x
    <3>1. root_vars' = IF y = 0 THEN <<top, n, y, y, "panicked">>
                                ELSE <<top, n, y, Average(y, n \div y), "loop">>
      BY <2>2 DEF RootNextValues
    <3> QED  BY <2>2, <3>1 DEF root_vars, Iterate, Improves, RootNext
  <2>3. CASE pc = "loop" /\ ~(y < x)
    <3>1. root_vars' = <<top, n, x, y, "done">>
      BY <2>3 DEF RootNextValues
    <3> QED  BY <2>3, <3>1 DEF root_vars, Return, Improves, RootNext
  <2> QED  BY <1>1, <2>1, <2>2, <2>3
<1>3. RootRank \in 0 .. top + 2 /\ top \in Nat /\ RootRank' < RootRank
  BY <1>2, RootRanks, RankFalls DEF RootInv
<1>4. root_vars' # root_vars
  <2> SUFFICES ASSUME root_vars' = root_vars PROVE FALSE
    OBVIOUS
  <2>1. RootRank' = RootRank
    BY DEF root_vars, RootRank
  <2>2. RootRank \in Nat
    BY <1>3
  <2> QED  BY <1>3, <2>1, <2>2
<1> QED  BY <1>2, <1>4

=============================================================================
