----------------------- MODULE IntrospectionAmm_proofs -----------------------
(***************************************************************************)
(* Proofs about IntrospectionAmm: its accounts stay u64s, what withdraw    *)
(* pays for was burned just before, the shares that stay are not diluted   *)
(* by what the formulas price, and how far what the documentation says of  *)
(* swap and deposit holds.                                                 *)
(***************************************************************************)
EXTENDS IntrospectionAmm, Arithmetic

USE ConstantsAssumption, MaxU64Assumption DEF U64, Sides

\* The types of the account variables, one conjunct each.
AccountsOK ==
  /\ open \in SUBSET Pools
  /\ lp_supply \in [Pools -> U64]
  /\ supply \in [Pools -> U64]
  /\ vault \in [TokenAccounts -> U64]
  /\ lp \in [Pools \X Users -> U64]
  /\ wallet \in [Users \X Mints -> U64]

LEMMA TypeSplit == (CurrentLedger \in Ledger) <=> AccountsOK
BY DEF CurrentLedger, Ledger, AccountsOK

LEMMA TypeSplitPrime == (CurrentLedger \in Ledger)' <=> AccountsOK'
BY DEF CurrentLedger, Ledger, AccountsOK

LEMMA PoolMints ==
  \A p \in Pools : p[1] \in Mints /\ p[2] \in Mints /\ p[1] # p[2]
BY ConstantsAssumption

\* A pool's own vaults are among the token accounts, and differ.
LEMMA PoolAccounts ==
  /\ \A p \in Pools : <<p, "a">> \in TokenAccounts /\ <<p, "b">> \in TokenAccounts
  /\ \A p : <<p, "a">> # <<p, "b">>
BY DEF TokenAccounts

\* Every token account has a pool and a mint.
LEMMA AccountMints ==
  ASSUME NEW x \in TokenAccounts
  PROVE  PoolOf(x) \in Pools /\ MintOf(x) \in Mints
<1>1. CASE x \in Pools \X Sides
  BY <1>1, PoolMints DEF PoolOf, MintOf
<1>2. CASE x \in Others
  BY <1>2 DEF PoolOf, MintOf
<1> QED  BY <1>1, <1>2 DEF TokenAccounts

\* A burn leaves typed accounts.
LEMMA BurnType ==
  ASSUME AccountsOK, NEW u \in Users, NEW p \in Pools, NEW n \in U64,
         Burn(u, p, n)
  PROVE  AccountsOK'
BY DEF AccountsOK, Burn

\* Paying into the vaults and getting shares leaves typed accounts.
LEMMA JoinType ==
  ASSUME AccountsOK, NEW u \in Users, NEW p \in Pools,
         NEW a \in U64, NEW b \in U64, NEW n \in U64,
         Join(u, p, a, b, n), open' \in SUBSET Pools
  PROVE  AccountsOK'
<1>1. p[1] \in Mints /\ p[2] \in Mints /\ p[1] # p[2]
  BY PoolMints
<1>2. wallet' \in [Users \X Mints -> U64]
  <2>1. /\ wallet[<<u, p[1]>>] - a \in U64
        /\ wallet[<<u, p[2]>>] - b \in U64
    BY <1>1 DEF AccountsOK, Join
  <2>2. wallet' = [wallet EXCEPT ![<<u, p[1]>>] = @ - a, ![<<u, p[2]>>] = @ - b]
    BY DEF Join
  <2>3. QED
    BY ONLY AccountsOK, <1>1, <2>1, <2>2, u \in Users DEF AccountsOK
<1>3. vault' \in [TokenAccounts -> U64]
  BY PoolAccounts DEF AccountsOK, Join
<1>4. lp_supply' \in [Pools -> U64] /\ supply' \in [Pools -> U64]
  BY DEF AccountsOK, Join
<1>5. lp' \in [Pools \X Users -> U64]
  BY DEF AccountsOK, Join
<1>6. QED
  BY <1>2, <1>3, <1>4, <1>5 DEF AccountsOK

\* What shares are worth is a u64.
LEMMA PayoutType ==
  ASSUME AccountsOK, NEW p \in Pools, NEW side \in Sides, NEW n \in U64,
         lp_supply[p] > 0
  PROVE  Payout(p, side, n) \in U64
<1>0. <<p, side>> \in TokenAccounts
  BY DEF TokenAccounts
<1>1. n \in Nat /\ vault[<<p, side>>] \in Nat /\ lp_supply[p] \in Nat \ {0}
  BY <1>0 DEF AccountsOK
<1>2. MulDiv(n, vault[<<p, side>>], lp_supply[p]) \in U64
  BY ONLY <1>1, MaxU64Assumption, CastQuotientBounds DEF MulDiv, AsU64, U64
<1>3. QED
  BY <1>2 DEF Payout

LEMMA WithdrawType ==
  ASSUME AccountsOK, NEW u \in Users, NEW p \in Pools,
         NEW min_a, NEW min_b, NEW cpi \in BOOLEAN,
         Preceding(cpi).lp_amount \in U64, Withdraw(u, p, min_a, min_b, cpi)
  PROVE  AccountsOK'
<1> DEFINE lp_amount == Preceding(cpi).lp_amount
           a_out == Payout(p, "a", lp_amount)
           b_out == Payout(p, "b", lp_amount)
<1>1. a_out \in U64 /\ b_out \in U64
  BY PayoutType DEF Withdraw
<1>2. /\ a_out <= vault[<<p, "a">>] /\ b_out <= vault[<<p, "b">>]
      /\ wallet[<<u, p[1]>>] + a_out \in U64
      /\ wallet[<<u, p[2]>>] + b_out \in U64
      /\ lp_amount <= lp_supply[p]
      /\ vault' = [vault EXCEPT ![<<p, "a">>] = @ - a_out, ![<<p, "b">>] = @ - b_out]
      /\ wallet' = [wallet EXCEPT ![<<u, p[1]>>] = @ + a_out, ![<<u, p[2]>>] = @ + b_out]
      /\ lp_supply' = [lp_supply EXCEPT ![p] = @ - lp_amount]
      /\ UNCHANGED <<open, supply, lp>>
  BY DEF Withdraw
<1> HIDE DEF a_out, b_out, lp_amount
<1>3. lp_amount \in U64
  BY DEF lp_amount
<1>4. vault' \in [TokenAccounts -> U64]
  <2>1. vault[<<p, "a">>] - a_out \in U64 /\ vault[<<p, "b">>] - b_out \in U64
    BY <1>1, <1>2, PoolAccounts DEF AccountsOK
  <2>2. QED
    BY <1>2, <2>1, PoolAccounts DEF AccountsOK
<1>5. wallet' \in [Users \X Mints -> U64]
  BY <1>1, <1>2, PoolMints DEF AccountsOK
<1>6. lp_supply' \in [Pools -> U64]
  BY <1>2, <1>3 DEF AccountsOK
<1>7. QED
  BY <1>2, <1>4, <1>5, <1>6 DEF AccountsOK

\* The output of a swap is a u64.
LEMMA SwapOutType ==
  ASSUME NEW n \in U64, NEW i \in U64, NEW o \in U64, n > 0
  PROVE  SwapOut(n, i, o) \in U64
<1> DEFINE num == n * 997 * o
           den == i * 1000 + n * 997
<1>1. num \in Nat /\ den \in Nat \ {0}
  OBVIOUS
<1>2. SwapOut(n, i, o) = AsU64(num \div den)
  BY DEF SwapOut
<1> HIDE DEF num, den
<1>3. num \div den \in Nat
  BY <1>1, DivBounds
<1>4. QED
  BY <1>2, <1>3, MaxU64Assumption, CastBounds DEF AsU64, U64

\* Moving between two u64 balances, or from one to itself, leaves u64s.
LEMMA MoveType ==
  ASSUME NEW S, NEW f \in [S -> U64], NEW x \in S, NEW y \in S, NEW n \in U64,
         NEW m \in U64, f[x] - n \in U64, f[y] + m \in U64
  PROVE  [[f EXCEPT ![x] = @ - n] EXCEPT ![y] = @ + m] \in [S -> U64]
<1> DEFINE g == [f EXCEPT ![x] = @ - n]
<1>1. g \in [S -> U64] /\ g[y] + m \in U64
  OBVIOUS
<1> HIDE DEF g
<1>2. [g EXCEPT ![y] = @ + m] \in [S -> U64]
  BY <1>1
<1> QED  BY <1>2 DEF g

LEMMA SwapType ==
  ASSUME AccountsOK, NEW u \in Users, NEW in \in TokenAccounts, NEW out \in TokenAccounts,
         NEW n \in U64, NEW min_out, NEW a_to_b \in BOOLEAN, NEW cpi \in BOOLEAN,
         Swap(u, in, out, n, min_out, a_to_b, cpi)
  PROVE  AccountsOK'
<1> DEFINE mint_in == MintOf(in)
           mint_out == MintOf(out)
           amount_out == SwapOut(n, InReserve(in, out, a_to_b), OutReserve(in, out, a_to_b))
<1>1. mint_in \in Mints /\ mint_out \in Mints
  BY AccountMints
<1>2. InReserve(in, out, a_to_b) \in U64 /\ OutReserve(in, out, a_to_b) \in U64
  BY DEF InReserve, OutReserve, AccountsOK
<1>3. amount_out \in U64
  BY <1>2, SwapOutType DEF Swap
<1>4. /\ in # out
      /\ n <= wallet[<<u, mint_in>>] /\ vault[in] + n \in U64
      /\ amount_out <= vault[out] /\ wallet[<<u, mint_out>>] + amount_out \in U64
      /\ vault' = [vault EXCEPT ![in] = @ + n, ![out] = @ - amount_out]
      /\ wallet' = [[wallet EXCEPT ![<<u, mint_in>>] = @ - n]
                          EXCEPT ![<<u, mint_out>>] = @ + amount_out]
      /\ UNCHANGED <<open, lp_supply, supply, lp>>
  BY DEF Swap
<1> HIDE DEF mint_in, mint_out, amount_out
<1>5. vault' \in [TokenAccounts -> U64]
  <2>1. vault[out] - amount_out \in U64
    BY <1>3, <1>4 DEF AccountsOK
  <2>2. QED
    BY <1>4, <2>1 DEF AccountsOK
<1>6. wallet' \in [Users \X Mints -> U64]
  <2>1. /\ wallet \in [Users \X Mints -> U64]
        /\ <<u, mint_in>> \in Users \X Mints /\ <<u, mint_out>> \in Users \X Mints
    BY <1>1 DEF AccountsOK
  <2>2. wallet[<<u, mint_in>>] - n \in U64
    BY <1>4, <2>1
  <2> DEFINE x == <<u, mint_in>>
             y == <<u, mint_out>>
             S == Users \X Mints
  <2>3. wallet' = [[wallet EXCEPT ![x] = @ - n] EXCEPT ![y] = @ + amount_out]
    BY <1>4
  <2>4. wallet[y] + amount_out \in U64 /\ wallet[x] - n \in U64
    BY <1>4, <2>2
  <2> HIDE DEF x, y, S
  <2>5. wallet \in [S -> U64] /\ x \in S /\ y \in S
    BY <2>1 DEF S, x, y
  <2>6. wallet' \in [S -> U64]
    BY <1>3, <2>3, <2>4, <2>5, MoveType
  <2> QED  BY <2>6 DEF S
<1>8. QED
  BY <1>4, <1>5, <1>6 DEF AccountsOK

LEMMA SplTransferType ==
  ASSUME AccountsOK, NEW u \in Users, NEW x \in TokenAccounts, NEW n \in U64,
         NEW cpi, SplTransferTo(u, x, n, cpi)
  PROVE  AccountsOK'
BY AccountMints DEF AccountsOK, SplTransferTo

-----------------------------------------------------------------------------
(***************************************************************************)
(* BurnsMatched is inductive together with the types and one fact about    *)
(* the sysvar: a burn that is the current instruction has not been paid    *)
(* for.  withdraw takes from lp_supply what was Redeemable, or adds it to  *)
(* `again', and no other instruction makes anything redeemable but a       *)
(* burn_lp at top level, which takes as much from the supply.              *)
(***************************************************************************)
FreshBurn == tx.cur.ix = "burn_lp" => ~tx.paid

Inv == TypeOK /\ FreshBurn /\ BurnsMatched

\* The types before a step, in the form the lemmas below use.
LEMMA TypeUse ==
  TypeOK => /\ AccountsOK
            /\ saved \in Ledger
            /\ tx.ixs \in 0 .. MaxIxs
            /\ tx.prev \in Instructions /\ tx.cur \in Instructions
            /\ tx.paid \in BOOLEAN
            /\ again \in [Pools -> Nat]
BY TypeSplit DEF TypeOK

LEMMA BurnAmounts ==
  ASSUME NEW ix \in Instructions
  PROVE  /\ ix.ix = "burn_lp" => /\ ix.lp_amount \in U64 /\ ix.pool \in Pools
                                 /\ ix # Other /\ ix # Own
         /\ ix.ix # "burn_lp" => ix \in {Own, Other}
BY DEF Instructions, Own, Other

LEMMA RedeemableType ==
  ASSUME TypeOK, NEW p \in Pools
  PROVE  Redeemable(p) \in Nat
<1>1. Shown \in Instructions
  BY TypeUse DEF Shown, Preceding
<1> QED  BY <1>1, BurnAmounts DEF Redeemable

LEMMA RedeemableTypePrime ==
  ASSUME TypeOK', NEW p \in Pools
  PROVE  Redeemable(p)' \in Nat
<1>1. tx'.prev \in Instructions /\ tx'.cur \in Instructions
  BY DEF TypeOK
<1>2. Shown' \in Instructions
  BY <1>1 DEF Shown, Preceding
<1> QED  BY <1>2, BurnAmounts DEF Redeemable

\* What an instruction that succeeds leaves in the sysvar.
LEMMA AfterType ==
  ASSUME TypeOK, NEW ix \in Instructions, NEW cpi \in BOOLEAN, MayRun(cpi)
  PROVE  /\ After(ix, cpi) \in [ixs : 0 .. MaxIxs, prev : Instructions,
                                 cur : Instructions, paid : BOOLEAN]
         /\ [After(ix, cpi) EXCEPT !.paid = TRUE]
              \in [ixs : 0 .. MaxIxs, prev : Instructions, cur : Instructions,
                   paid : BOOLEAN]
<1>1. tx.ixs \in Nat /\ tx.ixs < MaxIxs /\ tx.prev \in Instructions /\ tx.cur \in Instructions
      /\ tx.paid \in BOOLEAN
  BY TypeUse DEF MayRun
<1>2. tx.ixs + 1 \in 0 .. MaxIxs
  BY <1>1
<1>3. /\ (IF cpi THEN tx.prev ELSE tx.cur) \in Instructions
      /\ (IF cpi THEN tx.cur ELSE ix) \in Instructions
      /\ (cpi /\ tx.paid) \in BOOLEAN
  BY <1>1
<1>4. After(ix, cpi) \in [ixs : 0 .. MaxIxs, prev : Instructions,
                          cur : Instructions, paid : BOOLEAN]
  BY <1>2, <1>3, Zenon DEF After
<1> QED  BY <1>4

\* What is redeemable after an instruction that is not withdraw.
LEMMA RedeemableAfter ==
  ASSUME TypeOK, FreshBurn, NEW ix \in Instructions, NEW cpi \in BOOLEAN, Runs(ix, cpi)
  PROVE  /\ FreshBurn'
         /\ \A p \in Pools :
              Redeemable(p)' <= IF ~cpi /\ ix.ix = "burn_lp" /\ ix.pool = p
                                  THEN ix.lp_amount ELSE Redeemable(p)
<1>0. /\ tx' = After(ix, cpi) /\ (cpi => tx.cur = Other)
      /\ tx.cur \in Instructions /\ tx.prev \in Instructions /\ tx.paid \in BOOLEAN
  BY TypeUse DEF Runs, MayRun
<1>1. CASE cpi
  <2>1. tx'.prev = tx.prev /\ tx'.cur = tx.cur /\ tx'.paid = tx.paid
    BY <1>0, <1>1 DEF After
  <2>2. \A p \in Pools : Redeemable(p)' = Redeemable(p)
    BY <2>1 DEF Redeemable, Shown, Preceding
  <2>3. \A p \in Pools : Redeemable(p) \in Nat
    BY RedeemableType
  <2> QED  BY <1>1, <2>1, <2>2, <2>3 DEF FreshBurn
<1>2. CASE ~cpi
  <2>1. tx'.prev = tx.cur /\ tx'.cur = ix /\ tx'.paid = FALSE
    BY <1>0, <1>2 DEF After
  <2>2. FreshBurn'
    BY <2>1 DEF FreshBurn
  <2>3. ASSUME NEW p \in Pools
        PROVE  Redeemable(p)' <= IF ix.ix = "burn_lp" /\ ix.pool = p
                                   THEN ix.lp_amount ELSE Redeemable(p)
    <3>1. Redeemable(p) \in Nat
      BY RedeemableType
    <3>2. CASE ix.ix = "burn_lp"
      <4>1. Shown' = ix
        BY <2>1, <3>2, BurnAmounts DEF Shown, Preceding
      <4>2. ix.lp_amount \in U64
        BY <3>2, BurnAmounts
      <4> QED  BY <2>1, <3>1, <3>2, <4>1, <4>2 DEF Redeemable
    <3>3. CASE ix = Own
      <4>1. Shown' = Own
        BY <2>1, <3>3 DEF Shown, Preceding, Own, Other
      <4> QED  BY <3>1, <3>3, <4>1 DEF Redeemable, Own
    <3>4. CASE ix = Other
      <4>1. Shown' = tx.cur
        BY <2>1, <3>4 DEF Shown, Preceding
      <4>2. CASE tx.cur.ix = "burn_lp"
        <5>1. Shown = tx.cur /\ ~tx.paid
          BY <1>0, <4>2, BurnAmounts DEF Shown, Preceding, FreshBurn
        <5>2. Redeemable(p)' = Redeemable(p)
          BY <2>1, <4>1, <5>1 DEF Redeemable
        <5> QED  BY <3>1, <3>4, <5>2 DEF Other
      <4>3. CASE tx.cur.ix # "burn_lp"
        <5>1. Redeemable(p)' = 0
          BY <4>1, <4>3 DEF Redeemable
        <5> QED  BY <3>1, <3>4, <5>1 DEF Other
      <4> QED  BY <4>2, <4>3
    <3> QED  BY <3>2, <3>3, <3>4, BurnAmounts
  <2> QED  BY <1>2, <2>2, <2>3
<1> QED  BY <1>1, <1>2

\* The numbers BurnsMatched is about.
LEMMA GapTypes ==
  ASSUME TypeOK, NEW p \in Pools
  PROVE  /\ saved.lp_supply[p] \in Nat /\ saved.supply[p] \in Nat
         /\ lp_supply[p] \in Nat /\ supply[p] \in Nat
         /\ again[p] \in Nat /\ Redeemable(p) \in Nat
BY TypeUse, RedeemableType DEF AccountsOK, Ledger

\* An instruction that does not narrow the gap between any pool's lp_supply and
\* the supply of its LP mint preserves the invariant.
LEMMA GapStep ==
  ASSUME Inv, NEW ix \in {Own, Other}, NEW cpi \in BOOLEAN, Runs(ix, cpi), AccountsOK',
         \A p \in Pools : lp_supply'[p] - supply'[p] >= lp_supply[p] - supply[p]
  PROVE  Inv'
<1>0. ix \in Instructions /\ ix.ix # "burn_lp" /\ TypeOK /\ FreshBurn
  BY DEF Instructions, Own, Other, Inv
<1>1. TypeOK'
  <2>1. tx' = After(ix, cpi) /\ MayRun(cpi) /\ saved' = saved /\ again' = again
    BY DEF Runs
  <2> QED  BY <1>0, <2>1, AfterType, TypeUse, TypeSplitPrime DEF TypeOK
<1>2. FreshBurn' /\ \A p \in Pools : Redeemable(p)' <= Redeemable(p)
  BY <1>0, RedeemableAfter
<1>3. ASSUME NEW p \in Pools
      PROVE  saved'.lp_supply[p] - saved'.supply[p] + Redeemable(p)'
               <= lp_supply'[p] - supply'[p] + again'[p]
  <2>1. saved' = saved /\ again' = again /\ Redeemable(p)' <= Redeemable(p)
    BY <1>2 DEF Runs
  <2>2. /\ saved.lp_supply[p] \in Nat /\ saved.supply[p] \in Nat
        /\ lp_supply[p] \in Nat /\ supply[p] \in Nat
        /\ again[p] \in Nat /\ Redeemable(p) \in Nat
    BY <1>0, GapTypes
  <2>3. lp_supply'[p] \in Nat /\ supply'[p] \in Nat /\ Redeemable(p)' \in Nat
    BY <1>1, RedeemableTypePrime DEF AccountsOK
  <2>4. saved.lp_supply[p] - saved.supply[p] + Redeemable(p)
          <= lp_supply[p] - supply[p] + again[p]
    BY DEF Inv, BurnsMatched
  <2>5. lp_supply'[p] - supply'[p] >= lp_supply[p] - supply[p]
    OBVIOUS
  <2> QED  BY <2>1, <2>2, <2>3, <2>4, <2>5
<1>4. QED
  BY <1>1, <1>2, <1>3 DEF Inv, BurnsMatched

LEMMA BurnLpStep ==
  ASSUME Inv, NEW u \in Users, NEW q \in Pools, NEW n \in U64, NEW cpi \in BOOLEAN,
         BurnLp(u, q, n, cpi)
  PROVE  Inv'
<1> DEFINE ix == Burning(u, q, n)
<1>0. ix \in Instructions /\ ix.ix = "burn_lp" /\ ix.pool = q /\ ix.lp_amount = n
      /\ TypeOK /\ FreshBurn
  BY DEF Instructions, Burning, Inv
<1>1. /\ Runs(ix, cpi) /\ lp_supply' = lp_supply
      /\ supply' = [supply EXCEPT ![q] = @ - n]
  BY DEF BurnLp, Burn
<1> HIDE DEF ix
<1>2. AccountsOK'
  BY TypeUse, BurnType DEF Inv, BurnLp
<1>3. TypeOK'
  <2>1. tx' = After(ix, cpi) /\ MayRun(cpi) /\ saved' = saved /\ again' = again
    BY <1>1 DEF Runs
  <2> QED  BY <1>0, <1>2, <2>1, AfterType, TypeUse, TypeSplitPrime DEF TypeOK
<1>4. /\ FreshBurn'
      /\ \A p \in Pools : Redeemable(p)' <= IF ~cpi /\ q = p THEN n ELSE Redeemable(p)
  BY <1>0, <1>1, RedeemableAfter
<1>5. ASSUME NEW p \in Pools
      PROVE  saved'.lp_supply[p] - saved'.supply[p] + Redeemable(p)'
               <= lp_supply'[p] - supply'[p] + again'[p]
  <2>1. saved' = saved /\ again' = again /\ lp_supply' = lp_supply
    BY <1>1 DEF Runs
  <2>2. /\ saved.lp_supply[p] \in Nat /\ saved.supply[p] \in Nat
        /\ lp_supply[p] \in Nat /\ supply[p] \in Nat
        /\ again[p] \in Nat /\ Redeemable(p) \in Nat
    BY <1>0, GapTypes
  <2>3. Redeemable(p)' \in Nat
    BY <1>3, RedeemableTypePrime
  <2>4. supply'[p] = IF q = p THEN supply[p] - n ELSE supply[p]
    BY <1>1, <1>0, TypeUse DEF AccountsOK
  <2>5. saved.lp_supply[p] - saved.supply[p] + Redeemable(p)
          <= lp_supply[p] - supply[p] + again[p]
    BY DEF Inv, BurnsMatched
  <2>6. Redeemable(p)' <= IF ~cpi /\ q = p THEN n ELSE Redeemable(p)
    BY <1>4
  <2> QED  BY <2>1, <2>2, <2>3, <2>4, <2>5, <2>6
<1>6. QED
  BY <1>3, <1>4, <1>5 DEF Inv, BurnsMatched

\* Minting the shares of a deposit raises both counts.
LEMMA JoinStep ==
  ASSUME Inv, NEW u \in Users, NEW q \in Pools, NEW a \in U64, NEW b \in U64,
         NEW n \in U64, Join(u, q, a, b, n), open' \in SUBSET Pools,
         NEW cpi \in BOOLEAN, Runs(Own, cpi)
  PROVE  Inv'
<1>1. AccountsOK'
  BY TypeUse, JoinType DEF Inv
<1>2. ASSUME NEW p \in Pools
      PROVE  lp_supply'[p] - supply'[p] >= lp_supply[p] - supply[p]
  <2>1. lp_supply[p] \in Nat /\ supply[p] \in Nat
    BY GapTypes DEF Inv
  <2>2. lp_supply'[p] - supply'[p] = lp_supply[p] - supply[p]
    BY <2>1, TypeUse DEF Inv, AccountsOK, Join
  <2> QED  BY <2>1, <2>2
<1> QED  BY <1>1, <1>2, GapStep

\* What a withdraw pays for was redeemable, or is counted in `again'.
LEMMA WithdrawRedeems ==
  ASSUME TypeOK, FreshBurn, NEW u \in Users, NEW q \in Pools, NEW min_a, NEW min_b,
         NEW cpi \in BOOLEAN, Withdraw(u, q, min_a, min_b, cpi)
  PROVE  /\ Preceding(cpi).lp_amount \in U64
         /\ FreshBurn'
         /\ \A p \in Pools : Redeemable(p)' = 0
         /\ again'[q] - again[q] + Redeemable(q) = Preceding(cpi).lp_amount
         /\ \A p \in Pools : p # q => again'[p] = again[p]
<1> DEFINE burn == Preceding(cpi)
<1>1. /\ burn.ix = "burn_lp" /\ burn.pool = q /\ (cpi => tx.cur = Other)
      /\ tx' = [After(Own, cpi) EXCEPT !.paid = TRUE]
      /\ again' = IF cpi /\ tx.paid THEN [again EXCEPT ![q] = @ + burn.lp_amount] ELSE again
  BY DEF Withdraw, BurnPrecedes, MayRun
<1>2. burn \in Instructions /\ again \in [Pools -> Nat] /\ tx.paid \in BOOLEAN
  BY TypeUse DEF Preceding
<1>3. burn.lp_amount \in U64 /\ burn # Other
  BY <1>1, <1>2, BurnAmounts
<1>4. /\ tx'.prev = IF cpi THEN tx.prev ELSE tx.cur
      /\ tx'.cur = IF cpi THEN tx.cur ELSE Own
      /\ tx'.paid = TRUE
  BY <1>1 DEF After
<1>5. FreshBurn' /\ \A p \in Pools : Redeemable(p)' = 0
  BY <1>1, <1>4 DEF FreshBurn, Redeemable, Own, Other
<1>6. Shown = burn
  BY <1>1, <1>3 DEF Shown, Preceding
<1>7. ~cpi => ~tx.paid
  BY <1>1 DEF Preceding, FreshBurn
<1>8. Redeemable(q) = IF tx.paid THEN 0 ELSE burn.lp_amount
  BY <1>1, <1>6 DEF Redeemable
<1>9. again'[q] = IF tx.paid THEN again[q] + burn.lp_amount ELSE again[q]
  BY <1>1, <1>2, <1>7
<1> HIDE DEF burn
<1>10. again'[q] - again[q] + Redeemable(q) = burn.lp_amount
  BY <1>2, <1>3, <1>8, <1>9
<1>11. \A p \in Pools : p # q => again'[p] = again[p]
  BY <1>1, <1>2
<1> QED  BY <1>3, <1>5, <1>10, <1>11 DEF burn

LEMMA WithdrawStep ==
  ASSUME Inv, NEW u \in Users, NEW q \in Pools, NEW min_a, NEW min_b,
         NEW cpi \in BOOLEAN, Withdraw(u, q, min_a, min_b, cpi)
  PROVE  Inv'
<1> DEFINE n == Preceding(cpi).lp_amount
<1>0. TypeOK /\ FreshBurn
  BY DEF Inv
<1>1. /\ n \in U64 /\ FreshBurn' /\ \A p \in Pools : Redeemable(p)' = 0
      /\ again'[q] - again[q] + Redeemable(q) = n
      /\ \A p \in Pools : p # q => again'[p] = again[p]
  BY <1>0, WithdrawRedeems
<1>2. AccountsOK'
  BY <1>1, TypeUse, WithdrawType DEF Inv
<1>3. /\ lp_supply' = [lp_supply EXCEPT ![q] = @ - n]
      /\ supply' = supply /\ saved' = saved
      /\ again' = IF cpi /\ tx.paid THEN [again EXCEPT ![q] = @ + n] ELSE again
      /\ tx' = [After(Own, cpi) EXCEPT !.paid = TRUE] /\ MayRun(cpi)
  BY DEF Withdraw
<1> HIDE DEF n
<1>4. again' \in [Pools -> Nat]
  BY <1>0, <1>1, <1>3, TypeUse
<1>5. TypeOK'
  <2>1. Own \in Instructions
    BY DEF Instructions
  <2> QED  BY <1>0, <1>2, <1>3, <1>4, <2>1, AfterType, TypeUse, TypeSplitPrime DEF TypeOK
<1>6. ASSUME NEW p \in Pools
      PROVE  saved'.lp_supply[p] - saved'.supply[p] + Redeemable(p)'
               <= lp_supply'[p] - supply'[p] + again'[p]
  <2>1. /\ saved.lp_supply[p] \in Nat /\ saved.supply[p] \in Nat
        /\ lp_supply[p] \in Nat /\ supply[p] \in Nat
        /\ again[p] \in Nat /\ Redeemable(p) \in Nat /\ again'[p] \in Nat
    BY <1>0, <1>4, GapTypes
  <2>2. saved.lp_supply[p] - saved.supply[p] + Redeemable(p)
          <= lp_supply[p] - supply[p] + again[p]
    BY DEF Inv, BurnsMatched
  <2>3. lp_supply'[p] = IF p = q THEN lp_supply[p] - n ELSE lp_supply[p]
    BY <1>0, <1>3, TypeUse DEF AccountsOK
  <2>4. /\ Redeemable(p)' = 0 /\ n \in Nat
        /\ saved' = saved /\ supply'[p] = supply[p]
    BY <1>1, <1>3
  <2>5. CASE p = q
    <3>1. again'[p] - again[p] + Redeemable(p) = n
      BY <1>1, <2>5
    <3> QED  BY ONLY <2>1, <2>2, <2>3, <2>4, <2>5, <3>1
  <2>6. CASE p # q
    <3>1. again'[p] = again[p]
      BY <1>1, <2>6
    <3> QED  BY ONLY <2>1, <2>2, <2>3, <2>4, <2>6, <3>1
  <2> QED  BY <2>5, <2>6
<1> QED  BY <1>1, <1>5, <1>6 DEF Inv, BurnsMatched

\* Instructions that touch neither lp_supply nor the LP mint.
LEMMA SameSharesStep ==
  ASSUME Inv, AccountsOK', lp_supply' = lp_supply, supply' = supply,
         NEW ix \in {Own, Other}, NEW cpi \in BOOLEAN, Runs(ix, cpi)
  PROVE  Inv'
<1>1. ASSUME NEW p \in Pools
      PROVE  lp_supply'[p] - supply'[p] >= lp_supply[p] - supply[p]
  <2>1. lp_supply[p] \in Nat /\ supply[p] \in Nat
    BY GapTypes DEF Inv
  <2> QED  BY <2>1
<1> QED  BY <1>1, GapStep

LEMMA SplBurnStep ==
  ASSUME Inv, NEW u \in Users, NEW q \in Pools, NEW n \in U64, NEW cpi \in BOOLEAN,
         SplBurn(u, q, n, cpi)
  PROVE  Inv'
<1>1. AccountsOK' /\ Runs(Other, cpi)
  BY TypeUse, BurnType DEF Inv, SplBurn
<1>2. ASSUME NEW p \in Pools
      PROVE  lp_supply'[p] - supply'[p] >= lp_supply[p] - supply[p]
  <2>1. lp_supply[p] \in Nat /\ supply[p] \in Nat
    BY GapTypes DEF Inv
  <2>2. lp_supply' = lp_supply /\ supply' = [supply EXCEPT ![q] = @ - n]
    BY DEF SplBurn, Burn
  <2>3. supply'[p] = IF p = q THEN supply[p] - n ELSE supply[p]
    BY <2>2, TypeUse DEF Inv, AccountsOK
  <2> QED  BY <2>1, <2>2, <2>3
<1> QED  BY <1>1, <1>2, GapStep

\* Every instruction preserves the invariant.
LEMMA PoolStepInv ==
  ASSUME Inv, NEW u \in Users, NEW p \in Pools, NEW cpi \in BOOLEAN, PoolStep(u, p, cpi)
  PROVE  Inv'
<1>1. CASE \E a, b \in Amounts : Initialize(u, p, a, b, cpi)
  <2>1. PICK a \in Amounts, b \in Amounts : Initialize(u, p, a, b, cpi)
    BY <1>1
  <2>2. RootsProduct(a, b) \in U64 /\ open' \in SUBSET Pools
    BY <2>1, TypeUse DEF Inv, AccountsOK, Initialize
  <2>3. a \in U64 /\ b \in U64
    OBVIOUS
  <2>4. Join(u, p, a, b, RootsProduct(a, b)) /\ Runs(Own, cpi)
    BY <2>1 DEF Initialize
  <2> QED  BY <2>2, <2>3, <2>4, JoinStep
<1>2. CASE \E a, b \in Amounts, m \in MinAmounts : Deposit(u, p, a, b, m, cpi)
  <2>1. PICK a \in Amounts, b \in Amounts, m \in MinAmounts : Deposit(u, p, a, b, m, cpi)
    BY <1>2
  <2>2. LpOut(p, a, b) \in U64 /\ open' \in SUBSET Pools
    BY <2>1, TypeUse DEF Inv, AccountsOK, Deposit
  <2>3. a \in U64 /\ b \in U64
    OBVIOUS
  <2>4. Join(u, p, a, b, LpOut(p, a, b)) /\ Runs(Own, cpi)
    BY <2>1 DEF Deposit
  <2> QED  BY <2>2, <2>3, <2>4, JoinStep
<1>3. CASE \E n \in LpAmounts : BurnLp(u, p, n, cpi)
  <2>1. PICK n \in LpAmounts : BurnLp(u, p, n, cpi)
    BY <1>3
  <2>2. n \in U64
    OBVIOUS
  <2> QED  BY <2>1, <2>2, BurnLpStep
<1>4. CASE \E min_a, min_b \in MinAmounts : Withdraw(u, p, min_a, min_b, cpi)
  BY <1>4, WithdrawStep
<1>5. CASE \E n \in LpAmounts : SplBurn(u, p, n, cpi)
  <2>1. PICK n \in LpAmounts : SplBurn(u, p, n, cpi)
    BY <1>5
  <2>2. n \in U64
    OBVIOUS
  <2> QED  BY <2>1, <2>2, SplBurnStep
<1> QED  BY <1>1, <1>2, <1>3, <1>4, <1>5 DEF PoolStep

LEMMA AccountStepInv ==
  ASSUME Inv, NEW u \in Users, NEW x \in TokenAccounts, NEW cpi \in BOOLEAN,
         AccountStep(u, x, cpi)
  PROVE  Inv'
<1>1. CASE \E out \in TokenAccounts, n \in Amounts, m \in MinAmounts, a_to_b \in BOOLEAN :
             Swap(u, x, out, n, m, a_to_b, cpi)
  <2>1. PICK out \in TokenAccounts, n \in Amounts, m \in MinAmounts, a_to_b \in BOOLEAN :
               Swap(u, x, out, n, m, a_to_b, cpi)
    BY <1>1
  <2>2. n \in U64
    OBVIOUS
  <2>3. AccountsOK'
    BY <2>1, <2>2, TypeUse, SwapType DEF Inv
  <2>4. lp_supply' = lp_supply /\ supply' = supply /\ Runs(Own, cpi)
    BY <2>1 DEF Swap
  <2> QED  BY <2>3, <2>4, SameSharesStep
<1>2. CASE \E n \in Amounts : SplTransferTo(u, x, n, cpi)
  <2>1. PICK n \in Amounts : SplTransferTo(u, x, n, cpi)
    BY <1>2
  <2>2. AccountsOK'
    BY <2>1, TypeUse, SplTransferType DEF Inv
  <2>3. lp_supply' = lp_supply /\ supply' = supply /\ Runs(Other, cpi)
    BY <2>1 DEF SplTransferTo
  <2> QED  BY <2>2, <2>3, SameSharesStep
<1> QED  BY <1>1, <1>2 DEF AccountStep

LEMMA InstructionInv == Inv /\ Instruction => Inv'
<1> SUFFICES ASSUME Inv, Instruction PROVE Inv'
  OBVIOUS
<1>1. CASE CallOther
  <2>1. UNCHANGED accounts /\ Runs(Other, FALSE)
    BY <1>1 DEF CallOther
  <2>2. AccountsOK'
    BY <2>1, TypeUse DEF Inv, AccountsOK, accounts
  <2> QED  BY <2>1, <2>2, SameSharesStep DEF accounts
<1> QED  BY <1>1, PoolStepInv, AccountStepInv DEF Instruction

\* Between transactions nothing is redeemable.
LEMMA NoTxFacts ==
  ASSUME tx' = NoTx
  PROVE  /\ tx' \in [ixs : 0 .. MaxIxs, prev : Instructions, cur : Instructions,
                     paid : BOOLEAN]
         /\ FreshBurn'
         /\ \A p \in Pools : Redeemable(p)' = 0
<1>1. Own \in Instructions /\ 0 \in 0 .. MaxIxs
  BY DEF Instructions
<1>2. Shown' = Own /\ tx'.cur = Own /\ tx'.paid = FALSE
  BY DEF NoTx, Shown, Preceding, Own, Other
<1> QED  BY <1>1, <1>2 DEF NoTx, FreshBurn, Redeemable, Own

LEMMA CommitInv == Inv /\ Commit => Inv'
<1> SUFFICES ASSUME Inv, Commit PROVE Inv'
  OBVIOUS
<1>1. /\ saved' = CurrentLedger /\ tx' = NoTx /\ again' = [p \in Pools |-> 0]
      /\ UNCHANGED <<open, lp_supply, supply, vault, lp, wallet>>
  BY DEF Commit, accounts
<1>2. TypeOK'
  BY <1>1, NoTxFacts DEF Inv, TypeOK, CurrentLedger
<1>3. ASSUME NEW p \in Pools
      PROVE  saved'.lp_supply[p] - saved'.supply[p] + Redeemable(p)'
               <= lp_supply'[p] - supply'[p] + again'[p]
  <2>1. Redeemable(p)' = 0 /\ again'[p] = 0
    BY <1>1, NoTxFacts
  <2>2. saved'.lp_supply = lp_supply /\ saved'.supply = supply
    BY <1>1 DEF CurrentLedger
  <2>3. lp_supply[p] \in Nat /\ supply[p] \in Nat
    BY GapTypes DEF Inv
  <2> QED  BY <1>1, <2>1, <2>2, <2>3
<1> QED  BY <1>1, <1>2, <1>3, NoTxFacts DEF Inv, BurnsMatched

LEMMA AbortInv == Inv /\ Abort => Inv'
<1> SUFFICES ASSUME Inv, Abort PROVE Inv'
  OBVIOUS
<1>1. /\ open' = saved.open /\ lp_supply' = saved.lp_supply
      /\ supply' = saved.supply /\ vault' = saved.vault
      /\ lp' = saved.lp /\ wallet' = saved.wallet
      /\ tx' = NoTx /\ saved' = saved /\ again' = [p \in Pools |-> 0]
  BY DEF Abort
<1>2. saved \in Ledger
  BY TypeUse DEF Inv
<1>3. TypeOK'
  <2>1. AccountsOK'
    BY <1>1, <1>2 DEF AccountsOK, Ledger
  <2> QED  BY <1>1, <1>2, <2>1, NoTxFacts, TypeSplitPrime DEF TypeOK
<1>4. ASSUME NEW p \in Pools
      PROVE  saved'.lp_supply[p] - saved'.supply[p] + Redeemable(p)'
               <= lp_supply'[p] - supply'[p] + again'[p]
  <2>1. Redeemable(p)' = 0 /\ again'[p] = 0
    BY <1>1, NoTxFacts
  <2>2. saved.lp_supply[p] \in Nat /\ saved.supply[p] \in Nat
    BY <1>2 DEF Ledger
  <2> QED  BY <1>1, <2>1, <2>2
<1> QED  BY <1>1, <1>3, <1>4, NoTxFacts DEF Inv, BurnsMatched

LEMMA StutterInv == Inv /\ UNCHANGED vars => Inv'
BY DEF Inv, TypeOK, CurrentLedger, FreshBurn, BurnsMatched, Redeemable, Shown, Preceding, vars

LEMMA InitInv == Init => Inv
<1> SUFFICES ASSUME Init PROVE Inv
  OBVIOUS
<1>1. AccountsOK
  BY DEF Init, AccountsOK
<1>2. Own \in Instructions /\ 0 \in 0 .. MaxIxs
  BY DEF Instructions
<1>3. TypeOK
  BY <1>1, <1>2, TypeSplit DEF Init, TypeOK, NoTx
<1>4. tx.cur = Own /\ tx.paid = FALSE /\ Shown = Own
  BY DEF Init, NoTx, Shown, Preceding, Own, Other
<1>5. FreshBurn /\ \A p \in Pools : Redeemable(p) = 0
  BY <1>4 DEF FreshBurn, Redeemable, Own
<1>6. \A p \in Pools : saved.lp_supply[p] = 0 /\ saved.supply[p] = 0
                       /\ lp_supply[p] = 0 /\ supply[p] = 0 /\ again[p] = 0
  BY DEF Init, CurrentLedger
<1> QED  BY <1>3, <1>5, <1>6 DEF Inv, BurnsMatched

LEMMA NextInv == Inv /\ [Next]_vars => Inv'
BY InstructionInv, CommitInv, AbortInv, StutterInv DEF Next

(***************************************************************************)
(* The types and what withdraw pays for, in every reachable state,         *)
(* whatever the pools, the users, the accounts passed to swap and the      *)
(* amounts, and however long the transactions are.                         *)
(***************************************************************************)
THEOREM Invariance == Spec => []Inv
BY NextInv, InitInv, PTL DEF Spec

(***************************************************************************)
(* The accounts stay u64s: no checked operation of a handler is missing.   *)
(***************************************************************************)
THEOREM TypeCorrect == Spec => []TypeOK
<1>1. Inv => TypeOK
  BY DEF Inv
<1>2. QED
  BY <1>1, Invariance, PTL

(***************************************************************************)
(* withdraw pays for what was burned just before, from the pool that was   *)
(* burned from, and only what one program has paid out again for one burn  *)
(* is taken from the shares of others, whoever invokes the instructions.   *)
(***************************************************************************)
THEOREM Redemption == Spec => []BurnsMatched
<1>1. Inv => BurnsMatched
  BY DEF Inv
<1>2. QED
  BY <1>1, Invariance, PTL

-----------------------------------------------------------------------------
(***************************************************************************)
(* The clients that keep to one withdraw for a burn, and what a pool then  *)
(* counts: at least the LP tokens there are.                               *)
(***************************************************************************)
NeverAgain == \A p \in Pools : again[p] = 0

CountsAll == \A p \in Pools : lp_supply[p] >= supply[p]

SavedCountsAll == \A p \in Pools : saved.lp_supply[p] >= saved.supply[p]

LEMMA CountsNow ==
  ASSUME Inv, SavedCountsAll, NeverAgain
  PROVE  CountsAll
<1> SUFFICES ASSUME NEW p \in Pools PROVE lp_supply[p] >= supply[p]
  BY DEF CountsAll
<1>1. /\ saved.lp_supply[p] \in Nat /\ saved.supply[p] \in Nat
      /\ lp_supply[p] \in Nat /\ supply[p] \in Nat /\ Redeemable(p) \in Nat
  BY GapTypes DEF Inv
<1>2. saved.lp_supply[p] - saved.supply[p] + Redeemable(p) <= lp_supply[p] - supply[p] + 0
  BY DEF Inv, BurnsMatched, NeverAgain
<1> QED  BY <1>1, <1>2 DEF SavedCountsAll

LEMMA SavedUnlessCommit ==
  ASSUME [Next]_vars
  PROVE  saved' = saved \/ saved' = CurrentLedger
<1>1. ASSUME NEW u, NEW p, NEW cpi, PoolStep(u, p, cpi)
      PROVE  saved' = saved
  BY <1>1 DEF PoolStep, Initialize, Deposit, BurnLp, Withdraw, SplBurn, Runs
<1>2. ASSUME NEW u, NEW x, NEW cpi, AccountStep(u, x, cpi)
      PROVE  saved' = saved
  <2>1. ASSUME NEW out, NEW n, NEW m, NEW a_to_b, Swap(u, x, out, n, m, a_to_b, cpi)
        PROVE  saved' = saved
    BY <2>1 DEF Swap, Runs
  <2>2. ASSUME NEW n, SplTransferTo(u, x, n, cpi)
        PROVE  saved' = saved
    BY <2>2 DEF SplTransferTo, Runs
  <2> QED  BY <1>2, <2>1, <2>2 DEF AccountStep
<1>3. CallOther \/ Abort \/ UNCHANGED vars => saved' = saved
  BY DEF CallOther, Runs, Abort, vars
<1>4. Commit => saved' = CurrentLedger
  BY DEF Commit
<1> QED  BY <1>1, <1>2, <1>3, <1>4 DEF Next, Instruction

(***************************************************************************)
(* While no program has one burn paid for twice, pool.lp_supply never      *)
(* falls below the supply of the LP mint: every LP token is counted, and   *)
(* what is left in the vaults is shared among at least those there are.    *)
(***************************************************************************)
THEOREM CountedInFull == Spec /\ []NeverAgain => []CountsAll
<1>1. Init => SavedCountsAll
  BY DEF Init, CurrentLedger, SavedCountsAll
<1>2. Inv /\ NeverAgain /\ SavedCountsAll /\ [Next]_vars => SavedCountsAll'
  <2> SUFFICES ASSUME Inv, NeverAgain, SavedCountsAll, [Next]_vars PROVE SavedCountsAll'
    OBVIOUS
  <2>1. CASE saved' = saved
    BY <2>1 DEF SavedCountsAll
  <2>2. CASE saved' = CurrentLedger
    BY <2>2, CountsNow DEF SavedCountsAll, CountsAll, CurrentLedger
  <2> QED  BY <2>1, <2>2, SavedUnlessCommit
<1>3. Inv /\ SavedCountsAll /\ NeverAgain => CountsAll
  BY CountsNow
<1> QED  BY <1>1, <1>2, <1>3, Invariance, PTL DEF Spec

-----------------------------------------------------------------------------
(***************************************************************************)
(* What a share is worth.  Each instruction touches the vaults of one pool *)
(* at most, and there either raises their product or keeps the claims on   *)
(* each.                                                                   *)
(***************************************************************************)
Product(p) == vault[<<p, "a">>] * vault[<<p, "b">>]

Undiluted(p) ==
  lp_supply[p] > 0 /\ lp_supply'[p] > 0
    => Product(p)' * lp_supply[p] * lp_supply[p]
         >= Product(p) * lp_supply'[p] * lp_supply'[p]

LEMMA Balances ==
  ASSUME AccountsOK, NEW p \in Pools
  PROVE  /\ vault[<<p, "a">>] \in Nat /\ vault[<<p, "b">>] \in Nat
         /\ lp_supply[p] \in Nat
BY PoolAccounts DEF AccountsOK

LEMMA BalancesPrime ==
  ASSUME AccountsOK', NEW p \in Pools
  PROVE  /\ vault'[<<p, "a">>] \in Nat /\ vault'[<<p, "b">>] \in Nat
         /\ lp_supply'[p] \in Nat
BY PoolAccounts DEF AccountsOK

LEMMA SameSupply ==
  ASSUME AccountsOK, AccountsOK', NEW p \in Pools,
         lp_supply'[p] = lp_supply[p], Product(p)' >= Product(p)
  PROVE  Undiluted(p)
<1>1. /\ vault[<<p, "a">>] \in Nat /\ vault[<<p, "b">>] \in Nat
      /\ vault'[<<p, "a">>] \in Nat /\ vault'[<<p, "b">>] \in Nat
      /\ lp_supply[p] \in Nat
  BY Balances, BalancesPrime
<1> QED  BY <1>1, SameShares DEF Undiluted, Product

LEMMA SameClaims ==
  ASSUME AccountsOK, AccountsOK', NEW p \in Pools,
         \A side \in Sides :
           vault'[<<p, side>>] * lp_supply[p] >= vault[<<p, side>>] * lp_supply'[p]
  PROVE  Undiluted(p)
<1>1. /\ vault[<<p, "a">>] \in Nat /\ vault[<<p, "b">>] \in Nat
      /\ vault'[<<p, "a">>] \in Nat /\ vault'[<<p, "b">>] \in Nat
      /\ lp_supply[p] \in Nat /\ lp_supply'[p] \in Nat
  BY Balances, BalancesPrime
<1> QED  BY <1>1, ClaimsKept DEF Undiluted, Product

\* An account that no instruction takes from.
LEMMA VaultsGrow ==
  ASSUME AccountsOK, AccountsOK', NEW p \in Pools, lp_supply'[p] = lp_supply[p],
         vault'[<<p, "a">>] >= vault[<<p, "a">>], vault'[<<p, "b">>] >= vault[<<p, "b">>]
  PROVE  Undiluted(p)
<1>1. Product(p)' >= Product(p)
  BY Balances, BalancesPrime, MulMono DEF Product
<1> QED  BY <1>1, SameSupply

\* A deposit pays at least for the shares it gets, on either side.
LEMMA DepositUndiluted ==
  ASSUME AccountsOK, AccountsOK', NEW u \in Users, NEW p \in Pools,
         NEW a \in U64, NEW b \in U64, NEW m, NEW cpi, Deposit(u, p, a, b, m, cpi),
         lp_supply[p] > 0
  PROVE  Undiluted(p)
<1> DEFINE n == LpOut(p, a, b)
           s == lp_supply[p]
           va == vault[<<p, "a">>]
           vb == vault[<<p, "b">>]
<1>1. /\ n \in 1 .. MaxU64 /\ va > 0 /\ vb > 0
      /\ vault'[<<p, "a">>] = va + a /\ vault'[<<p, "b">>] = vb + b
      /\ lp_supply'[p] = s + n
  BY PoolAccounts DEF Deposit, Join, AccountsOK
<1>2. va \in Nat \ {0} /\ vb \in Nat \ {0} /\ s \in Nat \ {0}
  BY <1>1, Balances
<1>3. n <= MulDiv(a, s, va) /\ n <= MulDiv(b, s, vb) /\ n \in Nat
  <2>1. MulDiv(a, s, va) \in Int /\ MulDiv(b, s, vb) \in Int
    BY <1>2, MaxU64Assumption, CastQuotientBounds DEF MulDiv, AsU64
  <2> QED  BY <1>1, <1>2, <2>1 DEF LpOut, Lesser
<1> HIDE DEF n, s, va, vb
<1>4. n * va <= a * s /\ n * vb <= b * s
  <2>1. /\ MulDiv(a, s, va) \in Nat /\ MulDiv(a, s, va) * va <= a * s
        /\ MulDiv(b, s, vb) \in Nat /\ MulDiv(b, s, vb) * vb <= b * s
    BY <1>2, MaxU64Assumption, CastQuotientBounds DEF MulDiv, AsU64
  <2>2. n * va <= MulDiv(a, s, va) * va /\ n * vb <= MulDiv(b, s, vb) * vb
    BY <1>2, <1>3, <2>1, MulMono
  <2>3. /\ n * va \in Int /\ n * vb \in Int /\ a * s \in Int /\ b * s \in Int
        /\ MulDiv(a, s, va) * va \in Int /\ MulDiv(b, s, vb) * vb \in Int
    BY <1>2, <1>3, <2>1
  <2> QED  BY ONLY <2>1, <2>2, <2>3
<1>5. (va + a) * s >= va * (s + n) /\ (vb + b) * s >= vb * (s + n)
  BY <1>2, <1>3, <1>4, DepositFair
<1> QED  BY <1>1, <1>5, SameClaims DEF s, va, vb

\* A withdrawal gets at most what the burned shares are worth.
LEMMA WithdrawUndiluted ==
  ASSUME AccountsOK, AccountsOK', NEW u \in Users, NEW p \in Pools,
         NEW min_a, NEW min_b, NEW cpi, Preceding(cpi).lp_amount \in U64,
         Withdraw(u, p, min_a, min_b, cpi)
  PROVE  Undiluted(p)
<1> DEFINE n == Preceding(cpi).lp_amount
           s == lp_supply[p]
           va == vault[<<p, "a">>]
           vb == vault[<<p, "b">>]
           pa == Payout(p, "a", n)
           pb == Payout(p, "b", n)
<1>1. /\ s > 0 /\ n <= s /\ pa <= va /\ pb <= vb
      /\ vault'[<<p, "a">>] = va - pa /\ vault'[<<p, "b">>] = vb - pb
      /\ lp_supply'[p] = s - n
  BY PoolAccounts DEF Withdraw, AccountsOK
<1>2. va \in Nat /\ vb \in Nat /\ s \in Nat \ {0} /\ n \in Nat
  BY <1>1, Balances
<1>3. pa = MulDiv(n, va, s) /\ pb = MulDiv(n, vb, s)
  BY DEF Payout
<1> HIDE DEF n, s, va, vb, pa, pb
<1>4. pa \in Nat /\ pb \in Nat /\ pa * s <= n * va /\ pb * s <= n * vb
  BY <1>2, <1>3, MaxU64Assumption, CastQuotientBounds DEF MulDiv, AsU64
<1>5. (va - pa) * s >= va * (s - n) /\ (vb - pb) * s >= vb * (s - n)
  BY <1>1, <1>2, <1>4, PayoutFair
<1> QED  BY <1>1, <1>5, SameClaims DEF s, va, vb

\* With a_to_b the account swap takes from pays out at most what its input is
\* worth, whichever accounts it is given.
LEMMA SwapProduct ==
  ASSUME AccountsOK, NEW u \in Users, NEW in \in TokenAccounts, NEW to \in TokenAccounts,
         NEW n \in U64, NEW m, NEW cpi, Swap(u, in, to, n, m, TRUE, cpi)
  PROVE  /\ lp_supply' = lp_supply
         /\ vault'[in] * vault'[to] >= vault[in] * vault[to]
         /\ \A x \in TokenAccounts : x # in /\ x # to => vault'[x] = vault[x]
<1> DEFINE i == vault[in]
           o == vault[to]
           out == SwapOut(n, i, o)
<1>1. /\ in # to /\ n > 0 /\ out <= o
      /\ vault' = [vault EXCEPT ![in] = @ + n, ![to] = @ - out]
      /\ lp_supply' = lp_supply
  BY DEF Swap, InReserve, OutReserve
<1>2. i \in Nat /\ o \in Nat /\ n \in Nat \ {0}
  BY <1>1 DEF AccountsOK
<1> HIDE DEF out
<1>3. vault'[in] = i + n /\ vault'[to] = o - out
  BY <1>1 DEF AccountsOK
<1>0. \A x \in TokenAccounts : x # in /\ x # to => vault'[x] = vault[x]
  BY <1>1 DEF AccountsOK
<1> HIDE DEF i, o
<1>4. out \in Nat /\ PaidFor(n, i, o, 1000, out)
  <2> DEFINE e == n * 997
             den == i * 1000 + e
             q == (e * o) \div den
  <2>1. e \in Nat \ {0} /\ e <= n * 1000
    BY <1>2
  <2> HIDE DEF e
  <2>2. den \in Nat \ {0} /\ e * o \in Nat
    BY <1>2, <2>1
  <2> HIDE DEF den
  <2>3. out = q % (MaxU64 + 1)
    BY DEF out, SwapOut, AsU64, q, den, e
  <2> HIDE DEF q
  <2>4. out \in Nat /\ out * den <= e * o
    BY <1>2, <2>1, <2>2, <2>3, MaxU64Assumption, CastQuotientBounds DEF q
  <2> QED  BY <2>1, <2>4 DEF PaidFor, den
<1>5. (i + n) * (o - out) >= i * o
  BY <1>1, <1>2, <1>4, SwapFair
<1> QED  BY <1>0, <1>1, <1>3, <1>5 DEF i, o

LEMMA SameVaults ==
  ASSUME AccountsOK, AccountsOK', NEW p \in Pools, lp_supply'[p] = lp_supply[p],
         vault'[<<p, "a">>] = vault[<<p, "a">>], vault'[<<p, "b">>] = vault[<<p, "b">>]
  PROVE  Undiluted(p)
<1>1. vault[<<p, "a">>] \in Nat /\ vault[<<p, "b">>] \in Nat
  BY Balances
<1>2. vault'[<<p, "a">>] >= vault[<<p, "a">>] /\ vault'[<<p, "b">>] >= vault[<<p, "b">>]
  BY <1>1
<1> QED  BY <1>2, VaultsGrow

\* Joining a pool leaves the others as they are.
LEMMA JoinElsewhere ==
  ASSUME AccountsOK, AccountsOK', NEW u, NEW p \in Pools, NEW a, NEW b, NEW n,
         Join(u, p, a, b, n), NEW q \in Pools, q # p
  PROVE  Undiluted(q)
<1>1. /\ lp_supply' = [lp_supply EXCEPT ![p] = @ + n]
      /\ vault' = [vault EXCEPT ![<<p, "a">>] = @ + a, ![<<p, "b">>] = @ + b]
  BY DEF Join
<1>2. /\ lp_supply'[q] = lp_supply[q]
      /\ vault'[<<q, "a">>] = vault[<<q, "a">>] /\ vault'[<<q, "b">>] = vault[<<q, "b">>]
  BY <1>1, PoolAccounts DEF AccountsOK
<1> QED  BY <1>2, SameVaults

\* What an instruction about p does to the shares of each pool.
LEMMA PoolStepUndiluted ==
  ASSUME Inv, AccountsOK', NEW u \in Users, NEW p \in Pools, NEW cpi \in BOOLEAN,
         PoolStep(u, p, cpi), NEW q \in open
  PROVE  Undiluted(q)
<1>0. AccountsOK /\ q \in Pools
  BY TypeUse DEF Inv, AccountsOK
<1>1. CASE \E a, b \in Amounts : Initialize(u, p, a, b, cpi)
  <2> PICK a \in Amounts, b \in Amounts : Initialize(u, p, a, b, cpi)
    BY <1>1
  <2>1. p # q /\ Join(u, p, a, b, RootsProduct(a, b))
    BY DEF Initialize
  <2> QED  BY <1>0, <2>1, JoinElsewhere
<1>2. CASE \E a, b \in Amounts, m \in MinAmounts : Deposit(u, p, a, b, m, cpi)
  <2> PICK a \in Amounts, b \in Amounts, m \in MinAmounts : Deposit(u, p, a, b, m, cpi)
    BY <1>2
  <2>0. a \in U64 /\ b \in U64
    OBVIOUS
  <2>1. CASE q = p
    BY <1>0, <2>0, <2>1, DepositUndiluted DEF Undiluted
  <2>2. CASE q # p
    <3>1. Join(u, p, a, b, LpOut(p, a, b))
      BY DEF Deposit
    <3> QED  BY <1>0, <2>2, <3>1, JoinElsewhere
  <2> QED  BY <2>1, <2>2
<1>3. CASE \E n \in LpAmounts : BurnLp(u, p, n, cpi) \/ SplBurn(u, p, n, cpi)
  <2>1. lp_supply' = lp_supply /\ vault' = vault
    BY <1>3 DEF BurnLp, SplBurn, Burn
  <2> QED  BY <1>0, <2>1, SameVaults
<1>4. CASE \E min_a, min_b \in MinAmounts : Withdraw(u, p, min_a, min_b, cpi)
  <2> PICK min_a \in MinAmounts, min_b \in MinAmounts : Withdraw(u, p, min_a, min_b, cpi)
    BY <1>4
  <2>0. Preceding(cpi).lp_amount \in U64
    BY WithdrawRedeems DEF Inv
  <2>1. CASE q = p
    BY <1>0, <2>0, <2>1, WithdrawUndiluted
  <2>2. CASE q # p
    <3> DEFINE n == Preceding(cpi).lp_amount
               pa == Payout(p, "a", n)
               pb == Payout(p, "b", n)
    <3>1. /\ lp_supply' = [lp_supply EXCEPT ![p] = @ - n]
          /\ vault' = [vault EXCEPT ![<<p, "a">>] = @ - pa, ![<<p, "b">>] = @ - pb]
      BY DEF Withdraw
    <3> HIDE DEF n, pa, pb
    <3>2. /\ lp_supply'[q] = lp_supply[q]
          /\ vault'[<<q, "a">>] = vault[<<q, "a">>] /\ vault'[<<q, "b">>] = vault[<<q, "b">>]
      BY <1>0, <2>2, <3>1, PoolAccounts DEF AccountsOK
    <3> QED  BY <1>0, <3>2, SameVaults
  <2> QED  BY <2>1, <2>2
<1> QED  BY <1>1, <1>2, <1>3, <1>4 DEF PoolStep

\* A priced swap moves the two vaults of one pool.
LEMMA PricedSwapUndiluted ==
  ASSUME AccountsOK, AccountsOK', PricedSwap, NEW q \in Pools
  PROVE  Undiluted(q)
<1>1. PICK u \in Users, p \in Pools, cpi \in BOOLEAN, in \in TokenAccounts,
           out \in TokenAccounts, n \in Amounts, m \in MinAmounts :
        {in, out} = Vaults(p) /\ Swap(u, in, out, n, m, TRUE, cpi)
  BY DEF PricedSwap
<1>2. /\ lp_supply' = lp_supply
      /\ vault'[in] * vault'[out] >= vault[in] * vault[out]
      /\ \A x \in TokenAccounts : x # in /\ x # out => vault'[x] = vault[x]
  <2>1. Swap(u, in, out, n, m, TRUE, cpi)
    BY <1>1
  <2>2. n \in U64
    OBVIOUS
  <2> QED  BY ONLY AccountsOK, in \in TokenAccounts, out \in TokenAccounts, <2>1, <2>2,
                   SwapProduct DEF U64
<1>3. CASE q = p
  <2>1. \/ in = <<p, "a">> /\ out = <<p, "b">>
        \/ in = <<p, "b">> /\ out = <<p, "a">>
    <3>1. in # out
      BY <1>1 DEF Swap
    <3> QED  BY <1>1, <3>1 DEF Vaults
  <2>2. /\ vault[<<p, "a">>] \in Nat /\ vault[<<p, "b">>] \in Nat
        /\ vault'[<<p, "a">>] \in Nat /\ vault'[<<p, "b">>] \in Nat
    BY Balances, BalancesPrime
  <2>3. Product(p)' >= Product(p)
    BY <1>2, <2>1, <2>2 DEF Product
  <2> QED  BY <1>2, <1>3, <2>3, SameSupply
<1>4. CASE q # p
  <2>1. {in, out} \cap {<<q, "a">>, <<q, "b">>} = {}
    BY <1>1, <1>4 DEF Vaults
  <2>2. vault'[<<q, "a">>] = vault[<<q, "a">>] /\ vault'[<<q, "b">>] = vault[<<q, "b">>]
    BY <1>2, <2>1, PoolAccounts
  <2> QED  BY <1>2, <2>2, SameVaults
<1> QED  BY <1>3, <1>4

\* A transfer to an account of a pool takes nothing from any of them.
LEMMA TransferUndiluted ==
  ASSUME AccountsOK, AccountsOK', NEW u, NEW x \in TokenAccounts, NEW n \in U64, NEW cpi,
         SplTransferTo(u, x, n, cpi), NEW q \in Pools
  PROVE  Undiluted(q)
<1>1. lp_supply' = lp_supply /\ vault' = [vault EXCEPT ![x] = @ + n]
  BY DEF SplTransferTo
<1>2. ASSUME NEW y \in TokenAccounts PROVE vault'[y] >= vault[y]
  BY <1>1 DEF AccountsOK
<1> QED  BY <1>1, <1>2, PoolAccounts, VaultsGrow

(***************************************************************************)
(* No instruction lowers what a share of any pool is worth, whoever        *)
(* invokes it and whatever the amounts, except a swap of b for a or one    *)
(* not given the pool's own vaults: every division rounds in the pool's    *)
(* favour, casts included.                                                 *)
(***************************************************************************)
THEOREM Undilution == Spec => SharesUndiluted
<1> DEFINE Step == (\E p \in Pools : Diluted(p)) => ~PricedStep
<1>1. Inv /\ [Next]_vars => Step
  <2> SUFFICES ASSUME Inv, [Next]_vars, NEW q \in Pools, Diluted(q), PricedStep
               PROVE  FALSE
    OBVIOUS
  <2>1. AccountsOK /\ AccountsOK'
    <3>1. Inv'
      BY NextInv
    <3> QED  BY <3>1, TypeUse, TypeSplitPrime DEF Inv, TypeOK
  <2>2. q \in open /\ ~Undiluted(q)
    <3>1. /\ vault[<<q, "a">>] \in Nat /\ vault[<<q, "b">>] \in Nat
          /\ vault'[<<q, "a">>] \in Nat /\ vault'[<<q, "b">>] \in Nat
          /\ lp_supply[q] \in Nat /\ lp_supply'[q] \in Nat
      BY <2>1, Balances, BalancesPrime
    <3> DEFINE l == Product(q)' * lp_supply[q] * lp_supply[q]
               r == Product(q) * lp_supply'[q] * lp_supply'[q]
    <3>2. l < r /\ lp_supply[q] > 0 /\ lp_supply'[q] > 0 /\ q \in open
      BY DEF Diluted, Product
    <3>3. Undiluted(q) => l >= r
      BY <3>2 DEF Undiluted
    <3>4. l \in Int /\ r \in Int
      BY <3>1 DEF Product
    <3> HIDE DEF l, r
    <3> QED  BY <3>2, <3>3, <3>4
  <2>3. CASE \E u \in Users, p \in Pools, cpi \in BOOLEAN : PoolStep(u, p, cpi)
    BY <2>1, <2>2, <2>3, PoolStepUndiluted
  <2>4. CASE PricedSwap
    BY <2>1, <2>2, <2>4, PricedSwapUndiluted
  <2>5. CASE \E u \in Users, x \in TokenAccounts, n \in Amounts, cpi \in BOOLEAN :
               SplTransferTo(u, x, n, cpi)
    <3> PICK u \in Users, x \in TokenAccounts, n \in Amounts, cpi \in BOOLEAN :
               SplTransferTo(u, x, n, cpi)
      BY <2>5
    <3>1. n \in U64
      OBVIOUS
    <3> QED  BY <2>1, <2>2, <3>1, TransferUndiluted
  <2> QED  BY <2>3, <2>4, <2>5 DEF PricedStep
<1> QED  BY <1>1, Invariance, PTL DEF Spec, SharesUndiluted

-----------------------------------------------------------------------------
(***************************************************************************)
(* How far two documented properties hold that the runs refute: swap keeps *)
(* the product of the two accounts it is given, with a_to_b, and a deposit *)
(* mints pro rata as long as both quotients fit in a u64.                  *)
(***************************************************************************)
SwapsOfAKeepProduct ==
  [][\A u \in Users, in, out \in TokenAccounts, n \in Amounts, m \in MinAmounts,
        cpi \in BOOLEAN :
       Swap(u, in, out, n, m, TRUE, cpi)
         => vault'[in] * vault'[out] >= vault[in] * vault[out]]_vars

ProRata(p, side, amount) == (amount * lp_supply[p]) \div vault[<<p, side>>]

DepositsInRange ==
  [][\A u \in Users, p \in Pools, a, b \in Amounts, m \in MinAmounts, cpi \in BOOLEAN :
       /\ Deposit(u, p, a, b, m, cpi) /\ lp_supply[p] > 0
       /\ ProRata(p, "a", a) \in U64 /\ ProRata(p, "b", b) \in U64
       => lp_supply'[p] - lp_supply[p]
            = Lesser(ProRata(p, "a", a), ProRata(p, "b", b))]_vars

(***************************************************************************)
(* A swap with a_to_b never lowers the product of the balances of the two  *)
(* accounts it is given, whatever they are and for all amounts: of the     *)
(* swaps given the vaults they ask for, only those of b for a do, and that *)
(* is how SwapKeepsProduct fails.                                          *)
(***************************************************************************)
THEOREM SwapOfAKeepsProduct == Spec => SwapsOfAKeepProduct
<1> DEFINE Step ==
      \A u \in Users, in, out \in TokenAccounts, n \in Amounts, m \in MinAmounts,
         cpi \in BOOLEAN :
        Swap(u, in, out, n, m, TRUE, cpi)
          => vault'[in] * vault'[out] >= vault[in] * vault[out]
<1>1. Inv => Step
  <2> SUFFICES ASSUME Inv,
                      NEW u \in Users, NEW in \in TokenAccounts, NEW out \in TokenAccounts,
                      NEW n \in Amounts, NEW m \in MinAmounts, NEW cpi \in BOOLEAN,
                      Swap(u, in, out, n, m, TRUE, cpi)
               PROVE  vault'[in] * vault'[out] >= vault[in] * vault[out]
    OBVIOUS
  <2>1. AccountsOK /\ n \in U64
    BY TypeUse DEF Inv
  <2> QED  BY <2>1, SwapProduct
<1> QED  BY <1>1, Invariance, PTL DEF SwapsOfAKeepProduct

\* A cast that fits changes nothing.
LEMMA CastFits == ASSUME NEW n \in U64 PROVE AsU64(n) = n
BY DEF AsU64

LEMMA DepositProRata ==
  ASSUME AccountsOK, NEW u \in Users, NEW p \in Pools,
         NEW a \in U64, NEW b \in U64, NEW m, NEW cpi, Deposit(u, p, a, b, m, cpi),
         lp_supply[p] > 0, ProRata(p, "a", a) \in U64, ProRata(p, "b", b) \in U64
  PROVE  lp_supply'[p] - lp_supply[p] = Lesser(ProRata(p, "a", a), ProRata(p, "b", b))
<1> DEFINE n == LpOut(p, a, b)
           s == lp_supply[p]
<1>1. n \in 1 .. MaxU64 /\ lp_supply'[p] = s + n
  BY DEF Deposit, Join, AccountsOK
<1>2. s \in Nat
  BY Balances
<1>3. n = Lesser(ProRata(p, "a", a), ProRata(p, "b", b))
  BY CastFits DEF LpOut, MulDiv, ProRata
<1> HIDE DEF n, s
<1>4. lp_supply'[p] - s = n
  BY ONLY <1>1, <1>2
<1> QED  BY <1>3, <1>4 DEF s

(***************************************************************************)
(* A deposit mints min(da/a * LP, db/b * LP) shares, as documented, of     *)
(* every pool and for all amounts whose two quotients fit in a u64: only   *)
(* the cast of one that does not makes DepositMintsProRata fail.           *)
(***************************************************************************)
THEOREM DepositIsProRata == Spec => DepositsInRange
<1> DEFINE Step ==
      \A u \in Users, p \in Pools, a, b \in Amounts, m \in MinAmounts, cpi \in BOOLEAN :
        /\ Deposit(u, p, a, b, m, cpi) /\ lp_supply[p] > 0
        /\ ProRata(p, "a", a) \in U64 /\ ProRata(p, "b", b) \in U64
        => lp_supply'[p] - lp_supply[p]
             = Lesser(ProRata(p, "a", a), ProRata(p, "b", b))
<1>1. Inv => Step
  <2> SUFFICES ASSUME Inv,
                      NEW u \in Users, NEW p \in Pools, NEW a \in Amounts, NEW b \in Amounts,
                      NEW m \in MinAmounts, NEW cpi \in BOOLEAN,
                      Deposit(u, p, a, b, m, cpi), lp_supply[p] > 0,
                      ProRata(p, "a", a) \in U64, ProRata(p, "b", b) \in U64
               PROVE  lp_supply'[p] - lp_supply[p]
                        = Lesser(ProRata(p, "a", a), ProRata(p, "b", b))
    OBVIOUS
  <2>1. AccountsOK /\ a \in U64 /\ b \in U64
    BY TypeUse DEF Inv
  <2> QED  BY <2>1, DepositProRata
<1> QED  BY <1>1, Invariance, PTL DEF DepositsInRange

=============================================================================
