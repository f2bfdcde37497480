-------------------------- MODULE NftStaking_proofs --------------------------
(***************************************************************************)
(* For every set of users, assets and collections, every configuration an  *)
(* admin may choose and every width of the integers: the records of        *)
(* NftStaking have their types, a staked asset stays frozen with its       *)
(* owner, every second is paid once, the lock is a minimum, the counts     *)
(* agree, and nothing but what the program says bars unstake and claim.    *)
(***************************************************************************)
EXTENDS NftStaking, FiniteSetTheorems, TLAPS

-----------------------------------------------------------------------------
(***************************************************************************)
(* The calls of MPL Core.                                                  *)
(***************************************************************************)

\* What stake makes of an asset: frozen by the config PDA, with its owner.
LEMMA FrozenAsset ==
  ASSUME NEW x \in Asset, NEW u, Frozen(x, u) # Failed
  PROVE  /\ Frozen(x, u) \in Asset
         /\ Frozen(x, u).owner = u
         /\ Frozen(x, u).freeze = Config
         /\ Frozen(x, u).frozen
<1> DEFINE added == [x EXCEPT !.freeze = Config, !.frozen = FALSE]
<1>1. x.owner = u /\ AddFreezeDelegate(x, u, Config, FALSE) = added
  BY DEF Frozen, AddFreezeDelegate, UpdateFreezeDelegate
<1>2. added \in Asset /\ added.freeze = Config /\ added.owner = x.owner
  <2>1. Config \in Authorities
    BY StakingAssumption
  <2> QED  BY <2>1 DEF Asset
<1>3. Frozen(x, u) = [added EXCEPT !.frozen = TRUE]
  BY <1>1, <1>2, FailedAssumption DEF Frozen, UpdateFreezeDelegate
<1> QED  BY <1>1, <1>2, <1>3 DEF Asset

\* What unstake makes of it is an asset again.
LEMMA ReleasedAsset ==
  ASSUME NEW x \in Asset, NEW u, Released(x, u) # Failed
  PROVE  Released(x, u) \in Asset
<1> DEFINE unfrozen == [x EXCEPT !.frozen = FALSE]
<1>1. UpdateFreezeDelegate(x, Config, FALSE) = unfrozen
  BY DEF Released, RemoveFreezeDelegate, UpdateFreezeDelegate
<1>2. unfrozen \in Asset
  BY DEF Asset
<1>3. Released(x, u) = [unfrozen EXCEPT !.freeze = None]
  BY <1>1 DEF Released, RemoveFreezeDelegate
<1> QED  BY <1>2, <1>3 DEF Asset

\* What an owner does with MPL Core leaves an asset, and succeeds on none that
\* the config PDA has frozen.
LEMMA OwnerCallsAsset ==
  ASSUME NEW x \in Asset, NEW u \in Users, NEW v \in Users, NEW result,
         \/ result = TransferAsset(x, u, v)
         \/ result = AddFreezeDelegate(x, u, u, FALSE)
         \/ result = RemoveFreezeDelegate(x, u),
         result # Failed
  PROVE  result \in Asset /\ ~(x.freeze = Config /\ x.frozen)
<1>1. Config # None
  BY StakingAssumption, MplCoreAssumption
<1>2. CASE result = TransferAsset(x, u, v)
  BY <1>2 DEF TransferAsset, Asset
<1>3. CASE result = AddFreezeDelegate(x, u, u, FALSE)
  BY <1>1, <1>3 DEF AddFreezeDelegate, Asset
<1>4. CASE result = RemoveFreezeDelegate(x, u)
  BY <1>4 DEF RemoveFreezeDelegate, Asset
<1> QED  BY <1>2, <1>3, <1>4

-----------------------------------------------------------------------------
(***************************************************************************)
(* The attribute of the collection.                                        *)
(***************************************************************************)

\* Whatever the search finds, it is a number.
LEMMA ParsedNumber ==
  ASSUME NEW data \in Collection
  PROVE  ParsedCount(data) \in Int
<1> DEFINE list == data.attributes
           First(i) == /\ list[i].key \in Mentions
                       /\ \A j \in 1 .. i - 1 : list[j].key \notin Mentions
<1>1. \A i \in DOMAIN list : list[i] \in Attribute
  BY DEF Collection
<1>2. \A x \in Attribute : ValueAfter(x) \in Int
  BY DEF ValueAfter, Attribute
<1>3. ParsedCount(data)
        = IF data.mentioned \/ \A i \in DOMAIN list : ~First(i)
            THEN 0 ELSE ValueAfter(list[CHOOSE i \in DOMAIN list : First(i)])
  BY DEF ParsedCount
<1>4. ASSUME NEW k \in DOMAIN list, First(k)
      PROVE  (CHOOSE i \in DOMAIN list : First(i)) \in DOMAIN list
  <2> HIDE DEF First, list
  <2> QED  BY <1>4
<1> HIDE DEF First, list
<1> QED  BY <1>1, <1>2, <1>3, <1>4

\* Updating the attribute leaves a collection.
LEMMA UpdatedCollection ==
  ASSUME NEW data \in Collection, NEW delta \in Int
  PROVE  Updated(data, delta) \in Collection
<1>1. NewCount(data, delta) \in Int
  BY ParsedNumber DEF NewCount
<1>2. [key |-> CountKey, value |-> NewCount(data, delta)] \in Attribute
  BY <1>1, KeysAssumption DEF Attribute
<1>3. <<[key |-> CountKey, value |-> NewCount(data, delta)]>> \in Seq(Attribute)
  BY <1>2
<1> QED  BY <1>3 DEF Updated, Collection

\* What an unambiguous collection shows is a number.
LEMMA ShownNumber ==
  ASSUME NEW data \in Collection, Unambiguous(data)
  PROVE  ShownCount(data) \in Int
<1> DEFINE shown == {i \in DOMAIN data.attributes : data.attributes[i].key = CountKey}
           k == CHOOSE i \in shown : TRUE
<1>1. CASE shown = {}
  BY <1>1 DEF ShownCount
<1>2. CASE shown # {}
  <2>1. k \in shown
    BY <1>2
  <2>2. k \in DOMAIN data.attributes /\ data.attributes[k].key \in Mentions
    BY <2>1, KeysAssumption
  <2>3. data.attributes[k] \in Attribute /\ data.attributes[k].value # Text
    BY <2>2 DEF Unambiguous, Collection
  <2>4. data.attributes[k].value \in Int
    BY <2>3 DEF Attribute
  <2>5. ShownCount(data) = data.attributes[k].value
    BY <1>2 DEF ShownCount
  <2> QED  BY <2>4, <2>5
<1> QED  BY <1>1, <1>2

-----------------------------------------------------------------------------
(***************************************************************************)
(* The inductive invariant.  The reward cursor of a staked asset lies      *)
(* between its staking and now, which is what makes the lock a minimum,    *)
(* and an asset is staked only once there is a configuration.              *)
(***************************************************************************)
Accrual ==
  \A a \in Assets : Staked(a) =>
    /\ config # Absent
    /\ since[a] <= stake_account[a].last_update
    /\ stake_account[a].last_update <= now

Inv == TypeOK /\ StakedMeansHeld /\ Accrual /\ EverySecondPaidOnce

\* A second more is owed for a second more.
LEMMA OneSecondOwed ==
  ASSUME NEW x \in Int, NEW e \in Int, NEW t \in Int, NEW p \in Int,
         x + e * p = t * p
  PROVE  x + (e + 1) * p = (t + 1) * p
<1>1. (e + 1) * p = e * p + p /\ (t + 1) * p = t * p + p
  BY SMT
<1>2. e * p \in Int /\ t * p \in Int
  BY SMT
<1> QED  BY ONLY <1>1, <1>2, x \in Int, p \in Int, x + e * p = t * p

\* A counter below a maximum of one byte can be incremented.
LEMMA OneMore ==
  ASSUME NEW n \in 0 .. 255, NEW m \in 0 .. 255, n < m
  PROVE  n + 1 \in 0 .. 255
  BY SMT

LEMMA InitInv == Init => Inv
<1> SUFFICES ASSUME Init PROVE Inv
  OBVIOUS
<1>1. collection \in [Collections -> Collection]
  BY StakingAssumption DEF Init
<1>2. counted_from \in [Collections -> Int \cup {Absent}]
  BY <1>1, ShownNumber DEF Init
<1>3. TypeOK
  BY <1>1, <1>2, StakingAssumption, MplCoreAssumption, MaxU64Assumption
  DEF Init, TypeOK, NewAsset, Asset, U64
<1>4. \A a \in Assets : ~Staked(a)
  BY DEF Init, Staked
<1>5. Accrual
  BY <1>4 DEF Init, Accrual
<1> QED  BY <1>3, <1>4, <1>5 DEF Inv, StakedMeansHeld, EverySecondPaidOnce

LEMMA ConfigStep ==
  ASSUME Inv, NEW p \in Points, NEW m \in MaxStakes, NEW f \in FreezePeriods,
         InitializeConfig(p, m, f)
  PROVE  Inv'
<1>1. TypeOK'
  BY StakingAssumption DEF Inv, TypeOK, InitializeConfig, StakeConfig
<1>2. \A a \in Assets : ~Staked(a) /\ ~Staked(a)'
  BY DEF Inv, Accrual, InitializeConfig, Staked
<1> QED
  BY <1>1, <1>2
  DEF Inv, Accrual, InitializeConfig, StakedMeansHeld, EverySecondPaidOnce

LEMMA UserAccountStep ==
  ASSUME Inv, NEW u \in Users, InitializeUser(u)
  PROVE  Inv'
<1>1. TypeOK'
  BY MaxU64Assumption DEF Inv, TypeOK, InitializeUser, UserAccount, U64
<1> QED
  BY <1>1
  DEF Inv, InitializeUser, Accrual, StakedMeansHeld, EverySecondPaidOnce, Staked, Elapsed

LEMMA StakeStep ==
  ASSUME Inv, NEW u \in Users, NEW a \in Assets, Stake(u, a)
  PROVE  Inv'
<1> USE DEF Inv
<1>1. /\ config \in StakeConfig /\ user_account[u] \in UserAccount
      /\ asset[a] \in Asset /\ CollectionOf[a] \in Collections
  <2>1. CollectionOf[a] \in Collections
    BY StakingAssumption
  <2> QED  BY <2>1 DEF Stake, TypeOK
<1>2. /\ Frozen(asset[a], u) \in Asset /\ Frozen(asset[a], u).owner = u
      /\ Frozen(asset[a], u).freeze = Config /\ Frozen(asset[a], u).frozen
  BY <1>1, FrozenAsset DEF Stake
<1> DEFINE data == Updated(collection[CollectionOf[a]], 1)
<1>3. data \in Collection
  BY <1>1, UpdatedCollection DEF TypeOK
<1>4. user_account[u].amount_staked + 1 \in 0 .. 255
  <2>1. config.max_stake \in 0 .. 255
    BY <1>1 DEF StakeConfig
  <2>2. user_account[u].amount_staked \in 0 .. 255
    BY <1>1 DEF UserAccount
  <2>3. user_account[u].amount_staked < config.max_stake
    BY DEF Stake
  <2> QED  BY <2>1, <2>2, <2>3, OneMore
<1> DEFINE account == [user_account[u] EXCEPT !.amount_staked = user_account[u].amount_staked + 1]
<1>5. account \in UserAccount
  BY <1>1, <1>4 DEF UserAccount
<1>6. [owner |-> u, last_update |-> now] \in StakeAccount
  BY DEF TypeOK, StakeAccount
<1>7. TypeOK'
  <2>1. /\ user_account' = [user_account EXCEPT ![u] = account]
        /\ asset' = [asset EXCEPT ![a] = Frozen(asset[a], u)]
        /\ stake_account' = [stake_account EXCEPT ![a] = [owner |-> u, last_update |-> now]]
        /\ collection' = [collection EXCEPT ![CollectionOf[a]] = data]
        /\ since' = [since EXCEPT ![a] = now]
        /\ paid' = [paid EXCEPT ![a] = 0]
        /\ UNCHANGED <<config, reward_supply, now, counted_from>>
    BY DEF Stake
  <2>2. 0 \in U64
    BY MaxU64Assumption DEF U64
  <2> HIDE DEF account, data
  <2> QED  BY <1>1, <1>2, <1>3, <1>5, <1>6, <2>1, <2>2 DEF TypeOK
<1>8. \A b \in Assets : b # a =>
        /\ stake_account'[b] = stake_account[b] /\ asset'[b] = asset[b]
        /\ since'[b] = since[b] /\ paid'[b] = paid[b]
  BY DEF Stake, TypeOK
<1>9. /\ stake_account'[a] = [owner |-> u, last_update |-> now]
      /\ asset'[a] = Frozen(asset[a], u) /\ since'[a] = now /\ paid'[a] = 0
  BY DEF Stake, TypeOK
<1>10. UNCHANGED <<config, now, reward_supply>> /\ config # Absent
  BY DEF Stake
<1>11. StakedMeansHeld'
  BY <1>2, <1>8, <1>9 DEF StakedMeansHeld, Staked
<1>12. Accrual'
  <2>1. now \in Nat
    BY DEF TypeOK
  <2> QED  BY <1>8, <1>9, <1>10, <2>1 DEF Accrual, Staked
<1>13. now - now = 0 /\ config.points_per_stake \in Int
  BY <1>1 DEF Stake, Accrual, TypeOK, StakeConfig
<1>14. EverySecondPaidOnce'
  BY <1>8, <1>9, <1>10, <1>13 DEF TypeOK, EverySecondPaidOnce, Staked, Elapsed
<1> QED  BY <1>7, <1>11, <1>12, <1>14

LEMMA ClaimStep ==
  ASSUME Inv, NEW u \in Users, NEW a \in Assets, ClaimRewards(u, a)
  PROVE  Inv'
<1> DEFINE reward == Elapsed(a) * config.points_per_stake
           record == [stake_account[a] EXCEPT !.last_update = now]
           account == [user_account[u] EXCEPT !.points = user_account[u].points + reward]
<1> USE DEF Inv
<1>1. /\ config \in StakeConfig /\ user_account[u] \in UserAccount
      /\ stake_account[a] \in StakeAccount
  BY DEF ClaimRewards, TypeOK, Staked, Accrual
<1>2. /\ reward \in Nat
      /\ reward_supply + reward \in U64 /\ user_account[u].points + reward \in U64
  BY DEF ClaimRewards, Mintable
<1>3. /\ UNCHANGED <<config, collection, asset, now, since, counted_from>>
      /\ reward_supply' = reward_supply + reward
      /\ stake_account' = [stake_account EXCEPT ![a] = record]
      /\ user_account' = [user_account EXCEPT ![u] = account]
      /\ paid' = [paid EXCEPT ![a] = paid[a] + reward]
      /\ Staked(a)
  BY DEF ClaimRewards, Advanced
<1> HIDE DEF reward
<1>4. /\ now \in Nat /\ now \in 0 .. MaxTime /\ since[a] \in Nat
      /\ reward_supply \in Nat /\ paid \in [Assets -> Nat]
      /\ stake_account[a].last_update \in Nat
  BY <1>1, MaxU64Assumption, StakingAssumption DEF TypeOK, U64, StakeAccount
<1>5. record \in StakeAccount
  BY <1>1, <1>4 DEF StakeAccount
<1>6. account \in UserAccount
  BY <1>1, <1>2 DEF UserAccount
<1>7. paid[a] + reward \in Nat
  BY <1>2, <1>4
<1> HIDE DEF record, account
<1>8. TypeOK'
  BY <1>2, <1>3, <1>5, <1>6, <1>7 DEF TypeOK
<1>9. \A b \in Assets : b # a => stake_account'[b] = stake_account[b] /\ paid'[b] = paid[b]
  BY <1>3 DEF TypeOK
<1>10. /\ stake_account'[a] = record
       /\ paid'[a] = paid[a] + reward
  BY <1>3 DEF TypeOK
<1>11. /\ stake_account'[a].last_update = now
       /\ stake_account'[a].owner = stake_account[a].owner
  BY <1>1, <1>10 DEF StakeAccount, record
<1>12. StakedMeansHeld'
  BY <1>3, <1>9, <1>11 DEF StakedMeansHeld, Staked
<1>13. Accrual'
  BY <1>2, <1>3, <1>4, <1>9, <1>10, <1>11 DEF Accrual, Staked
<1>14. \A b \in Assets \ {a} : Staked(b)' =>
         paid'[b] + Elapsed(b)' * config'.points_per_stake
           = (now' - since'[b]) * config'.points_per_stake
  BY <1>3, <1>9 DEF EverySecondPaidOnce, Staked, Elapsed
<1>15. paid[a] + reward = (now - since[a]) * config.points_per_stake
  BY <1>3 DEF EverySecondPaidOnce, reward
<1>16. /\ Elapsed(a)' = 0 /\ 0 * config.points_per_stake = 0
       /\ paid'[a] \in Nat
  <2>1. now - now = 0
    BY <1>4
  <2>2. config.points_per_stake \in Int
    BY <1>1 DEF StakeConfig
  <2>3. paid'[a] \in Nat
    BY <1>2, <1>4, <1>10
  <2> QED  BY <1>3, <1>11, <2>1, <2>2, <2>3 DEF Elapsed
<1>17. paid'[a] + Elapsed(a)' * config'.points_per_stake
         = (now' - since'[a]) * config'.points_per_stake
  BY <1>3, <1>10, <1>15, <1>16
<1>18. EverySecondPaidOnce'
  BY <1>14, <1>17 DEF EverySecondPaidOnce
<1> QED  BY <1>8, <1>12, <1>13, <1>18

LEMMA UnstakeStep ==
  ASSUME Inv, NEW u \in Users, NEW a \in Assets, Unstake(u, a)
  PROVE  Inv'
<1> DEFINE fewer == IF user_account[u].amount_staked = 0
                      THEN 0 ELSE user_account[u].amount_staked - 1
           account == [user_account[u] EXCEPT !.amount_staked = fewer]
<1> USE DEF Inv
<1>1. /\ user_account[u] \in UserAccount
      /\ asset[a] \in Asset /\ CollectionOf[a] \in Collections
  <2>1. CollectionOf[a] \in Collections
    BY StakingAssumption
  <2> QED  BY <2>1 DEF Unstake, TypeOK
<1>2. Released(asset[a], u) \in Asset
  BY <1>1, ReleasedAsset DEF Unstake
<1> DEFINE data == Updated(collection[CollectionOf[a]], -1)
<1>3. data \in Collection
  BY <1>1, UpdatedCollection DEF TypeOK
<1>4. fewer \in 0 .. 255
  BY <1>1 DEF UserAccount
<1>5. account \in UserAccount
  BY <1>1, <1>4 DEF UserAccount
<1>6. /\ UNCHANGED <<config, reward_supply, now, counted_from>>
      /\ asset' = [asset EXCEPT ![a] = Released(asset[a], u)]
      /\ collection' = [collection EXCEPT ![CollectionOf[a]] = data]
      /\ user_account' = [user_account EXCEPT ![u] = account]
      /\ stake_account' = [stake_account EXCEPT ![a] = Absent]
      /\ since' = [since EXCEPT ![a] = 0]
      /\ paid' = [paid EXCEPT ![a] = 0]
  BY DEF Unstake
<1>7. 0 \in 0 .. MaxTime /\ 0 \in U64 /\ reward_supply \in Nat
  BY StakingAssumption, MaxU64Assumption DEF U64, TypeOK
<1> HIDE DEF fewer, account, data
<1>8. TypeOK'
  BY <1>2, <1>3, <1>5, <1>6, <1>7 DEF TypeOK
<1>9. \A b \in Assets : b # a =>
        /\ stake_account'[b] = stake_account[b] /\ asset'[b] = asset[b]
        /\ since'[b] = since[b] /\ paid'[b] = paid[b]
  BY <1>6 DEF TypeOK
<1>10. ~Staked(a)' /\ paid'[a] = 0
  BY <1>6 DEF TypeOK, Staked
<1>11. StakedMeansHeld'
  BY <1>9, <1>10 DEF StakedMeansHeld, Staked
<1>12. Accrual'
  BY <1>6, <1>7, <1>9, <1>10 DEF Accrual, Staked
<1>13. EverySecondPaidOnce'
  BY <1>6, <1>9, <1>10 DEF EverySecondPaidOnce, Staked, Elapsed
<1> QED  BY <1>8, <1>11, <1>12, <1>13

LEMMA TickStep ==
  ASSUME Inv, Tick
  PROVE  Inv'
<1> USE DEF Inv
<1>1. /\ now' = now + 1 /\ now' \in 0 .. MaxTime
      /\ UNCHANGED <<config, user_account, stake_account, collection,
                     reward_supply, asset, since, paid, counted_from>>
  BY StakingAssumption DEF Tick, TypeOK
<1>2. TypeOK'
  BY <1>1 DEF TypeOK
<1>3. StakedMeansHeld'
  BY <1>1 DEF StakedMeansHeld, Staked
<1>4. Accrual'
  <2> SUFFICES ASSUME NEW a \in Assets, Staked(a)
               PROVE  stake_account[a].last_update <= now + 1
    BY <1>1 DEF Accrual, Staked
  <2>1. stake_account[a].last_update \in Nat /\ now \in Nat
    BY DEF TypeOK, Staked, StakeAccount
  <2> QED  BY <2>1 DEF Accrual
<1>5. EverySecondPaidOnce'
  <2> SUFFICES ASSUME NEW a \in Assets, Staked(a)'
               PROVE  paid'[a] + Elapsed(a)' * config'.points_per_stake
                        = (now' - since'[a]) * config'.points_per_stake
    BY DEF EverySecondPaidOnce
  <2>0. Staked(a)
    BY <1>1 DEF Staked
  <2>1. stake_account[a].last_update \in Int /\ now \in Int /\ since[a] \in Int /\ paid[a] \in Int
    BY <2>0, MaxU64Assumption DEF TypeOK, Staked, StakeAccount, U64
  <2>2. config.points_per_stake \in Int
    BY <2>0 DEF TypeOK, Accrual, StakeConfig
  <2>3. paid[a] + Elapsed(a) * config.points_per_stake = (now - since[a]) * config.points_per_stake
    BY <2>0 DEF EverySecondPaidOnce
  <2>4. Elapsed(a) \in Int /\ now - since[a] \in Int
    BY <2>1 DEF Elapsed
  <2>5. Elapsed(a)' = Elapsed(a) + 1 /\ now' - since'[a] = (now - since[a]) + 1
    BY <1>1, <2>1 DEF Elapsed
  <2>6. paid'[a] = paid[a] /\ config'.points_per_stake = config.points_per_stake
    BY <1>1
  <2>7. PICK x \in Int, e \in Int, t \in Int, p \in Int :
          x = paid[a] /\ e = Elapsed(a) /\ t = now - since[a] /\ p = config.points_per_stake
    BY <2>1, <2>2, <2>4
  <2>8. x + (e + 1) * p = (t + 1) * p
    <3>1. x + e * p = t * p
      BY ONLY <2>3, <2>7
    <3> QED  BY <3>1, OneSecondOwed
  <2>9. /\ paid'[a] = x /\ Elapsed(a)' = e + 1 /\ now' - since'[a] = t + 1
        /\ config'.points_per_stake = p
    BY ONLY <2>5, <2>6, <2>7
  <2> QED  BY ONLY <2>8, <2>9
<1> QED  BY <1>2, <1>3, <1>4, <1>5

LEMMA BurnStep ==
  ASSUME Inv, NEW k \in 1 .. reward_supply, BurnRewards(k)
  PROVE  Inv'
<1> USE DEF Inv
<1>1. /\ reward_supply' = reward_supply - k /\ k <= reward_supply
      /\ UNCHANGED <<config, user_account, stake_account, collection,
                     asset, now, since, paid, counted_from>>
  BY DEF BurnRewards
<1>2. reward_supply' \in U64
  BY <1>1, MaxU64Assumption DEF TypeOK, U64
<1>3. TypeOK'
  BY <1>1, <1>2 DEF TypeOK
<1>4. StakedMeansHeld' /\ Accrual' /\ EverySecondPaidOnce'
  BY <1>1 DEF StakedMeansHeld, Accrual, EverySecondPaidOnce, Staked, Elapsed
<1> QED  BY <1>3, <1>4

LEMMA RenameStep ==
  ASSUME Inv, NEW c \in Collections, Rename(c)
  PROVE  Inv'
<1> USE DEF Inv
<1>1. /\ collection' = [collection EXCEPT ![c].mentioned = ~@]
      /\ counted_from' = [counted_from EXCEPT ![c] = Absent]
      /\ UNCHANGED <<config, user_account, stake_account, reward_supply, asset, now,
                     since, paid>>
  BY DEF Rename
<1>2. collection' \in [Collections -> Collection]
  BY <1>1 DEF TypeOK, Collection
<1>3. TypeOK'
  BY <1>1, <1>2 DEF TypeOK
<1>4. StakedMeansHeld' /\ Accrual' /\ EverySecondPaidOnce'
  BY <1>1 DEF StakedMeansHeld, Accrual, EverySecondPaidOnce, Staked, Elapsed
<1> QED  BY <1>3, <1>4

LEMMA OwnerStep ==
  ASSUME Inv, NEW u \in Users, NEW a \in Assets,
         \/ \E v \in Users : OwnerTransfers(u, a, v)
         \/ OwnerAddsFreeze(u, a)
         \/ OwnerRemovesFreeze(u, a)
  PROVE  Inv'
<1> USE DEF Inv
<1>1. PICK result :
        /\ OwnerCalls(a, result)
        /\ \/ \E v \in Users : result = TransferAsset(asset[a], u, v)
           \/ result = AddFreezeDelegate(asset[a], u, u, FALSE)
           \/ result = RemoveFreezeDelegate(asset[a], u)
  BY DEF OwnerTransfers, OwnerAddsFreeze, OwnerRemovesFreeze
<1>2. /\ result # Failed /\ asset' = [asset EXCEPT ![a] = result]
      /\ UNCHANGED <<config, user_account, stake_account, collection,
                     reward_supply, now, since, paid, counted_from>>
  BY <1>1 DEF OwnerCalls
<1>3. asset[a] \in Asset
  BY DEF TypeOK
<1>4. result \in Asset /\ ~(asset[a].freeze = Config /\ asset[a].frozen)
  BY <1>1, <1>2, <1>3, OwnerCallsAsset
<1>5. TypeOK'
  BY <1>2, <1>4 DEF TypeOK
<1>6. ~Staked(a) /\ \A b \in Assets : b # a => asset'[b] = asset[b]
  BY <1>2, <1>4 DEF StakedMeansHeld, TypeOK
<1>7. StakedMeansHeld'
  BY <1>2, <1>6 DEF StakedMeansHeld, Staked
<1>8. Accrual' /\ EverySecondPaidOnce'
  BY <1>2 DEF Accrual, EverySecondPaidOnce, Staked, Elapsed
<1> QED  BY <1>5, <1>7, <1>8

LEMMA NextInv == Inv /\ [Next]_vars => Inv'
<1> SUFFICES ASSUME Inv, [Next]_vars PROVE Inv'
  OBVIOUS
<1>1. CASE \E p \in Points, m \in MaxStakes, f \in FreezePeriods : InitializeConfig(p, m, f)
  BY <1>1, ConfigStep
<1>2. CASE \E u \in Users : InitializeUser(u)
  BY <1>2, UserAccountStep
<1>3. CASE \E u \in Users, a \in Assets : UserStep(u, a)
  BY <1>3, StakeStep, ClaimStep, UnstakeStep, OwnerStep DEF UserStep
<1>4. CASE Tick
  BY <1>4, TickStep
<1>5. CASE \E c \in Collections : Rename(c)
  BY <1>5, RenameStep
<1>6. CASE \E k \in 1 .. reward_supply : BurnRewards(k)
  BY <1>6, BurnStep
<1>7. CASE UNCHANGED vars
  BY <1>7 DEF vars, Inv, TypeOK, StakedMeansHeld, Accrual, EverySecondPaidOnce, Staked, Elapsed
<1> QED  BY <1>1, <1>2, <1>3, <1>4, <1>5, <1>6, <1>7 DEF Next

LEMMA Invariance == Spec => []Inv
<1> QED  BY InitInv, NextInv, PTL DEF Spec

-----------------------------------------------------------------------------
(***************************************************************************)
(* Every reachable state has the right types: no counter, supply or reward *)
(* leaves its width.                                                       *)
(***************************************************************************)
THEOREM TypeCorrect == Spec => []TypeOK
<1>1. Inv => TypeOK
  BY DEF Inv
<1> QED  BY <1>1, Invariance, PTL

(***************************************************************************)
(* A staked asset stays with its owner, frozen by the config PDA.          *)
(***************************************************************************)
THEOREM StakeHolds == Spec => []StakedMeansHeld
<1>1. Inv => StakedMeansHeld
  BY DEF Inv
<1> QED  BY <1>1, Invariance, PTL

(***************************************************************************)
(* Every second of a staking is paid once: what was claimed and what can   *)
(* be claimed make up the time since the asset was staked.                 *)
(***************************************************************************)
THEOREM RewardsExact == Spec => []EverySecondPaidOnce
<1>1. Inv => EverySecondPaidOnce
  BY DEF Inv
<1> QED  BY <1>1, Invariance, PTL

\* What a step that unstakes waits for.
Locked ==
  \A a \in Assets : Staked(a) /\ stake_account'[a] = Absent
    => now - since[a] >= config.freeze_period

LEMMA NextLocked == Inv /\ [Next]_vars => [Locked]_vars
<1> SUFFICES ASSUME Inv, Next, NEW a \in Assets,
                    Staked(a), stake_account'[a] = Absent
             PROVE  now - since[a] >= config.freeze_period
  BY DEF Locked
<1>1. stake_account'[a] # stake_account[a] /\ stake_account'[a] \notin StakeAccount
  BY AbsentAssumption DEF Staked
<1>2. PICK u \in Users, b \in Assets : UserStep(u, b)
  BY <1>1 DEF Next, InitializeConfig, InitializeUser, Rename, BurnRewards, Tick
<1>3. CASE Stake(u, b)
  <2>1. b = a
    BY <1>1, <1>3 DEF Stake, Inv, TypeOK
  <2> QED  BY <1>3, <2>1 DEF Stake
<1>4. CASE ClaimRewards(u, b)
  <2>1. b = a
    BY <1>1, <1>4 DEF ClaimRewards, Inv, TypeOK
  <2>2. stake_account[a] \in StakeAccount /\ now \in Nat
    BY DEF Inv, TypeOK, Staked
  <2>3. Advanced(stake_account[a]) \in StakeAccount
    BY <2>2 DEF Advanced, StakeAccount
  <2>4. stake_account'[a] = Advanced(stake_account[a])
    BY <1>4, <2>1 DEF ClaimRewards, Inv, TypeOK
  <2> QED  BY <1>1, <2>3, <2>4
<1>5. CASE Unstake(u, b)
  <2>1. b = a
    BY <1>1, <1>5 DEF Unstake, Inv, TypeOK
  <2>2. now - stake_account[a].last_update >= config.freeze_period
    BY <1>5, <2>1 DEF Unstake, FreezePeriodOver, Elapsed
  <2>3. /\ since[a] <= stake_account[a].last_update
        /\ stake_account[a].last_update \in Nat /\ since[a] \in Nat /\ now \in Nat
        /\ config.freeze_period \in Nat
    BY DEF Inv, Accrual, TypeOK, Staked, StakeAccount, StakeConfig
  <2> QED  BY <2>2, <2>3
<1>6. CASE \/ \E v \in Users : OwnerTransfers(u, b, v)
          \/ OwnerAddsFreeze(u, b)
          \/ OwnerRemovesFreeze(u, b)
  BY <1>1, <1>6 DEF OwnerTransfers, OwnerAddsFreeze, OwnerRemovesFreeze, OwnerCalls
<1> QED  BY <1>2, <1>3, <1>4, <1>5, <1>6 DEF UserStep

(***************************************************************************)
(* No asset is unstaked sooner than freeze_period after it was staked.     *)
(***************************************************************************)
THEOREM LockHolds == Spec => LockedForPeriod
<1> QED  BY NextLocked, Invariance, PTL DEF Spec, LockedForPeriod, Locked

-----------------------------------------------------------------------------
(***************************************************************************)
(* What is staked is counted.  The counts are inductive together with what *)
(* makes each of them start at nothing: whoever staked has an account, and *)
(* a collection whose history is known holds the text of the key nowhere   *)
(* else.                                                                   *)
(***************************************************************************)
StakedBy(u) == {a \in Assets : Staked(a) /\ stake_account[a].owner = u}
StakedIn(c) == {a \in Assets : Staked(a) /\ CollectionOf[a] = c}

Counted ==
  /\ \A a \in Assets : Staked(a) => user_account[stake_account[a].owner] # Absent
  /\ \A c \in Collections : counted_from[c] # Absent =>
       counted_from[c] \in Nat /\ Unambiguous(collection[c])

CInv == Inv /\ CountsAgree /\ Counted

\* In an unambiguous collection the search finds what the attribute shows.
LEMMA ParsedShown ==
  ASSUME NEW data \in Collection, Unambiguous(data)
  PROVE  ParsedCount(data) = ShownCount(data) /\ ShownCount(data) \in Nat
<1> DEFINE list == data.attributes
           shown == {i \in DOMAIN list : list[i].key = CountKey}
           First(i) == /\ list[i].key \in Mentions
                       /\ \A j \in 1 .. i - 1 : list[j].key \notin Mentions
           k == CHOOSE i \in shown : TRUE
           f == CHOOSE i \in DOMAIN list : First(i)
<1>1. list \in Seq(Attribute) /\ DOMAIN list = 1 .. Len(list) /\ Len(list) \in Nat
  BY DEF Collection
<1>2. CountKey \in Mentions /\ CountKey \in Endings
  BY KeysAssumption
<1>3. /\ ~data.mentioned
      /\ \A i \in DOMAIN list : list[i].key \in Mentions =>
           /\ list[i].key = CountKey /\ list[i].value # Text /\ list[i].value >= 0
           /\ \A j \in DOMAIN list : list[j].key = CountKey => i = j
  BY DEF Unambiguous
<1>4. ParsedCount(data)
        = IF data.mentioned \/ \A i \in DOMAIN list : ~First(i) THEN 0 ELSE ValueAfter(list[f])
  BY DEF ParsedCount
<1>5. ShownCount(data) = IF shown = {} THEN 0 ELSE list[k].value
  BY DEF ShownCount
<1> HIDE DEF list
<1>6. CASE shown = {}
  <2>1. \A i \in DOMAIN list : ~First(i)
    BY <1>3, <1>6
  <2> HIDE DEF First, shown
  <2> QED  BY <1>4, <1>5, <1>6, <2>1
<1>7. CASE shown # {}
  <2>1. k \in shown
    BY <1>7
  <2> HIDE DEF k
  <2>2. k \in DOMAIN list /\ list[k].key = CountKey
    BY <2>1
  <2>3. First(k)
    <3> SUFFICES ASSUME NEW j \in 1 .. k - 1, list[j].key \in Mentions
                 PROVE  FALSE
      BY <1>2, <2>2
    <3>1. j \in DOMAIN list /\ j # k
      BY <1>1, <2>2
    <3> QED  BY <1>3, <2>2, <3>1
  <2>4. f \in DOMAIN list /\ First(f)
    <3> HIDE DEF First
    <3> QED  BY <2>2, <2>3
  <2> HIDE DEF f
  <2>5. f = k
    BY <1>3, <2>2, <2>4
  <2>6. list[k] \in Attribute /\ list[k].value # Text /\ list[k].value >= 0
    BY <1>1, <1>2, <1>3, <2>2
  <2>7. list[k].value \in Nat
    BY <2>6 DEF Attribute
  <2>8. ValueAfter(list[k]) = list[k].value
    BY <1>2, <2>2, <2>6 DEF ValueAfter
  <2>9. ParsedCount(data) = ValueAfter(list[f])
    <3> HIDE DEF First
    <3> QED  BY <1>3, <1>4, <2>2, <2>3
  <2> HIDE DEF shown
  <2> QED  BY <1>5, <1>7, <2>5, <2>7, <2>8, <2>9
<1> QED  BY <1>6, <1>7

\* The update moves the count that is shown, and leaves nothing ambiguous.
LEMMA UpdatedShown ==
  ASSUME NEW data \in Collection, Unambiguous(data),
         NEW delta \in Int, ShownCount(data) + delta >= 0
  PROVE  /\ Unambiguous(Updated(data, delta))
         /\ ShownCount(Updated(data, delta)) = ShownCount(data) + delta
<1> DEFINE n == ShownCount(data) + delta
           one == <<[key |-> CountKey, value |-> n]>>
           after == [data EXCEPT !.attributes = one]
<1>1. ParsedCount(data) = ShownCount(data) /\ ShownCount(data) \in Nat
  BY ParsedShown
<1>2. NewCount(data, delta) = n /\ n \in Int /\ n >= 0
  BY <1>1 DEF NewCount
<1>3. Updated(data, delta) = after
  BY <1>2 DEF Updated
<1>4. /\ after.attributes = one /\ ~after.mentioned
  BY DEF Collection, Unambiguous
<1> HIDE DEF n
<1>5. DOMAIN one = {1} /\ one[1].key = CountKey /\ one[1].value = n
  OBVIOUS
<1> HIDE DEF one, after
<1>6. n # Text
  BY <1>2, KeysAssumption
<1>7. Unambiguous(after)
  BY <1>2, <1>4, <1>5, <1>6 DEF Unambiguous
<1>8. ShownCount(after) = n
  BY <1>4, <1>5 DEF ShownCount
<1> QED  BY <1>3, <1>7, <1>8 DEF n

LEMMA FiniteCounts ==
  ASSUME NEW u, NEW c
  PROVE  /\ IsFiniteSet(StakedBy(u)) /\ Cardinality(StakedBy(u)) \in Nat
         /\ IsFiniteSet(StakedIn(c)) /\ Cardinality(StakedIn(c)) \in Nat
<1>1. StakedBy(u) \subseteq Assets /\ StakedIn(c) \subseteq Assets
  BY DEF StakedBy, StakedIn
<1>2. IsFiniteSet(Assets)
  BY StakingAssumption
<1>3. IsFiniteSet(StakedBy(u)) /\ IsFiniteSet(StakedIn(c))
  BY <1>1, <1>2, FS_Subset
<1> QED  BY <1>3, FS_CardinalityType

\* CountsAgree in terms of these sets.
LEMMA CountsHold ==
  ASSUME CountsAgree
  PROVE  /\ \A u \in Users : user_account[u] # Absent =>
              user_account[u].amount_staked = Cardinality(StakedBy(u))
         /\ \A u \in Users : user_account[u] # Absent /\ config # Absent =>
              user_account[u].amount_staked <= config.max_stake
         /\ \A c \in Collections : counted_from[c] # Absent =>
              ShownCount(collection[c]) = counted_from[c] + Cardinality(StakedIn(c))
BY Zenon DEF CountsAgree, StakedBy, StakedIn

\* Steps that stake and unstake nothing leave all counts as they are.
LEMMA SameCounts ==
  ASSUME CInv, Inv', UNCHANGED <<config, user_account, stake_account>>,
         \A c \in Collections : counted_from'[c] # Absent =>
           counted_from'[c] = counted_from[c] /\ collection'[c] = collection[c]
  PROVE  CInv'
<1>1. /\ \A a \in Assets : Staked(a)' = Staked(a)
      /\ \A u \in Users : StakedBy(u)' = StakedBy(u)
      /\ \A c \in Collections : StakedIn(c)' = StakedIn(c)
  BY DEF Staked, StakedBy, StakedIn
<1>2. CountsAgree'
  BY <1>1 DEF CInv, CountsAgree, StakedBy, StakedIn
<1>3. Counted'
  BY <1>1 DEF CInv, Counted
<1> QED  BY <1>2, <1>3 DEF CInv

LEMMA InitCounts == Init => CInv
<1> SUFFICES ASSUME Init PROVE CInv
  OBVIOUS
<1>1. Inv
  BY InitInv
<1>2. \A a \in Assets : ~Staked(a)
  BY DEF Init, Staked
<1>3. /\ \A u \in Users : StakedBy(u) = {}
      /\ \A c \in Collections : StakedIn(c) = {}
  BY <1>2 DEF StakedBy, StakedIn
<1>4. Counted
  <2> SUFFICES ASSUME NEW c \in Collections, counted_from[c] # Absent
               PROVE  counted_from[c] \in Nat /\ Unambiguous(collection[c])
    BY <1>2 DEF Counted
  <2>1. Unambiguous(collection[c]) /\ counted_from[c] = ShownCount(collection[c])
    BY DEF Init
  <2>2. collection[c] \in Collection
    BY <1>1 DEF Inv, TypeOK
  <2> QED  BY <2>1, <2>2, ParsedShown
<1>5. CountsAgree
  <2>1. \A c \in Collections : counted_from[c] # Absent =>
          ShownCount(collection[c]) = counted_from[c] + Cardinality(StakedIn(c))
    <3> SUFFICES ASSUME NEW c \in Collections, counted_from[c] # Absent
                 PROVE  ShownCount(collection[c]) = counted_from[c] + 0
      BY <1>3, FS_EmptySet
    <3>1. counted_from[c] = ShownCount(collection[c])
      BY DEF Init
    <3>2. counted_from[c] \in Nat
      BY <1>4 DEF Counted
    <3> QED  BY <3>1, <3>2
  <2>2. \A u \in Users : user_account[u] = Absent
    BY DEF Init
  <2> QED  BY <2>1, <2>2 DEF CountsAgree, StakedIn
<1> QED  BY <1>1, <1>4, <1>5 DEF CInv

LEMMA ConfigCounts ==
  ASSUME CInv, NEW p \in Points, NEW m \in MaxStakes, NEW f \in FreezePeriods,
         InitializeConfig(p, m, f)
  PROVE  CInv'
<1>1. Inv'
  BY ConfigStep DEF CInv
<1>2. /\ UNCHANGED <<user_account, stake_account, collection, counted_from>>
      /\ config' = [points_per_stake |-> p, max_stake |-> m, freeze_period |-> f]
      /\ config = Absent
  BY DEF InitializeConfig
<1>3. \A a \in Assets : ~Staked(a)
  BY <1>2 DEF CInv, Inv, Accrual
<1>4. m \in Nat
  BY StakingAssumption
<1>5. \A u \in Users : user_account[u] # Absent => user_account[u].amount_staked = 0
  <2>1. \A u \in Users : StakedBy(u) = {}
    BY <1>3 DEF StakedBy
  <2> QED  BY <2>1, FS_EmptySet DEF CInv, CountsAgree, StakedBy
<1>6. CountsAgree'
  BY <1>2, <1>4, <1>5 DEF CInv, CountsAgree, Staked
<1>7. Counted'
  BY <1>2 DEF CInv, Counted, Staked
<1> QED  BY <1>1, <1>6, <1>7 DEF CInv

LEMMA UserCounts ==
  ASSUME CInv, NEW u \in Users, InitializeUser(u)
  PROVE  CInv'
<1>1. Inv'
  BY UserAccountStep DEF CInv
<1>2. /\ UNCHANGED <<config, stake_account, collection, counted_from>>
      /\ user_account' = [user_account EXCEPT ![u] = [points |-> 0, amount_staked |-> 0]]
      /\ user_account[u] = Absent
  BY DEF InitializeUser
<1>3. user_account \in [Users -> UserAccount \cup {Absent}]
  BY DEF CInv, Inv, TypeOK
<1>4. /\ \A v \in Users : v # u => user_account'[v] = user_account[v]
      /\ user_account'[u] = [points |-> 0, amount_staked |-> 0]
      /\ user_account'[u] # Absent
  <2>1. user_account'[u] \in UserAccount
    BY <1>2, <1>3, MaxU64Assumption DEF UserAccount, U64
  <2>2. user_account'[u].amount_staked = 0
    BY <1>2, <1>3
  <2>3. user_account'[u] = [points |-> 0, amount_staked |-> 0]
    BY <1>2, <1>3
  <2> QED  BY <1>2, <1>3, <2>1, <2>2, <2>3, AbsentAssumption
<1>5. StakedBy(u) = {} /\ Cardinality(StakedBy(u)) = 0
  BY <1>2, FS_EmptySet DEF CInv, Counted, StakedBy
<1>6. /\ \A a \in Assets : Staked(a)' = Staked(a)
      /\ \A v : StakedBy(v)' = StakedBy(v)
  BY <1>2 DEF Staked, StakedBy
<1>7. CountsAgree'
  <2>1. \A v \in Users : user_account'[v] # Absent =>
          user_account'[v].amount_staked = Cardinality(StakedBy(v))
    <3>1. CountsAgree
      BY DEF CInv
    <3> QED  BY <1>4, <1>5, <3>1, CountsHold
  <2>2. \A v \in Users : user_account'[v] # Absent /\ config # Absent =>
          user_account'[v].amount_staked <= config.max_stake
    <3>1. config # Absent => 0 <= config.max_stake
      BY DEF CInv, Inv, TypeOK, StakeConfig
    <3> QED  BY <1>4, <3>1 DEF CInv, CountsAgree
  <2> QED  BY <1>2, <1>6, <2>1, <2>2 DEF CInv, CountsAgree, StakedBy
<1>8. Counted'
  <2>1. \A a \in Assets : Staked(a) => stake_account[a].owner \in Users
    BY DEF CInv, Inv, TypeOK, Staked, StakeAccount
  <2> QED  BY <1>2, <1>4, <1>6, <2>1 DEF CInv, Counted
<1> QED  BY <1>1, <1>7, <1>8 DEF CInv

\* A counter that is set leaves a user account.
LEMMA AccountCounter ==
  ASSUME NEW r \in UserAccount, NEW n \in 0 .. 255
  PROVE  /\ [r EXCEPT !.amount_staked = n] # Absent
         /\ [r EXCEPT !.amount_staked = n].amount_staked = n
<1>1. [r EXCEPT !.amount_staked = n] \in UserAccount
  BY DEF UserAccount
<1> QED  BY <1>1, AbsentAssumption DEF UserAccount

LEMMA StakeCounts ==
  ASSUME CInv, NEW u \in Users, NEW a \in Assets, Stake(u, a)
  PROVE  CInv'
<1> DEFINE c == CollectionOf[a]
           n == user_account[u].amount_staked
<1>1. Inv' /\ Inv
  BY StakeStep DEF CInv
<1>2. /\ UNCHANGED <<config, counted_from>> /\ config # Absent
      /\ ~Staked(a) /\ user_account[u] # Absent
      /\ stake_account' = [stake_account EXCEPT ![a] = [owner |-> u, last_update |-> now]]
      /\ collection' = [collection EXCEPT ![c] = Updated(collection[c], 1)]
      /\ user_account' = [user_account EXCEPT ![u] =
                           [user_account[u] EXCEPT !.amount_staked = n + 1]]
      /\ n < config.max_stake
  BY DEF Stake
<1>3. /\ user_account \in [Users -> UserAccount \cup {Absent}]
      /\ stake_account \in [Assets -> StakeAccount \cup {Absent}]
      /\ collection \in [Collections -> Collection]
      /\ config \in StakeConfig /\ user_account[u] \in UserAccount
      /\ c \in Collections /\ now \in Nat
  BY <1>1, <1>2, StakingAssumption DEF Inv, TypeOK
<1>4. n \in 0 .. 255 /\ config.max_stake \in 0 .. 255
  BY <1>3 DEF UserAccount, StakeConfig
<1>5. n + 1 \in 0 .. 255
  BY <1>2, <1>4, OneMore
<1>6. /\ stake_account'[a] # Absent /\ stake_account'[a].owner = u
      /\ \A b \in Assets : b # a => stake_account'[b] = stake_account[b]
  <2>1. [owner |-> u, last_update |-> now] \in StakeAccount
    BY <1>3 DEF StakeAccount
  <2> QED  BY <1>2, <1>3, <2>1, AbsentAssumption DEF StakeAccount
<1> HIDE DEF n
<1>7. /\ user_account'[u] # Absent /\ user_account'[u].amount_staked = n + 1
      /\ \A v \in Users : v # u => user_account'[v] = user_account[v]
  BY <1>2, <1>3, <1>5, AccountCounter
<1>8. /\ StakedBy(u)' = StakedBy(u) \cup {a} /\ a \notin StakedBy(u)
      /\ \A v \in Users : v # u => StakedBy(v)' = StakedBy(v)
      /\ StakedIn(c)' = StakedIn(c) \cup {a} /\ a \notin StakedIn(c)
      /\ \A d : d # c => StakedIn(d)' = StakedIn(d)
  BY <1>2, <1>6 DEF StakedBy, StakedIn, Staked
<1>9. /\ Cardinality(StakedBy(u)') = Cardinality(StakedBy(u)) + 1
      /\ Cardinality(StakedIn(c)') = Cardinality(StakedIn(c)) + 1
  <2>1. IsFiniteSet(StakedBy(u)) /\ IsFiniteSet(StakedIn(c))
    BY FiniteCounts
  <2>2. /\ Cardinality(StakedBy(u) \cup {a}) = Cardinality(StakedBy(u)) + 1
        /\ Cardinality(StakedIn(c) \cup {a}) = Cardinality(StakedIn(c)) + 1
    BY <1>8, <2>1, FS_AddElement
  <2> QED  BY <1>8, <2>2
<1>10. \A v \in Users : user_account'[v] # Absent =>
         /\ user_account'[v].amount_staked = Cardinality(StakedBy(v)')
         /\ user_account'[v].amount_staked <= config.max_stake
  <2>0. CountsAgree
    BY DEF CInv
  <2>1. n = Cardinality(StakedBy(u))
    BY <1>2, <2>0, CountsHold DEF n
  <2>2. n + 1 <= config.max_stake
    <3>1. n < config.max_stake
      BY <1>2
    <3> QED  BY ONLY <3>1, <1>4
  <2>3. \A v \in Users : v # u /\ user_account[v] # Absent =>
          /\ user_account[v].amount_staked = Cardinality(StakedBy(v))
          /\ user_account[v].amount_staked <= config.max_stake
    BY <1>2, <2>0, CountsHold
  <2> QED  BY <1>7, <1>8, <1>9, <2>1, <2>2, <2>3
<1>11. \A d \in Collections : counted_from[d] # Absent =>
         /\ Unambiguous(collection'[d])
         /\ ShownCount(collection'[d]) = counted_from[d] + Cardinality(StakedIn(d)')
  <2> SUFFICES ASSUME NEW d \in Collections, counted_from[d] # Absent
               PROVE  /\ Unambiguous(collection'[d])
                      /\ ShownCount(collection'[d]) = counted_from[d] + Cardinality(StakedIn(d)')
    OBVIOUS
  <2>1. /\ counted_from[d] \in Nat /\ Unambiguous(collection[d])
        /\ ShownCount(collection[d]) = counted_from[d] + Cardinality(StakedIn(d))
    BY DEF CInv, Counted, CountsAgree, StakedIn
  <2>2. Cardinality(StakedIn(d)) \in Nat
    BY FiniteCounts
  <2>3. CASE d = c
    <3>1. collection'[d] = Updated(collection[d], 1)
      BY <1>2, <1>3, <2>3
    <3>2. ShownCount(collection[d]) + 1 >= 0
      BY <2>1, <2>2
    <3>3. /\ Unambiguous(collection'[d])
          /\ ShownCount(collection'[d]) = ShownCount(collection[d]) + 1
      BY <1>3, <2>1, <3>1, <3>2, UpdatedShown
    <3> QED  BY <1>9, <2>1, <2>2, <2>3, <3>3
  <2>4. CASE d # c
    BY <1>2, <1>3, <1>8, <2>1, <2>4
  <2> QED  BY <2>3, <2>4
<1>12. CountsAgree'
  BY <1>2, <1>10, <1>11 DEF CountsAgree, StakedBy, StakedIn
<1>13. Counted'
  <2>1. \A b \in Assets : b # a /\ Staked(b) => user_account'[stake_account[b].owner] # Absent
    <3>1. \A b \in Assets : Staked(b) => stake_account[b].owner \in Users
      BY <1>3 DEF Staked, StakeAccount
    <3> QED  BY <1>7, <3>1 DEF CInv, Counted
  <2> QED  BY <1>2, <1>6, <1>7, <1>11, <2>1 DEF CInv, Counted, Staked
<1> QED  BY <1>1, <1>12, <1>13 DEF CInv

LEMMA UnstakeCounts ==
  ASSUME CInv, NEW u \in Users, NEW a \in Assets, Unstake(u, a)
  PROVE  CInv'
<1> DEFINE c == CollectionOf[a]
           n == user_account[u].amount_staked
           fewer == IF n = 0 THEN 0 ELSE n - 1
<1>1. Inv' /\ Inv /\ CountsAgree
  BY UnstakeStep DEF CInv
<1>2. /\ UNCHANGED <<config, counted_from>>
      /\ Staked(a) /\ stake_account[a].owner = u /\ user_account[u] # Absent
      /\ stake_account' = [stake_account EXCEPT ![a] = Absent]
      /\ collection' = [collection EXCEPT ![c] = Updated(collection[c], -1)]
      /\ user_account' = [user_account EXCEPT ![u] =
                           [user_account[u] EXCEPT !.amount_staked = fewer]]
  BY DEF Unstake
<1>3. /\ user_account \in [Users -> UserAccount \cup {Absent}]
      /\ stake_account \in [Assets -> StakeAccount \cup {Absent}]
      /\ collection \in [Collections -> Collection]
      /\ user_account[u] \in UserAccount /\ c \in Collections
  BY <1>1, <1>2, StakingAssumption DEF Inv, TypeOK
<1>4. n \in 0 .. 255
  BY <1>3 DEF UserAccount
<1>5. /\ stake_account'[a] = Absent
      /\ \A b \in Assets : b # a => stake_account'[b] = stake_account[b]
  BY <1>2, <1>3
<1>6. a \in StakedBy(u) /\ a \in StakedIn(c)
  BY <1>2 DEF StakedBy, StakedIn
<1>7. /\ StakedBy(u)' = StakedBy(u) \ {a}
      /\ \A v \in Users : v # u => StakedBy(v)' = StakedBy(v)
      /\ StakedIn(c)' = StakedIn(c) \ {a}
      /\ \A d : d # c => StakedIn(d)' = StakedIn(d)
  BY <1>2, <1>5 DEF StakedBy, StakedIn, Staked
<1>8. /\ Cardinality(StakedBy(u)') = Cardinality(StakedBy(u)) - 1
      /\ Cardinality(StakedIn(c)') = Cardinality(StakedIn(c)) - 1
      /\ Cardinality(StakedBy(u)') \in Nat /\ Cardinality(StakedIn(c)') \in Nat
  <2>1. IsFiniteSet(StakedBy(u)) /\ IsFiniteSet(StakedIn(c))
    BY FiniteCounts
  <2>2. /\ Cardinality(StakedBy(u) \ {a}) = Cardinality(StakedBy(u)) - 1
        /\ Cardinality(StakedIn(c) \ {a}) = Cardinality(StakedIn(c)) - 1
        /\ IsFiniteSet(StakedBy(u) \ {a}) /\ IsFiniteSet(StakedIn(c) \ {a})
    BY <1>6, <2>1, FS_RemoveElement
  <2>3. /\ Cardinality(StakedBy(u) \ {a}) \in Nat
        /\ Cardinality(StakedIn(c) \ {a}) \in Nat
    BY <2>2, FS_CardinalityType
  <2> QED  BY <1>7, <2>2, <2>3
<1> HIDE DEF n
<1>9. fewer \in 0 .. 255
  BY <1>4
<1>10. /\ user_account'[u] # Absent /\ user_account'[u].amount_staked = fewer
       /\ \A v \in Users : v # u => user_account'[v] = user_account[v]
  <2> HIDE DEF fewer
  <2> QED  BY <1>2, <1>3, <1>9, AccountCounter
<1>11. n = Cardinality(StakedBy(u))
  BY <1>1, <1>2, CountsHold DEF n
<1>12. fewer = Cardinality(StakedBy(u)') /\ fewer <= n
  BY <1>4, <1>8, <1>11
<1> HIDE DEF fewer
<1>13. \A v \in Users : user_account'[v] # Absent =>
         /\ user_account'[v].amount_staked = Cardinality(StakedBy(v)')
         /\ config # Absent => user_account'[v].amount_staked <= config.max_stake
  <2>1. config # Absent => fewer <= config.max_stake
    <3>1. config # Absent => n <= config.max_stake /\ config.max_stake \in Int
      BY <1>1, <1>2, CountsHold DEF n, Inv, TypeOK, StakeConfig
    <3> QED  BY ONLY <1>4, <1>9, <1>12, <3>1
  <2>2. \A v \in Users : v # u /\ user_account[v] # Absent =>
          /\ user_account[v].amount_staked = Cardinality(StakedBy(v))
          /\ config # Absent => user_account[v].amount_staked <= config.max_stake
    BY <1>1, CountsHold
  <2> QED  BY <1>7, <1>10, <1>12, <2>1, <2>2
<1>14. \A d \in Collections : counted_from[d] # Absent =>
         /\ Unambiguous(collection'[d])
         /\ ShownCount(collection'[d]) = counted_from[d] + Cardinality(StakedIn(d)')
  <2> SUFFICES ASSUME NEW d \in Collections, counted_from[d] # Absent
               PROVE  /\ Unambiguous(collection'[d])
                      /\ ShownCount(collection'[d]) = counted_from[d] + Cardinality(StakedIn(d)')
    OBVIOUS
  <2>1. /\ counted_from[d] \in Nat /\ Unambiguous(collection[d])
        /\ ShownCount(collection[d]) = counted_from[d] + Cardinality(StakedIn(d))
    BY <1>1, CountsHold DEF CInv, Counted
  <2>2. Cardinality(StakedIn(d)) \in Nat
    BY FiniteCounts
  <2>3. CASE d = c
    <3>1. collection'[d] = Updated(collection[d], -1)
      BY <1>2, <1>3, <2>3
    <3>2. ShownCount(collection[d]) + (-1) >= 0
      BY <1>8, <2>1, <2>2, <2>3
    <3>3. /\ Unambiguous(collection'[d])
          /\ ShownCount(collection'[d]) = ShownCount(collection[d]) + (-1)
      BY <1>3, <2>1, <3>1, <3>2, UpdatedShown
    <3> QED  BY <1>8, <2>1, <2>2, <2>3, <3>3
  <2>4. CASE d # c
    BY <1>2, <1>3, <1>7, <2>1, <2>4
  <2> QED  BY <2>3, <2>4
<1>15. CountsAgree'
  BY <1>2, <1>13, <1>14 DEF CountsAgree, StakedBy, StakedIn
<1>16. Counted'
  <2>1. \A b \in Assets : b # a /\ Staked(b) => user_account'[stake_account[b].owner] # Absent
    <3>1. \A b \in Assets : Staked(b) => stake_account[b].owner \in Users
      BY <1>3 DEF Staked, StakeAccount
    <3> QED  BY <1>10, <3>1 DEF CInv, Counted
  <2> QED  BY <1>2, <1>5, <1>14, <2>1 DEF CInv, Counted, Staked
<1> QED  BY <1>1, <1>15, <1>16 DEF CInv

LEMMA ClaimCounts ==
  ASSUME CInv, NEW u \in Users, NEW a \in Assets, ClaimRewards(u, a)
  PROVE  CInv'
<1> DEFINE reward == Elapsed(a) * config.points_per_stake
           record == [stake_account[a] EXCEPT !.last_update = now]
           account == [user_account[u] EXCEPT !.points = user_account[u].points + reward]
<1>1. Inv' /\ Inv /\ CountsAgree
  BY ClaimStep DEF CInv
<1>2. /\ UNCHANGED <<config, collection, counted_from>>
      /\ stake_account' = [stake_account EXCEPT ![a] = record]
      /\ user_account' = [user_account EXCEPT ![u] = account]
      /\ user_account[u].points + reward \in U64
      /\ Staked(a) /\ user_account[u] # Absent
  BY DEF ClaimRewards, Advanced
<1>3. /\ user_account \in [Users -> UserAccount \cup {Absent}]
      /\ stake_account \in [Assets -> StakeAccount \cup {Absent}]
      /\ user_account[u] \in UserAccount /\ stake_account[a] \in StakeAccount /\ now \in Nat
  BY <1>1, <1>2, StakingAssumption DEF Inv, TypeOK, Staked
<1> HIDE DEF reward
<1>4. record \in StakeAccount /\ record.owner = stake_account[a].owner
  BY <1>3 DEF StakeAccount
<1>5. account \in UserAccount /\ account.amount_staked = user_account[u].amount_staked
  BY <1>2, <1>3 DEF UserAccount
<1> HIDE DEF record, account
<1>6. \A b \in Assets :
        /\ Staked(b)' = Staked(b)
        /\ Staked(b) => stake_account'[b].owner = stake_account[b].owner
  BY <1>2, <1>3, <1>4, AbsentAssumption DEF Staked
<1>7. \A v \in Users :
        /\ user_account'[v] = Absent <=> user_account[v] = Absent
        /\ user_account[v] # Absent =>
             user_account'[v].amount_staked = user_account[v].amount_staked
  BY <1>2, <1>3, <1>5, AbsentAssumption
<1>8. /\ \A v \in Users : StakedBy(v)' = StakedBy(v)
      /\ \A d \in Collections : StakedIn(d)' = StakedIn(d)
  BY <1>6 DEF StakedBy, StakedIn
<1>9. CountsAgree'
  <2>1. \A v \in Users : user_account'[v] # Absent =>
          user_account'[v].amount_staked = Cardinality(StakedBy(v)')
    BY <1>1, <1>7, <1>8, CountsHold
  <2>2. \A v \in Users : user_account'[v] # Absent /\ config' # Absent =>
          user_account'[v].amount_staked <= config'.max_stake
    BY <1>1, <1>2, <1>7, CountsHold
  <2>3. \A d \in Collections : counted_from'[d] # Absent =>
          ShownCount(collection'[d]) = counted_from'[d] + Cardinality(StakedIn(d)')
    BY <1>1, <1>2, <1>8, CountsHold
  <2> QED  BY <2>1, <2>2, <2>3 DEF CountsAgree, StakedBy, StakedIn
<1>10. Counted'
  <2>1. \A b \in Assets : Staked(b) => stake_account[b].owner \in Users
    BY <1>3 DEF Staked, StakeAccount
  <2> QED  BY <1>2, <1>6, <1>7, <2>1 DEF CInv, Counted
<1> QED  BY <1>1, <1>9, <1>10 DEF CInv

\* Time, burns, names and MPL Core itself do not reach the counts, except that a
\* collection that is renamed is not known any more.
LEMMA OtherCounts ==
  ASSUME CInv, Inv',
         \/ Tick
         \/ \E k \in 1 .. reward_supply : BurnRewards(k)
         \/ \E c \in Collections : Rename(c)
         \/ \E a \in Assets : \E result : OwnerCalls(a, result)
         \/ UNCHANGED vars
  PROVE  CInv'
<1>1. UNCHANGED <<config, user_account, stake_account>>
  BY DEF Tick, BurnRewards, Rename, OwnerCalls, vars
<1>2. \A c \in Collections : counted_from'[c] # Absent =>
        counted_from'[c] = counted_from[c] /\ collection'[c] = collection[c]
  <2>1. CASE Tick \/ (\E a \in Assets : \E result : OwnerCalls(a, result)) \/ UNCHANGED vars
    BY <2>1 DEF Tick, OwnerCalls, vars
  <2>3. CASE \E k \in 1 .. reward_supply : BurnRewards(k)
    BY <2>3 DEF BurnRewards
  <2>2. CASE \E d \in Collections : Rename(d)
    <3> PICK d \in Collections : Rename(d)
      BY <2>2
    <3>1. /\ collection' = [collection EXCEPT ![d].mentioned = ~@]
          /\ counted_from' = [counted_from EXCEPT ![d] = Absent]
      BY DEF Rename
    <3>2. /\ collection \in [Collections -> Collection]
          /\ counted_from \in [Collections -> Int \cup {Absent}]
      BY DEF CInv, Inv, TypeOK
    <3> QED  BY <3>1, <3>2
  <2> QED  BY <2>1, <2>2, <2>3
<1> QED  BY <1>1, <1>2, SameCounts

LEMMA NextCounts == CInv /\ [Next]_vars => CInv'
<1> SUFFICES ASSUME CInv, [Next]_vars PROVE CInv'
  OBVIOUS
<1>0. Inv
  BY DEF CInv
<1>1. CASE \E p \in Points, m \in MaxStakes, f \in FreezePeriods : InitializeConfig(p, m, f)
  BY <1>1, ConfigCounts
<1>2. CASE \E u \in Users : InitializeUser(u)
  BY <1>2, UserCounts
<1>3. CASE \E u \in Users, a \in Assets : UserStep(u, a)
  <2> PICK u \in Users, a \in Assets : UserStep(u, a)
    BY <1>3
  <2>1. CASE Stake(u, a) \/ ClaimRewards(u, a) \/ Unstake(u, a)
    BY <2>1, StakeCounts, ClaimCounts, UnstakeCounts
  <2>2. CASE \/ \E v \in Users : OwnerTransfers(u, a, v)
            \/ OwnerAddsFreeze(u, a)
            \/ OwnerRemovesFreeze(u, a)
    <3>1. Inv'
      BY <1>0, <2>2, OwnerStep
    <3>2. \E result : OwnerCalls(a, result)
      BY <2>2 DEF OwnerTransfers, OwnerAddsFreeze, OwnerRemovesFreeze
    <3> QED  BY <3>1, <3>2, OtherCounts
  <2> QED  BY <2>1, <2>2 DEF UserStep
<1>4. CASE Tick
  BY <1>0, <1>4, TickStep, OtherCounts
<1>5. CASE \E c \in Collections : Rename(c)
  BY <1>0, <1>5, RenameStep, OtherCounts
<1>6. CASE UNCHANGED vars
  <2>1. Inv'
    BY <1>0, <1>6
    DEF vars, Inv, TypeOK, StakedMeansHeld, Accrual, EverySecondPaidOnce, Staked, Elapsed
  <2> QED  BY <1>6, <2>1, OtherCounts
<1>7. CASE \E k \in 1 .. reward_supply : BurnRewards(k)
  BY <1>0, <1>7, BurnStep, OtherCounts
<1> QED  BY <1>1, <1>2, <1>3, <1>4, <1>5, <1>6, <1>7 DEF Next

LEMMA CountsInvariance == Spec => []CInv
<1> QED  BY InitCounts, NextCounts, PTL DEF Spec

(***************************************************************************)
(* The stake accounts, the counters of the users and, as long as the       *)
(* search finds nothing else, the attributes of the collections agree on   *)
(* what is staked, and no counter passes the maximum.                      *)
(***************************************************************************)
THEOREM CountsCorrect == Spec => []CountsAgree
<1>1. CInv => CountsAgree
  BY DEF CInv
<1> QED  BY <1>1, CountsInvariance, PTL

\* Whatever else happens to the assets, as long as it leaves the staked ones
\* as they are.
LEMMA OthersKeepCounts ==
  ASSUME CInv, asset' \in [Assets -> Asset], StakedMeansHeld',
         UNCHANGED <<config, user_account, stake_account, collection, reward_supply,
                     now, since, paid, counted_from>>
  PROVE  CInv'
<1>1. TypeOK'
  BY DEF CInv, Inv, TypeOK
<1>2. Accrual' /\ EverySecondPaidOnce'
  BY DEF CInv, Inv, Accrual, EverySecondPaidOnce, Staked, Elapsed
<1>3. Inv'
  BY <1>1, <1>2 DEF Inv
<1> QED  BY <1>3, SameCounts

-----------------------------------------------------------------------------
(***************************************************************************)
(* The ways out of a staking.  unstake does one thing, for which it waits  *)
(* for what MayUnstake says: that this is all it takes for the action to   *)
(* be enabled is shown first, then when it is so.  The same of a claim.    *)
(***************************************************************************)
MayUnstake(u, a) ==
  /\ user_account[u] # Absent
  /\ Staked(a) /\ stake_account[a].owner = u
  /\ FreezePeriodOver(a)
  /\ Released(asset[a], u) # Failed

AfterUnstake(u, a) ==
  <<config,
    [user_account EXCEPT ![u].amount_staked = IF @ = 0 THEN 0 ELSE @ - 1],
    [stake_account EXCEPT ![a] = Absent],
    [collection EXCEPT ![CollectionOf[a]] = Updated(@, -1)],
    reward_supply,
    [asset EXCEPT ![a] = Released(@, u)],
    now, [since EXCEPT ![a] = 0], [paid EXCEPT ![a] = 0], counted_from>>

LEMMA UnstakeIs ==
  ASSUME NEW u \in Users, NEW a \in Assets
  PROVE  Unstake(u, a) <=> MayUnstake(u, a) /\ vars' = AfterUnstake(u, a)
BY DEF Unstake, MayUnstake, AfterUnstake, vars

Reward(a) == Elapsed(a) * config.points_per_stake

MayClaim(u, a) ==
  /\ user_account[u] # Absent
  /\ Staked(a) /\ stake_account[a].owner = u
  /\ Reward(a) \in 1 .. MaxU64
  /\ Mintable(Reward(a))
  /\ user_account[u].points + Reward(a) \in U64

AfterClaim(u, a) ==
  <<config,
    [user_account EXCEPT ![u].points = @ + Reward(a)],
    [stake_account EXCEPT ![a] = Advanced(@)],
    collection, reward_supply + Reward(a), asset, now, since,
    [paid EXCEPT ![a] = @ + Reward(a)], counted_from>>

LEMMA ClaimIs ==
  ASSUME NEW u \in Users, NEW a \in Assets
  PROVE  ClaimRewards(u, a) <=> MayClaim(u, a) /\ vars' = AfterClaim(u, a)
BY DEF ClaimRewards, MayClaim, AfterClaim, Reward, vars

\* unstake's calls succeed on every asset that the config PDA froze.
LEMMA ReleasedSucceeds ==
  ASSUME NEW x \in Asset, x.freeze = Config
  PROVE  Released(x, x.owner) # Failed
<1> DEFINE unfrozen == [x EXCEPT !.frozen = FALSE]
           removed == [unfrozen EXCEPT !.freeze = None]
<1>1. UpdateFreezeDelegate(x, Config, FALSE) = unfrozen
  BY FailedAssumption DEF UpdateFreezeDelegate
<1>2. Config # None
  BY StakingAssumption, MplCoreAssumption
<1>3. /\ unfrozen \in Asset /\ unfrozen.owner = x.owner
      /\ unfrozen.freeze = Config /\ ~unfrozen.frozen
  BY DEF Asset
<1>4. removed \in Asset
  BY <1>3 DEF Asset
<1> HIDE DEF unfrozen
<1>5. RemoveFreezeDelegate(unfrozen, x.owner) = removed
  BY <1>2, <1>3, FailedAssumption DEF RemoveFreezeDelegate
<1> HIDE DEF removed
<1> QED  BY <1>1, <1>4, <1>5, FailedAssumption DEF Released

(***************************************************************************)
(* The freeze period is the only gate of unstake: whatever was claimed,    *)
(* counted or done with MPL Core, the owner may unstake exactly when it is *)
(* over since the last claim.                                              *)
(***************************************************************************)
UnstakeOpen ==
  \A a \in Assets : Staked(a) =>
    (MayUnstake(stake_account[a].owner, a) <=> FreezePeriodOver(a))

LEMMA MayAlwaysUnstake == CInv => UnstakeOpen
<1> SUFFICES ASSUME CInv, NEW a \in Assets, Staked(a)
             PROVE  MayUnstake(stake_account[a].owner, a) <=> FreezePeriodOver(a)
  BY DEF UnstakeOpen
<1>1. /\ asset[a] \in Asset /\ asset[a].freeze = Config
      /\ asset[a].owner = stake_account[a].owner
      /\ user_account[stake_account[a].owner] # Absent
  BY DEF CInv, Inv, TypeOK, StakedMeansHeld, Counted
<1>2. Released(asset[a], stake_account[a].owner) # Failed
  BY <1>1, ReleasedSucceeds
<1> QED  BY <1>1, <1>2 DEF MayUnstake

\* No sequence of instructions bars an owner from unstake.
THEOREM UnstakeIsOpen == Spec => []UnstakeOpen
<1> QED  BY MayAlwaysUnstake, CountsInvariance, PTL

(***************************************************************************)
(* The owner of a staked asset may claim exactly when there is a reward    *)
(* and both counters it is added to have room for it, the supply of the    *)
(* reward mint and the user's points: these are two conditions, because    *)
(* burnt reward tokens leave the supply and not the points.  Nothing done  *)
(* to the asset, the counts or other stakings ever stands in the way, nor  *)
(* does the width of the product.                                          *)
(***************************************************************************)
ClaimOpen ==
  \A a \in Assets : Staked(a) =>
    (MayClaim(stake_account[a].owner, a)
       <=> /\ Reward(a) > 0
           /\ reward_supply + Reward(a) <= MaxU64
           /\ user_account[stake_account[a].owner].points + Reward(a) <= MaxU64)

LEMMA MayAlwaysClaim == CInv => ClaimOpen
<1> SUFFICES ASSUME CInv, NEW a \in Assets, Staked(a)
             PROVE  MayClaim(stake_account[a].owner, a)
                      <=> /\ Reward(a) > 0
                          /\ reward_supply + Reward(a) <= MaxU64
                          /\ user_account[stake_account[a].owner].points + Reward(a) <= MaxU64
  BY DEF ClaimOpen
<1> DEFINE u == stake_account[a].owner
<1>1. /\ u \in Users /\ user_account[u] # Absent /\ user_account[u] \in UserAccount
      /\ config \in StakeConfig /\ reward_supply \in U64
      /\ now \in Int /\ stake_account[a].last_update \in Int
  BY DEF CInv, Inv, TypeOK, Counted, Accrual, Staked, StakeAccount
<1>2. /\ user_account[u].points \in Nat /\ reward_supply \in Nat
  <2> HIDE DEF u
  <2>1. user_account[u].points \in U64
    BY <1>1 DEF UserAccount
  <2> QED  BY <1>1, <2>1, MaxU64Assumption DEF U64
<1>3. Reward(a) \in Int
  <2>1. Elapsed(a) \in Int /\ config.points_per_stake \in Int
    BY <1>1 DEF Elapsed, StakeConfig
  <2> QED  BY <2>1 DEF Reward
<1>4. ASSUME Reward(a) > 0
      PROVE  /\ Reward(a) \in 1 .. MaxU64 /\ Mintable(Reward(a))
                  <=> reward_supply + Reward(a) <= MaxU64
             /\ user_account[u].points + Reward(a) \in U64
                  <=> user_account[u].points + Reward(a) <= MaxU64
  BY <1>2, <1>3, <1>4, MaxU64Assumption DEF Mintable, U64
<1>5. Reward(a) \in 1 .. MaxU64 => Reward(a) > 0
  OBVIOUS
<1> QED  BY <1>1, <1>4, <1>5 DEF MayClaim

\* And from claim nothing but a reward of nothing, or one that does not fit.
THEOREM ClaimIsOpen == Spec => []ClaimOpen
<1> QED  BY MayAlwaysClaim, CountsInvariance, PTL

=============================================================================
