----------------------------- MODULE NftStaking -----------------------------
(***************************************************************************)
(* The staking program of Assignment_04: an asset is frozen in its owner's *)
(* wallet while staked, earns reward tokens by the second, and is released *)
(* when its freeze period is over.  Each instruction is one transaction:   *)
(* all of its calls take effect, or none.                                  *)
(***************************************************************************)
EXTENDS FixedWidth, FiniteSets, MplCore, CountAttribute

CONSTANTS
  Assets,
  Collections,
  CollectionOf,     \* the collection of each asset
  InitialCollections,   \* what a collection may be to begin with
  InitialOwner,
  Config,           \* the config PDA, the authority of the plugins stake adds
  Absent,           \* an account that does not exist
  Points,           \* the points_per_stake, max_stake and freeze_period
  MaxStakes,        \*   an admin may choose
  FreezePeriods,
  MaxTime           \* bound on the clock

ASSUME StakingAssumption ==
  /\ Config \in Authorities
  /\ CollectionOf \in [Assets -> Collections]
  /\ InitialCollections \subseteq Collection
  /\ InitialOwner \in [Assets -> Users]
  /\ IsFiniteSet(Assets)
  /\ Points \subseteq 0 .. 255
  /\ MaxStakes \subseteq 0 .. 255
  /\ FreezePeriods \subseteq Nat
  /\ MaxTime \in Nat

VARIABLES
  config,          \* the StakeConfig account
  user_account,    \* the UserAccount of each user
  stake_account,   \* the StakeAccount of each asset
  collection,      \* the MPL Core collections; the config PDA is the authority
                   \*   of their attributes, as documented
  reward_supply,   \* the supply of the reward mint
  asset,           \* the MPL Core assets
  now,             \* Clock::get()?.unix_timestamp
  since,           \* history: when each staked asset was staked
  paid,            \* history: what its staking has paid since
  counted_from     \* history: the count a collection began with, unless
                   \*   something else in it was ever taken for the count

vars == <<config, user_account, stake_account, collection, reward_supply,
          asset, now, since, paid, counted_from>>

StakeConfig ==
  [points_per_stake : 0 .. 255, max_stake : 0 .. 255, freeze_period : Nat]
UserAccount == [points : U64, amount_staked : 0 .. 255]
StakeAccount == [owner : Users, last_update : Nat]

ASSUME AbsentAssumption == Absent \notin StakeConfig \cup UserAccount \cup StakeAccount \cup Int

Staked(a) == stake_account[a] # Absent

-----------------------------------------------------------------------------
InitializeConfig(points_per_stake, max_stake, freeze_period) ==
  /\ config = Absent
  /\ config' = [points_per_stake |-> points_per_stake, max_stake |-> max_stake,
                freeze_period |-> freeze_period]
  /\ UNCHANGED <<user_account, stake_account, collection, reward_supply,
                 asset, now, since, paid, counted_from>>

InitializeUser(u) ==
  /\ user_account[u] = Absent
  /\ user_account' = [user_account EXCEPT ![u] = [points |-> 0, amount_staked |-> 0]]
  /\ UNCHANGED <<config, stake_account, collection, reward_supply,
                 asset, now, since, paid, counted_from>>

\* Mutant of Frozen: the second call is left out.
MutantFrozen(x, u) == AddFreezeDelegate(x, u, Config, FALSE)

\* The plugin is added, unfrozen, by the owner, then frozen by the config PDA.
Frozen(x, u) ==
  UpdateFreezeDelegate(AddFreezeDelegate(x, u, Config, FALSE), Config, TRUE)

\* stake
Stake(u, a) ==
  LET c == CollectionOf[a]
  IN  /\ config # Absent /\ user_account[u] # Absent
      /\ ~Staked(a)
      /\ user_account[u].amount_staked < config.max_stake
      /\ Frozen(asset[a], u) # Failed
      /\ asset' = [asset EXCEPT ![a] = Frozen(@, u)]
      /\ collection' = [collection EXCEPT ![c] = Updated(@, 1)]
      /\ stake_account' = [stake_account EXCEPT ![a] = [owner |-> u, last_update |-> now]]
      /\ user_account' = [user_account EXCEPT ![u].amount_staked = @ + 1]
      /\ since' = [since EXCEPT ![a] = now]
      /\ paid' = [paid EXCEPT ![a] = 0]
      /\ UNCHANGED <<config, reward_supply, now, counted_from>>

Elapsed(a) == now - stake_account[a].last_update

\* Mutant of Mintable: the amount is checked, not the sum.
MutantMintable(reward) == reward \in U64

\* mint_to fails when the supply would leave u64.
Mintable(reward) == reward_supply + reward \in U64

\* Mutant of Advanced: the reward cursor stays where it was.
MutantAdvanced(account) == account

Advanced(account) == [account EXCEPT !.last_update = now]

\* claim_rewards
ClaimRewards(u, a) ==
  LET reward == Elapsed(a) * config.points_per_stake
  IN  /\ user_account[u] # Absent
      /\ Staked(a) /\ stake_account[a].owner = u
      /\ reward \in 1 .. MaxU64
      /\ Mintable(reward)
      /\ user_account[u].points + reward \in U64
      /\ reward_supply' = reward_supply + reward
      /\ stake_account' = [stake_account EXCEPT ![a] = Advanced(@)]
      /\ user_account' = [user_account EXCEPT ![u].points = @ + reward]
      /\ paid' = [paid EXCEPT ![a] = @ + reward]
      /\ UNCHANGED <<config, collection, asset, now, since, counted_from>>

\* Mutants of FreezePeriodOver: measured from 0; off by one.
MutantFreezePeriodOver(a) == now >= config.freeze_period
LateFreezePeriodOver(a) == Elapsed(a) > config.freeze_period

FreezePeriodOver(a) == Elapsed(a) >= config.freeze_period

\* The config PDA unfreezes, then the owner removes the plugin.
Released(x, u) ==
  RemoveFreezeDelegate(UpdateFreezeDelegate(x, Config, FALSE), u)

\* unstake: what has not been claimed is lost.
Unstake(u, a) ==
  LET c == CollectionOf[a]
  IN  /\ user_account[u] # Absent
      /\ Staked(a) /\ stake_account[a].owner = u
      /\ FreezePeriodOver(a)
      /\ Released(asset[a], u) # Failed
      /\ asset' = [asset EXCEPT ![a] = Released(@, u)]
      /\ collection' = [collection EXCEPT ![c] = Updated(@, -1)]
      /\ user_account' =
           [user_account EXCEPT ![u].amount_staked = IF @ = 0 THEN 0 ELSE @ - 1]
      /\ stake_account' = [stake_account EXCEPT ![a] = Absent]
      /\ since' = [since EXCEPT ![a] = 0]
      /\ paid' = [paid EXCEPT ![a] = 0]
      /\ UNCHANGED <<config, reward_supply, now, counted_from>>

-----------------------------------------------------------------------------
(***************************************************************************)
(* What goes on outside the program: time passes, whoever holds reward     *)
(* tokens burns some, and owners use MPL Core directly.                    *)
(***************************************************************************)
Tick ==
  /\ now < MaxTime
  /\ now' = now + 1
  /\ UNCHANGED <<config, user_account, stake_account, collection,
                 reward_supply, asset, since, paid, counted_from>>

BurnRewards(amount) ==
  /\ amount <= reward_supply
  /\ reward_supply' = reward_supply - amount
  /\ UNCHANGED <<config, user_account, stake_account, collection,
                 asset, now, since, paid, counted_from>>

OwnerCalls(a, result) ==
  /\ result # Failed
  /\ asset' = [asset EXCEPT ![a] = result]
  /\ UNCHANGED <<config, user_account, stake_account, collection,
                 reward_supply, now, since, paid, counted_from>>

\* The collection gets a name or a URI that holds the text, or no longer does.
Rename(c) ==
  /\ collection' = [collection EXCEPT ![c].mentioned = ~@]
  /\ counted_from' = [counted_from EXCEPT ![c] = Absent]
  /\ UNCHANGED <<config, user_account, stake_account, reward_supply, asset, now,
                 since, paid>>

OwnerTransfers(u, a, v) == OwnerCalls(a, TransferAsset(asset[a], u, v))
OwnerAddsFreeze(u, a) == OwnerCalls(a, AddFreezeDelegate(asset[a], u, u, FALSE))
OwnerRemovesFreeze(u, a) == OwnerCalls(a, RemoveFreezeDelegate(asset[a], u))

-----------------------------------------------------------------------------
Init ==
  /\ config = Absent
  /\ user_account = [u \in Users |-> Absent]
  /\ stake_account = [a \in Assets |-> Absent]
  /\ collection \in [Collections -> InitialCollections]
  /\ reward_supply = 0
  /\ asset = [a \in Assets |-> NewAsset(InitialOwner[a])]
  /\ now = 0
  /\ since = [a \in Assets |-> 0]
  /\ paid = [a \in Assets |-> 0]
  /\ counted_from = [c \in Collections |->
                       IF Unambiguous(collection[c]) THEN ShownCount(collection[c])
                                                     ELSE Absent]

UserStep(u, a) ==
  \/ Stake(u, a)
  \/ ClaimRewards(u, a)
  \/ Unstake(u, a)
  \/ \E v \in Users : OwnerTransfers(u, a, v)
  \/ OwnerAddsFreeze(u, a)
  \/ OwnerRemovesFreeze(u, a)

Next ==
  \/ \E p \in Points, m \in MaxStakes, f \in FreezePeriods : InitializeConfig(p, m, f)
  \/ \E u \in Users : InitializeUser(u)
  \/ \E u \in Users, a \in Assets : UserStep(u, a)
  \/ \E c \in Collections : Rename(c)
  \/ \E amount \in 1 .. reward_supply : BurnRewards(amount)
  \/ Tick

Spec == Init /\ [][Next]_vars

-----------------------------------------------------------------------------
TypeOK ==
  /\ config \in StakeConfig \cup {Absent}
  /\ user_account \in [Users -> UserAccount \cup {Absent}]
  /\ stake_account \in [Assets -> StakeAccount \cup {Absent}]
  /\ collection \in [Collections -> Collection]
  /\ reward_supply \in U64
  /\ asset \in [Assets -> Asset]
  /\ now \in 0 .. MaxTime
  /\ since \in [Assets -> 0 .. MaxTime]
  /\ paid \in [Assets -> Nat]
  /\ counted_from \in [Collections -> Int \cup {Absent}]

(***************************************************************************)
(* A stake record stands for an asset that its owner still holds and that  *)
(* nobody but this program can unfreeze, whatever the owner does with MPL  *)
(* Core meanwhile.                                                         *)
(***************************************************************************)
StakedMeansHeld ==
  \A a \in Assets : Staked(a) =>
    /\ asset[a].owner = stake_account[a].owner
    /\ asset[a].freeze = Config /\ asset[a].frozen

(***************************************************************************)
(* The three records of how much is staked agree: the stake accounts, the  *)
(* counter of each user, which never passes the maximum, and the attribute *)
(* of each collection, as long as the search finds nothing else: it shows  *)
(* what is staked besides the count the collection began with.             *)
(***************************************************************************)
CountsAgree ==
  /\ \A u \in Users : user_account[u] # Absent =>
       user_account[u].amount_staked
         = Cardinality({a \in Assets : Staked(a) /\ stake_account[a].owner = u})
  /\ \A u \in Users : user_account[u] # Absent /\ config # Absent =>
       user_account[u].amount_staked <= config.max_stake
  /\ \A c \in Collections : counted_from[c] # Absent =>
       ShownCount(collection[c])
         = counted_from[c] + Cardinality({a \in Assets : Staked(a) /\ CollectionOf[a] = c})

(***************************************************************************)
(* No second of a staking is paid twice and none is skipped: what has been *)
(* claimed and what can still be claimed add up to points_per_stake for    *)
(* every second since the asset was staked.                                *)
(***************************************************************************)
EverySecondPaidOnce ==
  \A a \in Assets : Staked(a) =>
    paid[a] + Elapsed(a) * config.points_per_stake
      = (now - since[a]) * config.points_per_stake

(***************************************************************************)
(* freeze_period is a minimum: an asset leaves no sooner after being       *)
(* staked, however its owner mixes stakes, claims and unstakes.            *)
(***************************************************************************)
LockedForPeriod ==
  [][\A a \in Assets : Staked(a) /\ stake_account'[a] = Absent
       => now - since[a] >= config.freeze_period]_vars

(***************************************************************************)
(* The freeze period is the only gate of unstake: nothing owed, claimed,   *)
(* counted or done to the asset keeps an owner from it afterwards.         *)
(***************************************************************************)
FreezePeriodIsOnlyGate ==
  \A a \in Assets :
    Staked(a) /\ Elapsed(a) >= config.freeze_period
      => ENABLED Unstake(stake_account[a].owner, a)

(***************************************************************************)
(* Claiming is documented to leave unstaking open: an asset staked for the *)
(* whole period may be unstaked right after a claim.                       *)
(***************************************************************************)
UnstakeAfterClaim ==
  \A a \in Assets :
    Staked(a) /\ now - since[a] >= config.freeze_period
      => ENABLED Unstake(stake_account[a].owner, a)

=============================================================================
