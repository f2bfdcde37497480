# TLA+ models and proofs of the Turbine assignments

This directory specifies the Solana programs and the client scripts of this
repository in TLA+, checks them with TLC on small instances and proves theorems
about them with TLAPS. `PROJECT.json` is the index: the components, the runs, the
source lines behind each definition, the hazards the properties are for, the
findings and the theorems.

    tlc -workers 2 -config MCAmm.cfg MCAmm     # one run
    tlapm Amm_proofs.tla                       # one proof module

## 1. Inventory

The repository holds six independent on-chain programs and two client scripts. A
program is passive: it acts when a client sends a transaction, one instruction
handler at a time, and keeps its state in accounts. No program schedules
anything, so for the programs there is no fairness to assume; what takes the
place of liveness is that a way out *stays open*: in every reachable state the
instruction by which a user gets something back is enabled (`ENABLED`). The loop
of `integer_sqrt` and the scripts do run by themselves, and for these liveness is
stated and checked.

| part | state it keeps | operations | modules |
|---|---|---|---|
| market maker, Assignment_05 | `Pool` (with `lp_supply`), its vaults and whatever other token accounts it is the authority of, the LP mint, LP and token accounts | `initialize`, `deposit`, `swap`, `burn_lp`, `withdraw`; `integer_sqrt` | `IntrospectionAmm`, `NewtonRoot` |
| market maker, Assignment_03 | `Config` (fee), two vaults, the LP mint, LP and token accounts | `initialize`, `add_liquidity`, `remove_liquidity`, `swap`; `integer_sqrt` on u128 | `Amm`, which implements `ConstantProductPool`; `NewtonRoot` |
| NFT staking, Assignment_04 | `StakeConfig`, `UserAccount`, `StakeAccount`, the reward mint, the attributes of the collection | `initialize_config`, `initialize_user`, `stake`, `claim_rewards`, `unstake` | `NftStaking`, `CountAttribute`, `MplCore` |
| NFT marketplace, Assignment_04 | `Marketplace`, `Listing`, `Offer`, treasuries, wallets | `initialize`, `list`, `delist`, `buy`, `buy_with_token`, `make_offer`, `accept_offer`, `cancel_offer` | `NftMarketplace`, `MplCore` |
| both NFT programs together | the MPL Core assets | all of the above | `NftPrograms`, which implements `AssetCustody` |
| escrow, Assignment_02 | `Escrow`, its vault, token accounts | `make`, `take`, `refund` | `AnchorEscrow` |
| vault, Assignment_02 | `VaultState`, the lamports at the vault address | `initialize`, `deposit`, `withdraw`, `close` | `AnchorVault` |
| client scripts, Assignment_01 | `wallet.json`, the balances and mints of its key pair | `loadOrCreateKeypair`, `ensureFunded`, the steps of `mint-spl-token` and `mint-nft` | `MintScripts` |

Not modelled: the deployment stubs and generated tests, which were read as
documentation; the vendored `mpl_core.so`, of which `MplCore` states what the two
NFT programs rely on.

**Interactions.** The programs call the token, associated-token, system and MPL
Core programs, never each other. Staking and marketplace meet in the MPL Core
assets: both add, use and remove plugins of the same assets, and `NftPrograms`
composes them. Within the market maker of Assignment_05, `withdraw` reads the
instructions sysvar to learn what the instruction before it burned: an
interaction of two handlers through the transaction they are part of. In every
program the users also work on the shared accounts directly, through the token
program (burn LP or reward tokens, transfer to a vault, close an account), the system program (send
SOL to a vault, a treasury or an offer) and MPL Core (transfer, add or remove a
plugin, rename a collection). Each model has these as actions of their own, since
this is where the orders nobody wrote a test for come from. The scripts share a
file and a key pair with each other, and talk to a network that may lose answers
and let transactions expire.

**What is hard, and what makes each part correct.**

* *Assignment_05.* Burning and paying are two instructions. They may be split
  over transactions, repeated, separated, mixed between pools and users, invoked
  by another program, and rolled back together. `pool.lp_supply` is a copy of the
  mint's supply that other burns do not reach. `swap` takes any two token accounts
  of the pool. Correct means: what is paid for was burned just before and from the
  same pool, and no instruction dilutes the shares that stay. Section 3 says what
  of this the code leaves to its clients.
* *`integer_sqrt`.* Sums wrap around at the largest u64 (Assignment_05 builds
  without overflow checks), a guess of 0 would be divided by, and the result is
  cast. Correct means: it ends, with the root rounded down, and fails for one
  argument at most.
* *Assignment_03.* Shares, payouts and prices are rounded and truncated one by
  one; donated tokens and burned LP tokens change the ratios between calls; the
  vaults are whatever accounts the client passes. Correct means: given the pool's
  vaults, every instruction keeps the promises of a constant-product pool, and
  does not empty it while shares exist.
* *Staking.* One timestamp serves as reward cursor and as start of the lock;
  what is staked is recorded three times, once in an attribute that is found by
  searching the bytes of an account for its name; the owner keeps the asset and
  may call MPL Core meanwhile, and rewards are tokens that holders may burn. Correct means: the records agree, a staked asset
  is held and frozen, every second is paid once, the lock is a minimum and the
  only gate.
* *Marketplace.* Several marketplaces over the same assets, offers that outlive
  listings and owners, payment in two currencies, lamports moved by hand, a
  treasury below the rent minimum. Correct means: a listing stands for an asset
  its seller holds, a sale is settled in full in one step, money is conserved,
  the seller can delist, and nothing but rent keeps a sale in SOL from going
  through.
* *Both NFT programs.* Each takes custody of assets it does not hold. Correct
  means: an asset is in one custody at a time, and changes hands only by a sale.
* *Escrow.* Seeds are used again, the vault's address can be created or sent to
  by anyone, token accounts come and go. Correct means: the swap is all or
  nothing, what was locked stays covered, and the maker can call it off.
* *Vault.* The address holds SOL whether or not the vault is open, the runtime
  refuses balances below the rent minimum, and `close` returns early on an empty
  vault. Correct means: every lamport is accounted for and can be taken out.
* *Scripts.* The wallet file is looked for, opened and written in three steps,
  by several runs at once;
  the balance is checked once and spent by several runs; an answer can be lost
  and a transaction can land after its sender is gone. Correct means: nothing is
  minted twice or stranded, every run ends, and one that is started again does
  its work.

## 2. Modules

| module | role |
|---|---|
| `FixedWidth` | `U64`, `MaxU128`, the truncating cast `AsU64`, `MulDiv`, `IntegerSqrt`; the largest u64 is the constant `MaxU64`, so that TLC reaches the overflows |
| `NewtonRoot` | the loop of `integer_sqrt`, step by step, on u64 and on u128 |
| `IntrospectionAmm` | Assignment_05, with transactions of several instructions |
| `ConstantProductPool` | abstract specification: what a pool promises, whatever its formulas |
| `Amm` | Assignment_03; `Pool == INSTANCE ConstantProductPool WITH x <- token_x[Vault], ...` |
| `MplCore` | the MPL Core calls: operators that return the asset, or `Failed` |
| `CountAttribute` | a collection's attributes, and how the staking program finds and writes its count among them |
| `NftStaking`, `NftMarketplace` | the two programs of Assignment_04 |
| `AssetCustody` | abstract specification: what programs that hold assets in custody owe to owners and to each other |
| `NftPrograms` | both programs over one variable `asset`; `Custody == INSTANCE AssetCustody WITH ...` |
| `AnchorUsers` | the users and the amounts, which the two programs of Assignment_02 share |
| `AnchorEscrow`, `AnchorVault` | the two programs of Assignment_02 |
| `MintScripts` | the two scripts of Assignment_01, several runs at a time |
| `Arithmetic` | lemmas on products, quotients, casts, least numbers and sums; the theorem on `IntegerSqrt` |
| `*_proofs` | the theorems about one module each; `Amm_proofs` has those about `ConstantProductPool` and `NewtonRoot` too, `Anchor_proofs` those about both programs of Assignment_02 |
| `MC*` | instances for TLC |

**How a handler becomes an action.** An instruction handler is one action named
after it. Its guard holds the Anchor constraints of its accounts struct (the
account exists, `init` finds none, `has_one`, `close`), the `require!`s, every
`checked_` operation and every condition under which a called program fails; if
one does not hold, the runtime discards the transaction and nothing changes, so
there is no action. Its primed variables are what the handler and the programs
it calls write. In Assignment_03, staking, marketplace, escrow and vault an
action is a whole transaction, as every promise stated there is about a step or
about the state between steps, and therefore carries over to transactions of
several instructions. In `IntrospectionAmm` it is not: there an action is one
instruction, run at top level or (`cpi`) invoked by the program that the current
top-level instruction called, `tx` is what the instructions sysvar shows of the
transaction under way (top-level instructions only), `Commit` ends it, and `Abort`
restores `saved`, as the runtime does when some instruction of it fails. Transactions on the same accounts are serialised by
the runtime's locks, so one is under way at a time.

**How a script becomes actions.** A script is split where another run, the
network or the end of the process can come in between: the look for the file,
its opening (which truncates it) and its writing (from the start, over what
another run may have written since, so that the result may hold a piece of each); the balance and the airdrop;
the sending of each transaction and the arrival of its answer. `Land` and
`Expire` are the network's steps and do not need the run to be alive. `Dies`
stands for a killed process and for a call that throws, which `main().catch`
turns into the end of the script. `AnswerLost` and `AirdropInDoubt` are the two
places where the code, or the library it calls, goes on or gives up without
knowing what happened.

Operators named `Mutant...`, `Unchecked...`, `Free...`, `Late...` or `Whole...`
stand before the definition they are a variant of. No specification uses them:
each shows that some property would notice a plausible mistake in the code.

**Abstractions.**

* Clients pass the accounts the handlers' constraints and comments describe, but
  for the vaults of Assignment_03 and those of `swap` in Assignment_05, which the
  code does not tie to the pool: there the models let clients pass any account
  that the called programs accept (`Holders`, `TokenAccounts`). Of the accounts
  besides the vaults that a pool has authority over, `Amm` has one for each mint
  (`Spare`) and `IntrospectionAmm` those of its constant `Others`. An account whose
  owner approved the config as a delegate would be paid out of as `Spare` is;
  delegates of the token program are otherwise left out. One mutable account
  passed twice is refused by Anchor (version 1.0.2 in every `Cargo.lock`), which
  is external to this repository; `CanSend`, `Swap` and `DistinctAtas` say so.
* The rent that an account's creator pays and gets back when it closes is left
  out, but for the vault's state. Balances that the runtime's rent rule can
  refuse (the vault address, the treasury) keep that rule; transaction fees, and
  the rule for the wallets in the marketplace, are left out.
* LP tokens do not move between users other than through burn and mint; no
  handler depends on who else holds them. Token-2022 mints with transfer fees
  are left out.
* The escrow can be made between equal mints, though nobody can take it then, as
  no maker can take an escrow of their own (`DistinctAtas`); its accounts may be
  created early. The marketplace allows a buyer who is the seller.
* Reward tokens are minted and burned; who holds them is left out, and so is a
  user who closes the token account that a claim pays to or gives it away.
* A collection carries an Attributes plugin with the config PDA as its authority,
  as the staking README describes. Of the bytes that are searched the model keeps
  what the search can tell apart: whether name or URI hold the text
  `staked_count` (followed by no number), and for each attribute whether its key
  holds the text, ends in it, or is it, and the number its value spells. Counts
  near the ends of i64 are left out.
* In the scripts SOL is counted in costs of a transaction; the recent blockhash
  is only that a transaction may expire.
* Names, URIs, events, logs and error codes are left out.
* Variables marked *history* (`again`, `own`, `since`, `paid`, `counted_from`,
  `deposited`, `gifts`) are written and never read by an action.

## 3. Runs

TLC finishes every run in less than three minutes with two workers.

| run | question and answer | bounds |
|---|---|---|
| `introspection` | `TypeOK`, `BurnsMatched`, `SharesUndiluted` over all transactions of up to four instructions, invoked ones, burns of another pool and swaps with a foreign token account included | one user, two pools with a mint in common and an account of the first for the other's mint (`Foreign`), two tokens of each kind and one of the last; amounts 1 and 2, up to three shares (`MaxShares`); four instructions are the fewest that hold a burn, the call of a program and two withdraws within it |
| `root` | `RootTypeOK`, `RootCorrect`, `FailsOnlyAtTop`, `OperatorAgrees`, `Terminates` | every u64 and every product of two u64s, for integers of six bits |
| `introspection_swap` | **violated**: `SwapKeepsProduct` | one instruction at a time is enough |
| `introspection_wide` | **violated**: `DepositMintsProRata` | integers of five bits in place of 64, so that a quotient outgrows them |
| `amm` | `TypeOK`, `Backed`, `ImplementsPool` | one user with eight tokens of each kind and any of the accounts as the vaults; fees of 0.3%, 100% and above 100% |
| `staking` | `TypeOK`, `StakedMeansHeld`, `CountsAgree`, `EverySecondPaidOnce`, `FreezePeriodIsOnlyGate`, `LockedForPeriod` | two users, two assets of one collection, three seconds, periods 0 to 2, at most 1 or 2 stakes, 0 or 2 points, a reward supply that can overflow (`MaxU64 = 7`) and be burned; the collection starts without attributes, with a count among others, or with a key or a name that misleads the search |
| `staking_claim` | **violated**: `UnstakeAfterClaim` | the same |
| `marketplace` | `TypeOK`, `ListedMeansHeld`, `SellerMayDelist`, `MoneyConserved`, `SolSalesOpen`, `SalesSettled` | two users, one asset, two marketplaces, SOL and one token; fees of 50% and above 100%; prices and offers whose fee is at and below the rent minimum; one lamport sent to an offer; symmetry of the marketplaces |
| `nft_programs` | `BothHold`, `ExitsStayOpen`, `ImplementsCustody` | two users, one asset between staking and one marketplace |
| `escrow` | `TypeOK`, `TokensConserved`, `DepositsCovered`, `RefundStaysOpen`, `AtomicSwap` | two users with a seed each, two mints, two tokens of each, prices and deposits 0 to 2 |
| `vault` | `VaultTypeOK`, `LamportsAccounted`, `ExitsStayOpen` | two users with six lamports, a rent minimum of 2 |
| `scripts` | `TypeOK`, `NothingStranded`, `MintedOnce`, `StaysFunded`, `RunsEnd`, `RerunSucceeds` | one run of `mint-spl-token` and two of `mint-nft`, over a wallet file that is missing or holds a key pair with enough SOL or one transaction too little; one thing that goes wrong (`MaxFaults`) |

*Why the bounds are enough.* What can go wrong here needs two parties (maker and
taker, seller and buyer, two runs), a repeated use (two seedings, two claims, a
second sale, a run again), and a number at a boundary (0, the width of the
integers, the rent minimum, 100%, what `ensureFunded` asks for). Each instance
holds two of whatever must be told apart, lets every account be closed and opened
again, and has amounts on both sides of each boundary. Balances are finite
because no instruction creates tokens; the bounds on counters are `MaxTime` on
the clock, `MaxIxs` on the length of a transaction, `MaxShares` on the shares of a pool
of Assignment_05 (the theorems hold for `MaxShares = MaxU64`), `MaxSurplus` on what
strangers add to an offer, and `MaxFaults` on what goes wrong with the scripts.
`introspection` and `amm` have one user, so that four instructions over two pools,
and every choice of vaults, fit: no formula of these programs looks at who the
holder is, and the theorems about them are for any number of users.

In `scripts`, `MinSol` is what ensureFunded asks for, in costs of a transaction:
five, the number that the three runs send together. `StaysFunded` holds as
long as what is asked for covers all the runs that share the balance, as the 1
SOL of the code does for hundreds of them.

*Fairness.* Two runs have a liveness property. `root`: weak fairness of the whole
next-state relation, as a handler that was called is not suspended for ever.
`scripts`: weak fairness of `Progress(r)` for each run, since Node goes on with a
script until it ends and each call it waits for is answered or expires with its
blockhash. Progress has no step by which a run is started and none by which
something goes wrong: nobody has to run a script, and no failure is owed.
`RunsEnd` then says that whatever is started ends. `RerunSucceeds` says what the
scripts tell their user to rely on ("Then re-run this script"): once nothing goes
wrong any more and nobody is about to empty the wallet file or to write over it,
a run that reads it ends with its mint done.

*Deadlock.* It is checked everywhere but in the staking runs, where the clock
stops at `MaxTime` and the users may have nothing left to do, and in `root` and
`scripts`, where everything that runs comes to its end.

**What the violations show.**

1. `introspection_swap`: `swap.rs:19` takes the reserves as `(vault_out, vault_in)`
   for a swap of b for a, although `vault_in` is already the vault of the token
   that is sent. The trade is priced with the reserves exchanged and can lower
   their product. `SharesUndiluted` is therefore stated for the swaps whose
   formula is given the reserves in the order of the accounts (`PricedSwap`), and
   for every other instruction.
2. `introspection_wide`: `deposit.rs:24` casts the u128 share count back to u64
   before the smaller of the two is taken; the high bits are lost.
3. `staking_claim`: the staking README says that an unstake right after a claim
   succeeds, subject to the freeze period, and that the period is a minimum lock.
   The claim moves the timestamp from which the period is measured, so a claim
   starts the lock again.

**What the programs leave to their clients.** Some promises hold on a condition
that the code does not enforce. The models have the steps that break it, the
properties state the condition, and nothing is claimed beyond it.

* *Assignment_03, `vault_x` and `vault_y`* (`lib.rs:373`, `412`, `447`) are
  constrained by `mut` alone. Priced by the balances of other accounts, or paid
  into them, an instruction keeps no promise to the pool. `Backed` is stated while
  every instruction was given the pool's vaults (`own`), and `ImplementsPool` of
  every step that is given them, whatever was done before.
* *Assignment_05, `vault_in` and `vault_out`* (`swap.rs:85`) are any two token
  accounts of the pool. `SharesUndiluted` is stated of the swaps given the pool's
  two vaults; in every state that other swaps lead to, the other instructions are
  checked all the same.
* *Assignment_05, one burn paid for twice.* `withdraw` (`withdraw.rs:20`) reads the
  index of the top-level instruction, and does not ask whether it is one itself. A
  program called just after `burn_lp` can invoke it more than once, and each time it sees
  the same burn. `BurnsMatched` counts these payments (`again`) and says that
  nothing else is paid for without a burn: not after an instruction in between,
  not from another pool, and not twice at top level.

Smaller disagreements have no run of their own.

* `state.rs:16` of Assignment_05 says that `lp_supply` mirrors the mint's supply,
  which a burn without a withdraw ends. What does hold, unless a burn is paid for
  twice as above, is that it never falls below it (`CountedInFull`).
* The marketplace README (line 22) says that a seller may delist "at any time
  before a sale". The owner of a listed asset can remove the transfer delegate
  with MPL Core (it is owner-managed), and `delist`, which removes it last, fails
  until one is added again; `SellerMayDelist` makes the exception, and
  `DelistIsOpen` says that there is no other.
* `accept_offer.rs:79` comments that closing the offer pays the seller, where the
  account says `close = buyer`; `SalesSettled` states what the code does.
* The marketplace README says of `buy` "Pay the listed SOL price; marketplace
  transfers NFT to buyer". A fee above 0 and below the rent minimum, paid to a
  treasury that is still empty (`buy.rs:36`), makes the runtime refuse the
  purchase, whoever buys, until somebody funds the treasury; `SolSalesOpen`
  states that this is the only obstacle.
* The staking README says that `stake` increments the count. In a collection
  whose name, or whose other attributes, hold the text of the key, the search
  finds the wrong place, and the count starts again at 0; `CountsAgree` holds for
  the collections in which the text is nowhere else.
* `mint-nft.ts:15` speaks of the "same wallet as SPL script", which does not hold
  when the first runs of the two scripts overlap and both find no `wallet.json`:
  one then works with a key pair that is not saved. `NothingStranded` makes the
  exception. A run that is killed while it writes the file leaves one that no
  later run can parse; no SOL and no mint belong to its key pair. Two runs that
  write at the same time may leave such a file, too: each writes from the start,
  and the end of the longer text stays behind the shorter one. `RerunSucceeds`
  asks for a readable file and for no run that is about to write.

## 4. Proofs

Each theorem holds for every value of the constants under the named `ASSUME`s of
its module, all of which TLC evaluates in the runs.

They ask for no more than the chain and the scripts give: finitely many
accounts, a total supply of each token and of SOL that a u64 can hold, treasuries
that start empty or with the rent minimum (`TreasuryAssumption`), and, for
the scripts, that one airdrop pays for the planned transactions of all runs
(`FundsAssumption`). Assumptions about `Absent`, `Failed` and the like
(`AbsentAssumption`, `FailedAssumption`, `PaymentAssumption`) say that what stands
for "no value" is none.

**Exits, in five of the modules.** The prover knows nothing of `ENABLED`, so that an
exit stays open is proved in two steps. First, for the instruction `X` a state
predicate `MayX` is stated, with the next values of all variables, and a lemma
(`RefundIs`, `TakeIs`, `UnstakeIs`, `ClaimIs`, `DelistIs`, `BuyIs`,
`BuyWithTokenIs`, `AcceptOfferIs`, `CloseIs`, `WithdrawIs`) shows that the action is
`MayX` together with `vars' = ` these values, and nothing more: there is a step `X`
exactly when `MayX` holds. Then a theorem says, of every reachable state, what
`MayX` comes to there. These theorems state more than the invariants that TLC
checks with `ENABLED`: they name everything that can bar the way out.

**`Arithmetic`.** Bounds of quotients and of their casts from the definition of
`\div`, and the products and quotients the pools compare. Products of variables
are beyond the SMT solver in context, so each is a lemma on plain integers that
the proofs cite. Two kinds of recursion are dealt with here once, each with a
least counterexample (`SmallestSet`, `LeastNumber`) in place of an induction:

* *Sums.* `SumFunction` folds over a set in an order that `CHOOSE` decides.
  `SumIsUnits` shows that it counts the pairs of a member and a unit it has, a
  plain cardinality, from which follow the sums of a transfer (`SumTransfer`), of
  one change (`SumOneChanges`), and that no member has more than the sum
  (`SumBound`).
* *The root.* `IntegerSqrtCorrect`: the operator that both market makers use for
  `integer_sqrt` is the root rounded down, for every natural number.

**`IntegerSqrt` and the loop, in `Amm_proofs`.** `RootTypeCorrect`,
`RootIsCorrect` (`RootCorrect`), `OneFailure` (`FailsOnlyAtTop`) and
`OperatorIsLoop` (`OperatorAgrees`) for every width of the integers. The
invariant (`RootInv`) is that the root is below `x + 1`, which the inequality of
the means keeps from one guess to the next (`MeansCompared`, `NextGuessAbove`),
and that `y` is the guess that follows `x`. A loop that stops with `y >= x`
therefore has `x * x <= n` (`LastGuessBelow`). No sum after the first wraps
around (`NextGuessBounds`). That it ends is proved as far as a safety property
goes: every step lowers `RootRank` (`RootDescends`), and there is a step wherever
the loop has not ended (`RootNeverStuck`).

**`IntrospectionAmm_proofs`.** `TypeCorrect`, `Redemption` (`BurnsMatched`) and
`Undilution` (`SharesUndiluted`) for any number of pools, users, token accounts
and instructions in a transaction. `BurnsMatched` is not inductive alone: `Abort`
goes back to `saved`, so the types of `saved` are part of the invariant, and the
step of `Withdraw` needs that `tx` describes a burn with an amount in range. The
proof goes instruction by instruction: initialize and deposit raise `lp_supply`
and the supply together, a burn lowers the supply by what becomes redeemable, and
a withdraw lowers `lp_supply` by exactly that and leaves nothing to redeem, or, if
it is invoked again for the same burn, adds it to `again`; what becomes redeemable
as a transaction moves on is never more than was (`RedeemableAfter`).
`CountedInFull`: as long as no burn is paid for twice, `lp_supply` never falls
below the supply of the LP mint. `Undilution` follows from the same invariant: an
instruction touches the vaults of one pool only, and there a deposit and a
withdraw keep what each share claims of either vault, whatever the rounding and
the cast (`DepositUndiluted`, `WithdrawUndiluted`), a swap of a for b raises the
product of the vaults (`SwapProduct`), and the rest leaves it or raises it.
Two theorems draw the line around the disagreements the runs find:
`SwapOfAKeepsProduct`, that every swap with `a_to_b` keeps the product of the two
accounts it is given, whatever they are, and `DepositIsProRata`, that a deposit
mints the documented number of shares whenever both quotients fit in a u64.

**`Amm_proofs`.** First the abstract pool by itself: `PoolBacked` and
`PoolKeepsValue`. Then `TypeCorrect`, `AlwaysBacked` and `Implements`: each
instruction that is given the pool's vaults, and each burn or transfer of a user,
maps to `Open`, `Resize`, `Close`, `Trade` or `Donate`. No condition on the
state is needed for this but `TypeOK`, since the formulas of the program ask for
reserves above 0 themselves; `Backed` follows as long as `own` holds, from the
invariant of the abstract pool. Two theorems say what this amounts to:
`ImplementsInFull`, that a program which is only ever given the pool's vaults
implements the abstract pool as it stands, and `ShareValueKept`, that no such step
lowers the value of a share, whatever was done before with other accounts.

**`NftStaking_proofs`.** `TypeCorrect`, `StakeHolds` (`StakedMeansHeld`),
`CountsCorrect` (`CountsAgree`), `RewardsExact` (`EverySecondPaidOnce`) and
`LockHolds` (`LockedForPeriod`). The strengthening is `Accrual`: an asset is
staked only once there is a config, its `last_update` lies between the time of
staking and now. `LockHolds` follows, since the period is
measured from `last_update`, which is no earlier than `since`. For the counts the
invariant also has `Counted`: whoever staked has an account, and a collection
whose history is known holds the text of the key in one place, so that what the
search finds is what the attribute shows (`ParsedShown`). The cardinalities
change by one with the set of what is staked, which the library's theorems on
finite sets give. The argument uses of MPL Core that only a plugin's authority
unfreezes and that a frozen asset neither moves nor loses the plugin.
The exits: `UnstakeIsOpen`, that the owner of a staked asset may unstake it exactly
when the freeze period is over since the last claim, rests on the counts too, as
no counter may be at 0 and no attribute out of reach (`ReleasedSucceeds`).
`ClaimIsOpen`: a claim is open exactly when the reward is above 0 and both the
supply of the reward mint and the points of the user have room for it. These are
two conditions: burned rewards leave the supply, and not the points.

**`NftMarketplace_proofs`.** For any number of marketplaces, users and currencies:

* `ListingHolds` (`ListedMeansHeld`). With the types of listings and assets it is
  inductive. `OneListing` is the heart of it: a step that changes one listing and
  its asset together leaves no other listing of that asset behind, since the
  asset could be frozen by one marketplace only.
* `MoneyIsConserved` (`MoneyConserved`). Wallets, treasuries and offers are three
  sums, one of them over a sum. A payment is a chain of transfers, any of which
  may be to the account the last one came from (a seller who buys), so the lemmas
  are about one transfer (`PayMoves`) and the settlement made of two
  (`SettledPays`); `OneOffer` changes one summand of the offers. `MarketsOK` says
  that a fee is at most what is paid, without which the subtraction of the fee
  would not be one of naturals.
* `TypeCorrect`. That a balance stays a u64 is not inductive: it follows from the
  sum, as nobody has more than there is (`BalancesFit`).
* `SalesAreSettled` (`SalesSettled`). `OnlySales`: a listed asset changes hands in
  one of three instructions and in no other step; then each is shown to pay what
  `SalePaid` asks for, the cases of a buyer who is the seller included.
* `TreasuriesRentExempt`: a treasury holds nothing, or the rent minimum. It is
  what makes rent a matter of the first fees only.
* `DelistIsOpen` and `SalesAreOpen`. The seller can delist unless the owner took
  the transfer delegate away. A buyer with the price can buy, and the seller can
  accept any offer that stands, whoever made it and when, with the same exception
  and one more: in SOL, a fee that would leave an empty treasury below the rent
  minimum. That the payments of a sale succeed comes down to two transfers in a
  row, from accounts that may be the same (`TwoPaysSucceed`).

**`NftPrograms_proofs`.** `BothProgramsHold` (`BothHold`) and `KeepsCustody`
(`ImplementsCustody`) for any number of marketplaces next to the staking program.
Every step of either program comes to one of four effects: a program *takes* an
asset that nobody froze, *gives* up one that it froze itself, a step *keeps* the
records and what is frozen, or *idles*. The lemmas `...Effect` show this of each
instruction; from there on the two programs are alike. Each effect preserves that
whoever has a record of an asset is the authority that froze it, so that at most
one program has one (`OneCustodian`), and maps to a step of `AssetCustody`. The
assumptions are that the PDAs of the two programs differ from each other and from
the users (`AuthoritiesAssumption`).

The second half composes the proofs themselves. `SP` and `MP` are instances of
the proof modules of the two programs; what these modules assume of their
constants is shown to hold here (`StakingConstants`, `MarketConstants`), from
`ComponentsAssumption`, which repeats the components' named assumptions about the
same constants, so no lemma is used where its module would not have it. A step of one program keeps the invariant of that
program by its own `NextInv`; it keeps the other's since all that it may change of
an asset that the other recorded is the transfer delegate, for which each proof
module has a lemma (`OthersKeepCounts`, `OthersKeepAll`). So with both programs at
work on the same assets: `PromisesKept`
(types, counts, rewards and money of each), `LockStillHolds` (`LockedForPeriod` of
the staking program), `SalesStillSettled` (`SalesSettled` of the marketplace) and
`ExitsAreOpen` (all the exits of both, as the theorems above state them).

**`Anchor_proofs`, the escrow.** `LocksCovered` (`DepositsCovered`), `Atomic`
(`AtomicSwap`), `NothingMade` (`TokensConserved`) and `TypeCorrect` for any users,
mints and seeds. `DepositsCovered` with the balances as natural numbers is
inductive. From it the vault of an open escrow is there when it is paid out
(`VaultThere`). What a take moves is computed from `TransferGain` and
`CreditGain`. For the totals every step is shown
to take from the token accounts, of each mint, what it adds to the vaults
(`MakeKeepsTotals`, `CloseKeepsTotals`, `AccountStepKeepsTotals`,
`VaultStepKeepsTotals`), and with the totals the u64s of `TypeOK` follow.
`RefundIsOpen`: all that a maker needs for a refund of an open escrow is a token
account to send it to. `TakeIsOpen`: whoever has the price can take somebody
else's escrow between two mints, and all that can be missing is one of three token
accounts. Neither what strangers send to the
vault nor a second escrow of the same maker bars either.

**`Anchor_proofs`, the vault.** `EveryLamport` (`LamportsAccounted`) and
`VaultTypeCorrect`. The invariant has the balances as natural numbers, the
account of each user with what came from others (`gifts`), and that all users
together own what they did at the start (`Owned`), from which the u64s follow.
`VaultExitsAreOpen`: whoever has a vault can close it, always, and can withdraw
all that it holds unless the wallet would still be below the rent minimum.

**`MintScripts_proofs`.** For any number of runs, any number of faults and any
wallet file, `OnceMinted` (`MintedOnce`), `FundsLast` (`StaysFunded`),
`NothingIsStranded` (`NothingStranded`) and `TypeCorrect`. Four parts make the
invariant, each of which TLC checked first:

* `KeysOK`: which places of a run have a key pair, and whose.
* `Stages`: what a run has made so far is fixed by the transaction it has in the
  air and by whether that landed (`Before`, `Landed`). A run sends each
  transaction once and goes on only when its answer came, so nothing lands twice
  even if the process is gone by then. `MintedOnce` follows.
* `Funded`: the SOL of a key pair pays for every transaction that the runs working
  with it still have to send or have in the air (`Owed`). It is the only part that
  counts over runs: the balance is looked at once, by each run, and spent by all.
  A run that begins adds to what is owed; `FundsAssumption` says that the amount
  `ensureFunded` tops up to covers it. A landing takes one transaction out of
  `Owed` and one unit out of the balance (`LandFunded`), which is `StaysFunded`.
* `OneWallet`: unless two runs found no file (`Solo`), whatever has SOL or a mint
  is the key pair in the file, and nothing was written to a file that a run is
  about to write. `Solo` can only become false (`SoloBefore`).

Of the two liveness properties the safety halves are proved, which leaves to TLC
what only fairness gives. For `RunsEnd`: `NoWayBack`, that every step, whatever
goes wrong, lowers the rank of one run (its place, then how far its transaction
is) and leaves the others', and `NeverStuck`, that wherever a run has not ended
there is a step of its `Progress`. For `RerunSucceeds`: `RerunStaysOnTrack`, that
once nothing goes wrong any more a run that reads a wallet file that no run is
about to empty or write over (`WalletStands`, which stays true) is never thrown off its way to "done", by no other run and no transaction that an
earlier one left flying. It uses all four parts of the invariant: what is in the
air has the accounts it names (`Stages`) and the SOL (`StaysFunded`), so nothing
that is sent is refused (`Executes`).

**Only model-checked.** Everything with `ENABLED` (`FreezePeriodIsOnlyGate`,
`SellerMayDelist`, `SolSalesOpen`, `RefundStaysOpen`, `ExitsStayOpen` of the vault
and of both NFT programs) and the liveness properties (`Terminates`, `RunsEnd`,
`RerunSucceeds`): the prover handles neither. For each of them the theorems above
prove what can be said without `ENABLED` and without fairness; the last steps,
from `MayX` to `ENABLED X` and from ranks that fall to `<>`, are not machine-checked.
Every other property of a passing run is a theorem. The three runs that find a
disagreement have nothing to prove but the lines around it. That transfers, burns
and payouts keep the totals of Assignment_03 and Assignment_05 is neither stated
nor proved: both leave it to the token program.

## 5. Plan

Done, in this order: `FixedWidth`, `IntrospectionAmm` and its proofs, `Amm` with
its abstract pool and the refinement, `NftStaking` and its proofs,
`NftMarketplace` and its proof, `NftPrograms`, `AnchorEscrow`, `AnchorVault`;
then `NewtonRoot`, `MintScripts`, `CountAttribute` and `AssetCustody`, the proofs
of `SharesUndiluted`, `CountsAgree` and `BothHold`, the refinement of
`AssetCustody`, and the proofs about `AnchorEscrow`; then sums over finite
functions and `IntegerSqrt`, the totals of marketplace, escrow and vault,
`SalesSettled`, and the proofs about `MintScripts`; then the exits,
the composition of the two NFT programs' proofs, the ranks of `MintScripts` and
`NewtonRoot`, and the two theorems around the disagreements of Assignment_05.

What is left needs a prover that knows `ENABLED` and fairness: to join the exits
and the ranks to the invariants and liveness properties that TLC checks.
