-------------------------- MODULE IntrospectionAmm --------------------------
(***************************************************************************)
(* The market maker of Assignment_05: liquidity leaves a pool through two  *)
(* instructions, burn_lp and then withdraw, and withdraw looks back at the *)
(* instruction before it in the same transaction to learn what was burned. *)
(*                                                                         *)
(* A Solana transaction is a list of instructions that takes effect as a   *)
(* whole or not at all.  The account variables hold the accounts as the    *)
(* instructions of the current transaction have left them, `saved' as the  *)
(* last transaction left them, and `tx' what the instructions sysvar shows *)
(* of the transaction under way: its top-level instructions.  What another *)
(* program invokes runs at the place of the instruction that called that   *)
(* program.  Transactions on one pool are serialised by its account locks, *)
(* so one transaction at a time is under way.                              *)
(***************************************************************************)
EXTENDS FixedWidth

CONSTANTS
  Users,
  Mints,
  Pools,           \* the pairs of mints a client may open a pool for
  Others,          \* token accounts, besides the vaults, that somebody made
                   \*   with a pool as their authority: pairs pool, mint
  Amounts,         \* the token amounts instructions carry
  LpAmounts,       \* the LP amounts burns carry
  MinAmounts,      \* the slippage limits instructions carry
  InitialWallet,   \* each user's tokens of each mint at the start
  MaxIxs,          \* bound on the instructions of one transaction
  MaxShares        \* bound on a pool's shares: MaxU64, or less for TLC

ASSUME ConstantsAssumption ==
  /\ \A p \in Pools : p[1] \in Mints /\ p[2] \in Mints /\ p[1] # p[2]
  /\ Others \subseteq Pools \X Mints /\ {"a", "b"} \cap Mints = {}
  /\ Amounts \subseteq U64
  /\ LpAmounts \subseteq U64
  /\ MinAmounts \subseteq U64
  /\ InitialWallet \in [Users \X Mints -> U64]
  /\ MaxIxs \in Nat
  /\ MaxShares \in U64

VARIABLES
  open,        \* the pools whose accounts exist
  lp_supply,   \* the field lp_supply of each Pool account
  supply,      \* the supply of each pool's LP mint
  vault,       \* the balances of the token accounts whose authority is a
               \*   pool: vault_a and vault_b of each, and the others
  lp,          \* the balance of each user's LP account of each pool
  wallet,      \* what each user has of each mint
  saved,       \* the six above, as the last transaction left them
  tx,          \* the current transaction: the instructions run so far, the
               \*   current top-level one, the one before that, and whether
               \*   a withdraw ran within the current one
  again        \* history: the LP tokens, by pool, that the withdraws of this
               \*   transaction have paid for a second time

accounts == <<open, lp_supply, supply, vault, lp, wallet>>
vars == <<open, lp_supply, supply, vault, lp, wallet, saved, tx, again>>

Sides == {"a", "b"}

TokenAccounts == (Pools \X Sides) \cup Others
Vaults(p) == {<<p, "a">>, <<p, "b">>}

\* The pool that is the authority of an account, and the mint.
PoolOf(x) == x[1]
MintOf(x) ==
  IF x[2] = "a" THEN x[1][1] ELSE IF x[2] = "b" THEN x[1][2] ELSE x[2]

Lesser(m, n) == IF m <= n THEN m ELSE n

\* An account that does not exist yet is an empty one.
Ledger ==
  [open      : SUBSET Pools,
   lp_supply : [Pools -> U64],
   supply    : [Pools -> U64],
   vault     : [TokenAccounts -> U64],
   lp        : [Pools \X Users -> U64],
   wallet    : [Users \X Mints -> U64]]

CurrentLedger ==
  [open |-> open, lp_supply |-> lp_supply, supply |-> supply,
   vault |-> vault, lp |-> lp, wallet |-> wallet]

\* What withdraw can tell about an instruction: a burn_lp shows its amount,
\* signer and LP mint (one per pool), the others show that they are not one.
\* Only a program other than this one invokes instructions of this one.
Own == [ix |-> "own"]
Other == [ix |-> "other_program"]
Burning(u, p, lp_amount) ==
  [ix |-> "burn_lp", user |-> u, pool |-> p, lp_amount |-> lp_amount]

Instructions ==
  {Own, Other} \cup [ix : {"burn_lp"}, user : Users, pool : Pools, lp_amount : U64]

NoTx == [ixs |-> 0, prev |-> Own, cur |-> Own, paid |-> FALSE]

\* An instruction is run at top level, or is invoked (cpi) by the program of the
\* current top-level instruction, which then does not move on.
MayRun(cpi) == tx.ixs < MaxIxs /\ (cpi => tx.cur = Other)
After(ix, cpi) ==
  [ixs  |-> tx.ixs + 1,
   prev |-> IF cpi THEN tx.prev ELSE tx.cur,
   cur  |-> IF cpi THEN tx.cur ELSE ix,
   paid |-> cpi /\ tx.paid]

Runs(ix, cpi) ==
  /\ MayRun(cpi)
  /\ tx' = After(ix, cpi)
  /\ UNCHANGED <<saved, again>>

\* The instruction before the current one, as the sysvar shows it.
Preceding(cpi) == IF cpi THEN tx.prev ELSE tx.cur

-----------------------------------------------------------------------------
\* integer_sqrt(a) * integer_sqrt(b), which the mint of the first shares uses.
\* On the largest u64 the first x + 1 wraps to 0 and n / x divides by zero.
RootsProduct(a, b) == IntegerSqrt(a) * IntegerSqrt(b)
RootsDefined(a, b) == a # MaxU64 /\ b # MaxU64

\* u pays a and b into p's vaults and gets lp_new shares.  An SPL transfer needs
\* the balance it takes and room in a u64 for the one it fills, as does mint_to.
Join(u, p, a, b, lp_new) ==
  /\ a <= wallet[<<u, p[1]>>] /\ vault[<<p, "a">>] + a \in U64
  /\ b <= wallet[<<u, p[2]>>] /\ vault[<<p, "b">>] + b \in U64
  /\ supply[p] + lp_new <= MaxShares /\ lp[<<p, u>>] + lp_new <= MaxShares
  /\ lp_supply[p] + lp_new <= MaxShares
  /\ wallet' = [wallet EXCEPT ![<<u, p[1]>>] = @ - a, ![<<u, p[2]>>] = @ - b]
  /\ vault' = [vault EXCEPT ![<<p, "a">>] = @ + a, ![<<p, "b">>] = @ + b]
  /\ supply' = [supply EXCEPT ![p] = @ + lp_new]
  /\ lp' = [lp EXCEPT ![<<p, u>>] = @ + lp_new]
  /\ lp_supply' = [lp_supply EXCEPT ![p] = @ + lp_new]

\* initialize: the `init' constraints need the pool's accounts not to exist.
Initialize(u, p, initial_a, initial_b, cpi) ==
  LET lp_amount == RootsProduct(initial_a, initial_b)
  IN  /\ p \notin open
      /\ initial_a > 0 /\ initial_b > 0
      /\ RootsDefined(initial_a, initial_b)
      /\ lp_amount \in 1 .. MaxU64
      /\ open' = open \cup {p}
      /\ Join(u, p, initial_a, initial_b, lp_amount)
      /\ Runs(Own, cpi)

\* The shares a deposit into p earns.
LpOut(p, a, b) ==
  IF lp_supply[p] = 0
    THEN RootsProduct(a, b)
    ELSE Lesser(MulDiv(a, lp_supply[p], vault[<<p, "a">>]),
                MulDiv(b, lp_supply[p], vault[<<p, "b">>]))

\* deposit
Deposit(u, p, amount_a, amount_b, min_lp, cpi) ==
  LET lp_out == LpOut(p, amount_a, amount_b)
  IN  /\ p \in open
      /\ amount_a > 0 /\ amount_b > 0
      /\ IF lp_supply[p] = 0 THEN RootsDefined(amount_a, amount_b)
                             ELSE vault[<<p, "a">>] > 0 /\ vault[<<p, "b">>] > 0
      /\ lp_out \in 1 .. MaxU64 /\ lp_out >= min_lp
      /\ Join(u, p, amount_a, amount_b, lp_out)
      /\ Runs(Own, cpi)
      /\ UNCHANGED open

\* The reserves the formula is given: the code exchanges vault_in and
\* vault_out when b is sent.
InReserve(in, out, a_to_b) == IF a_to_b THEN vault[in] ELSE vault[out]
OutReserve(in, out, a_to_b) == IF a_to_b THEN vault[out] ELSE vault[in]

SwapOut(amount_in, in_reserve, out_reserve) ==
  AsU64((amount_in * 997 * out_reserve)
          \div (in_reserve * 1000 + amount_in * 997))

\* swap: vault_in and vault_out are whatever token accounts of the pool the
\* client passes, of any mint and for either direction; Anchor refuses the
\* same mutable account for both.
Swap(u, in, out, amount_in, min_out, a_to_b, cpi) ==
  LET in_reserve == InReserve(in, out, a_to_b)
      out_reserve == OutReserve(in, out, a_to_b)
      amount_out == SwapOut(amount_in, in_reserve, out_reserve)
  IN  /\ PoolOf(in) = PoolOf(out) /\ PoolOf(in) \in open
      /\ in # out
      /\ amount_in > 0
      /\ out_reserve > 0
      /\ amount_in * 997 * out_reserve <= MaxU128
      /\ in_reserve * 1000 + amount_in * 997 <= MaxU128
      /\ amount_out > 0 /\ amount_out >= min_out
      /\ amount_in <= wallet[<<u, MintOf(in)>>] /\ vault[in] + amount_in \in U64
      /\ amount_out <= vault[out] /\ wallet[<<u, MintOf(out)>>] + amount_out \in U64
      /\ vault' = [vault EXCEPT ![in] = @ + amount_in, ![out] = @ - amount_out]
      /\ wallet' = [[wallet EXCEPT ![<<u, MintOf(in)>>] = @ - amount_in]
                          EXCEPT ![<<u, MintOf(out)>>] = @ + amount_out]
      /\ Runs(Own, cpi)
      /\ UNCHANGED <<open, lp_supply, supply, lp>>

\* Mutant of Burn: the balance is not checked.
UncheckedBurn(u, p, lp_amount) ==
  /\ p \in open
  /\ lp' = [lp EXCEPT ![<<p, u>>] = @ - lp_amount]
  /\ supply' = [supply EXCEPT ![p] = @ - lp_amount]
  /\ UNCHANGED <<open, lp_supply, vault, wallet>>

\* The SPL burn: the LP account and the mint's supply fall, nothing else.
Burn(u, p, lp_amount) ==
  /\ p \in open
  /\ lp_amount <= lp[<<p, u>>] /\ lp_amount <= supply[p]
  /\ lp' = [lp EXCEPT ![<<p, u>>] = @ - lp_amount]
  /\ supply' = [supply EXCEPT ![p] = @ - lp_amount]
  /\ UNCHANGED <<open, lp_supply, vault, wallet>>

\* burn_lp: pool.lp_supply is left to withdraw.
BurnLp(u, p, lp_amount, cpi) ==
  /\ Burn(u, p, lp_amount)
  /\ Runs(Burning(u, p, lp_amount), cpi)

\* Mutant of BurnPrecedes: the LP mint of the burn is not compared.
MutantBurnPrecedes(burn, u, p) ==
  burn.ix = "burn_lp" /\ burn.lp_amount > 0 /\ burn.user = u

\* The instruction just before in this transaction burned u's shares of p.
BurnPrecedes(burn, u, p) ==
  /\ burn.ix = "burn_lp"
  /\ burn.lp_amount > 0
  /\ burn.user = u
  /\ burn.pool = p

\* Mutant of Payout: the share is rounded up.
MutantPayout(p, side, lp_amount) ==
  AsU64((lp_amount * vault[<<p, side>>] + lp_supply[p] - 1) \div lp_supply[p])

\* What lp_amount shares of p are worth in the token of one side.
Payout(p, side, lp_amount) == MulDiv(lp_amount, vault[<<p, side>>], lp_supply[p])

\* withdraw: it does not ask whether it is a top-level instruction itself, nor
\* whether the burn it sees was paid for.
Withdraw(u, p, min_a, min_b, cpi) ==
  LET burn == Preceding(cpi)
      lp_amount == burn.lp_amount
      a_out == Payout(p, "a", lp_amount)
      b_out == Payout(p, "b", lp_amount)
  IN  /\ p \in open
      /\ BurnPrecedes(burn, u, p)
      /\ lp_supply[p] > 0
      /\ a_out > 0 /\ a_out >= min_a /\ a_out <= vault[<<p, "a">>]
      /\ b_out > 0 /\ b_out >= min_b /\ b_out <= vault[<<p, "b">>]
      /\ wallet[<<u, p[1]>>] + a_out \in U64
      /\ wallet[<<u, p[2]>>] + b_out \in U64
      /\ lp_amount <= lp_supply[p]
      /\ vault' = [vault EXCEPT ![<<p, "a">>] = @ - a_out, ![<<p, "b">>] = @ - b_out]
      /\ wallet' = [wallet EXCEPT ![<<u, p[1]>>] = @ + a_out, ![<<u, p[2]>>] = @ + b_out]
      /\ lp_supply' = [lp_supply EXCEPT ![p] = @ - lp_amount]
      /\ MayRun(cpi)
      /\ tx' = [After(Own, cpi) EXCEPT !.paid = TRUE]
      /\ again' = IF cpi /\ tx.paid THEN [again EXCEPT ![p] = @ + lp_amount] ELSE again
      /\ UNCHANGED <<open, supply, lp, saved>>

-----------------------------------------------------------------------------
(***************************************************************************)
(* What a transaction can do to these accounts through other programs.     *)
(***************************************************************************)

\* An LP holder burns shares with the token program itself.
SplBurn(u, p, lp_amount, cpi) ==
  /\ Burn(u, p, lp_amount)
  /\ Runs(Other, cpi)

\* Anyone sends tokens straight to a vault or another account of a pool.
SplTransferTo(u, x, amount, cpi) ==
  /\ PoolOf(x) \in open
  /\ amount <= wallet[<<u, MintOf(x)>>]
  /\ vault[x] + amount \in U64
  /\ vault' = [vault EXCEPT ![x] = @ + amount]
  /\ wallet' = [wallet EXCEPT ![<<u, MintOf(x)>>] = @ - amount]
  /\ Runs(Other, cpi)
  /\ UNCHANGED <<open, lp_supply, supply, lp>>

\* Some other program is called, which may call back here.
CallOther ==
  /\ Runs(Other, FALSE)
  /\ UNCHANGED accounts

\* The transaction ends: every instruction succeeded, or one of them failed
\* and the runtime discards what the ones before it did.
Commit ==
  /\ tx.ixs > 0
  /\ saved' = CurrentLedger
  /\ tx' = NoTx /\ again' = [p \in Pools |-> 0]
  /\ UNCHANGED accounts

Abort ==
  /\ tx.ixs > 0
  /\ open' = saved.open
  /\ lp_supply' = saved.lp_supply
  /\ supply' = saved.supply
  /\ vault' = saved.vault
  /\ lp' = saved.lp
  /\ wallet' = saved.wallet
  /\ tx' = NoTx /\ again' = [p \in Pools |-> 0]
  /\ UNCHANGED saved

-----------------------------------------------------------------------------
Init ==
  /\ open = {}
  /\ lp_supply = [p \in Pools |-> 0]
  /\ supply = [p \in Pools |-> 0]
  /\ vault = [x \in TokenAccounts |-> 0]
  /\ lp = [x \in Pools \X Users |-> 0]
  /\ wallet = InitialWallet
  /\ saved = CurrentLedger
  /\ tx = NoTx
  /\ again = [p \in Pools |-> 0]

PoolStep(u, p, cpi) ==
  \/ \E a, b \in Amounts : Initialize(u, p, a, b, cpi)
  \/ \E a, b \in Amounts, min_lp \in MinAmounts : Deposit(u, p, a, b, min_lp, cpi)
  \/ \E lp_amount \in LpAmounts : BurnLp(u, p, lp_amount, cpi)
  \/ \E min_a, min_b \in MinAmounts : Withdraw(u, p, min_a, min_b, cpi)
  \/ \E lp_amount \in LpAmounts : SplBurn(u, p, lp_amount, cpi)

AccountStep(u, x, cpi) ==
  \/ \E out \in TokenAccounts, amount \in Amounts, min_out \in MinAmounts,
        a_to_b \in BOOLEAN : Swap(u, x, out, amount, min_out, a_to_b, cpi)
  \/ \E amount \in Amounts : SplTransferTo(u, x, amount, cpi)

Instruction ==
  \/ \E u \in Users, p \in Pools, cpi \in BOOLEAN : PoolStep(u, p, cpi)
  \/ \E u \in Users, x \in TokenAccounts, cpi \in BOOLEAN : AccountStep(u, x, cpi)
  \/ CallOther

Next == Instruction \/ Commit \/ Abort

Spec == Init /\ [][Next]_vars

-----------------------------------------------------------------------------
TypeOK ==
  /\ CurrentLedger \in Ledger
  /\ saved \in Ledger
  /\ tx \in [ixs : 0 .. MaxIxs, prev : Instructions, cur : Instructions, paid : BOOLEAN]
  /\ again \in [Pools -> Nat]

\* The instruction that the next withdraw would be shown, if the transaction
\* goes on within the program it called, or else at top level.
Shown == Preceding(tx.cur = Other)

\* Shares of p that were burned just before and withdraw has not paid for.
Redeemable(p) ==
  IF Shown.ix = "burn_lp" /\ Shown.pool = p /\ ~tx.paid THEN Shown.lp_amount ELSE 0

(***************************************************************************)
(* What withdraw pays for was burned just before, and from its pool.  A    *)
(* pool's orphaned shares are those it still counts although their LP      *)
(* tokens no longer exist.  With what the last burn_lp burned set aside, a *)
(* transaction takes from a pool's orphaned shares no more than what the   *)
(* program it called had paid out for one burn again: nothing, unless a    *)
(* program invokes withdraw more than once after a burn.                   *)
(***************************************************************************)
BurnsMatched ==
  \A p \in Pools :
    saved.lp_supply[p] - saved.supply[p] + Redeemable(p)
      <= lp_supply[p] - supply[p] + again[p]

\* A swap that is given a pool's own two vaults and uses their balances in the
\* order it is given them: with a_to_b, whichever of the two comes first.
PricedSwap ==
  \E u \in Users, p \in Pools, cpi \in BOOLEAN, in, out \in TokenAccounts,
     amount \in Amounts, min_out \in MinAmounts :
    {in, out} = Vaults(p) /\ Swap(u, in, out, amount, min_out, TRUE, cpi)

\* Every instruction but the other swaps.
PricedStep ==
  \/ \E u \in Users, p \in Pools, cpi \in BOOLEAN : PoolStep(u, p, cpi)
  \/ PricedSwap
  \/ \E u \in Users, x \in TokenAccounts, amount \in Amounts, cpi \in BOOLEAN :
       SplTransferTo(u, x, amount, cpi)

\* The shares p counts are worth less after a step: with x, y the vaults and s
\* pool.lp_supply, x*y/s^2 falls although there are shares before and after.
Diluted(p) ==
  LET k == vault[<<p, "a">>] * vault[<<p, "b">>]
      s == lp_supply[p]
  IN  p \in open /\ s > 0 /\ s' > 0 /\ k' * s * s < k * s' * s'

(***************************************************************************)
(* No instruction, whoever invokes it, dilutes the shares a pool counts:   *)
(* rounding is always in the pool's favour.  Of the swaps that is said of  *)
(* those given the pool's own vaults with a_to_b, which is what the        *)
(* formula of swap prices.                                                 *)
(***************************************************************************)
SharesUndiluted ==
  [][(\E p \in Pools : Diluted(p)) => ~PricedStep]_vars

\* A swap given the accounts its comments ask for: the vault the user deposits
\* into, then the vault the user withdraws from.
DocumentedSwap ==
  \E u \in Users, p \in Pools, cpi \in BOOLEAN, a_to_b \in BOOLEAN,
     amount \in Amounts, min_out \in MinAmounts :
    Swap(u, <<p, IF a_to_b THEN "a" ELSE "b">>, <<p, IF a_to_b THEN "b" ELSE "a">>,
         amount, min_out, a_to_b, cpi)

(***************************************************************************)
(* swap is documented as a constant-product swap: with the accounts it     *)
(* asks for, the product of the vaults does not fall in either direction.  *)
(***************************************************************************)
SwapKeepsProduct ==
  [][DocumentedSwap
       => \A p \in open :
            LET k == vault[<<p, "a">>] * vault[<<p, "b">>] IN k' >= k]_vars

(***************************************************************************)
(* A deposit is documented to mint min(da/a * LP, db/b * LP) shares, with  *)
(* u128 intermediates so that large amounts do not overflow.               *)
(***************************************************************************)
DepositMintsProRata ==
  [][\A u \in Users, p \in Pools, a, b \in Amounts, min_lp \in MinAmounts, cpi \in BOOLEAN :
       Deposit(u, p, a, b, min_lp, cpi) /\ lp_supply[p] > 0
         => lp_supply'[p] - lp_supply[p]
              = Lesser((a * lp_supply[p]) \div vault[<<p, "a">>],
                       (b * lp_supply[p]) \div vault[<<p, "b">>])]_vars

=============================================================================
