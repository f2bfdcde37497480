-------------------------------- MODULE Amm --------------------------------
(***************************************************************************)
(* The market maker of Assignment_03: one pool (one Config) with a fee in  *)
(* basis points, whose shares are the supply of its LP mint.  Every        *)
(* instruction is a transaction of its own: what is said of each step and  *)
(* of each state between steps carries over to longer transactions.        *)
(*                                                                         *)
(* The pool's vaults are the associated token accounts of its config.  The *)
(* other instructions take as vault_x and vault_y whatever accounts the    *)
(* client passes: only the token program's transfers ask of them that they *)
(* are of the right mint and, to be paid out of, under config's authority. *)
(***************************************************************************)
EXTENDS FixedWidth

CONSTANTS
  Users,
  Fees,            \* the fees an admin may ask for, in basis points
  Amounts,         \* the token amounts instructions carry
  LpAmounts,       \* the LP amounts instructions carry
  MinAmounts,      \* the slippage limits instructions carry
  InitialTokens    \* each user's tokens of x and of y at the start

\* Of each mint: the pool's vault, and another account under config's authority.
Vault == "vault"
Spare == "spare"

ConfigOwned == {Vault, Spare}
Holders == Users \cup ConfigOwned

ASSUME ConstantsAssumption ==
  /\ Users \cap ConfigOwned = {}
  /\ Fees \subseteq Nat
  /\ Amounts \subseteq U64
  /\ LpAmounts \subseteq U64
  /\ MinAmounts \subseteq U64
  /\ InitialTokens \in [Users -> U64]

VARIABLES
  created,   \* the accounts made by initialize exist
  fee,       \* config.fee
  supply,    \* lp_mint.supply
  lp,        \* the users' LP accounts
  token_x,   \* the balances of the accounts of the two mints, by holder
  token_y,
  own        \* history: every instruction so far was given the pool's vaults

vars == <<created, fee, supply, lp, token_x, token_y, own>>

FeeDenom == 10000

Lesser(m, n) == IF m <= n THEN m ELSE n

\* A transfer within one mint.  Anchor refuses one mutable account passed twice.
CanSend(token, from, to, n) ==
  from # to /\ n <= token[from] /\ token[to] + n \in U64

Sent(token, from, to, n) ==
  [[token EXCEPT ![from] = @ - n] EXCEPT ![to] = @ + n]

\* The vaults an instruction was given, for the history.
Given(vx, vy) == own' = (own /\ vx = Vault /\ vy = Vault)

\* Mutant of Initialize: a fee above 100% is accepted.
UncheckedInitialize(new_fee) ==
  /\ ~created
  /\ created' = TRUE
  /\ fee' = new_fee
  /\ UNCHANGED <<supply, lp, token_x, token_y, own>>

\* initialize
Initialize(new_fee) ==
  /\ ~created
  /\ new_fee <= FeeDenom
  /\ created' = TRUE
  /\ fee' = new_fee
  /\ UNCHANGED <<supply, lp, token_x, token_y, own>>

\* Mutant of LpOut: the better-supplied side decides.
MutantLpOut(dx, dy, reserve_x, reserve_y) ==
  LET lp_x == MulDiv(dx, supply, reserve_x)
      lp_y == MulDiv(dy, supply, reserve_y)
  IN  IF supply = 0 THEN IntegerSqrt(dx * dy)
                    ELSE IF lp_x <= lp_y THEN lp_y ELSE lp_x

\* The shares that add_liquidity mints for dx and dy.
LpOut(dx, dy, reserve_x, reserve_y) ==
  IF supply = 0
    THEN IntegerSqrt(dx * dy)
    ELSE Lesser(MulDiv(dx, supply, reserve_x), MulDiv(dy, supply, reserve_y))

\* add_liquidity: vault_x and vault_y may be anybody's accounts.
AddLiquidity(u, vx, vy, amount_x, amount_y, min_lp) ==
  LET lp_amount == LpOut(amount_x, amount_y, token_x[vx], token_y[vy])
  IN  /\ created
      /\ amount_x > 0 /\ amount_y > 0
      /\ supply > 0 => token_x[vx] > 0 /\ token_y[vy] > 0
      /\ lp_amount \in 1 .. MaxU64 /\ lp_amount >= min_lp
      /\ CanSend(token_x, u, vx, amount_x) /\ CanSend(token_y, u, vy, amount_y)
      /\ supply + lp_amount \in U64 /\ lp[u] + lp_amount \in U64
      /\ token_x' = Sent(token_x, u, vx, amount_x)
      /\ token_y' = Sent(token_y, u, vy, amount_y)
      /\ supply' = supply + lp_amount
      /\ lp' = [lp EXCEPT ![u] = @ + lp_amount]
      /\ Given(vx, vy)
      /\ UNCHANGED <<created, fee>>

\* What lp_amount shares are worth in one token.
Payout(lp_amount, reserve) == MulDiv(lp_amount, reserve, supply)

\* remove_liquidity: unlike the other instructions it may pay out nothing.
RemoveLiquidity(u, vx, vy, lp_amount, min_x, min_y) ==
  LET amount_x == Payout(lp_amount, token_x[vx])
      amount_y == Payout(lp_amount, token_y[vy])
  IN  /\ created
      /\ lp_amount > 0
      /\ supply > 0
      /\ amount_x >= min_x /\ amount_y >= min_y
      /\ lp_amount <= lp[u] /\ lp_amount <= supply
      /\ vx \in ConfigOwned /\ vy \in ConfigOwned
      /\ CanSend(token_x, vx, u, amount_x) /\ CanSend(token_y, vy, u, amount_y)
      /\ lp' = [lp EXCEPT ![u] = @ - lp_amount]
      /\ supply' = supply - lp_amount
      /\ token_x' = Sent(token_x, vx, u, amount_x)
      /\ token_y' = Sent(token_y, vy, u, amount_y)
      /\ Given(vx, vy)
      /\ UNCHANGED <<created, fee>>

\* Mutant of SwapOut: the input is left out of the denominator.
MutantSwapOut(amount_in, reserve_in, reserve_out) ==
  LET in_with_fee == amount_in * (FeeDenom - fee)
  IN  AsU64((in_with_fee * reserve_out) \div (reserve_in * FeeDenom))

SwapOut(amount_in, reserve_in, reserve_out) ==
  LET in_with_fee == amount_in * (FeeDenom - fee)
  IN  AsU64((in_with_fee * reserve_out) \div (reserve_in * FeeDenom + in_with_fee))

\* The checks of swap, and the output it has computed when they pass.
SwapPays(amount_in, reserve_in, reserve_out, min_out, amount_out) ==
  LET in_with_fee == amount_in * (FeeDenom - fee)
  IN  /\ created
      /\ amount_in > 0
      /\ reserve_in > 0 /\ reserve_out > 0
      /\ in_with_fee * reserve_out <= MaxU128
      /\ reserve_in * FeeDenom + in_with_fee <= MaxU128
      /\ amount_out = SwapOut(amount_in, reserve_in, reserve_out)
      /\ amount_out > 0 /\ amount_out >= min_out

\* swap with is_x_to_y, and without: the side that is paid in may be anybody's.
SwapXToY(u, vx, vy, amount_in, min_out) ==
  LET amount_out == SwapOut(amount_in, token_x[vx], token_y[vy])
  IN  /\ SwapPays(amount_in, token_x[vx], token_y[vy], min_out, amount_out)
      /\ vy \in ConfigOwned
      /\ CanSend(token_x, u, vx, amount_in) /\ CanSend(token_y, vy, u, amount_out)
      /\ token_x' = Sent(token_x, u, vx, amount_in)
      /\ token_y' = Sent(token_y, vy, u, amount_out)
      /\ Given(vx, vy)
      /\ UNCHANGED <<created, fee, supply, lp>>

SwapYToX(u, vx, vy, amount_in, min_out) ==
  LET amount_out == SwapOut(amount_in, token_y[vy], token_x[vx])
  IN  /\ SwapPays(amount_in, token_y[vy], token_x[vx], min_out, amount_out)
      /\ vx \in ConfigOwned
      /\ CanSend(token_y, u, vy, amount_in) /\ CanSend(token_x, vx, u, amount_out)
      /\ token_y' = Sent(token_y, u, vy, amount_in)
      /\ token_x' = Sent(token_x, vx, u, amount_out)
      /\ Given(vx, vy)
      /\ UNCHANGED <<created, fee, supply, lp>>

-----------------------------------------------------------------------------
(***************************************************************************)
(* The token program used directly: a holder burns LP tokens, anyone sends *)
(* tokens to another account, a vault or not.                              *)
(***************************************************************************)
SplBurn(u, lp_amount) ==
  /\ created
  /\ lp_amount <= lp[u] /\ lp_amount <= supply
  /\ lp' = [lp EXCEPT ![u] = @ - lp_amount]
  /\ supply' = supply - lp_amount
  /\ UNCHANGED <<created, fee, token_x, token_y, own>>

SplTransferX(u, to, amount) ==
  /\ created
  /\ CanSend(token_x, u, to, amount)
  /\ token_x' = Sent(token_x, u, to, amount)
  /\ UNCHANGED <<created, fee, supply, lp, token_y, own>>

SplTransferY(u, to, amount) ==
  /\ created
  /\ CanSend(token_y, u, to, amount)
  /\ token_y' = Sent(token_y, u, to, amount)
  /\ UNCHANGED <<created, fee, supply, lp, token_x, own>>

-----------------------------------------------------------------------------
Init ==
  /\ created = FALSE
  /\ fee = 0
  /\ supply = 0
  /\ lp = [u \in Users |-> 0]
  /\ token_x = [h \in Holders |-> IF h \in Users THEN InitialTokens[h] ELSE 0]
  /\ token_y = [h \in Holders |-> IF h \in Users THEN InitialTokens[h] ELSE 0]
  /\ own = TRUE

\* An instruction of the program given vx and vy as the vaults.
PoolStep(u, vx, vy) ==
  \/ \E dx, dy \in Amounts, min_lp \in MinAmounts :
       AddLiquidity(u, vx, vy, dx, dy, min_lp)
  \/ \E n \in LpAmounts, min_x, min_y \in MinAmounts :
       RemoveLiquidity(u, vx, vy, n, min_x, min_y)
  \/ \E n \in Amounts, min_out \in MinAmounts : SwapXToY(u, vx, vy, n, min_out)
  \/ \E n \in Amounts, min_out \in MinAmounts : SwapYToX(u, vx, vy, n, min_out)

TokenStep(u) ==
  \/ \E n \in LpAmounts : SplBurn(u, n)
  \/ \E to \in Holders, n \in Amounts : SplTransferX(u, to, n)
  \/ \E to \in Holders, n \in Amounts : SplTransferY(u, to, n)

Next ==
  \/ \E new_fee \in Fees : Initialize(new_fee)
  \/ \E u \in Users, vx, vy \in Holders : PoolStep(u, vx, vy)
  \/ \E u \in Users : TokenStep(u)

Spec == Init /\ [][Next]_vars

-----------------------------------------------------------------------------
TypeOK ==
  /\ created \in BOOLEAN
  /\ fee \in 0 .. FeeDenom
  /\ supply \in U64
  /\ lp \in [Users -> U64]
  /\ token_x \in [Holders -> U64] /\ token_y \in [Holders -> U64]
  /\ own \in BOOLEAN

(***************************************************************************)
(* The pool as the holders of its shares see it: the config's vaults.      *)
(***************************************************************************)
Pool == INSTANCE ConstantProductPool
          WITH x <- token_x[Vault], y <- token_y[Vault], shares <- supply

(***************************************************************************)
(* As long as the clients of the program pass the pool's vaults, no        *)
(* sequence of deposits, payouts and swaps empties one of them while LP    *)
(* tokens are outstanding, so that add_liquidity never divides by zero and *)
(* a share is never worthless.                                             *)
(***************************************************************************)
Backed == own => Pool!Backed

\* What users do with the pool's vaults, or without the program.
OwnStep == \E u \in Users : PoolStep(u, Vault, Vault) \/ TokenStep(u)

(***************************************************************************)
(* Every instruction that is given the pool's vaults keeps the promises of *)
(* ConstantProductPool, whatever was done before with other accounts:      *)
(* rounding and truncation in deposits, payouts and swaps favour the       *)
(* shares that stay in the pool.                                           *)
(***************************************************************************)
ImplementsPool ==
  Pool!Init /\ [][Pool!Next \/ ~OwnStep]_<<token_x[Vault], token_y[Vault], supply>>

=============================================================================
