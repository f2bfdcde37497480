----------------------------- MODULE AnchorVault -----------------------------
(***************************************************************************)
(* The vault program of Assignment_02: each user has a vault address that  *)
(* holds SOL, and may open it, deposit, withdraw and close it, again and   *)
(* again.  The address exists whether or not the vault is open, and anyone *)
(* may send SOL to it.  The runtime refuses a transaction that leaves less *)
(* than RentMin in an account without emptying it.                         *)
(***************************************************************************)
EXTENDS AnchorUsers

CONSTANTS
  InitialWallet,
  StateRent,      \* what a VaultState account holds while it exists
  RentMin

\* All the SOL there is fits in a u64.
ASSUME VaultAssumption ==
  /\ InitialWallet \in [Users -> U64]
  /\ SumFunction(InitialWallet) <= MaxU64
  /\ RentMin \in Nat /\ StateRent \in Nat /\ StateRent >= RentMin

VARIABLES
  vault_state,      \* whether the VaultState of each user exists
  vault_lamports,   \* the lamports at the vault address of each user
  wallet,           \* and those in the wallet
  gifts             \* history: sent to the vault by others, less sent to others'

vault_vars == <<vault_state, vault_lamports, wallet, gifts>>

RentExempt(held) == held \notin 1 .. RentMin - 1

\* What every transaction must leave behind.
Settles(u) == RentExempt(vault_lamports[u])' /\ RentExempt(wallet[u])'

\* Transfers between a wallet, its vault address and its state.
Moves(u, to_vault, to_state) ==
  /\ wallet[u] >= to_vault + to_state /\ vault_lamports[u] + to_vault >= 0
  /\ vault_lamports' = [vault_lamports EXCEPT ![u] = @ + to_vault]
  /\ wallet' = [wallet EXCEPT ![u] = @ - to_vault - to_state]
  /\ Settles(u)

-----------------------------------------------------------------------------
\* Mutant of Initialize: nobody pays for the state.
FreeInitialize(u) ==
  /\ ~vault_state[u]
  /\ Moves(u, 0, 0)
  /\ vault_state' = [vault_state EXCEPT ![u] = TRUE]
  /\ UNCHANGED gifts

\* initialize: the vault address need not be empty.
Initialize(u) ==
  /\ ~vault_state[u]
  /\ Moves(u, 0, StateRent)
  /\ vault_state' = [vault_state EXCEPT ![u] = TRUE]
  /\ UNCHANGED gifts

\* deposit
Deposit(u, amount) ==
  /\ vault_state[u]
  /\ amount > 0
  /\ Moves(u, amount, 0)
  /\ UNCHANGED <<vault_state, gifts>>

\* Mutant of Withdrawable: one lamport must stay.
MutantWithdrawable(u, amount) == amount > 0 /\ vault_lamports[u] > amount

Withdrawable(u, amount) == amount > 0 /\ vault_lamports[u] >= amount

\* withdraw
Withdraw(u, amount) ==
  /\ vault_state[u]
  /\ Withdrawable(u, amount)
  /\ Moves(u, -amount, 0)
  /\ UNCHANGED <<vault_state, gifts>>

\* Mutant of Swept: the rent is closed away with the state.
MutantSwept(u) == Moves(u, -vault_lamports[u], 0)

\* What close returns: all lamports in the vault, if any, and the state's rent.
Swept(u) == Moves(u, -vault_lamports[u], -StateRent)

\* close
Close(u) ==
  /\ vault_state[u]
  /\ Swept(u)
  /\ vault_state' = [vault_state EXCEPT ![u] = FALSE]
  /\ UNCHANGED gifts

\* Anybody sends SOL to the vault address of another, open or not.
Send(u, v, amount) ==
  /\ u # v /\ wallet[u] >= amount
  /\ wallet' = [wallet EXCEPT ![u] = @ - amount]
  /\ vault_lamports' = [vault_lamports EXCEPT ![v] = @ + amount]
  /\ RentExempt(wallet[u])' /\ RentExempt(vault_lamports[v])'
  /\ gifts' = [gifts EXCEPT ![u] = @ - amount, ![v] = @ + amount]
  /\ UNCHANGED vault_state

-----------------------------------------------------------------------------
VaultInit ==
  /\ vault_state = [u \in Users |-> FALSE]
  /\ vault_lamports = [u \in Users |-> 0]
  /\ wallet = InitialWallet
  /\ gifts = [u \in Users |-> 0]

UserStep(u) ==
  \/ Initialize(u)
  \/ \E amount \in Amounts : Deposit(u, amount) \/ Withdraw(u, amount)
  \/ Close(u)
  \/ \E v \in Users, amount \in Amounts : Send(u, v, amount)

VaultNext == \E u \in Users : UserStep(u)

VaultSpec == VaultInit /\ [][VaultNext]_vault_vars

-----------------------------------------------------------------------------
VaultTypeOK ==
  /\ vault_state \in [Users -> BOOLEAN]
  /\ vault_lamports \in [Users -> U64]
  /\ wallet \in [Users -> U64]
  /\ gifts \in [Users -> Int]

(***************************************************************************)
(* Every lamport of a user is in the wallet, at the vault address or in    *)
(* the rent of the state: opening, closing and opening again neither loses *)
(* any nor moves any between users, whatever is sent meanwhile.            *)
(***************************************************************************)
LamportsAccounted ==
  \A u \in Users :
    wallet[u] + vault_lamports[u] + (IF vault_state[u] THEN StateRent ELSE 0)
      = InitialWallet[u] + gifts[u]

(***************************************************************************)
(* The owner of an open vault can always take everything out, with         *)
(* withdraw and with close, an empty vault included.                       *)
(***************************************************************************)
ExitsStayOpen ==
  \A u \in Users : vault_state[u] =>
    /\ ENABLED Close(u)
    /\ vault_lamports[u] > 0 /\ wallet[u] + vault_lamports[u] >= RentMin =>
         ENABLED Withdraw(u, vault_lamports[u])

=============================================================================
