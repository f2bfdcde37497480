---------------------------- MODULE AnchorEscrow ----------------------------
(***************************************************************************)
(* The escrow program of Assignment_02: a maker locks tokens of mint A in  *)
(* a vault and names how much of mint B they cost; a taker pays and gets   *)
(* the vault, or the maker takes the tokens back.  An escrow is found by   *)
(* its maker and a seed, which may be used again once it is closed.  Token *)
(* accounts are associated ones: they may be missing, and whoever wants to *)
(* creates them, for the escrow too.                                       *)
(***************************************************************************)
EXTENDS AnchorUsers

CONSTANTS
  Mints,
  Seeds,
  InitialBalance,
  Absent,           \* an account that does not exist
  Failed            \* the outcome of a transfer that fails

\* The supply of a mint is a u64.
ASSUME EscrowAssumption ==
  /\ IsFiniteSet(Seeds)
  /\ InitialBalance \in [Mints -> [Users -> U64]]
  /\ \A mint \in Mints : SumFunction(InitialBalance[mint]) <= MaxU64

VARIABLES
  escrow,      \* the Escrow of each maker and seed
  vault,       \* the token accounts each escrow owns, one for each mint
  ata,         \* the associated token account of each user for each mint
  deposited    \* history: what the maker locked and nobody got yet

vars == <<escrow, vault, ata, deposited>>

Escrow == [mint_a : Mints, mint_b : Mints, receive : U64]

ASSUME AbsentAssumption == Absent \notin Nat \cup Escrow
ASSUME FailedAssumption == Failed \notin [Users -> Nat \cup {Absent}]

Open(k, s) == escrow[k][s] # Absent

-----------------------------------------------------------------------------
\* The two sides of transfer_checked; a user gets tokens from a vault, too.
Debit(held, from, amount) ==
  IF held # Failed /\ held[from] # Absent /\ held[from] >= amount
    THEN [held EXCEPT ![from] = @ - amount] ELSE Failed

Credit(held, to, amount) ==
  IF held # Failed /\ held[to] # Absent
    THEN [held EXCEPT ![to] = @ + amount] ELSE Failed

TransferChecked(held, from, to, amount) == Credit(Debit(held, from, amount), to, amount)

-----------------------------------------------------------------------------
\* Mutant of FreeSeed: the escrow account may exist already.
MutantFreeSeed(maker, seed, mint_a) == vault[maker][seed][mint_a] = Absent

\* Both accounts are created by make, which fails if one is there.
FreeSeed(maker, seed, mint_a) ==
  ~Open(maker, seed) /\ vault[maker][seed][mint_a] = Absent

\* make
Make(maker, seed, mint_a, mint_b, deposit, receive) ==
  /\ deposit > 0 /\ receive > 0
  /\ FreeSeed(maker, seed, mint_a)
  /\ ata[mint_a][maker] # Absent /\ ata[mint_a][maker] >= deposit
  /\ escrow' = [escrow EXCEPT ![maker][seed] =
                  [mint_a |-> mint_a, mint_b |-> mint_b, receive |-> receive]]
  /\ ata' = [ata EXCEPT ![mint_a][maker] = @ - deposit]
  /\ vault' = [vault EXCEPT ![maker][seed][mint_a] = deposit]
  /\ deposited' = [deposited EXCEPT ![maker][seed][mint_a] = deposit]

\* Mutant of Price: the amount that was locked.
MutantPrice(maker, seed) == deposited[maker][seed][escrow[maker][seed].mint_a]

Price(maker, seed) == escrow[maker][seed].receive

\* Mutant of Payout: only what the maker deposited.
MutantPayout(maker, seed) == deposited[maker][seed][escrow[maker][seed].mint_a]

\* The whole vault, read before the transfers.
Payout(maker, seed) == vault[maker][seed][escrow[maker][seed].mint_a]

\* Mutant of CloseVault: the vault is left open, and full.
MutantCloseVault(maker, seed) ==
  /\ escrow' = [escrow EXCEPT ![maker][seed] = Absent]
  /\ deposited' = [deposited EXCEPT ![maker][seed] = [mint \in Mints |-> 0]]
  /\ UNCHANGED vault

\* close_account refuses a vault that is not empty; then the escrow closes.
CloseVault(maker, seed) ==
  LET a == escrow[maker][seed].mint_a
  IN  /\ vault[maker][seed][a] - Payout(maker, seed) = 0
      /\ vault' = [vault EXCEPT ![maker][seed][a] = Absent]
      /\ escrow' = [escrow EXCEPT ![maker][seed] = Absent]
      /\ deposited' = [deposited EXCEPT ![maker][seed][a] = 0]

\* The accounts once the taker has paid the maker.
Paid(taker, maker, seed) ==
  LET b == escrow[maker][seed].mint_b
  IN  [ata EXCEPT ![b] = TransferChecked(@, taker, maker, Price(maker, seed))]

\* Anchor refuses one mutable account passed twice: of the three token accounts
\* of take no two are the same.
DistinctAtas(taker, maker, seed) ==
  taker # maker /\ escrow[maker][seed].mint_a # escrow[maker][seed].mint_b

\* take: the taker pays the maker, then gets the vault, which is closed.
Take(taker, maker, seed) ==
  /\ Open(maker, seed)
  /\ DistinctAtas(taker, maker, seed)
  /\ LET a == escrow[maker][seed].mint_a
         b == escrow[maker][seed].mint_b
         paid == Paid(taker, maker, seed)
         got == Credit(paid[a], taker, Payout(maker, seed))
     IN  /\ paid[b] # Failed /\ got # Failed
         /\ ata' = [paid EXCEPT ![a] = got]
  /\ CloseVault(maker, seed)

\* refund
Refund(maker, seed) ==
  /\ Open(maker, seed)
  /\ LET a == escrow[maker][seed].mint_a
         got == Credit(ata[a], maker, Payout(maker, seed))
     IN  /\ got # Failed
         /\ ata' = [ata EXCEPT ![a] = got]
  /\ CloseVault(maker, seed)

-----------------------------------------------------------------------------
(***************************************************************************)
(* The token program and the associated token program, used directly.      *)
(***************************************************************************)
CreateAta(u, mint) ==
  /\ ata[mint][u] = Absent
  /\ ata' = [ata EXCEPT ![mint][u] = 0]
  /\ UNCHANGED <<escrow, vault, deposited>>

CloseAta(u, mint) ==
  /\ ata[mint][u] = 0
  /\ ata' = [ata EXCEPT ![mint][u] = Absent]
  /\ UNCHANGED <<escrow, vault, deposited>>

CreateVault(maker, seed, mint) ==
  /\ vault[maker][seed][mint] = Absent
  /\ vault' = [vault EXCEPT ![maker][seed][mint] = 0]
  /\ UNCHANGED <<escrow, ata, deposited>>

SendToVault(u, maker, seed, mint) ==
  /\ vault[maker][seed][mint] # Absent
  /\ ata[mint][u] \notin {Absent, 0}
  /\ ata' = [ata EXCEPT ![mint][u] = @ - 1]
  /\ vault' = [vault EXCEPT ![maker][seed][mint] = @ + 1]
  /\ UNCHANGED <<escrow, deposited>>

-----------------------------------------------------------------------------
Init ==
  /\ escrow = [k \in Users |-> [s \in Seeds |-> Absent]]
  /\ vault = [k \in Users |-> [s \in Seeds |-> [mint \in Mints |-> Absent]]]
  /\ ata = InitialBalance
  /\ deposited = [k \in Users |-> [s \in Seeds |-> [mint \in Mints |-> 0]]]

EscrowStep(k, s) ==
  \/ \E a, b \in Mints, d, r \in Amounts : Make(k, s, a, b, d, r)
  \/ \E t \in Users : Take(t, k, s)
  \/ Refund(k, s)

TokenStep(u, mint) ==
  \/ CreateAta(u, mint)
  \/ CloseAta(u, mint)
  \/ \E k \in Users, s \in Seeds : SendToVault(u, k, s, mint)

Next ==
  \/ \E k \in Users, s \in Seeds : EscrowStep(k, s)
  \/ \E u \in Users, mint \in Mints : TokenStep(u, mint)
  \/ \E k \in Users, s \in Seeds, mint \in Mints : CreateVault(k, s, mint)

Spec == Init /\ [][Next]_vars

-----------------------------------------------------------------------------
TypeOK ==
  /\ escrow \in [Users -> [Seeds -> Escrow \cup {Absent}]]
  /\ vault \in [Users -> [Seeds -> [Mints -> U64 \cup {Absent}]]]
  /\ ata \in [Mints -> [Users -> U64 \cup {Absent}]]
  /\ deposited \in [Users -> [Seeds -> [Mints -> U64]]]

Held(n) == IF n = Absent THEN 0 ELSE n

InAtas(mint) == SumFunction([u \in Users |-> Held(ata[mint][u])])

InVaults(mint) ==
  SumFunction([p \in Users \X Seeds |-> Held(vault[p[1]][p[2]][mint])])

(***************************************************************************)
(* Nothing of a mint is made or lost, whatever is locked, taken, refunded, *)
(* sent to a vault or left in one.                                         *)
(***************************************************************************)
TokensConserved ==
  \A mint \in Mints :
    InAtas(mint) + InVaults(mint) = SumFunction(InitialBalance[mint])

(***************************************************************************)
(* What a maker locked and nobody got yet is in the vault of an escrow     *)
(* that is open for its mint: no seed is used again over it, and nothing   *)
(* leaves the vault but by a take or a refund.                             *)
(***************************************************************************)
DepositsCovered ==
  \A k \in Users, s \in Seeds, mint \in Mints :
    /\ deposited[k][s][mint] <= Held(vault[k][s][mint])
    /\ deposited[k][s][mint] > 0 <=> Open(k, s) /\ escrow[k][s].mint_a = mint

(***************************************************************************)
(* The swap is all or nothing: an escrow closes only as its whole vault    *)
(* goes to one user, and unless that is the maker, the maker gets exactly  *)
(* the price from that user in the same step.  Nobody else is touched.     *)
(***************************************************************************)
Change(mint, u) == Held(ata'[mint][u]) - Held(ata[mint][u])

AtomicSwap ==
  [][\A k \in Users, s \in Seeds : Open(k, s) /\ ~Open(k, s)' =>
       LET e == escrow[k][s]
           locked == vault[k][s][e.mint_a]
           Got(mint) == IF mint = e.mint_a THEN locked ELSE 0
           Cost(mint) == IF mint = e.mint_b THEN e.receive ELSE 0
       IN  /\ vault'[k][s][e.mint_a] = Absent
           /\ \E t \in Users : \A mint \in Mints, u \in Users :
                Change(mint, u) =
                  IF u = t THEN Got(mint) - (IF t = k THEN 0 ELSE Cost(mint))
                  ELSE IF u = k THEN Cost(mint) ELSE 0]_vars

(***************************************************************************)
(* The maker can always have the vault back while the escrow is open, as   *)
(* long as there is a token account to send it to.                         *)
(***************************************************************************)
RefundStaysOpen ==
  \A k \in Users, s \in Seeds :
    Open(k, s) /\ ata[escrow[k][s].mint_a][k] # Absent => ENABLED Refund(k, s)

=============================================================================
