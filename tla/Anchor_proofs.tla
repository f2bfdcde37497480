--------------------------- MODULE Anchor_proofs ---------------------------
(***************************************************************************)
(* Proofs about the programs of Assignment_02.  The escrow: what was       *)
(* locked stays covered, the swap is all or nothing, and no token is made  *)
(* or lost; refund and take stay open.  The vault: every lamport is        *)
(* accounted for, and its owner can always leave.                          *)
(***************************************************************************)
EXTENDS AnchorEscrow, AnchorVault, Arithmetic

USE UsersAssumption, EscrowAssumption, AbsentAssumption, MaxU64Assumption DEF U64

\* TypeOK but for the width of the balances, which takes the sum of them all.
Types ==
  /\ escrow \in [Users -> [Seeds -> Escrow \cup {Absent}]]
  /\ vault \in [Users -> [Seeds -> [Mints -> Nat \cup {Absent}]]]
  /\ ata \in [Mints -> [Users -> Nat \cup {Absent}]]
  /\ deposited \in [Users -> [Seeds -> [Mints -> Nat]]]

Inv == Types /\ DepositsCovered

LEMMA InitInv == Init => Inv
<1> SUFFICES ASSUME Init PROVE Inv
  OBVIOUS
<1>1. Types
  BY DEF Init, Types
<1>2. DepositsCovered
  BY DEF Init, DepositsCovered, Held, Open
<1> QED  BY <1>1, <1>2 DEF Inv

-----------------------------------------------------------------------------
(***************************************************************************)
(* What the instructions do to one escrow.                                 *)
(***************************************************************************)
LEMMA MakeStep ==
  ASSUME Inv, NEW k \in Users, NEW s \in Seeds, NEW a \in Mints, NEW b \in Mints,
         NEW d \in Amounts, NEW r \in Amounts, Make(k, s, a, b, d, r)
  PROVE  Inv'
<1> DEFINE e == [mint_a |-> a, mint_b |-> b, receive |-> r]
<1>1. e \in Escrow /\ e # Absent /\ e.mint_a = a
  <2>1. e \in Escrow
    BY DEF Escrow
  <2> QED  BY <2>1
<1>2. d \in Nat /\ d > 0
  BY DEF Make
<1>3. /\ escrow' = [escrow EXCEPT ![k][s] = e]
      /\ vault' = [vault EXCEPT ![k][s][a] = d]
      /\ deposited' = [deposited EXCEPT ![k][s][a] = d]
      /\ ata[a][k] \in Nat /\ ata[a][k] >= d
      /\ ata' = [ata EXCEPT ![a][k] = @ - d]
      /\ ~Open(k, s)
  BY DEF Make, FreeSeed, Inv, Types
<1> HIDE DEF e
<1>4. Types'
  <2>1. escrow' \in [Users -> [Seeds -> Escrow \cup {Absent}]]
    BY <1>1, <1>3 DEF Inv, Types
  <2>2. vault' \in [Users -> [Seeds -> [Mints -> Nat \cup {Absent}]]]
    BY <1>2, <1>3 DEF Inv, Types
  <2>3. ata' \in [Mints -> [Users -> Nat \cup {Absent}]]
    BY <1>2, <1>3 DEF Inv, Types
  <2>4. deposited' \in [Users -> [Seeds -> [Mints -> Nat]]]
    BY <1>2, <1>3 DEF Inv, Types
  <2> QED  BY <2>1, <2>2, <2>3, <2>4 DEF Types
<1>5. ASSUME NEW k2 \in Users, NEW s2 \in Seeds, NEW m \in Mints
      PROVE  /\ deposited'[k2][s2][m] <= Held(vault'[k2][s2][m])
             /\ deposited'[k2][s2][m] > 0 <=> Open(k2, s2)' /\ escrow'[k2][s2].mint_a = m
  <2>1. CASE k2 = k /\ s2 = s
    <3>1. escrow'[k][s] = e
      BY <1>3 DEF Inv, Types
    <3>2. CASE m = a
      <4>1. vault'[k][s][a] = d /\ deposited'[k][s][a] = d
        BY <1>3 DEF Inv, Types
      <4> QED  BY <1>1, <1>2, <2>1, <3>1, <3>2, <4>1 DEF Held, Open
    <3>3. CASE m # a
      <4>1. /\ vault'[k][s][m] = vault[k][s][m]
            /\ deposited'[k][s][m] = deposited[k][s][m]
        BY <1>3, <3>3 DEF Inv, Types
      <4>2. deposited[k][s][m] \in Nat /\ deposited[k][s][m] <= Held(vault[k][s][m])
            /\ ~(deposited[k][s][m] > 0)
        BY <1>3 DEF Inv, Types, DepositsCovered
      <4> QED  BY <1>1, <2>1, <3>1, <3>3, <4>1, <4>2
    <3> QED  BY <3>2, <3>3
  <2>2. CASE ~(k2 = k /\ s2 = s)
    <3>1. /\ escrow'[k2][s2] = escrow[k2][s2]
          /\ vault'[k2][s2] = vault[k2][s2]
          /\ deposited'[k2][s2] = deposited[k2][s2]
      BY <1>3, <2>2 DEF Inv, Types
    <3> QED  BY <3>1 DEF Inv, DepositsCovered, Open
  <2> QED  BY <2>1, <2>2
<1> QED  BY <1>4, <1>5 DEF Inv, DepositsCovered

\* The vault of an open escrow is there, and holds what was locked.
LEMMA VaultThere ==
  ASSUME Inv, NEW k \in Users, NEW s \in Seeds, Open(k, s)
  PROVE  /\ escrow[k][s] \in Escrow
         /\ vault[k][s][escrow[k][s].mint_a] \in Nat
<1>1. escrow[k][s] \in Escrow
  BY DEF Inv, Types, Open
<1> DEFINE a == escrow[k][s].mint_a
<1>2. a \in Mints
  BY <1>1 DEF Escrow
<1>3. /\ deposited[k][s][a] \in Nat /\ deposited[k][s][a] > 0
      /\ deposited[k][s][a] <= Held(vault[k][s][a])
      /\ vault[k][s][a] \in Nat \cup {Absent}
  BY <1>2 DEF Inv, Types, DepositsCovered
<1> QED  BY <1>1, <1>3 DEF Held

LEMMA CloseStep ==
  ASSUME Inv, NEW k \in Users, NEW s \in Seeds, Open(k, s), CloseVault(k, s),
         ata' \in [Mints -> [Users -> Nat \cup {Absent}]]
  PROVE  Inv'
<1> DEFINE a == escrow[k][s].mint_a
<1>1. a \in Mints
  BY VaultThere DEF Escrow
<1>2. /\ escrow' = [escrow EXCEPT ![k][s] = Absent]
      /\ vault' = [vault EXCEPT ![k][s][a] = Absent]
      /\ deposited' = [deposited EXCEPT ![k][s][a] = 0]
  BY DEF CloseVault
<1>3. \A m \in Mints : m # a => ~(deposited[k][s][m] > 0)
  BY DEF Inv, DepositsCovered
<1> HIDE DEF a
<1>4. Types'
  <2>1. escrow' \in [Users -> [Seeds -> Escrow \cup {Absent}]]
    BY <1>2 DEF Inv, Types
  <2>2. vault' \in [Users -> [Seeds -> [Mints -> Nat \cup {Absent}]]]
    BY <1>1, <1>2 DEF Inv, Types
  <2>3. deposited' \in [Users -> [Seeds -> [Mints -> Nat]]]
    BY <1>1, <1>2 DEF Inv, Types
  <2> QED  BY <2>1, <2>2, <2>3 DEF Types
<1>5. ASSUME NEW k2 \in Users, NEW s2 \in Seeds, NEW m \in Mints
      PROVE  /\ deposited'[k2][s2][m] <= Held(vault'[k2][s2][m])
             /\ deposited'[k2][s2][m] > 0 <=> Open(k2, s2)' /\ escrow'[k2][s2].mint_a = m
  <2>1. CASE k2 = k /\ s2 = s
    <3>1. ~Open(k, s)'
      BY <1>2 DEF Inv, Types, Open
    <3>2. CASE m = a
      <4>1. vault'[k][s][a] = Absent /\ deposited'[k][s][a] = 0
        BY <1>1, <1>2 DEF Inv, Types
      <4> QED  BY <2>1, <3>1, <3>2, <4>1 DEF Held
    <3>3. CASE m # a
      <4>1. /\ vault'[k][s][m] = vault[k][s][m]
            /\ deposited'[k][s][m] = deposited[k][s][m]
        BY <1>1, <1>2, <3>3 DEF Inv, Types
      <4>2. deposited[k][s][m] <= Held(vault[k][s][m])
        BY DEF Inv, DepositsCovered
      <4> QED  BY <1>3, <2>1, <3>1, <3>3, <4>1, <4>2
    <3> QED  BY <3>2, <3>3
  <2>2. CASE ~(k2 = k /\ s2 = s)
    <3>1. /\ escrow'[k2][s2] = escrow[k2][s2]
          /\ vault'[k2][s2] = vault[k2][s2]
          /\ deposited'[k2][s2] = deposited[k2][s2]
      BY <1>2, <2>2 DEF Inv, Types
    <3> QED  BY <3>1 DEF Inv, DepositsCovered, Open
  <2> QED  BY <2>1, <2>2
<1> QED  BY <1>4, <1>5 DEF Inv, DepositsCovered

-----------------------------------------------------------------------------
(***************************************************************************)
(* What the transfers do to the accounts of one mint.                      *)
(***************************************************************************)
Accounts == [Users -> Nat \cup {Absent}]

\* How much the balance of u in new exceeds that in old.
Gain(old, new, u) == Held(new[u]) - Held(old[u])

LEMMA GainAdds ==
  ASSUME NEW f \in Accounts, NEW g \in Accounts, NEW h \in Accounts, NEW u \in Users
  PROVE  Gain(f, h, u) = Gain(f, g, u) + Gain(g, h, u)
BY DEF Gain, Held, Accounts

LEMMA DebitGain ==
  ASSUME NEW old \in Accounts, NEW from \in Users, NEW n \in Nat,
         Debit(old, from, n) # Failed
  PROVE  LET new == Debit(old, from, n)
         IN  /\ new \in Accounts
             /\ \A u \in Users : Gain(old, new, u) = IF u = from THEN -n ELSE 0
<1> DEFINE new == Debit(old, from, n)
<1>1. old[from] \in Nat /\ old[from] >= n /\ new = [old EXCEPT ![from] = @ - n]
  BY DEF Debit, Accounts
<1> HIDE DEF new
<1>2. new \in Accounts
  BY <1>1 DEF Accounts
<1>3. ASSUME NEW u \in Users
      PROVE  Gain(old, new, u) = IF u = from THEN -n ELSE 0
  <2>1. CASE u = from
    <3>1. new[u] = old[u] - n /\ old[u] - n \in Nat /\ old[u] \in Nat
      BY <1>1, <2>1 DEF Accounts
    <3>2. Held(new[u]) = old[u] - n /\ Held(old[u]) = old[u]
      BY <3>1 DEF Held
    <3>3. Held(new[u]) - Held(old[u]) = -n
      BY <3>1, <3>2
    <3> QED  BY <2>1, <3>3 DEF Gain
  <2>2. CASE u # from
    <3>1. new[u] = old[u] /\ old[u] \in Nat \cup {Absent}
      BY <1>1, <2>2 DEF Accounts
    <3> QED  BY <2>2, <3>1 DEF Gain, Held
  <2> QED  BY <2>1, <2>2
<1> QED  BY <1>2, <1>3 DEF new

LEMMA CreditGain ==
  ASSUME NEW old \in Accounts, NEW to \in Users, NEW n \in Nat,
         Credit(old, to, n) # Failed
  PROVE  LET new == Credit(old, to, n)
         IN  /\ new \in Accounts
             /\ \A u \in Users : Gain(old, new, u) = IF u = to THEN n ELSE 0
<1> DEFINE new == Credit(old, to, n)
<1>1. old[to] \in Nat /\ new = [old EXCEPT ![to] = @ + n]
  BY DEF Credit, Accounts
<1> HIDE DEF new
<1>2. new \in Accounts
  BY <1>1 DEF Accounts
<1>3. ASSUME NEW u \in Users
      PROVE  Gain(old, new, u) = IF u = to THEN n ELSE 0
  <2>1. CASE u = to
    <3>1. new[u] = old[u] + n
      BY <1>1, <2>1 DEF Accounts
    <3> QED  BY <1>1, <2>1, <3>1 DEF Gain, Held
  <2>2. CASE u # to
    <3>1. new[u] = old[u] /\ old[u] \in Nat \cup {Absent}
      BY <1>1, <2>2 DEF Accounts
    <3> QED  BY <2>2, <3>1 DEF Gain, Held
  <2> QED  BY <2>1, <2>2
<1> QED  BY <1>2, <1>3 DEF new

LEMMA TransferGain ==
  ASSUME NEW old \in Accounts, NEW from \in Users, NEW to \in Users, NEW n \in Nat,
         TransferChecked(old, from, to, n) # Failed
  PROVE  LET new == TransferChecked(old, from, to, n)
         IN  /\ new \in Accounts
             /\ \A u \in Users :
                  Gain(old, new, u) = (IF u = to THEN n ELSE 0) - (IF u = from THEN n ELSE 0)
<1> DEFINE mid == Debit(old, from, n)
           new == Credit(mid, to, n)
<1>1. new # Failed /\ new = TransferChecked(old, from, to, n)
  BY DEF TransferChecked
<1>2. mid # Failed
  BY <1>1 DEF Credit
<1>3. mid \in Accounts /\ \A u \in Users : Gain(old, mid, u) = IF u = from THEN -n ELSE 0
  BY <1>2, DebitGain
<1> HIDE DEF mid
<1>4. new \in Accounts /\ \A u \in Users : Gain(mid, new, u) = IF u = to THEN n ELSE 0
  BY <1>1, <1>3, CreditGain
<1> HIDE DEF new
<1>5. \A u \in Users : Gain(old, new, u) = Gain(old, mid, u) + Gain(mid, new, u)
  BY <1>3, <1>4, GainAdds
<1>6. \A u \in Users :
        Gain(old, new, u) = (IF u = to THEN n ELSE 0) - (IF u = from THEN n ELSE 0)
  BY <1>3, <1>4, <1>5
<1> QED  BY <1>1, <1>4, <1>6

\* What the taker pays leaves the other mints alone.
LEMMA PaidMoves ==
  ASSUME Inv, NEW t \in Users, NEW k \in Users, NEW s \in Seeds, Open(k, s),
         Paid(t, k, s)[escrow[k][s].mint_b] # Failed
  PROVE  /\ Paid(t, k, s) \in [Mints -> Accounts]
         /\ \A mint \in Mints, u \in Users :
              Gain(ata[mint], Paid(t, k, s)[mint], u) =
                LET cost == IF mint = escrow[k][s].mint_b THEN escrow[k][s].receive ELSE 0
                IN  (IF u = k THEN cost ELSE 0) - (IF u = t THEN cost ELSE 0)
<1> DEFINE b == escrow[k][s].mint_b
           price == escrow[k][s].receive
           paid == TransferChecked(ata[b], t, k, price)
<1>1. b \in Mints /\ price \in Nat
  BY VaultThere DEF Escrow
<1>2. Paid(t, k, s) = [ata EXCEPT ![b] = paid]
  BY DEF Paid, Price
<1>3. ata \in [Mints -> Accounts]
  BY DEF Inv, Types, Accounts
<1>4. paid # Failed
  BY <1>1, <1>2, <1>3
<1> HIDE DEF b, price
<1>5. /\ paid \in Accounts
      /\ \A u \in Users :
           Gain(ata[b], paid, u) = (IF u = k THEN price ELSE 0) - (IF u = t THEN price ELSE 0)
  BY <1>1, <1>3, <1>4, TransferGain
<1> HIDE DEF paid
<1>6. Paid(t, k, s) \in [Mints -> Accounts]
  BY <1>2, <1>3, <1>5
<1>7. ASSUME NEW mint \in Mints, NEW u \in Users
      PROVE  Gain(ata[mint], Paid(t, k, s)[mint], u) =
               LET cost == IF mint = b THEN price ELSE 0
               IN  (IF u = k THEN cost ELSE 0) - (IF u = t THEN cost ELSE 0)
  <2>1. CASE mint = b
    <3>1. Paid(t, k, s)[mint] = paid
      BY <1>1, <1>2, <1>3, <2>1
    <3> QED  BY <1>5, <2>1, <3>1
  <2>2. CASE mint # b
    <3>1. Paid(t, k, s)[mint] = ata[mint]
      BY <1>2, <1>3, <2>2
    <3>2. Gain(ata[mint], ata[mint], u) = 0
      BY <1>3 DEF Gain, Held, Accounts
    <3> QED  BY <2>2, <3>1, <3>2
  <2> QED  BY <2>1, <2>2
<1> QED  BY <1>6, <1>7 DEF b, price

\* A take moves the price of b one way and the vault of a the other.
LEMMA TakeMoves ==
  ASSUME Inv, NEW t \in Users, NEW k \in Users, NEW s \in Seeds, Take(t, k, s)
  PROVE  /\ ata' \in [Mints -> Accounts]
         /\ \A mint \in Mints, u \in Users :
              Gain(ata[mint], ata'[mint], u) =
                LET e == escrow[k][s]
                    cost == IF mint = e.mint_b THEN e.receive ELSE 0
                    got == IF mint = e.mint_a THEN vault[k][s][e.mint_a] ELSE 0
                IN  (IF u = t THEN got - cost ELSE 0) + (IF u = k THEN cost ELSE 0)
<1> DEFINE a == escrow[k][s].mint_a
           b == escrow[k][s].mint_b
           price == escrow[k][s].receive
           locked == vault[k][s][a]
           paid == Paid(t, k, s)
           got == Credit(paid[a], t, locked)
<1>1. a \in Mints /\ b \in Mints /\ price \in Nat /\ locked \in Nat
  BY VaultThere DEF Escrow, Take
<1>2. /\ Open(k, s) /\ paid[b] # Failed /\ got # Failed
      /\ ata' = [paid EXCEPT ![a] = got]
  BY DEF Take, Payout
<1>3. ata \in [Mints -> Accounts]
  BY DEF Inv, Types, Accounts
<1>4. /\ paid \in [Mints -> Accounts]
      /\ \A mint \in Mints, u \in Users :
           Gain(ata[mint], paid[mint], u) =
             LET cost == IF mint = b THEN price ELSE 0
             IN  (IF u = k THEN cost ELSE 0) - (IF u = t THEN cost ELSE 0)
  BY <1>2, PaidMoves
<1> HIDE DEF a, b, price, locked, paid
<1>5. /\ got \in Accounts
      /\ \A u \in Users : Gain(paid[a], got, u) = IF u = t THEN locked ELSE 0
  BY <1>1, <1>2, <1>4, CreditGain
<1> HIDE DEF got
<1>6. ata' \in [Mints -> Accounts]
  BY <1>1, <1>2, <1>4, <1>5
<1>7. ASSUME NEW mint \in Mints, NEW u \in Users
      PROVE  Gain(ata[mint], ata'[mint], u) =
               LET cost == IF mint = b THEN price ELSE 0
                   won == IF mint = a THEN locked ELSE 0
               IN  (IF u = t THEN won - cost ELSE 0) + (IF u = k THEN cost ELSE 0)
  <2> DEFINE cost == IF mint = b THEN price ELSE 0
             won == IF mint = a THEN locked ELSE 0
  <2>1. Gain(ata[mint], ata'[mint], u) =
          Gain(ata[mint], paid[mint], u) + Gain(paid[mint], ata'[mint], u)
    BY <1>3, <1>4, <1>6, GainAdds
  <2>2. Gain(ata[mint], paid[mint], u) =
          (IF u = k THEN cost ELSE 0) - (IF u = t THEN cost ELSE 0)
    BY <1>4
  <2>3. Gain(paid[mint], ata'[mint], u) = IF u = t THEN won ELSE 0
    <3>1. CASE mint = a
      <4>1. ata'[mint] = got
        BY <1>1, <1>2, <1>4, <3>1
      <4> QED  BY <1>5, <3>1, <4>1
    <3>2. CASE mint # a
      <4>1. ata'[mint] = paid[mint]
        BY <1>2, <1>4, <3>2
      <4>2. Gain(paid[mint], paid[mint], u) = 0
        BY <1>4 DEF Gain, Held, Accounts
      <4> QED  BY <3>2, <4>1, <4>2
    <3> QED  BY <3>1, <3>2
  <2>4. cost \in Nat /\ won \in Nat
    BY <1>1
  <2> HIDE DEF cost, won
  <2>5. Gain(ata[mint], ata'[mint], u) =
          (IF u = t THEN won - cost ELSE 0) + (IF u = k THEN cost ELSE 0)
    BY <2>1, <2>2, <2>3, <2>4
  <2> QED  BY <2>5 DEF cost, won
<1> QED  BY <1>6, <1>7 DEF a, b, price, locked

\* A refund moves the vault to the maker.
LEMMA RefundMoves ==
  ASSUME Inv, NEW k \in Users, NEW s \in Seeds, Refund(k, s)
  PROVE  /\ ata' \in [Mints -> Accounts]
         /\ \A mint \in Mints, u \in Users :
              Gain(ata[mint], ata'[mint], u) =
                LET e == escrow[k][s]
                    got == IF mint = e.mint_a THEN vault[k][s][e.mint_a] ELSE 0
                IN  IF u = k THEN got ELSE 0
<1> DEFINE a == escrow[k][s].mint_a
           locked == vault[k][s][a]
           got == Credit(ata[a], k, locked)
<1>1. a \in Mints /\ locked \in Nat
  BY VaultThere DEF Escrow, Refund
<1>2. got # Failed /\ ata' = [ata EXCEPT ![a] = got]
  BY DEF Refund, Payout
<1>3. ata \in [Mints -> Accounts]
  BY DEF Inv, Types, Accounts
<1> HIDE DEF a, locked
<1>4. /\ got \in Accounts
      /\ \A u \in Users : Gain(ata[a], got, u) = IF u = k THEN locked ELSE 0
  BY <1>1, <1>2, <1>3, CreditGain
<1> HIDE DEF got
<1>5. ata' \in [Mints -> Accounts]
  BY <1>1, <1>2, <1>3, <1>4
<1>6. ASSUME NEW mint \in Mints, NEW u \in Users
      PROVE  Gain(ata[mint], ata'[mint], u) =
               IF u = k THEN IF mint = a THEN locked ELSE 0 ELSE 0
  <2>1. CASE mint = a
    <3>1. ata'[mint] = got
      BY <1>1, <1>2, <1>3, <2>1
    <3> QED  BY <1>4, <2>1, <3>1
  <2>2. CASE mint # a
    <3>1. ata'[mint] = ata[mint]
      BY <1>1, <1>2, <1>3, <2>2
    <3>2. Gain(ata[mint], ata[mint], u) = 0
      BY <1>3 DEF Gain, Held, Accounts
    <3> QED  BY <2>2, <3>1, <3>2
  <2> QED  BY <2>1, <2>2
<1> QED  BY <1>5, <1>6 DEF a, locked

-----------------------------------------------------------------------------
(***************************************************************************)
(* The token program, used directly, only adds to a vault.                 *)
(***************************************************************************)
LEMMA OneBalance ==
  ASSUME Inv, NEW u \in Users, NEW mint \in Mints, NEW n \in Nat \cup {Absent},
         ata' = [ata EXCEPT ![mint][u] = n]
  PROVE  ata' \in [Mints -> [Users -> Nat \cup {Absent}]]
BY DEF Inv, Types

LEMMA TokenStepKeepsInv ==
  ASSUME Inv, NEW u \in Users, NEW mint \in Mints,
         CreateAta(u, mint) \/ CloseAta(u, mint)
  PROVE  Inv'
<1>1. ata' \in [Mints -> [Users -> Nat \cup {Absent}]]
  <2>1. \/ ata' = [ata EXCEPT ![mint][u] = 0]
        \/ ata' = [ata EXCEPT ![mint][u] = Absent]
    BY DEF CreateAta, CloseAta
  <2> QED  BY <2>1, OneBalance
<1>2. UNCHANGED <<escrow, vault, deposited>>
  BY DEF CreateAta, CloseAta
<1> QED  BY <1>1, <1>2 DEF Inv, Types, DepositsCovered, Open

\* Nothing but the vault and the accounts changes, and the vault grows.
LEMMA GrowingVault ==
  ASSUME Inv, NEW k \in Users, NEW s \in Seeds, NEW mint \in Mints, NEW n \in Nat,
         n >= Held(vault[k][s][mint]),
         vault' = [vault EXCEPT ![k][s][mint] = n],
         ata' \in [Mints -> [Users -> Nat \cup {Absent}]],
         UNCHANGED <<escrow, deposited>>
  PROVE  Inv'
<1>1. vault' \in [Users -> [Seeds -> [Mints -> Nat \cup {Absent}]]]
  BY DEF Inv, Types
<1>2. ASSUME NEW k2 \in Users, NEW s2 \in Seeds, NEW m \in Mints
      PROVE  /\ deposited[k2][s2][m] <= Held(vault'[k2][s2][m])
             /\ deposited[k2][s2][m] > 0 <=> Open(k2, s2) /\ escrow[k2][s2].mint_a = m
  <2>1. deposited[k2][s2][m] > 0 <=> Open(k2, s2) /\ escrow[k2][s2].mint_a = m
    BY DEF Inv, DepositsCovered
  <2>2. /\ deposited[k2][s2][m] <= Held(vault[k2][s2][m])
        /\ deposited[k2][s2][m] \in Nat /\ vault[k2][s2][m] \in Nat \cup {Absent}
    BY DEF Inv, Types, DepositsCovered
  <2>3. CASE k2 = k /\ s2 = s /\ m = mint
    <3>1. vault'[k2][s2][m] = n
      BY <2>3 DEF Inv, Types
    <3> QED  BY <2>1, <2>2, <2>3, <3>1 DEF Held
  <2>4. CASE ~(k2 = k /\ s2 = s /\ m = mint)
    <3>1. vault'[k2][s2][m] = vault[k2][s2][m]
      BY <2>4 DEF Inv, Types
    <3> QED  BY <2>1, <2>2, <3>1
  <2> QED  BY <2>3, <2>4
<1> QED  BY <1>1, <1>2 DEF Inv, Types, DepositsCovered, Open

LEMMA SendKeepsInv ==
  ASSUME Inv, NEW u \in Users, NEW k \in Users, NEW s \in Seeds, NEW mint \in Mints,
         SendToVault(u, k, s, mint)
  PROVE  Inv'
<1>1. vault[k][s][mint] \in Nat /\ ata[mint][u] \in Nat \ {0}
  BY DEF SendToVault, Inv, Types
<1>2. ata' \in [Mints -> [Users -> Nat \cup {Absent}]]
  <2> PICK n \in Nat \ {0} : n = ata[mint][u]
    BY <1>1
  <2>1. ata' = [ata EXCEPT ![mint][u] = n - 1]
    BY DEF SendToVault, Inv, Types
  <2>2. n - 1 \in Nat
    OBVIOUS
  <2> QED  BY <2>1, <2>2, OneBalance
<1>3. /\ vault' = [vault EXCEPT ![k][s][mint] = vault[k][s][mint] + 1]
      /\ UNCHANGED <<escrow, deposited>>
  BY DEF SendToVault, Inv, Types
<1>4. vault[k][s][mint] + 1 \in Nat /\ vault[k][s][mint] + 1 >= Held(vault[k][s][mint])
  BY <1>1 DEF Held
<1> QED  BY <1>2, <1>3, <1>4, GrowingVault

LEMMA CreateVaultKeepsInv ==
  ASSUME Inv, NEW k \in Users, NEW s \in Seeds, NEW mint \in Mints,
         CreateVault(k, s, mint)
  PROVE  Inv'
<1>1. /\ vault' = [vault EXCEPT ![k][s][mint] = 0]
      /\ 0 >= Held(vault[k][s][mint])
      /\ UNCHANGED <<escrow, ata, deposited>>
  BY DEF CreateVault, Held
<1>2. ata' \in [Mints -> [Users -> Nat \cup {Absent}]]
  BY <1>1 DEF Inv, Types
<1> QED  BY <1>1, <1>2, GrowingVault

-----------------------------------------------------------------------------
LEMMA NextInv == Inv /\ [Next]_vars => Inv'
<1> SUFFICES ASSUME Inv, [Next]_vars PROVE Inv'
  OBVIOUS
<1>1. CASE UNCHANGED vars
  BY <1>1 DEF vars, Inv, Types, DepositsCovered, Open
<1>2. CASE \E k \in Users, s \in Seeds : EscrowStep(k, s)
  <2> PICK k \in Users, s \in Seeds : EscrowStep(k, s)
    BY <1>2
  <2>1. CASE \E a, b \in Mints, d, r \in Amounts : Make(k, s, a, b, d, r)
    BY <2>1, MakeStep
  <2>2. CASE \E t \in Users : Take(t, k, s)
    BY <2>2, TakeMoves, CloseStep DEF Take, Accounts
  <2>3. CASE Refund(k, s)
    BY <2>3, RefundMoves, CloseStep DEF Refund, Accounts
  <2> QED  BY <2>1, <2>2, <2>3 DEF EscrowStep
<1>3. CASE \E u \in Users, mint \in Mints : TokenStep(u, mint)
  BY <1>3, TokenStepKeepsInv, SendKeepsInv DEF TokenStep
<1>4. CASE \E k \in Users, s \in Seeds, mint \in Mints : CreateVault(k, s, mint)
  BY <1>4, CreateVaultKeepsInv
<1> QED  BY <1>1, <1>2, <1>3, <1>4 DEF Next

(***************************************************************************)
(* What a maker locked is in the vault of an open escrow until it is taken *)
(* or refunded, for any users, mints and seeds: Spec => []DepositsCovered. *)
(***************************************************************************)
THEOREM LocksCovered == Spec => []DepositsCovered
<1>1. Inv => DepositsCovered
  BY DEF Inv
<1> QED  BY <1>1, InitInv, NextInv, PTL DEF Spec

-----------------------------------------------------------------------------
\* The escrow of k and s closes as AtomicSwap says.
ClosesWell(k, s) ==
  LET e == escrow[k][s]
      locked == vault[k][s][e.mint_a]
      Got(mint) == IF mint = e.mint_a THEN locked ELSE 0
      Cost(mint) == IF mint = e.mint_b THEN e.receive ELSE 0
  IN  /\ vault'[k][s][e.mint_a] = Absent
      /\ \E t \in Users : \A mint \in Mints, u \in Users :
           Change(mint, u) =
             IF u = t THEN Got(mint) - (IF t = k THEN 0 ELSE Cost(mint))
             ELSE IF u = k THEN Cost(mint) ELSE 0

LEMMA TakeClosesWell ==
  ASSUME Inv, NEW t \in Users, NEW k \in Users, NEW s \in Seeds, Take(t, k, s)
  PROVE  ClosesWell(k, s)
<1> DEFINE e == escrow[k][s]
           locked == vault[k][s][e.mint_a]
<1>1. e \in Escrow /\ locked \in Nat
  BY VaultThere DEF Take
<1>2. e.mint_a \in Mints /\ e.receive \in Nat
  BY <1>1 DEF Escrow
<1>3. vault'[k][s][e.mint_a] = Absent
  BY <1>2 DEF Take, CloseVault, Inv, Types
<1>4. ASSUME NEW mint \in Mints, NEW u \in Users
      PROVE  LET got == IF mint = e.mint_a THEN locked ELSE 0
                 cost == IF mint = e.mint_b THEN e.receive ELSE 0
             IN  Change(mint, u) = IF u = t THEN got - (IF t = k THEN 0 ELSE cost)
                                   ELSE IF u = k THEN cost ELSE 0
  <2> DEFINE cost == IF mint = e.mint_b THEN e.receive ELSE 0
             got == IF mint = e.mint_a THEN locked ELSE 0
  <2>1. Change(mint, u) = (IF u = t THEN got - cost ELSE 0) + (IF u = k THEN cost ELSE 0)
    BY TakeMoves DEF Gain, Change
  <2>2. cost \in Nat /\ got \in Nat
    BY <1>1, <1>2
  <2> HIDE DEF cost, got
  <2>3. Change(mint, u) = IF u = t THEN got - (IF t = k THEN 0 ELSE cost)
                          ELSE IF u = k THEN cost ELSE 0
    BY <2>1, <2>2
  <2> QED  BY <2>3 DEF cost, got
<1> QED  BY <1>3, <1>4 DEF ClosesWell

LEMMA RefundClosesWell ==
  ASSUME Inv, NEW k \in Users, NEW s \in Seeds, Refund(k, s)
  PROVE  ClosesWell(k, s)
<1> DEFINE e == escrow[k][s]
           locked == vault[k][s][e.mint_a]
<1>1. e \in Escrow /\ locked \in Nat
  BY VaultThere DEF Refund
<1>2. e.mint_a \in Mints
  BY <1>1 DEF Escrow
<1>3. vault'[k][s][e.mint_a] = Absent
  BY <1>2 DEF Refund, CloseVault, Inv, Types
<1>4. ASSUME NEW mint \in Mints, NEW u \in Users
      PROVE  Change(mint, u) =
               IF u = k THEN (IF mint = e.mint_a THEN locked ELSE 0) - 0 ELSE 0
  <2>1. Change(mint, u) = IF u = k THEN IF mint = e.mint_a THEN locked ELSE 0 ELSE 0
    BY RefundMoves DEF Gain, Change
  <2> QED  BY <1>1, <2>1
<1> QED  BY <1>3, <1>4 DEF ClosesWell

\* Instructions about one escrow leave the others open.
LEMMA WhatCloses ==
  ASSUME Inv, Next, NEW k \in Users, NEW s \in Seeds, Open(k, s), ~Open(k, s)'
  PROVE  Refund(k, s) \/ \E t \in Users : Take(t, k, s)
<1>1. escrow' # escrow
  BY DEF Open
<1>2. PICK k2 \in Users, s2 \in Seeds : EscrowStep(k2, s2)
  BY <1>1 DEF Next, TokenStep, CreateAta, CloseAta, SendToVault, CreateVault
<1>3. ASSUME NEW a \in Mints, NEW b \in Mints, NEW d \in Amounts, NEW r \in Amounts,
             Make(k2, s2, a, b, d, r)
      PROVE  FALSE
  <2>1. ~(k2 = k /\ s2 = s)
    BY <1>3 DEF Make, FreeSeed
  <2>2. escrow'[k][s] = escrow[k][s]
    BY <1>3, <2>1 DEF Make, Inv, Types
  <2> QED  BY <2>2 DEF Open
<1>4. CASE Refund(k2, s2) \/ \E t \in Users : Take(t, k2, s2)
  <2>1. escrow' = [escrow EXCEPT ![k2][s2] = Absent]
    BY <1>4 DEF Refund, Take, CloseVault
  <2>2. k2 = k /\ s2 = s
    BY <2>1 DEF Open, Inv, Types
  <2> QED  BY <1>4, <2>2
<1> QED  BY <1>2, <1>3, <1>4 DEF EscrowStep

(***************************************************************************)
(* The swap is all or nothing, for any users, mints and seeds.             *)
(***************************************************************************)
THEOREM Atomic == Spec => AtomicSwap
<1> DEFINE Step == \A k \in Users, s \in Seeds :
                     Open(k, s) /\ ~Open(k, s)' => ClosesWell(k, s)
<1>1. Inv /\ [Next]_vars => [Step]_vars
  BY WhatCloses, TakeClosesWell, RefundClosesWell
<1> QED  BY <1>1, InitInv, NextInv, PTL DEF Spec, AtomicSwap, ClosesWell

-----------------------------------------------------------------------------
(***************************************************************************)
(* The tokens of one mint, counted over the accounts of the users and over *)
(* the vaults.                                                             *)
(***************************************************************************)
Vaults == Users \X Seeds

LEMMA VaultsFinite == IsFiniteSet(Vaults)
BY FS_Product DEF Vaults

\* Of one mint, t gets got and pays k the cost; a vault loses what t gets.
UsersGain(mint, t, k, got, cost) ==
  \A u \in Users :
    Gain(ata[mint], ata'[mint], u) =
      (IF u = t THEN got - cost ELSE 0) + (IF u = k THEN cost ELSE 0)

VaultLoses(mint, k, s, got) ==
  \A k2 \in Users, s2 \in Seeds :
    Held(vault'[k2][s2][mint]) =
      Held(vault[k2][s2][mint]) - (IF k2 = k /\ s2 = s THEN got ELSE 0)

LEMMA StepKeepsTotal ==
  ASSUME Types, Types', NEW mint \in Mints, NEW t \in Users, NEW k \in Users,
         NEW k2 \in Users, NEW s2 \in Seeds,
         NEW got \in Int, NEW cost \in Nat, got \in Nat \/ cost = 0,
         UsersGain(mint, t, k, got, cost), VaultLoses(mint, k2, s2, got)
  PROVE  InAtas(mint)' + InVaults(mint)' = InAtas(mint) + InVaults(mint)
<1> DEFINE f == [u \in Users |-> Held(ata[mint][u])]
           g == [u \in Users |-> Held(ata'[mint][u])]
           v == [p \in Vaults |-> Held(vault[p[1]][p[2]][mint])]
           w == [p \in Vaults |-> Held(vault'[p[1]][p[2]][mint])]
           p2 == <<k2, s2>>
<1>1. f \in [Users -> Nat] /\ g \in [Users -> Nat]
  BY DEF Types, Held
<1>2. v \in [Vaults -> Nat] /\ w \in [Vaults -> Nat] /\ p2 \in Vaults
  BY DEF Types, Held, Vaults
<1>3. \A u \in Users :
        g[u] = f[u] + (IF u = t THEN got - cost ELSE 0) + (IF u = k THEN cost ELSE 0)
  <2> TAKE u \in Users
  <2>1. /\ f[u] \in Nat /\ g[u] \in Nat
        /\ f[u] = Held(ata[mint][u]) /\ g[u] = Held(ata'[mint][u])
    BY <1>1
  <2>2. Gain(ata[mint], ata'[mint], u) = g[u] - f[u]
    BY <2>1 DEF Gain
  <2>3. Gain(ata[mint], ata'[mint], u) =
          (IF u = t THEN got - cost ELSE 0) + (IF u = k THEN cost ELSE 0)
    BY DEF UsersGain
  <2> HIDE DEF f, g
  <2>4. g[u] - f[u] = (IF u = t THEN got - cost ELSE 0) + (IF u = k THEN cost ELSE 0)
    BY <2>2, <2>3
  <2> QED  BY ONLY got \in Int, cost \in Nat, <2>1, <2>4
<1>4. \A q \in Vaults : w[q] = v[q] - (IF q = p2 THEN got ELSE 0)
  BY <1>2 DEF Vaults, VaultLoses
<1>5. /\ InAtas(mint) = SumFunction(f) /\ InAtas(mint)' = SumFunction(g)
      /\ InVaults(mint) = SumFunction(v) /\ InVaults(mint)' = SumFunction(w)
  BY DEF InAtas, InVaults, Vaults
<1> HIDE DEF f, g, v, w, p2
<1> DEFINE mid == [u \in Users |-> f[u] + (IF u = t THEN got ELSE 0)]
<1>6. mid \in [Users -> Nat]
  <2>1. CASE got \in Nat
    BY <1>1, <2>1
  <2>2. CASE cost = 0
    <3>1. ASSUME NEW u \in Users PROVE f[u] + (IF u = t THEN got ELSE 0) \in Nat
      <4>1. g[u] = f[u] + (IF u = t THEN got ELSE 0)
        BY <1>1, <1>3, <2>2
      <4> QED  BY <1>1, <4>1
    <3> QED  BY <3>1
  <2> QED  BY <2>1, <2>2
<1>7. /\ \A u \in Users \ {t} : mid[u] = f[u]
      /\ mid[t] = f[t] + got
      /\ g = Moved(mid, t, k, cost)
  <2>1. /\ \A u \in Users \ {t} : mid[u] = f[u]
        /\ mid[t] = f[t] + got
    BY <1>1
  <2>2. ASSUME NEW u \in Users
        PROVE  g[u] = mid[u] - (IF u = t THEN cost ELSE 0) + (IF u = k THEN cost ELSE 0)
    BY <1>1, <1>3
  <2>3. DOMAIN mid = Users
    OBVIOUS
  <2> HIDE DEF mid
  <2> QED  BY <1>1, <2>1, <2>2, <2>3 DEF Moved
<1> HIDE DEF mid
<1>8. SumFunction(mid) = SumFunction(f) + mid[t] - f[t]
  <2>1. mid = [f EXCEPT ![t] = mid[t]] /\ mid[t] \in Nat
    BY <1>1, <1>6, <1>7
  <2> QED  BY <1>1, <2>1, SumExcept
<1>9. SumFunction(g) = SumFunction(mid)
  BY <1>1, <1>6, <1>7, SumTransfer
<1>10. SumFunction(w) = SumFunction(v) + w[p2] - v[p2]
  <2>1. w = [v EXCEPT ![p2] = w[p2]] /\ w[p2] \in Nat
    BY <1>2, <1>4
  <2> QED  BY <1>2, <2>1, VaultsFinite, SumExcept
<1>11. /\ SumFunction(f) \in Nat /\ SumFunction(v) \in Nat
       /\ f[t] \in Nat /\ v[p2] \in Nat /\ w[p2] = v[p2] - got
  BY <1>1, <1>2, <1>4, VaultsFinite, SumNat
<1> QED  BY <1>5, <1>7, <1>8, <1>9, <1>10, <1>11

TotalsKept ==
  \A mint \in Mints :
    InAtas(mint)' + InVaults(mint)' = InAtas(mint) + InVaults(mint)

\* What make takes from the maker is in the vault.
LEMMA MakeKeepsTotals ==
  ASSUME Inv, Inv', NEW k \in Users, NEW s \in Seeds, NEW a \in Mints, NEW b \in Mints,
         NEW d \in Amounts, NEW r \in Amounts, Make(k, s, a, b, d, r)
  PROVE  TotalsKept
<1>1. /\ d \in Nat /\ ata[a][k] \in Nat
      /\ ata' = [ata EXCEPT ![a][k] = @ - d]
      /\ vault' = [vault EXCEPT ![k][s][a] = d]
      /\ vault[k][s][a] = Absent
  BY DEF Make, FreeSeed, Inv, Types
<1>2. SUFFICES ASSUME NEW mint \in Mints
             PROVE  InAtas(mint)' + InVaults(mint)' = InAtas(mint) + InVaults(mint)
  BY DEF TotalsKept
<1> DEFINE got == IF mint = a THEN -d ELSE 0
<1>3. got \in Int
  BY <1>1
<1>4. ASSUME NEW u \in Users
      PROVE  Gain(ata[mint], ata'[mint], u) = IF u = k THEN got ELSE 0
  <2>1. CASE mint = a /\ u = k
    <3>1. ata'[mint][u] = ata[a][k] - d /\ ata[a][k] - d \in Nat
      BY <1>1, <2>1 DEF Inv, Types, Make
    <3> QED  BY <1>1, <2>1, <3>1 DEF Gain, Held
  <2>2. CASE ~(mint = a /\ u = k)
    <3>1. ata'[mint][u] = ata[mint][u] /\ ata[mint][u] \in Nat \cup {Absent}
      BY <1>1, <2>2 DEF Inv, Types
    <3> QED  BY <2>2, <3>1 DEF Gain, Held
  <2> QED  BY <2>1, <2>2
<1>5. ASSUME NEW k3 \in Users, NEW s3 \in Seeds
      PROVE  Held(vault'[k3][s3][mint]) =
               Held(vault[k3][s3][mint]) - (IF k3 = k /\ s3 = s THEN got ELSE 0)
  <2>1. CASE mint = a /\ k3 = k /\ s3 = s
    <3>1. vault'[k3][s3][mint] = d
      BY <1>1, <2>1 DEF Inv, Types
    <3> QED  BY <1>1, <2>1, <3>1 DEF Held
  <2>2. CASE ~(mint = a /\ k3 = k /\ s3 = s)
    <3>1. /\ vault'[k3][s3][mint] = vault[k3][s3][mint]
          /\ vault[k3][s3][mint] \in Nat \cup {Absent}
      BY <1>1, <2>2 DEF Inv, Types
    <3> QED  BY <2>2, <3>1 DEF Held
  <2> QED  BY <2>1, <2>2
<1> HIDE DEF got
<1>6. UsersGain(mint, k, k, got, 0) /\ VaultLoses(mint, k, s, got)
  BY <1>3, <1>4, <1>5 DEF UsersGain, VaultLoses
<1> QED  BY <1>3, <1>6, StepKeepsTotal DEF Inv

\* A vault closes as its tokens go to a user, who may pay the maker.
LEMMA CloseKeepsTotals ==
  ASSUME Inv, Inv', NEW t \in Users, NEW k \in Users, NEW s \in Seeds,
         NEW price \in [Mints -> Nat], Open(k, s), CloseVault(k, s),
         \A mint \in Mints, u \in Users :
           Gain(ata[mint], ata'[mint], u) =
             LET a == escrow[k][s].mint_a
                 got == IF mint = a THEN vault[k][s][a] ELSE 0
             IN  (IF u = t THEN got - price[mint] ELSE 0) + (IF u = k THEN price[mint] ELSE 0)
  PROVE  TotalsKept
<1> DEFINE a == escrow[k][s].mint_a
           locked == vault[k][s][a]
<1>1. a \in Mints /\ locked \in Nat /\ vault' = [vault EXCEPT ![k][s][a] = Absent]
  BY VaultThere DEF Escrow, CloseVault
<1>2. SUFFICES ASSUME NEW mint \in Mints
             PROVE  InAtas(mint)' + InVaults(mint)' = InAtas(mint) + InVaults(mint)
  BY DEF TotalsKept
<1> DEFINE got == IF mint = a THEN locked ELSE 0
<1>3. \A u \in Users :
        Gain(ata[mint], ata'[mint], u) =
          (IF u = t THEN got - price[mint] ELSE 0) + (IF u = k THEN price[mint] ELSE 0)
  OBVIOUS
<1>4. ASSUME NEW k3 \in Users, NEW s3 \in Seeds
      PROVE  Held(vault'[k3][s3][mint]) =
               Held(vault[k3][s3][mint]) - (IF k3 = k /\ s3 = s THEN got ELSE 0)
  <2>1. CASE mint = a /\ k3 = k /\ s3 = s
    <3>1. vault'[k3][s3][mint] = Absent /\ vault[k3][s3][mint] = locked /\ got = locked
      BY <1>1, <2>1 DEF Inv, Types
    <3> HIDE DEF a, locked, got
    <3> QED  BY <1>1, <2>1, <3>1 DEF Held
  <2>2. CASE ~(mint = a /\ k3 = k /\ s3 = s)
    <3> HIDE DEF a, locked
    <3>1. /\ vault'[k3][s3][mint] = vault[k3][s3][mint]
          /\ vault[k3][s3][mint] \in Nat \cup {Absent}
      BY <1>1, <2>2 DEF Inv, Types
    <3> QED  BY <2>2, <3>1 DEF Held
  <2> QED  BY <2>1, <2>2
<1>5. got \in Nat /\ got \in Int /\ price[mint] \in Nat
  BY <1>1
<1> HIDE DEF got
<1>6. UsersGain(mint, t, k, got, price[mint]) /\ VaultLoses(mint, k, s, got)
  BY <1>3, <1>4 DEF UsersGain, VaultLoses
<1> QED  BY <1>5, <1>6, StepKeepsTotal DEF Inv

\* An empty account counts as none.
LEMMA AccountStepKeepsTotals ==
  ASSUME Inv, NEW u \in Users, NEW m \in Mints, CreateAta(u, m) \/ CloseAta(u, m)
  PROVE  TotalsKept
<1>1. PICK n \in {0, Absent} : ata' = [ata EXCEPT ![m][u] = n]
  BY DEF CreateAta, CloseAta
<1>2. Held(ata[m][u]) = 0 /\ vault' = vault
  BY DEF CreateAta, CloseAta, Held
<1>3. ASSUME NEW mint \in Mints, NEW v \in Users
      PROVE  Held(ata'[mint][v]) = Held(ata[mint][v])
  <2>1. CASE mint = m /\ v = u
    <3>1. ata'[mint][v] = n
      BY <1>1, <2>1 DEF Inv, Types
    <3> QED  BY <1>2, <2>1, <3>1 DEF Held
  <2>2. CASE ~(mint = m /\ v = u)
    <3>1. ata'[mint][v] = ata[mint][v]
      BY <1>1, <2>2 DEF Inv, Types
    <3> QED  BY <3>1
  <2> QED  BY <2>1, <2>2
<1> QED  BY <1>2, <1>3 DEF TotalsKept, InAtas, InVaults

\* One token moves to a vault, or an empty vault is created.
LEMMA VaultStepKeepsTotals ==
  ASSUME Inv, Inv', NEW u \in Users, NEW k \in Users, NEW s \in Seeds, NEW m \in Mints,
         CreateVault(k, s, m) \/ SendToVault(u, k, s, m)
  PROVE  TotalsKept
<1>1. SUFFICES ASSUME NEW mint \in Mints
             PROVE  InAtas(mint)' + InVaults(mint)' = InAtas(mint) + InVaults(mint)
  BY DEF TotalsKept
<1> DEFINE got == IF mint = m /\ SendToVault(u, k, s, m) THEN -1 ELSE 0
<1>2. \A v \in Users : Gain(ata[mint], ata'[mint], v) = IF v = u THEN got ELSE 0
  <2>1. CASE SendToVault(u, k, s, m)
    <3>1. ata[m][u] \in Nat \ {0} /\ ata' = [ata EXCEPT ![m][u] = @ - 1]
      BY <2>1 DEF SendToVault, Inv, Types
    <3>2. TAKE v \in Users
    <3>3. CASE mint = m /\ v = u
      <4>1. ata'[mint][v] = ata[m][u] - 1
        BY <3>1, <3>3 DEF Inv, Types
      <4>2. ata[m][u] - 1 \in Nat
        <5>1. ata[m][u] \in Nat \ {0}
          BY <3>1
        <5> QED  BY ONLY <5>1
      <4> QED  BY <2>1, <3>1, <3>3, <4>1, <4>2 DEF Gain, Held
    <3>4. CASE ~(mint = m /\ v = u)
      <4>1. ata'[mint][v] = ata[mint][v] /\ ata[mint][v] \in Nat \cup {Absent}
        BY <3>1, <3>4 DEF Inv, Types
      <4> QED  BY <3>4, <4>1 DEF Gain, Held
    <3> QED  BY <3>3, <3>4
  <2>2. CASE ~SendToVault(u, k, s, m)
    <3>1. TAKE v \in Users
    <3>2. Held(ata'[mint][v]) = Held(ata[mint][v]) /\ Held(ata[mint][v]) \in Nat
      BY <2>2 DEF CreateAta, CloseAta, CreateVault, Inv, Types, Held
    <3> QED  BY <2>2, <3>2 DEF Gain
  <2> QED  BY <2>1, <2>2
<1>3. \A k3 \in Users, s3 \in Seeds :
        Held(vault'[k3][s3][mint]) =
          Held(vault[k3][s3][mint]) - (IF k3 = k /\ s3 = s THEN got ELSE 0)
  <2>1. CASE SendToVault(u, k, s, m)
    <3>1. vault[k][s][m] \in Nat /\ vault' = [vault EXCEPT ![k][s][m] = @ + 1]
      BY <2>1 DEF SendToVault, Inv, Types
    <3>2. TAKE k3 \in Users, s3 \in Seeds
    <3>3. CASE mint = m /\ k3 = k /\ s3 = s
      <4>1. vault'[k3][s3][mint] = vault[k][s][m] + 1
        BY <3>1, <3>3 DEF Inv, Types
      <4> QED  BY <2>1, <3>1, <3>3, <4>1 DEF Held
    <3>4. CASE ~(mint = m /\ k3 = k /\ s3 = s)
      <4>1. /\ vault'[k3][s3][mint] = vault[k3][s3][mint]
            /\ vault[k3][s3][mint] \in Nat \cup {Absent}
        BY <3>1, <3>4 DEF Inv, Types
      <4> QED  BY <3>4, <4>1 DEF Held
    <3> QED  BY <3>3, <3>4
  <2>2. CASE ~SendToVault(u, k, s, m)
    <3>1. TAKE k3 \in Users, s3 \in Seeds
    <3>2. /\ Held(vault'[k3][s3][mint]) = Held(vault[k3][s3][mint])
          /\ Held(vault[k3][s3][mint]) \in Nat
      <4>1. /\ vault' = [vault EXCEPT ![k][s][m] = 0]
            /\ vault[k][s][m] = Absent
        BY <2>2 DEF CreateVault
      <4>2. CASE mint = m /\ k3 = k /\ s3 = s
        <5>1. vault'[k3][s3][mint] = 0
          BY <4>1, <4>2 DEF Inv, Types
        <5> QED  BY <4>1, <4>2, <5>1 DEF Held
      <4>3. CASE ~(mint = m /\ k3 = k /\ s3 = s)
        <5>1. /\ vault'[k3][s3][mint] = vault[k3][s3][mint]
              /\ vault[k3][s3][mint] \in Nat \cup {Absent}
          BY <4>1, <4>3 DEF Inv, Types
        <5> QED  BY <5>1 DEF Held
      <4> QED  BY <4>2, <4>3
    <3> QED  BY <2>2, <3>2
  <2> QED  BY <2>1, <2>2
<1>4. got \in Int
  OBVIOUS
<1> HIDE DEF got
<1>5. UsersGain(mint, u, u, got, 0) /\ VaultLoses(mint, k, s, got)
  BY <1>2, <1>3, <1>4 DEF UsersGain, VaultLoses
<1> QED  BY <1>4, <1>5, StepKeepsTotal DEF Inv

LEMMA NextKeepsTotals == Inv /\ Inv' /\ [Next]_vars => TotalsKept
<1> SUFFICES ASSUME Inv, Inv', [Next]_vars PROVE TotalsKept
  OBVIOUS
<1>1. CASE UNCHANGED vars
  BY <1>1 DEF vars, TotalsKept, InAtas, InVaults
<1>2. CASE \E k \in Users, s \in Seeds : EscrowStep(k, s)
  <2> PICK k \in Users, s \in Seeds : EscrowStep(k, s)
    BY <1>2
  <2>1. CASE \E a, b \in Mints, d, r \in Amounts : Make(k, s, a, b, d, r)
    BY <2>1, MakeKeepsTotals
  <2>2. CASE \E t \in Users : Take(t, k, s)
    <3> PICK t \in Users : Take(t, k, s)
      BY <2>2
    <3> DEFINE e == escrow[k][s]
               price == [mint \in Mints |-> IF mint = e.mint_b THEN e.receive ELSE 0]
    <3>1. Open(k, s) /\ CloseVault(k, s)
      BY DEF Take
    <3>2. price \in [Mints -> Nat]
      BY <3>1, VaultThere DEF Escrow
    <3>3. ASSUME NEW mint \in Mints, NEW u \in Users
          PROVE  Gain(ata[mint], ata'[mint], u) =
                   LET a == escrow[k][s].mint_a
                       got == IF mint = a THEN vault[k][s][a] ELSE 0
                   IN  (IF u = t THEN got - price[mint] ELSE 0)
                         + (IF u = k THEN price[mint] ELSE 0)
      BY TakeMoves
    <3> HIDE DEF price
    <3> QED  BY <3>1, <3>2, <3>3, CloseKeepsTotals
  <2>3. CASE Refund(k, s)
    <3> DEFINE price == [mint \in Mints |-> 0]
    <3>1. Open(k, s) /\ CloseVault(k, s)
      BY <2>3 DEF Refund
    <3>2. price \in [Mints -> Nat]
      OBVIOUS
    <3>3. ASSUME NEW mint \in Mints, NEW u \in Users
          PROVE  Gain(ata[mint], ata'[mint], u) =
                   LET a == escrow[k][s].mint_a
                       got == IF mint = a THEN vault[k][s][a] ELSE 0
                   IN  (IF u = k THEN got - price[mint] ELSE 0)
                         + (IF u = k THEN price[mint] ELSE 0)
      <4> DEFINE a == escrow[k][s].mint_a
                 got == IF mint = a THEN vault[k][s][a] ELSE 0
      <4>1. Gain(ata[mint], ata'[mint], u) = IF u = k THEN got ELSE 0
        BY <2>3, RefundMoves
      <4>2. got \in Nat /\ price[mint] = 0
        BY <3>1, VaultThere
      <4> HIDE DEF got, price
      <4>3. Gain(ata[mint], ata'[mint], u) =
              (IF u = k THEN got - price[mint] ELSE 0) + (IF u = k THEN price[mint] ELSE 0)
        BY <4>1, <4>2
      <4> QED  BY <4>3 DEF got
    <3> HIDE DEF price
    <3> QED  BY <3>1, <3>2, <3>3, CloseKeepsTotals
  <2> QED  BY <2>1, <2>2, <2>3 DEF EscrowStep
<1>3. CASE \E u \in Users, mint \in Mints : TokenStep(u, mint)
  <2> PICK u \in Users, mint \in Mints : TokenStep(u, mint)
    BY <1>3
  <2>1. CASE \E k \in Users, s \in Seeds : SendToVault(u, k, s, mint)
    BY <2>1, VaultStepKeepsTotals
  <2>2. CASE CreateAta(u, mint) \/ CloseAta(u, mint)
    BY <2>2, AccountStepKeepsTotals
  <2> QED  BY <2>1, <2>2 DEF TokenStep
<1>4. CASE \E k \in Users, s \in Seeds, mint \in Mints : CreateVault(k, s, mint)
  BY <1>4, VaultStepKeepsTotals
<1> QED  BY <1>1, <1>2, <1>3, <1>4 DEF Next

-----------------------------------------------------------------------------
(***************************************************************************)
(* The accounts hold what was there in the beginning, and so each of them  *)
(* a u64.                                                                  *)
(***************************************************************************)
LEMMA InitTotals == Init => TokensConserved
<1> SUFFICES ASSUME Init, NEW mint \in Mints
             PROVE  InAtas(mint) + InVaults(mint) = SumFunction(InitialBalance[mint])
  BY DEF TokensConserved
<1> DEFINE f == InitialBalance[mint]
           v == [p \in Vaults |-> 0]
<1>1. f \in [Users -> Nat] /\ [u \in Users |-> Held(ata[mint][u])] = f
  BY DEF Init, Held
<1>2. InAtas(mint) = SumFunction(f)
  BY <1>1 DEF InAtas
<1>3. InVaults(mint) = SumFunction(v)
  <2>1. [p \in Users \X Seeds |-> Held(vault[p[1]][p[2]][mint])] = v
    BY DEF Init, Held, Vaults
  <2> QED  BY <2>1 DEF InVaults
<1>4. SumFunction(v) = 0
  BY VaultsFinite, SumOfZeros
<1> HIDE DEF f
<1>5. SumFunction(f) \in Nat
  BY <1>1, SumNat
<1> QED  BY <1>2, <1>3, <1>4, <1>5 DEF f

IInv == Inv /\ TokensConserved

LEMMA Conserved == Spec => []IInv
<1>1. Init => IInv
  BY InitInv, InitTotals DEF IInv
<1>2. IInv /\ [Next]_vars => IInv'
  <2>1. SUFFICES ASSUME IInv, [Next]_vars PROVE Inv' /\ TokensConserved'
    BY DEF IInv
  <2>2. Inv' /\ TotalsKept
    BY <2>1, NextInv, NextKeepsTotals DEF IInv
  <2>3. TokensConserved'
    BY <2>1, <2>2 DEF IInv, TokensConserved, TotalsKept
  <2> QED  BY <2>2, <2>3
<1> QED  BY <1>1, <1>2, PTL DEF Spec

\* What is locked or lies in an account is part of the supply of its mint.
LEMMA BalancesFit == IInv => TypeOK
<1> SUFFICES ASSUME IInv PROVE TypeOK
  OBVIOUS
<1>1. Types /\ DepositsCovered /\ TokensConserved
  BY DEF IInv, Inv
<1>2. ASSUME NEW mint \in Mints
      PROVE  /\ \A u \in Users : Held(ata[mint][u]) <= MaxU64
             /\ \A k \in Users, s \in Seeds : Held(vault[k][s][mint]) <= MaxU64
  <2> DEFINE f == [u \in Users |-> Held(ata[mint][u])]
             v == [p \in Vaults |-> Held(vault[p[1]][p[2]][mint])]
             supply == SumFunction(InitialBalance[mint])
  <2>1. f \in [Users -> Nat] /\ v \in [Vaults -> Nat]
    BY <1>1 DEF Types, Held, Vaults
  <2>2. SumFunction(f) + SumFunction(v) = supply /\ supply <= MaxU64
    BY <1>1 DEF TokensConserved, InAtas, InVaults, Vaults
  <2> HIDE DEF supply
  <2>3. ASSUME NEW u \in Users PROVE f[u] <= SumFunction(f) /\ f[u] = Held(ata[mint][u])
    <3> HIDE DEF f
    <3>1. f[u] <= SumFunction(f)
      BY <2>1, SumBound
    <3> QED  BY <3>1 DEF f
  <2>4. ASSUME NEW k \in Users, NEW s \in Seeds
        PROVE  v[<<k, s>>] <= SumFunction(v) /\ v[<<k, s>>] = Held(vault[k][s][mint])
    <3>1. <<k, s>> \in Vaults
      BY DEF Vaults
    <3>2. v[<<k, s>>] = Held(vault[k][s][mint])
      BY <3>1
    <3> HIDE DEF v
    <3>3. v[<<k, s>>] <= SumFunction(v)
      BY <2>1, <3>1, VaultsFinite, SumBound
    <3> QED  BY <3>2, <3>3
  <2> HIDE DEF f, v
  <2>5. SumFunction(f) \in Nat /\ SumFunction(v) \in Nat
    BY <2>1, VaultsFinite, SumNat
  <2>6. ASSUME NEW u \in Users PROVE Held(ata[mint][u]) <= MaxU64
    <3>1. f[u] \in Nat
      BY <2>1
    <3> QED  BY <2>2, <2>3, <2>5, <3>1
  <2>7. ASSUME NEW k \in Users, NEW s \in Seeds PROVE Held(vault[k][s][mint]) <= MaxU64
    <3>1. v[<<k, s>>] \in Nat
      BY <2>1 DEF Vaults
    <3> QED  BY <2>2, <2>4, <2>5, <3>1
  <2> QED  BY <2>6, <2>7
<1>3. vault \in [Users -> [Seeds -> [Mints -> U64 \cup {Absent}]]]
  BY <1>1, <1>2 DEF Types, Held
<1>4. ata \in [Mints -> [Users -> U64 \cup {Absent}]]
  BY <1>1, <1>2 DEF Types, Held
<1>5. deposited \in [Users -> [Seeds -> [Mints -> U64]]]
  <2>1. ASSUME NEW k \in Users, NEW s \in Seeds, NEW mint \in Mints
        PROVE  deposited[k][s][mint] \in U64
    <3>1. /\ deposited[k][s][mint] \in Nat
          /\ deposited[k][s][mint] <= Held(vault[k][s][mint])
          /\ Held(vault[k][s][mint]) <= MaxU64
          /\ Held(vault[k][s][mint]) \in Nat
      BY <1>1, <1>2 DEF Types, DepositsCovered, Held
    <3> QED  BY <3>1
  <2> QED  BY <1>1, <2>1 DEF Types
<1> QED  BY <1>1, <1>3, <1>4, <1>5 DEF Types, TypeOK

(***************************************************************************)
(* Every balance stays a u64 or missing, every price and deposit a u64,    *)
(* for any users, mints and seeds: Spec => []TypeOK.                       *)
(***************************************************************************)
THEOREM TypeCorrect == Spec => []TypeOK
BY Conserved, BalancesFit, PTL

(***************************************************************************)
(* No instruction and no transfer makes or loses a token of any mint:      *)
(* Spec => []TokensConserved.                                              *)
(***************************************************************************)
THEOREM NothingMade == Spec => []TokensConserved
<1>1. IInv => TokensConserved
  BY DEF IInv
<1> QED  BY <1>1, Conserved, PTL

-----------------------------------------------------------------------------
(***************************************************************************)
(* The ways out of an escrow.  An instruction does one thing, for which it *)
(* waits for what May... says: that this is all it takes for the action to *)
(* be enabled is shown first, then when it is so.                          *)
(***************************************************************************)
MayRefund(k, s) ==
  /\ Open(k, s)
  /\ Credit(ata[escrow[k][s].mint_a], k, Payout(k, s)) # Failed
  /\ vault[k][s][escrow[k][s].mint_a] - Payout(k, s) = 0

\* What closing the escrow makes of everything, with new token accounts.
AfterClose(k, s, accounts) ==
  <<[escrow EXCEPT ![k][s] = Absent],
    [vault EXCEPT ![k][s][escrow[k][s].mint_a] = Absent],
    accounts,
    [deposited EXCEPT ![k][s][escrow[k][s].mint_a] = 0]>>

AfterRefund(k, s) ==
  AfterClose(k, s, [ata EXCEPT ![escrow[k][s].mint_a] =
                      Credit(ata[escrow[k][s].mint_a], k, Payout(k, s))])

LEMMA RefundIs ==
  ASSUME NEW k \in Users, NEW s \in Seeds
  PROVE  Refund(k, s) <=> MayRefund(k, s) /\ vars' = AfterRefund(k, s)
BY DEF Refund, CloseVault, MayRefund, AfterRefund, AfterClose, vars

MayTake(t, k, s) ==
  /\ Open(k, s)
  /\ DistinctAtas(t, k, s)
  /\ Paid(t, k, s)[escrow[k][s].mint_b] # Failed
  /\ Credit(Paid(t, k, s)[escrow[k][s].mint_a], t, Payout(k, s)) # Failed
  /\ vault[k][s][escrow[k][s].mint_a] - Payout(k, s) = 0

AfterTake(t, k, s) ==
  AfterClose(k, s, [Paid(t, k, s) EXCEPT ![escrow[k][s].mint_a] =
                      Credit(Paid(t, k, s)[escrow[k][s].mint_a], t, Payout(k, s))])

LEMMA TakeIs ==
  ASSUME NEW t \in Users, NEW k \in Users, NEW s \in Seeds
  PROVE  Take(t, k, s) <=> MayTake(t, k, s) /\ vars' = AfterTake(t, k, s)
BY DEF Take, CloseVault, MayTake, AfterTake, AfterClose, vars

\* When the two sides of a transfer succeed.
LEMMA Succeeds ==
  ASSUME NEW held \in Accounts, NEW u \in Users, NEW n \in Nat
  PROVE  /\ Credit(held, u, n) # Failed <=> held[u] # Absent
         /\ Debit(held, u, n) # Failed <=> held[u] # Absent /\ held[u] >= n
<1>1. held[u] # Absent => [held EXCEPT ![u] = @ + n] \in Accounts
  BY DEF Accounts
<1>2. held[u] # Absent /\ held[u] >= n => [held EXCEPT ![u] = @ - n] \in Accounts
  BY DEF Accounts
<1>3. Failed \notin Accounts
  BY FailedAssumption DEF Accounts
<1> QED  BY <1>1, <1>2, <1>3 DEF Credit, Debit

(***************************************************************************)
(* While an escrow is open, all that its maker needs for a refund is a     *)
(* token account to send it to, whatever was sent to the vault meanwhile   *)
(* and whoever else uses the same seeds and mints.                         *)
(***************************************************************************)
RefundOpen ==
  \A k \in Users, s \in Seeds :
    Open(k, s) => (MayRefund(k, s) <=> ata[escrow[k][s].mint_a][k] # Absent)

\* No sequence of instructions bars the maker of an open escrow from refund.
THEOREM RefundIsOpen == Spec => []RefundOpen
<1>1. Inv => RefundOpen
  <2> SUFFICES ASSUME Inv, NEW k \in Users, NEW s \in Seeds, Open(k, s)
               PROVE  MayRefund(k, s) <=> ata[escrow[k][s].mint_a][k] # Absent
    BY DEF RefundOpen
  <2> DEFINE a == escrow[k][s].mint_a
  <2>1. a \in Mints /\ vault[k][s][a] \in Nat
    BY VaultThere DEF Escrow
  <2>2. ata[a] \in Accounts
    BY <2>1 DEF Inv, Types, Accounts
  <2>3. Credit(ata[a], k, vault[k][s][a]) # Failed <=> ata[a][k] # Absent
    BY <2>1, <2>2, Succeeds
  <2> QED  BY <2>1, <2>3 DEF MayRefund, Payout
<1> QED  BY <1>1, InitInv, NextInv, PTL DEF Spec

(***************************************************************************)
(* Whoever has the price can take an open escrow, unless it is one of      *)
(* their own or exchanges a mint for itself, which nobody can take: all    *)
(* else that can be missing is a token account, of the taker for either    *)
(* mint or of the maker for the one that is paid in.                       *)
(***************************************************************************)
TakeOpen ==
  \A t, k \in Users, s \in Seeds : Open(k, s) =>
    LET e == escrow[k][s]
    IN  MayTake(t, k, s) <=>
          /\ t # k /\ e.mint_a # e.mint_b
          /\ ata[e.mint_a][t] # Absent
          /\ ata[e.mint_b][t] # Absent /\ ata[e.mint_b][t] >= e.receive
          /\ ata[e.mint_b][k] # Absent

\* Nor anyone who has the price from take.
THEOREM TakeIsOpen == Spec => []TakeOpen
<1>1. Inv => TakeOpen
  <2> SUFFICES ASSUME Inv, NEW t \in Users, NEW k \in Users, NEW s \in Seeds, Open(k, s)
               PROVE  LET e == escrow[k][s]
                      IN  MayTake(t, k, s) <=>
                            /\ t # k /\ e.mint_a # e.mint_b
                            /\ ata[e.mint_a][t] # Absent
                            /\ ata[e.mint_b][t] # Absent /\ ata[e.mint_b][t] >= e.receive
                            /\ ata[e.mint_b][k] # Absent
    BY DEF TakeOpen
  <2> DEFINE a == escrow[k][s].mint_a
             b == escrow[k][s].mint_b
             price == escrow[k][s].receive
             debited == Debit(ata[b], t, price)
             paid == Paid(t, k, s)
  <2>1. a \in Mints /\ b \in Mints /\ price \in Nat /\ vault[k][s][a] \in Nat
    BY VaultThere DEF Escrow
  <2>2. ata \in [Mints -> Accounts]
    BY DEF Inv, Types, Accounts
  <2>3. paid[b] = Credit(debited, k, price) /\ (a # b => paid[a] = ata[a])
    BY <2>1, <2>2 DEF Paid, TransferChecked, Price
  <2>4. debited # Failed <=> ata[b][t] # Absent /\ ata[b][t] >= price
    BY <2>1, <2>2, Succeeds
  <2>5. debited # Failed =>
          /\ debited \in Accounts
          /\ \A u \in Users : debited[u] # Absent <=> ata[b][u] # Absent
    <3> SUFFICES ASSUME debited # Failed
                 PROVE  /\ debited \in Accounts
                        /\ \A u \in Users : debited[u] # Absent <=> ata[b][u] # Absent
      OBVIOUS
    <3>1. debited \in Accounts
      BY <2>1, <2>2, DebitGain
    <3>2. debited = [ata[b] EXCEPT ![t] = @ - price] /\ ata[b][t] # Absent /\ ata[b][t] >= price
      BY DEF Debit
    <3>3. ata[b] \in Accounts
      BY <2>1, <2>2
    <3> HIDE DEF debited, b, price
    <3>4. ASSUME NEW u \in Users PROVE debited[u] # Absent <=> ata[b][u] # Absent
      <4>1. debited[t] \in Nat
        BY <2>1, <3>2, <3>3 DEF Accounts
      <4> QED  BY <3>2, <3>3, <4>1 DEF Accounts
    <3> QED  BY <3>1, <3>4
  <2>6. paid[b] # Failed <=> debited # Failed /\ ata[b][k] # Absent
    <3>1. debited = Failed => Credit(debited, k, price) = Failed
      BY DEF Credit
    <3>2. debited # Failed => (Credit(debited, k, price) # Failed <=> debited[k] # Absent)
      BY <2>1, <2>5, Succeeds
    <3> QED  BY <2>3, <2>5, <3>1, <3>2
  <2>7. a # b => (Credit(paid[a], t, vault[k][s][a]) # Failed <=> ata[a][t] # Absent)
    BY <2>1, <2>2, <2>3, Succeeds
  <2> HIDE DEF debited, paid
  <2> QED  BY <2>1, <2>4, <2>6, <2>7 DEF MayTake, DistinctAtas, Payout, paid
<1> QED  BY <1>1, InitInv, NextInv, PTL DEF Spec

-----------------------------------------------------------------------------
(***************************************************************************)
(* The vault program.  That balances fit in a u64 takes the sum of all     *)
(* that is owned, and the sum takes only that they are numbers.            *)
(***************************************************************************)
VaultTypes ==
  /\ vault_state \in [Users -> BOOLEAN]
  /\ vault_lamports \in [Users -> Nat]
  /\ wallet \in [Users -> Nat]
  /\ gifts \in [Users -> Int]

Rent(u) == IF vault_state[u] THEN StateRent ELSE 0

Owned == [u \in Users |-> wallet[u] + vault_lamports[u] + Rent(u)]

VaultInv ==
  /\ VaultTypes
  /\ LamportsAccounted
  /\ SumFunction(Owned) = SumFunction(InitialWallet)

\* The vault of u may open or close; nothing comes from outside.
PaysRent(u, to_state) ==
  /\ vault_state' \in [Users -> BOOLEAN]
  /\ \A v \in Users : Rent(v)' = Rent(v) + (IF v = u THEN to_state ELSE 0)
  /\ UNCHANGED gifts

\* A user moves lamports between the accounts of their own.
LEMMA MovesKeepInv ==
  ASSUME VaultInv, NEW u \in Users, NEW to_vault \in Int, NEW to_state \in Int,
         Moves(u, to_vault, to_state), PaysRent(u, to_state)
  PROVE  VaultInv'
<1>1. /\ vault_lamports' = [vault_lamports EXCEPT ![u] = @ + to_vault]
      /\ wallet' = [wallet EXCEPT ![u] = @ - to_vault - to_state]
      /\ vault_lamports[u] + to_vault \in Nat /\ wallet[u] - to_vault - to_state \in Nat
  BY DEF Moves, VaultInv, VaultTypes
<1>2. VaultTypes'
  BY <1>1 DEF VaultInv, VaultTypes, PaysRent
<1>3. ASSUME NEW v \in Users
      PROVE  wallet'[v] + vault_lamports'[v] + Rent(v)' = wallet[v] + vault_lamports[v] + Rent(v)
  <2>1. CASE v = u
    <3>1. /\ wallet'[v] = wallet[u] - to_vault - to_state
          /\ vault_lamports'[v] = vault_lamports[u] + to_vault
          /\ Rent(v)' = Rent(u) + to_state
      BY <1>1, <2>1, VaultAssumption DEF VaultInv, VaultTypes, Rent, PaysRent
    <3>2. wallet[u] \in Nat /\ vault_lamports[u] \in Nat /\ Rent(u) \in Nat
      BY VaultAssumption DEF VaultInv, VaultTypes, Rent
    <3> QED  BY <2>1, <3>1, <3>2
  <2>2. CASE v # u
    <3>1. Rent(v) \in Nat /\ Rent(v)' = Rent(v) + 0
      BY <2>2, VaultAssumption DEF VaultInv, VaultTypes, Rent, PaysRent
    <3>2. wallet'[v] = wallet[v] /\ vault_lamports'[v] = vault_lamports[v]
      BY <1>1, <2>2 DEF VaultInv, VaultTypes
    <3> QED  BY <3>1, <3>2
  <2> QED  BY <2>1, <2>2
<1>4. LamportsAccounted'
  BY <1>3 DEF VaultInv, LamportsAccounted, Rent, PaysRent
<1>5. Owned' = Owned
  BY <1>3 DEF Owned
<1> QED  BY <1>2, <1>4, <1>5 DEF VaultInv

\* A user sends lamports to the vault of another.
LEMMA SendKeepsVaultInv ==
  ASSUME VaultInv, NEW u \in Users, NEW v \in Users, NEW amount \in Amounts,
         Send(u, v, amount)
  PROVE  VaultInv'
<1>1. /\ u # v /\ amount \in Nat /\ wallet[u] - amount \in Nat
      /\ wallet' = [wallet EXCEPT ![u] = @ - amount]
      /\ vault_lamports' = [vault_lamports EXCEPT ![v] = @ + amount]
      /\ gifts' = [gifts EXCEPT ![u] = @ - amount, ![v] = @ + amount]
      /\ vault_state' = vault_state
  BY DEF Send, VaultInv, VaultTypes
<1>2. VaultTypes'
  BY <1>1 DEF VaultInv, VaultTypes
<1> DEFINE change(w) == (IF w = v THEN amount ELSE 0) - (IF w = u THEN amount ELSE 0)
<1>3. ASSUME NEW w \in Users
      PROVE  /\ wallet'[w] + vault_lamports'[w] + Rent(w)'
                   = wallet[w] + vault_lamports[w] + Rent(w) + change(w)
             /\ gifts'[w] = gifts[w] + change(w)
  <2>1. /\ wallet[w] \in Nat /\ vault_lamports[w] \in Nat /\ gifts[w] \in Int
        /\ Rent(w) \in Nat /\ Rent(w)' = Rent(w)
    BY <1>1, VaultAssumption DEF VaultInv, VaultTypes, Rent
  <2>2. CASE w = u
    BY <1>1, <2>1, <2>2 DEF VaultInv, VaultTypes
  <2>3. CASE w = v
    BY <1>1, <2>1, <2>3 DEF VaultInv, VaultTypes
  <2>4. CASE w # u /\ w # v
    BY <1>1, <2>1, <2>4 DEF VaultInv, VaultTypes
  <2> QED  BY <2>2, <2>3, <2>4
<1>4. LamportsAccounted'
  <2>1. ASSUME NEW w \in Users
        PROVE  wallet'[w] + vault_lamports'[w] + Rent(w)' = InitialWallet[w] + gifts'[w]
    <3>1. wallet[w] + vault_lamports[w] + Rent(w) = InitialWallet[w] + gifts[w]
      BY DEF VaultInv, LamportsAccounted, Rent
    <3>2. InitialWallet[w] \in Nat /\ gifts[w] \in Int /\ change(w) \in Int
      <4>1. change(w) \in Int
        BY <1>1
      <4>2. InitialWallet[w] \in U64 /\ gifts[w] \in Int
        BY VaultAssumption DEF VaultInv, VaultTypes
      <4> QED  BY <4>1, <4>2
    <3> HIDE DEF change
    <3> QED  BY <1>3, <3>1, <3>2
  <2> QED  BY <2>1 DEF LamportsAccounted, Rent
<1>5. Owned \in [Users -> Nat] /\ Owned' \in [Users -> Nat]
  BY <1>2, VaultAssumption DEF VaultInv, VaultTypes, Owned, Rent
<1>6. Owned' = Moved(Owned, u, v, amount)
  <2>1. ASSUME NEW w \in Users
        PROVE  Owned'[w] = Owned[w] - (IF w = u THEN amount ELSE 0) + (IF w = v THEN amount ELSE 0)
    <3>1. Owned'[w] = Owned[w] + change(w)
      BY <1>3 DEF Owned
    <3>2. Owned[w] \in Nat /\ amount \in Nat
      BY <1>1, <1>5
    <3> QED  BY ONLY <3>1, <3>2
  <2> QED  BY <1>5, <2>1 DEF Moved
<1>7. SumFunction(Owned') = SumFunction(Owned)
  BY <1>1, <1>5, <1>6, SumTransfer
<1> QED  BY <1>2, <1>4, <1>7 DEF VaultInv

LEMMA VaultInvKept == VaultInv /\ [VaultNext]_vault_vars => VaultInv'
<1> SUFFICES ASSUME VaultInv, [VaultNext]_vault_vars PROVE VaultInv'
  OBVIOUS
<1>1. CASE UNCHANGED vault_vars
  BY <1>1 DEF vault_vars, VaultInv, VaultTypes, LamportsAccounted, Owned, Rent
<1>2. CASE VaultNext
  <2> PICK u \in Users : UserStep(u)
    BY <1>2 DEF VaultNext
  <2>1. vault_lamports[u] \in Nat /\ StateRent \in Nat /\ \A v \in Users : Rent(v) \in Nat
    BY VaultAssumption DEF VaultInv, VaultTypes, Rent
  <2>2. CASE Initialize(u)
    <3>1. PaysRent(u, StateRent)
      BY <2>1, <2>2 DEF Initialize, PaysRent, Rent, VaultInv, VaultTypes
    <3> QED  BY <2>1, <2>2, <3>1, MovesKeepInv DEF Initialize
  <2>3. ASSUME NEW amount \in Int, Moves(u, amount, 0), UNCHANGED <<vault_state, gifts>>
        PROVE  VaultInv'
    <3>1. PaysRent(u, 0)
      BY <2>1, <2>3 DEF PaysRent, Rent, VaultInv, VaultTypes
    <3> QED  BY <2>3, <3>1, MovesKeepInv
  <2>4. CASE \E amount \in Amounts : Deposit(u, amount) \/ Withdraw(u, amount)
    <3> PICK amount \in Amounts : Deposit(u, amount) \/ Withdraw(u, amount)
      BY <2>4
    <3>1. amount \in Int /\ -amount \in Int
      OBVIOUS
    <3> QED  BY <2>3, <3>1 DEF Deposit, Withdraw
  <2>5. CASE Close(u)
    <3> DEFINE out == -vault_lamports[u]
               back == -StateRent
    <3>1. out \in Int /\ back \in Int
      BY <2>1
    <3>2. Moves(u, out, back)
      BY <2>5 DEF Close, Swept
    <3>3. PaysRent(u, back)
      BY <2>1, <2>5 DEF Close, PaysRent, Rent, VaultInv, VaultTypes
    <3> HIDE DEF out, back
    <3> QED  BY <3>1, <3>2, <3>3, MovesKeepInv
  <2>6. CASE \E v \in Users, amount \in Amounts : Send(u, v, amount)
    BY <2>6, SendKeepsVaultInv
  <2> QED  BY <2>2, <2>4, <2>5, <2>6 DEF UserStep
<1> QED  BY <1>1, <1>2

LEMMA VaultInvariant == VaultSpec => []VaultInv
<1>1. VaultInit => VaultInv
  <2> SUFFICES ASSUME VaultInit PROVE VaultInv
    OBVIOUS
  <2>1. VaultTypes
    BY VaultAssumption DEF VaultInit, VaultTypes
  <2>2. \A u \in Users : wallet[u] + vault_lamports[u] + Rent(u) = InitialWallet[u]
    BY VaultAssumption DEF VaultInit, Rent
  <2>3. LamportsAccounted
    BY <2>2, VaultAssumption DEF VaultInit, LamportsAccounted, Rent
  <2>4. Owned = InitialWallet
    BY <2>2, VaultAssumption DEF Owned
  <2> QED  BY <2>1, <2>3, <2>4 DEF VaultInv
<1> QED  BY <1>1, VaultInvKept, PTL DEF VaultSpec

(***************************************************************************)
(* No wallet and no vault ever holds more than a u64, for any users and    *)
(* any rent: VaultSpec => []VaultTypeOK.                                   *)
(***************************************************************************)
THEOREM VaultTypeCorrect == VaultSpec => []VaultTypeOK
<1>1. VaultInv => VaultTypeOK
  <2> SUFFICES ASSUME VaultInv PROVE VaultTypeOK
    OBVIOUS
  <2>1. Owned \in [Users -> Nat]
    BY VaultAssumption DEF VaultInv, VaultTypes, Owned, Rent
  <2>2. ASSUME NEW u \in Users PROVE wallet[u] \in U64 /\ vault_lamports[u] \in U64
    <3>1. Owned[u] <= SumFunction(Owned)
      BY <2>1, SumBound
    <3>2. SumFunction(Owned) \in Nat /\ SumFunction(Owned) <= MaxU64
      BY <2>1, SumNat, VaultAssumption DEF VaultInv
    <3>3. /\ Owned[u] = wallet[u] + vault_lamports[u] + Rent(u)
          /\ wallet[u] \in Nat /\ vault_lamports[u] \in Nat /\ Rent(u) \in Nat
      BY VaultAssumption DEF VaultInv, VaultTypes, Owned, Rent
    <3> QED  BY <3>1, <3>2, <3>3
  <2> QED  BY <2>2 DEF VaultInv, VaultTypes, VaultTypeOK
<1> QED  BY <1>1, VaultInvariant, PTL

(***************************************************************************)
(* Every lamport of a user is in the wallet, in the vault or in the rent,  *)
(* however vaults are opened, closed and sent to:                          *)
(* VaultSpec => []LamportsAccounted.                                       *)
(***************************************************************************)
THEOREM EveryLamport == VaultSpec => []LamportsAccounted
<1>1. VaultInv => LamportsAccounted
  BY DEF VaultInv
<1> QED  BY <1>1, VaultInvariant, PTL

-----------------------------------------------------------------------------
(***************************************************************************)
(* The ways out of a vault, stated like those out of an escrow.            *)
(***************************************************************************)
Affordable(u, to_vault, to_state) ==
  /\ wallet[u] >= to_vault + to_state /\ vault_lamports[u] + to_vault >= 0
  /\ RentExempt(vault_lamports[u] + to_vault)
  /\ RentExempt(wallet[u] - to_vault - to_state)

AfterMoves(u, open, to_vault, to_state) ==
  <<[vault_state EXCEPT ![u] = open],
    [vault_lamports EXCEPT ![u] = @ + to_vault],
    [wallet EXCEPT ![u] = @ - to_vault - to_state],
    gifts>>

LEMMA MovesIs ==
  ASSUME VaultTypes, NEW u \in Users, NEW to_vault, NEW to_state, NEW open
  PROVE  Moves(u, to_vault, to_state) /\ UNCHANGED gifts
             /\ vault_state' = [vault_state EXCEPT ![u] = open]
           <=> Affordable(u, to_vault, to_state)
                 /\ vault_vars' = AfterMoves(u, open, to_vault, to_state)
<1>1. ASSUME vault_lamports' = [vault_lamports EXCEPT ![u] = @ + to_vault],
             wallet' = [wallet EXCEPT ![u] = @ - to_vault - to_state]
      PROVE  /\ vault_lamports'[u] = vault_lamports[u] + to_vault
             /\ wallet'[u] = wallet[u] - to_vault - to_state
  BY <1>1 DEF VaultTypes
<1> QED  BY <1>1 DEF Moves, Settles, RentExempt, Affordable, AfterMoves, vault_vars

MayClose(u) == vault_state[u] /\ Affordable(u, -vault_lamports[u], -StateRent)

LEMMA CloseIs ==
  ASSUME VaultTypes, NEW u \in Users
  PROVE  Close(u) <=> /\ MayClose(u)
                      /\ vault_vars' = AfterMoves(u, FALSE, -vault_lamports[u], -StateRent)
BY MovesIs DEF Close, Swept, MayClose

MayWithdraw(u, amount) ==
  vault_state[u] /\ Withdrawable(u, amount) /\ Affordable(u, -amount, 0)

LEMMA WithdrawIs ==
  ASSUME VaultTypes, NEW u \in Users, NEW amount
  PROVE  Withdraw(u, amount)
           <=> MayWithdraw(u, amount) /\ vault_vars' = AfterMoves(u, TRUE, -amount, 0)
<1>1. vault_state[u] => [vault_state EXCEPT ![u] = TRUE] = vault_state
  BY DEF VaultTypes
<1> QED  BY <1>1, MovesIs DEF Withdraw, MayWithdraw

(***************************************************************************)
(* An open vault can always be closed, and emptied unless even all it      *)
(* holds would leave the wallet below the rent minimum, whatever was sent  *)
(* to it.                                                                  *)
(***************************************************************************)
VaultExitsOpen ==
  \A u \in Users : vault_state[u] =>
    /\ MayClose(u)
    /\ vault_lamports[u] > 0 =>
         (MayWithdraw(u, vault_lamports[u])
            <=> RentExempt(wallet[u] + vault_lamports[u]))

\* No sequence of instructions bars the owner of a vault from close.
THEOREM VaultExitsAreOpen == VaultSpec => []VaultExitsOpen
<1>1. VaultInv => VaultExitsOpen
  <2> SUFFICES ASSUME VaultInv, NEW u \in Users, vault_state[u]
               PROVE  /\ MayClose(u)
                      /\ vault_lamports[u] > 0 =>
                           (MayWithdraw(u, vault_lamports[u])
                              <=> RentExempt(wallet[u] + vault_lamports[u]))
    BY DEF VaultExitsOpen
  <2>1. /\ wallet[u] \in Nat /\ vault_lamports[u] \in Nat
        /\ RentMin \in Nat /\ StateRent \in Nat /\ StateRent >= RentMin
    BY VaultAssumption DEF VaultInv, VaultTypes
  <2>2. MayClose(u)
    <3>1. vault_lamports[u] + -vault_lamports[u] = 0
      BY <2>1
    <3>2. wallet[u] - -vault_lamports[u] - -StateRent >= RentMin
      BY <2>1
    <3>3. /\ wallet[u] >= -vault_lamports[u] + -StateRent
          /\ wallet[u] - -vault_lamports[u] - -StateRent \in Int
      BY <2>1
    <3> QED  BY <2>1, <3>1, <3>2, <3>3 DEF MayClose, Affordable, RentExempt
  <2>3. ASSUME vault_lamports[u] > 0
        PROVE  MayWithdraw(u, vault_lamports[u])
                 <=> RentExempt(wallet[u] + vault_lamports[u])
    <3>1. /\ vault_lamports[u] + -vault_lamports[u] = 0
          /\ wallet[u] >= -vault_lamports[u] + 0
          /\ wallet[u] - -vault_lamports[u] - 0 = wallet[u] + vault_lamports[u]
      BY <2>1
    <3>2. RentExempt(0)
      BY <2>1 DEF RentExempt
    <3>3. Withdrawable(u, vault_lamports[u])
      BY <2>1, <2>3 DEF Withdrawable
    <3> QED  BY <3>1, <3>2, <3>3 DEF MayWithdraw, Affordable
  <2> QED  BY <2>2, <2>3
<1> QED  BY <1>1, VaultInvariant, PTL

=============================================================================
