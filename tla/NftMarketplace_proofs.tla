------------------------ MODULE NftMarketplace_proofs ------------------------
(***************************************************************************)
(* For any number of marketplaces, users and assets, whatever the prices,  *)
(* the fees and the offers: a listing stands for an asset that its seller  *)
(* holds, frozen by the marketplace it is listed in; all money is          *)
(* accounted for, a sale settles as a whole, and sellers can always        *)
(* delist and sell.                                                        *)
(***************************************************************************)
EXTENDS NftMarketplace, Arithmetic

-----------------------------------------------------------------------------
\* What the constants are assumed to be, where the proofs rely on it.
LEMMA Constants ==
  /\ Markets \subseteq Authorities /\ None \notin Users \cup Authorities
  /\ \A a \in Assets : InitialOwner[a] \in Users
  /\ Prices \subseteq U64
BY MarketplaceAssumption, MplCoreAssumption

(***************************************************************************)
(* The calls of MPL Core.                                                  *)
(***************************************************************************)

\* What list makes of an asset, which no marketplace froze before.
LEMMA DelegatedAsset ==
  ASSUME NEW x \in Asset, NEW u, NEW m \in Markets, Delegated(x, u, m) # Failed
  PROVE  /\ Delegated(x, u, m) \in Asset
         /\ Delegated(x, u, m).owner = u
         /\ Delegated(x, u, m).freeze = m
         /\ Delegated(x, u, m).frozen
         /\ x.freeze = None
<1> DEFINE added == [x EXCEPT !.freeze = m, !.frozen = TRUE]
<1>1. x.owner = u /\ x.freeze = None /\ AddFreezeDelegate(x, u, m, TRUE) = added
  BY DEF Delegated, AddFreezeDelegate, AddTransferDelegate
<1>2. m \in Authorities
  BY Constants
<1>3. added \in Asset
  BY <1>2 DEF Asset
<1>4. Delegated(x, u, m) = [added EXCEPT !.transfer = m]
  BY <1>1 DEF Delegated, AddTransferDelegate
<1>5. [added EXCEPT !.transfer = m] \in Asset
  BY <1>2, <1>3 DEF Asset
<1>6. [added EXCEPT !.transfer = m].owner = u
  BY <1>1, <1>3 DEF Asset
<1> QED  BY <1>1, <1>3, <1>4, <1>5, <1>6 DEF Asset

\* What delist makes of one that this marketplace froze.
LEMMA UndelegatedAsset ==
  ASSUME NEW x \in Asset, NEW u, NEW m \in Markets, Undelegated(x, u, m) # Failed
  PROVE  /\ Undelegated(x, u, m) \in Asset /\ x.freeze = m
         /\ Undelegated(x, u, m).owner = x.owner
<1> DEFINE unfrozen == [x EXCEPT !.frozen = FALSE]
           removed == [unfrozen EXCEPT !.freeze = None]
<1>1. x.freeze = m /\ UpdateFreezeDelegate(x, m, FALSE) = unfrozen
  BY DEF Undelegated, RemoveTransferDelegate, RemoveFreezeDelegate, UpdateFreezeDelegate
<1>2. unfrozen \in Asset
  BY DEF Asset
<1>3. RemoveFreezeDelegate(unfrozen, u) = removed
  BY <1>1 DEF Undelegated, RemoveTransferDelegate, RemoveFreezeDelegate
<1>4. removed \in Asset
  BY <1>2 DEF Asset
<1>5. Undelegated(x, u, m) = [removed EXCEPT !.transfer = None]
  BY <1>1, <1>3 DEF Undelegated, RemoveTransferDelegate
<1> QED  BY <1>1, <1>4, <1>5 DEF Asset

\* What a sale makes of it.
LEMMA SoldAsset ==
  ASSUME NEW x \in Asset, NEW u \in Users, NEW m \in Markets, Sold(x, u, m) # Failed
  PROVE  /\ Sold(x, u, m) \in Asset /\ x.freeze = m
         /\ Sold(x, u, m).owner = u
<1> DEFINE unfrozen == [x EXCEPT !.frozen = FALSE]
           moved == [unfrozen EXCEPT !.owner = u]
           removed == [moved EXCEPT !.freeze = None]
<1>1. x.freeze = m /\ UpdateFreezeDelegate(x, m, FALSE) = unfrozen
  BY DEF Sold, RemoveTransferDelegate, RemoveFreezeDelegate, TransferAsset,
         UpdateFreezeDelegate
<1>2. TransferAsset(unfrozen, m, u) = moved
  BY <1>1 DEF Sold, RemoveTransferDelegate, RemoveFreezeDelegate, TransferAsset
<1>3. moved \in Asset
  BY DEF Asset
<1>4. RemoveFreezeDelegate(moved, u) = removed
  BY <1>1, <1>2 DEF Sold, RemoveTransferDelegate, RemoveFreezeDelegate
<1>5. removed \in Asset
  BY <1>3 DEF Asset
<1>6. Sold(x, u, m) = [removed EXCEPT !.transfer = None]
  BY <1>1, <1>2, <1>4 DEF Sold, RemoveTransferDelegate
<1> QED  BY <1>1, <1>5, <1>6 DEF Asset

\* What an owner does with MPL Core leaves an asset; one that is frozen keeps
\* its owner, and stays frozen by the same authority.
LEMMA OwnerCallsAsset ==
  ASSUME NEW x \in Asset, NEW u \in Users, NEW v \in Users, NEW result,
         \/ result = TransferAsset(x, u, v)
         \/ result = RemoveTransferDelegate(x, u)
         \/ result = AddTransferDelegate(x, u, u),
         result # Failed
  PROVE  /\ result \in Asset
         /\ x.frozen => /\ result.owner = x.owner
                        /\ result.freeze = x.freeze /\ result.frozen
<1>1. CASE result = TransferAsset(x, u, v)
  BY <1>1 DEF TransferAsset, Asset
<1>2. CASE result = RemoveTransferDelegate(x, u)
  BY <1>2 DEF RemoveTransferDelegate, Asset
<1>3. CASE result = AddTransferDelegate(x, u, u)
  BY <1>3 DEF AddTransferDelegate, Asset
<1> QED  BY <1>1, <1>2, <1>3

-----------------------------------------------------------------------------
(***************************************************************************)
(* The inductive invariant.  What matters of the types is what the         *)
(* instructions that list, delist and sell rely on: the money plays no     *)
(* part in who holds what.                                                 *)
(***************************************************************************)
RecordsOK ==
  /\ listing \in [Markets -> [Assets -> Listing \cup {Absent}]]
  /\ asset \in [Assets -> Asset]

Inv == RecordsOK /\ ListedMeansHeld

LEMMA InitInv == Init => Inv
<1> SUFFICES ASSUME Init PROVE Inv
  OBVIOUS
<1>1. \A a \in Assets : NewAsset(InitialOwner[a]) \in Asset
  BY Constants DEF NewAsset, Asset
<1> QED  BY <1>1 DEF Init, Inv, RecordsOK, ListedMeansHeld, Listed

\* An asset is listed in one marketplace at most, so a step that changes that
\* listing and the asset together leaves no other listing behind.
LEMMA OneListing ==
  ASSUME Inv, NEW a \in Assets, NEW m \in Markets,
         NEW x \in Asset, NEW l \in Listing \cup {Absent},
         asset[a].freeze \in {m, None},
         l # Absent => x.owner = l.seller /\ x.freeze = m /\ x.frozen,
         asset' = [asset EXCEPT ![a] = x],
         listing' = [listing EXCEPT ![m][a] = l]
  PROVE  Inv'
<1> USE DEF Inv
<1>1. RecordsOK'
  BY DEF RecordsOK
<1>2. None \notin Markets
  BY Constants
<1>3. ListedMeansHeld'
  <2> SUFFICES ASSUME NEW n \in Markets, NEW b \in Assets, Listed(n, b)'
               PROVE  /\ asset'[b].owner = listing'[n][b].seller
                      /\ asset'[b].freeze = n /\ asset'[b].frozen
    BY DEF ListedMeansHeld
  <2>1. CASE b # a
    <3>1. listing'[n][b] = listing[n][b] /\ asset'[b] = asset[b]
      BY <2>1 DEF RecordsOK
    <3> QED  BY <3>1 DEF ListedMeansHeld, Listed
  <2>2. CASE b = a /\ n # m
    <3>1. listing'[n][a] = listing[n][a]
      BY <2>2 DEF RecordsOK
    <3>2. Listed(n, a)
      BY <2>2, <3>1 DEF Listed
    <3> QED  BY <1>2, <2>2, <3>2 DEF ListedMeansHeld
  <2>3. CASE b = a /\ n = m
    <3>1. listing'[m][a] = l /\ asset'[a] = x
      BY DEF RecordsOK
    <3> QED  BY <2>3, <3>1 DEF Listed
  <2> QED  BY <2>1, <2>2, <2>3
<1> QED  BY <1>1, <1>3

-----------------------------------------------------------------------------
LEMMA ListStep ==
  ASSUME Inv, NEW m \in Markets, NEW a \in Assets, NEW u \in Users,
         NEW price \in Prices, NEW c \in Currencies, List(m, a, u, price, c)
  PROVE  Inv'
<1> DEFINE x == Delegated(asset[a], u, m)
           l == [seller |-> u, price |-> price, payment_mint |-> c]
<1>1. asset[a] \in Asset /\ x # Failed
  BY DEF Inv, RecordsOK, List
<1>2. /\ x \in Asset /\ x.owner = u /\ x.freeze = m /\ x.frozen
      /\ asset[a].freeze = None
  BY <1>1, DelegatedAsset
<1>3. l \in Listing /\ l.seller = u
  BY Constants DEF Listing
<1>4. asset' = [asset EXCEPT ![a] = x] /\ listing' = [listing EXCEPT ![m][a] = l]
  BY DEF List
<1> HIDE DEF x, l
<1> QED  BY <1>2, <1>3, <1>4, OneListing

LEMMA DelistStep ==
  ASSUME Inv, NEW m \in Markets, NEW a \in Assets, NEW u \in Users, Delist(m, a, u)
  PROVE  Inv'
<1> DEFINE x == Undelegated(asset[a], u, m)
<1>1. asset[a] \in Asset /\ x # Failed
  BY DEF Inv, RecordsOK, Delist
<1>2. x \in Asset /\ asset[a].freeze = m
  BY <1>1, UndelegatedAsset
<1>3. asset' = [asset EXCEPT ![a] = x] /\ listing' = [listing EXCEPT ![m][a] = Absent]
  BY DEF Delist
<1> HIDE DEF x
<1> QED  BY <1>2, <1>3, OneListing

\* The three sales, whatever was paid.
LEMMA SaleStep ==
  ASSUME Inv, NEW m \in Markets, NEW a \in Assets, NEW u \in Users, HandOver(m, a, u)
  PROVE  Inv'
<1> DEFINE x == Sold(asset[a], u, m)
<1>1. asset[a] \in Asset /\ x # Failed
  BY DEF Inv, RecordsOK, HandOver
<1>2. x \in Asset /\ asset[a].freeze = m
  BY <1>1, SoldAsset
<1>3. asset' = [asset EXCEPT ![a] = x] /\ listing' = [listing EXCEPT ![m][a] = Absent]
  BY DEF HandOver
<1> HIDE DEF x
<1> QED  BY <1>2, <1>3, OneListing

LEMMA TradeStep ==
  ASSUME Inv, NEW m \in Markets, NEW a \in Assets, NEW u \in Users, Trade(m, a, u)
  PROVE  Inv'
<1>1. CASE \E price \in Prices, c \in Currencies : List(m, a, u, price, c)
  BY <1>1, ListStep
<1>2. CASE Delist(m, a, u)
  BY <1>2, DelistStep
<1>3. CASE Buy(m, a, u)
  BY <1>3, SaleStep DEF Buy
<1>4. CASE \E c \in PaymentMints : BuyWithToken(m, a, u, c)
  BY <1>4, SaleStep DEF BuyWithToken
<1>5. CASE \E v \in Users : AcceptOffer(m, a, u, v)
  BY <1>5, SaleStep DEF AcceptOffer
<1> QED  BY <1>1, <1>2, <1>3, <1>4, <1>5 DEF Trade

LEMMA OwnerStepInv ==
  ASSUME Inv, NEW a \in Assets, NEW u \in Users, OwnerStep(a, u)
  PROVE  Inv'
<1> USE DEF Inv
<1>1. PICK result :
        /\ OwnerCalls(a, result)
        /\ \/ \E v \in Users : result = TransferAsset(asset[a], u, v)
           \/ result = RemoveTransferDelegate(asset[a], u)
           \/ result = AddTransferDelegate(asset[a], u, u)
  BY DEF OwnerStep, OwnerTransfers, OwnerRemovesTransfer, OwnerAddsTransfer
<1>2. /\ result # Failed /\ asset' = [asset EXCEPT ![a] = result]
      /\ listing' = listing
  BY <1>1 DEF OwnerCalls
<1>3. asset[a] \in Asset
  BY DEF RecordsOK
<1>4. /\ result \in Asset
      /\ asset[a].frozen => /\ result.owner = asset[a].owner
                            /\ result.freeze = asset[a].freeze /\ result.frozen
  BY <1>1, <1>2, <1>3, OwnerCallsAsset
<1>5. RecordsOK'
  BY <1>2, <1>4 DEF RecordsOK
<1>6. ListedMeansHeld'
  BY <1>2, <1>4 DEF ListedMeansHeld, Listed, RecordsOK
<1> QED  BY <1>5, <1>6

\* The other steps touch neither a listing nor an asset.
LEMMA MoneyStep ==
  ASSUME Inv, UNCHANGED <<listing, asset>>
  PROVE  Inv'
BY DEF Inv, RecordsOK, ListedMeansHeld, Listed

LEMMA NextInv == Inv /\ [Next]_vars => Inv'
<1> SUFFICES ASSUME Inv, [Next]_vars PROVE Inv'
  OBVIOUS
<1>1. CASE UNCHANGED vars
  BY <1>1, MoneyStep DEF vars
<1>2. CASE \E m \in Markets, fee \in Fees : Initialize(m, fee)
  BY <1>2, MoneyStep DEF Initialize
<1>3. CASE \E m \in Markets, u \in Users : FundTreasury(u, m)
  BY <1>3, MoneyStep DEF FundTreasury
<1>4. CASE \E m \in Markets, a \in Assets, u \in Users : Trade(m, a, u)
  BY <1>4, TradeStep
<1>5. ASSUME NEW a \in Assets, NEW u \in Users, OfferStep(a, u) PROVE Inv'
  BY <1>5, MoneyStep DEF OfferStep, MakeOffer, CancelOffer, FundOffer
<1>6. ASSUME NEW a \in Assets, NEW u \in Users, OwnerStep(a, u) PROVE Inv'
  BY <1>6, OwnerStepInv
<1> QED  BY <1>1, <1>2, <1>3, <1>4, <1>5, <1>6 DEF Next

(***************************************************************************)
(* The listings and the assets have their types throughout, and a listing  *)
(* stands for an asset that its seller holds, frozen by the marketplace.   *)
(***************************************************************************)
THEOREM Invariance == Spec => []Inv
<1> QED  BY NextInv, InitInv, PTL DEF Spec

-----------------------------------------------------------------------------
(***************************************************************************)
(* A listed asset stays with its seller, frozen by the marketplace: none   *)
(* is listed twice, and no listing survives its asset's change of hands.   *)
(***************************************************************************)
THEOREM ListingHolds == Spec => []ListedMeansHeld
<1>1. Inv => ListedMeansHeld
  BY DEF Inv
<1> QED  BY <1>1, Invariance, PTL

-----------------------------------------------------------------------------
(***************************************************************************)
(* The money.  Fees stay within what is paid, and payments and offers move *)
(* money without making any.                                               *)
(***************************************************************************)
MarketsOK ==
  /\ marketplace \in [Markets -> (0 .. BasisPoints) \cup {Absent}]
  /\ \A m \in Markets, a \in Assets : Listed(m, a) => marketplace[m] # Absent

MoneyOK ==
  /\ offer \in [Assets -> [Users -> Offer \cup {Absent}]]
  /\ balance \in [Currencies -> [Holders -> Nat]]
  /\ MoneyConserved

\* Finite sets of accounts, none of which is a user's and a marketplace's.
LEMMA Accounts ==
  /\ IsFiniteSet(Assets) /\ IsFiniteSet(Users) /\ IsFiniteSet(Holders)
  /\ Users \cap Markets = {} /\ Users \subseteq Holders /\ Markets \subseteq Holders
  /\ Sol \in Currencies /\ Sol \notin PaymentMints /\ PaymentMints \subseteq Currencies
<1>1. IsFiniteSet(Holders)
  BY MarketplaceAssumption, FS_Union DEF Holders
<1> QED  BY <1>1, MarketplaceAssumption, MplCoreAssumption DEF Holders, Currencies

LEMMA Widths == BasisPoints \in Nat \ {0} /\ MaxU16 \in Nat
BY DEF BasisPoints, MaxU16

\* A fee is at most the rate of what is paid.
LEMMA FeeBound ==
  ASSUME NEW m \in Markets, NEW amount \in U64, marketplace[m] \in 0 .. BasisPoints
  PROVE  /\ Fee(m, amount) \in 0 .. amount
         /\ Fee(m, amount) * BasisPoints <= amount * marketplace[m]
<1> DEFINE rate == marketplace[m]
           fee == Fee(m, amount)
<1>1. /\ amount \in Nat /\ BasisPoints \in Nat \ {0} /\ MaxU64 \in Nat
      /\ rate \in Nat /\ rate <= BasisPoints
  <2>1. amount \in Nat /\ BasisPoints \in Nat \ {0} /\ MaxU64 \in Nat
    BY Widths, MaxU64Assumption DEF U64
  <2> QED  BY <2>1
<1>2. fee = ((amount * rate) \div BasisPoints) % (MaxU64 + 1)
  BY DEF Fee, AsU64
<1> HIDE DEF fee, rate
<1>3. fee \in 0 .. MaxU64 /\ fee * BasisPoints <= amount * rate
  BY <1>1, <1>2, CastQuotientBounds
<1>4. amount * rate <= amount * BasisPoints
  BY <1>1, MulMono
<1>5. fee * BasisPoints <= amount * BasisPoints
  BY <1>1, <1>3, <1>4
<1>6. fee <= amount
  BY <1>1, <1>3, <1>5, MulCancel
<1> QED  BY <1>1, <1>3, <1>6 DEF fee, rate

\* What one account gets or gives changes the sum.
LEMMA AddMoves ==
  ASSUME NEW held \in [Holders -> Nat], NEW x \in Holders, NEW n \in Int, held[x] + n \in Nat
  PROVE  /\ Add(held, x, n) \in [Holders -> Nat]
         /\ \A h \in Holders : Add(held, x, n)[h] = held[h] + (IF h = x THEN n ELSE 0)
         /\ SumFunction(Add(held, x, n)) = SumFunction(held) + n
<1> DEFINE k == held[x] + n
<1>1. Add(held, x, n) = [held EXCEPT ![x] = k]
  BY DEF Add
<1>2. /\ [held EXCEPT ![x] = k] \in [Holders -> Nat]
      /\ \A h \in Holders : [held EXCEPT ![x] = k][h] = held[h] + (IF h = x THEN n ELSE 0)
  OBVIOUS
<1>3. SumFunction(held) \in Nat /\ held[x] \in Nat
  BY Accounts, SumNat
<1>4. k - held[x] = n
  BY <1>3
<1> HIDE DEF k
<1>5. SumFunction([held EXCEPT ![x] = k]) = SumFunction(held) + k - held[x]
  BY Accounts, SumExcept DEF k
<1>6. k \in Nat
  BY DEF k
<1>7. SumFunction([held EXCEPT ![x] = k]) = SumFunction(held) + n
  BY <1>3, <1>4, <1>5, <1>6
<1> QED  BY <1>1, <1>2, <1>7

\* A transfer moves the amount, which was there.
LEMMA PayMoves ==
  ASSUME NEW held \in [Holders -> Nat], NEW x \in Holders, NEW y \in Holders,
         NEW n \in Nat, Pay(held, x, y, n) # Failed
  PROVE  /\ Pay(held, x, y, n) \in [Holders -> Nat]
         /\ held[x] >= n
         /\ \A h \in Holders :
              Pay(held, x, y, n)[h] =
                held[h] - (IF h = x THEN n ELSE 0) + (IF h = y THEN n ELSE 0)
         /\ SumFunction(Pay(held, x, y, n)) = SumFunction(held)
<1> DEFINE mid == Add(held, x, -n)
           got == Add(mid, y, n)
<1>1. held[x] >= n /\ Pay(held, x, y, n) = got
  BY DEF Pay
<1>2. held[x] + (-n) \in Nat /\ -n \in Int
  BY <1>1
<1>3. /\ mid \in [Holders -> Nat]
      /\ \A h \in Holders : mid[h] = held[h] + (IF h = x THEN -n ELSE 0)
      /\ SumFunction(mid) = SumFunction(held) + (-n)
  BY <1>2, AddMoves
<1> HIDE DEF mid
<1>4. mid[y] + n \in Nat
  BY <1>3
<1>5. /\ got \in [Holders -> Nat]
      /\ \A h \in Holders : got[h] = mid[h] + (IF h = y THEN n ELSE 0)
      /\ SumFunction(got) = SumFunction(mid) + n
  BY <1>3, <1>4, AddMoves
<1> HIDE DEF got
<1>6. SumFunction(held) \in Nat
  BY Accounts, SumNat
<1>7. SumFunction(got) = SumFunction(held)
  BY <1>3, <1>5, <1>6
<1>8. \A h \in Holders :
        got[h] = held[h] - (IF h = x THEN n ELSE 0) + (IF h = y THEN n ELSE 0)
  BY <1>3, <1>5
<1> QED  BY <1>1, <1>5, <1>7, <1>8

\* An offer pays out all that is in it.
LEMMA SettledPays ==
  ASSUME NEW held \in [Holders -> Nat], NEW o \in Offer, NEW m \in Markets,
         NEW u \in Users, NEW v \in Users, Fee(m, o.amount) \in 0 .. o.amount
  PROVE  /\ Settled(held, o, m, u, v) \in [Holders -> Nat]
         /\ \A h \in Holders :
              Settled(held, o, m, u, v)[h] =
                held[h] + (IF h = m THEN Fee(m, o.amount) ELSE 0)
                        + (IF h = u THEN o.amount - Fee(m, o.amount) ELSE 0)
                        + (IF h = v THEN o.surplus ELSE 0)
         /\ SumFunction(Settled(held, o, m, u, v))
              = SumFunction(held) + (o.amount + o.surplus)
<1> DEFINE fee == Fee(m, o.amount)
           n == o.amount - fee
           k == o.surplus
           first == Add(held, m, fee)
           second == Add(first, u, n)
           third == Add(second, v, k)
<1>1. n \in Nat /\ k \in Nat /\ fee \in Nat /\ o.amount = fee + n
  BY MaxU64Assumption, MarketplaceAssumption DEF Offer, U64
<1>2. m \in Holders /\ u \in Holders /\ v \in Holders
  BY Accounts
<1>3. Settled(held, o, m, u, v) = third
  BY DEF Settled
<1>4. o.amount + k = fee + n + k
  BY <1>1
<1> HIDE DEF fee, n, k
<1>5. held[m] + fee \in Nat
  BY <1>1, <1>2
<1>6. /\ first \in [Holders -> Nat]
      /\ \A h \in Holders : first[h] = held[h] + (IF h = m THEN fee ELSE 0)
      /\ SumFunction(first) = SumFunction(held) + fee
  BY <1>1, <1>2, <1>5, AddMoves
<1> HIDE DEF first
<1>7. first[u] + n \in Nat
  BY <1>1, <1>2, <1>6
<1>8. /\ second \in [Holders -> Nat]
      /\ \A h \in Holders : second[h] = first[h] + (IF h = u THEN n ELSE 0)
      /\ SumFunction(second) = SumFunction(first) + n
  BY <1>1, <1>2, <1>6, <1>7, AddMoves
<1> HIDE DEF second
<1>9. second[v] + k \in Nat
  BY <1>1, <1>2, <1>8
<1>10. /\ third \in [Holders -> Nat]
       /\ \A h \in Holders : third[h] = second[h] + (IF h = v THEN k ELSE 0)
       /\ SumFunction(third) = SumFunction(second) + k
  BY <1>1, <1>2, <1>8, <1>9, AddMoves
<1> HIDE DEF third
<1>11. \A h \in Holders :
         third[h] = held[h] + (IF h = m THEN fee ELSE 0) + (IF h = u THEN n ELSE 0)
                            + (IF h = v THEN k ELSE 0)
  BY <1>1, <1>6, <1>8, <1>10
<1>12. SumFunction(third) = SumFunction(held) + (o.amount + k)
  <2>1. SumFunction(held) \in Nat
    BY Accounts, SumNat
  <2> QED  BY <1>1, <1>4, <1>6, <1>8, <1>10, <2>1
<1> QED  BY <1>3, <1>10, <1>11, <1>12 DEF fee, n, k

-----------------------------------------------------------------------------
(***************************************************************************)
(* What the offers hold, of one user and of all.                           *)
(***************************************************************************)
InOffers == SumFunction([u \in Users |-> Escrowed(u)])

Worth(o) == IF o # Absent THEN o.amount + o.surplus ELSE 0

LEMMA WorthNat == ASSUME NEW o \in Offer \cup {Absent} PROVE Worth(o) \in Nat
<1>1. CASE o = Absent
  BY <1>1 DEF Worth
<1>2. CASE o # Absent
  <2>1. o.amount \in Nat /\ o.surplus \in Nat
    BY <1>2, MaxU64Assumption, MarketplaceAssumption DEF Offer, U64
  <2> QED  BY <1>2, <2>1 DEF Worth
<1> QED  BY <1>1, <1>2

\* A step that changes one offer changes what its user has in offers, by as
\* much as what all have.
LEMMA OneOffer ==
  ASSUME offer \in [Assets -> [Users -> Offer \cup {Absent}]],
         NEW a \in Assets, NEW u \in Users, NEW o \in Offer \cup {Absent},
         offer' = [offer EXCEPT ![a][u] = o]
  PROVE  /\ offer' \in [Assets -> [Users -> Offer \cup {Absent}]]
         /\ Escrowed(u) \in Nat /\ InOffers \in Nat
         /\ Escrowed(u)' = Escrowed(u) + Worth(o) - InOffer(a, u)
         /\ InOffers' = InOffers + Worth(o) - InOffer(a, u)
<1> DEFINE row(v) == [b \in Assets |-> InOffer(b, v)]
           all == [v \in Users |-> Escrowed(v)]
<1>1. /\ offer' \in [Assets -> [Users -> Offer \cup {Absent}]]
      /\ \A b \in Assets, v \in Users :
           offer'[b][v] = IF b = a /\ v = u THEN o ELSE offer[b][v]
  OBVIOUS
<1>2. ASSUME NEW b \in Assets, NEW v \in Users
      PROVE  /\ InOffer(b, v) \in Nat
             /\ InOffer(b, v)' = IF b = a /\ v = u THEN Worth(o) ELSE InOffer(b, v)
  <2>1. InOffer(b, v) = Worth(offer[b][v]) /\ InOffer(b, v)' = Worth(offer'[b][v])
    BY DEF InOffer, Offered, Worth
  <2>2. InOffer(b, v) \in Nat
    BY <2>1, WorthNat
  <2> QED  BY <1>1, <2>1, <2>2
<1>3. Worth(o) \in Nat
  BY WorthNat
<1>4. ASSUME NEW v \in Users PROVE row(v) \in [Assets -> Nat] /\ Escrowed(v) = SumFunction(row(v))
  BY <1>2 DEF Escrowed
<1>5. ASSUME NEW v \in Users PROVE Escrowed(v) \in Nat
  <2> HIDE DEF row
  <2> QED  BY <1>4, Accounts, SumNat
<1>6. Escrowed(u)' = Escrowed(u) + Worth(o) - InOffer(a, u)
  <2> DEFINE r == row(u)
  <2>1. [b \in Assets |-> InOffer(b, u)'] = [r EXCEPT ![a] = Worth(o)]
    BY <1>2
  <2>2. Escrowed(u)' = SumFunction([r EXCEPT ![a] = Worth(o)])
    BY <2>1 DEF Escrowed
  <2>3. r \in [Assets -> Nat] /\ r[a] = InOffer(a, u) /\ Escrowed(u) = SumFunction(r)
    BY <1>4
  <2> DEFINE n == Worth(o)
  <2>4. n \in Nat /\ Escrowed(u)' = SumFunction([r EXCEPT ![a] = n])
    BY <1>3, <2>2
  <2> HIDE DEF r, n
  <2>5. IsFiniteSet(Assets) /\ r \in [Assets -> Nat] /\ a \in Assets
    BY <2>3, Accounts
  <2>6. SumFunction([r EXCEPT ![a] = n]) = SumFunction(r) + n - r[a]
    BY ONLY <2>4, <2>5, SumExcept, Zenon
  <2> QED  BY <2>3, <2>4, <2>6 DEF n
<1>7. InOffer(a, u) \in Nat /\ InOffer(a, u) <= Escrowed(u)
  <2> DEFINE r == row(u)
  <2>1. r \in [Assets -> Nat] /\ r[a] = InOffer(a, u) /\ Escrowed(u) = SumFunction(r)
    BY <1>4
  <2> HIDE DEF r
  <2>2. r[a] <= SumFunction(r)
    BY <2>1, Accounts, SumBound
  <2> QED  BY <1>2, <2>1, <2>2
<1>8. Escrowed(u)' \in Nat
  BY <1>3, <1>5, <1>6, <1>7
<1>9. InOffers' = InOffers + Worth(o) - InOffer(a, u) /\ InOffers \in Nat
  <2>1. ASSUME NEW v \in Users PROVE v # u => Escrowed(v)' = Escrowed(v)
    BY <1>2 DEF Escrowed
  <2>2. [v \in Users |-> Escrowed(v)'] = [all EXCEPT ![u] = Escrowed(u)']
    BY <2>1
  <2>3. all \in [Users -> Nat] /\ all[u] = Escrowed(u) /\ InOffers = SumFunction(all)
    BY <1>5 DEF InOffers
  <2>4. InOffers' = SumFunction([all EXCEPT ![u] = Escrowed(u)'])
    BY <2>2 DEF InOffers
  <2> HIDE DEF all
  <2> DEFINE k == Escrowed(u)'
  <2>5. k \in Nat /\ k = Escrowed(u) + Worth(o) - InOffer(a, u)
    BY <1>6, <1>8
  <2>6. InOffers' = SumFunction([all EXCEPT ![u] = k])
    BY <2>4
  <2> HIDE DEF k
  <2>7. IsFiniteSet(Users) /\ all \in [Users -> Nat] /\ u \in Users
    BY <2>3, Accounts
  <2>8. SumFunction([all EXCEPT ![u] = k]) = SumFunction(all) + k - all[u]
    BY ONLY <2>5, <2>7, SumExcept, Zenon
  <2>9. InOffers \in Nat
    BY <2>3, Accounts, SumNat
  <2> QED  BY <1>3, <1>5, <1>7, <2>3, <2>5, <2>6, <2>8, <2>9
<1> QED  BY <1>1, <1>5, <1>6, <1>9

\* Payments in one currency, without any offer.
LEMMA PaymentKeeps ==
  ASSUME MoneyOK, NEW c \in Currencies, NEW paid \in [Holders -> Nat],
         SumFunction(paid) = SumFunction(balance[c]),
         balance' = [balance EXCEPT ![c] = paid], offer' = offer
  PROVE  MoneyOK'
<1>1. /\ balance' \in [Currencies -> [Holders -> Nat]]
      /\ \A d \in Currencies : SumFunction(balance'[d]) = SumFunction(balance[d])
  BY DEF MoneyOK
<1>2. InOffers' = InOffers
  BY DEF InOffers, Escrowed, InOffer, Offered
<1> QED  BY <1>1, <1>2, Accounts DEF MoneyOK, MoneyConserved, InOffers

\* Payments into or out of an offer.
LEMMA OfferKeeps ==
  ASSUME MoneyOK, NEW a \in Assets, NEW u \in Users, NEW o \in Offer \cup {Absent},
         NEW paid \in [Holders -> Nat],
         SumFunction(paid) + Worth(o) = SumFunction(balance[Sol]) + InOffer(a, u),
         balance' = [balance EXCEPT ![Sol] = paid],
         offer' = [offer EXCEPT ![a][u] = o]
  PROVE  MoneyOK'
<1>1. /\ balance' \in [Currencies -> [Holders -> Nat]] /\ balance'[Sol] = paid
      /\ \A c \in PaymentMints : balance'[c] = balance[c]
  BY Accounts DEF MoneyOK
<1>2. /\ offer' \in [Assets -> [Users -> Offer \cup {Absent}]]
      /\ InOffers \in Nat /\ InOffers' = InOffers + Worth(o) - InOffer(a, u)
  BY OneOffer DEF MoneyOK
<1>3. InOffer(a, u) \in Nat /\ Worth(o) \in Nat
  <2>1. InOffer(a, u) = Worth(offer[a][u])
    BY DEF InOffer, Offered, Worth
  <2> QED  BY <2>1, WorthNat DEF MoneyOK
<1>4. SumFunction(paid) \in Nat /\ SumFunction(balance[Sol]) \in Nat
  BY Accounts, SumNat DEF MoneyOK
<1>5. SumFunction(balance'[Sol]) + InOffers' = SumFunction(balance[Sol]) + InOffers
  <2>1. SumFunction(balance'[Sol]) = SumFunction(paid)
    BY <1>1
  <2>2. SumFunction(paid) = SumFunction(balance[Sol]) + InOffer(a, u) - Worth(o)
    BY <1>3, <1>4
  <2> QED  BY <1>2, <1>3, <1>4, <2>1, <2>2
<1> QED  BY <1>1, <1>2, <1>5 DEF MoneyOK, MoneyConserved, InOffers

-----------------------------------------------------------------------------
(***************************************************************************)
(* A listing needs a marketplace, which keeps its fee.                     *)
(***************************************************************************)
LEMMA OneListingChanges ==
  ASSUME RecordsOK, MarketsOK, NEW m \in Markets, NEW a \in Assets, NEW l,
         l # Absent => marketplace[m] # Absent,
         marketplace' = marketplace, listing' = [listing EXCEPT ![m][a] = l]
  PROVE  MarketsOK'
<1>1. ASSUME NEW n \in Markets, NEW b \in Assets, Listed(n, b)'
      PROVE  marketplace[n] # Absent
  <2>1. CASE n = m /\ b = a
    <3>1. listing'[n][b] = l
      BY <2>1 DEF RecordsOK
    <3> QED  BY <1>1, <2>1, <3>1 DEF Listed
  <2>2. CASE ~(n = m /\ b = a)
    <3>1. listing'[n][b] = listing[n][b]
      BY <2>2 DEF RecordsOK
    <3> QED  BY <1>1, <3>1 DEF Listed, MarketsOK
  <2> QED  BY <2>1, <2>2
<1> QED  BY <1>1 DEF MarketsOK

LEMMA MarketsKept == Inv /\ MarketsOK /\ [Next]_vars => MarketsOK'
<1> SUFFICES ASSUME Inv, MarketsOK, [Next]_vars PROVE MarketsOK'
  OBVIOUS
<1>1. RecordsOK
  BY DEF Inv
<1>2. ASSUME UNCHANGED <<marketplace, listing>> PROVE MarketsOK'
  BY <1>2 DEF MarketsOK, Listed
<1>3. CASE UNCHANGED vars
  BY <1>2, <1>3 DEF vars
<1>4. ASSUME NEW m \in Markets, NEW fee \in Fees, Initialize(m, fee) PROVE MarketsOK'
  <2>1. fee \in 0 .. BasisPoints /\ fee # Absent
    <3>1. fee \in U16
      BY MarketplaceAssumption
    <3>2. fee # Absent
      BY <3>1, AbsentAssumption
    <3>3. fee \in Nat
      BY <3>1, Widths DEF U16
    <3>4. fee <= BasisPoints
      BY <1>4 DEF Initialize, FeeAllowed
    <3> QED  BY <3>2, <3>3, <3>4, Widths
  <2>2. marketplace' = [marketplace EXCEPT ![m] = fee] /\ listing' = listing
    BY <1>4 DEF Initialize
  <2> QED  BY <2>1, <2>2 DEF MarketsOK, Listed
<1>5. CASE \E m \in Markets, u \in Users : FundTreasury(u, m)
  BY <1>2, <1>5 DEF FundTreasury
<1>6. ASSUME NEW m \in Markets, NEW a \in Assets, NEW u \in Users, Trade(m, a, u)
      PROVE  MarketsOK'
  <2>1. ASSUME NEW price \in Prices, NEW c \in Currencies, List(m, a, u, price, c)
        PROVE  MarketsOK'
    <3> DEFINE l == [seller |-> u, price |-> price, payment_mint |-> c]
    <3>1. /\ marketplace[m] # Absent /\ marketplace' = marketplace
          /\ listing' = [listing EXCEPT ![m][a] = l]
      BY <2>1 DEF List
    <3> HIDE DEF l
    <3> QED  BY <1>1, <3>1, OneListingChanges
  <2>2. ASSUME listing' = [listing EXCEPT ![m][a] = Absent], marketplace' = marketplace
        PROVE  MarketsOK'
    BY <1>1, <2>2, OneListingChanges
  <2> QED
    BY <1>6, <2>1, <2>2 DEF Trade, Delist, Buy, BuyWithToken, AcceptOffer, HandOver
<1>7. ASSUME NEW a \in Assets, NEW u \in Users, OfferStep(a, u) \/ OwnerStep(a, u)
      PROVE  MarketsOK'
  BY <1>2, <1>7 DEF OfferStep, MakeOffer, CancelOffer, FundOffer, OwnerStep,
     OwnerTransfers, OwnerRemovesTransfer, OwnerAddsTransfer, OwnerCalls
<1> QED  BY <1>3, <1>4, <1>5, <1>6, <1>7 DEF Next

-----------------------------------------------------------------------------
(***************************************************************************)
(* Every step moves money, and makes none.                                 *)
(***************************************************************************)

\* The fee of a sale is part of what is paid.
LEMMA SaleFee ==
  ASSUME Inv, MarketsOK, NEW m \in Markets, NEW a \in Assets, Listed(m, a),
         NEW amount \in U64
  PROVE  /\ amount \in Nat /\ Fee(m, amount) \in Nat /\ amount - Fee(m, amount) \in Nat
         /\ Fee(m, amount) \in 0 .. amount
         /\ Fee(m, amount) * BasisPoints <= amount * marketplace[m]
<1>1. marketplace[m] \in 0 .. BasisPoints
  BY DEF MarketsOK
<1>2. amount \in Nat
  BY MaxU64Assumption DEF U64
<1>3. /\ Fee(m, amount) \in 0 .. amount
      /\ Fee(m, amount) * BasisPoints <= amount * marketplace[m]
  BY <1>1, FeeBound
<1> QED  BY <1>2, <1>3

LEMMA ListingFields ==
  ASSUME Inv, NEW m \in Markets, NEW a \in Assets, Listed(m, a)
  PROVE  /\ listing[m][a].seller \in Users /\ listing[m][a].price \in U64
         /\ listing[m][a].payment_mint \in Currencies
BY DEF Inv, RecordsOK, Listed, Listing

LEMMA BuyKeepsMoney ==
  ASSUME Inv, MarketsOK, MoneyOK, NEW m \in Markets, NEW a \in Assets, NEW u \in Users,
         Buy(m, a, u)
  PROVE  MoneyOK'
<1> DEFINE price == listing[m][a].price
           seller == listing[m][a].seller
           fee == Fee(m, price)
           first == Pay(balance[Sol], u, m, fee)
           paid == Pay(first, u, seller, price - fee)
<1>1. /\ paid # Failed /\ first # Failed /\ Listed(m, a)
      /\ balance' = [balance EXCEPT ![Sol] = paid] /\ offer' = offer
  BY DEF Buy, Pay
<1>2. fee \in Nat /\ price - fee \in Nat /\ seller \in Users
  BY <1>1, ListingFields, SaleFee
<1>3. /\ balance[Sol] \in [Holders -> Nat]
      /\ u \in Holders /\ m \in Holders /\ seller \in Holders
  BY <1>2, Accounts DEF MoneyOK
<1> HIDE DEF fee, price, seller
<1>4. first \in [Holders -> Nat] /\ SumFunction(first) = SumFunction(balance[Sol])
  BY <1>1, <1>2, <1>3, PayMoves
<1> HIDE DEF first
<1>5. paid \in [Holders -> Nat] /\ SumFunction(paid) = SumFunction(balance[Sol])
  BY <1>1, <1>2, <1>3, <1>4, PayMoves
<1> HIDE DEF paid
<1> QED  BY <1>1, <1>5, Accounts, PaymentKeeps

LEMMA BuyWithTokenKeepsMoney ==
  ASSUME Inv, MarketsOK, MoneyOK, NEW m \in Markets, NEW a \in Assets, NEW u \in Users,
         NEW c \in PaymentMints, BuyWithToken(m, a, u, c)
  PROVE  MoneyOK'
<1> DEFINE price == listing[m][a].price
           seller == listing[m][a].seller
           fee == Fee(m, price)
           first == Pay(balance[c], u, seller, price - fee)
           paid == Pay(first, u, m, fee)
<1>1. /\ paid # Failed /\ first # Failed /\ Listed(m, a)
      /\ balance' = [balance EXCEPT ![c] = paid] /\ offer' = offer
  BY DEF BuyWithToken, Pay
<1>2. fee \in Nat /\ price - fee \in Nat /\ seller \in Users
  BY <1>1, ListingFields, SaleFee
<1>3. /\ balance[c] \in [Holders -> Nat] /\ c \in Currencies
      /\ u \in Holders /\ m \in Holders /\ seller \in Holders
  BY <1>2, Accounts DEF MoneyOK
<1> HIDE DEF fee, price, seller
<1>4. first \in [Holders -> Nat] /\ SumFunction(first) = SumFunction(balance[c])
  BY <1>1, <1>2, <1>3, PayMoves
<1> HIDE DEF first
<1>5. paid \in [Holders -> Nat] /\ SumFunction(paid) = SumFunction(balance[c])
  BY <1>1, <1>2, <1>3, <1>4, PayMoves
<1> HIDE DEF paid
<1> QED  BY <1>1, <1>3, <1>5, PaymentKeeps

LEMMA AcceptOfferKeepsMoney ==
  ASSUME Inv, MarketsOK, MoneyOK, NEW m \in Markets, NEW a \in Assets, NEW u \in Users,
         NEW v \in Users, AcceptOffer(m, a, u, v)
  PROVE  MoneyOK'
<1> DEFINE o == offer[a][v]
           paid == Settled(balance[Sol], o, m, u, v)
<1>1. /\ Listed(m, a) /\ Offered(a, v)
      /\ balance' = [balance EXCEPT ![Sol] = paid]
      /\ offer' = [offer EXCEPT ![a][v] = Absent]
  BY DEF AcceptOffer
<1>2. o \in Offer
  BY <1>1 DEF MoneyOK, Offered
<1>3. InOffer(a, v) = o.amount + o.surplus /\ Worth(Absent) = 0
  BY <1>1 DEF InOffer, Worth
<1>4. o.amount \in U64
  BY <1>2 DEF Offer
<1>5. balance[Sol] \in [Holders -> Nat]
  BY Accounts DEF MoneyOK
<1>6. Fee(m, o.amount) \in 0 .. o.amount
  BY <1>1, <1>4, SaleFee
<1> HIDE DEF o
<1>7. /\ paid \in [Holders -> Nat]
      /\ SumFunction(paid) = SumFunction(balance[Sol]) + (o.amount + o.surplus)
  BY <1>2, <1>5, <1>6, SettledPays
<1>8. SumFunction(paid) + 0 = SumFunction(paid)
  BY <1>7, Accounts, SumNat
<1> HIDE DEF paid
<1>9. SumFunction(paid) + Worth(Absent) = SumFunction(balance[Sol]) + InOffer(a, v)
  BY <1>3, <1>7, <1>8
<1> QED  BY <1>1, <1>7, <1>9, OfferKeeps

\* The wallet of x gets n for the difference that o makes to an offer.
PaysFor(x, n, a, u, o) ==
  /\ n \in Int /\ balance[Sol][x] + n \in Nat /\ n + Worth(o) = InOffer(a, u)
  /\ balance' = [balance EXCEPT ![Sol] = Add(@, x, n)]
  /\ offer' = [offer EXCEPT ![a][u] = o]

LEMMA OfferPaidFor ==
  ASSUME MoneyOK, NEW a \in Assets, NEW u \in Users, NEW o \in Offer \cup {Absent},
         NEW x \in Users, NEW n, PaysFor(x, n, a, u, o)
  PROVE  MoneyOK'
<1> DEFINE held == balance[Sol]
           paid == Add(held, x, n)
<1>1. held \in [Holders -> Nat] /\ x \in Holders /\ SumFunction(held) \in Nat
  BY Accounts, SumNat DEF MoneyOK
<1>2. /\ n \in Int /\ held[x] + n \in Nat /\ n + Worth(o) = InOffer(a, u)
      /\ balance' = [balance EXCEPT ![Sol] = paid]
      /\ offer' = [offer EXCEPT ![a][u] = o]
  BY DEF PaysFor
<1> HIDE DEF held
<1>3. paid \in [Holders -> Nat] /\ SumFunction(paid) = SumFunction(held) + n
  BY <1>1, <1>2, AddMoves
<1> HIDE DEF paid
<1>4. Worth(o) \in Nat
  BY WorthNat
<1>5. SumFunction(paid) + Worth(o) = SumFunction(held) + InOffer(a, u)
  BY <1>1, <1>2, <1>3, <1>4
<1> QED  BY <1>2, <1>3, <1>5, OfferKeeps DEF held

LEMMA OfferStepKeepsMoney ==
  ASSUME MoneyOK, NEW a \in Assets, NEW u \in Users, OfferStep(a, u)
  PROVE  MoneyOK'
<1> DEFINE held == balance[Sol]
<1>1. held \in [Holders -> Nat] /\ Users \subseteq Holders
  BY Accounts DEF MoneyOK
<1>3. ASSUME NEW amount \in Amounts, MakeOffer(a, u, amount) PROVE MoneyOK'
  <2> DEFINE o == [amount |-> amount, surplus |-> 0]
  <2>1. amount \in U64 /\ amount \in Nat /\ -amount \in Int
    BY MarketplaceAssumption, MaxU64Assumption DEF U64
  <2>2. o \in Offer /\ o # Absent /\ Worth(o) = amount
    BY <2>1, MarketplaceAssumption, AbsentAssumption DEF Offer, Worth
  <2>3. /\ ~Offered(a, u) /\ held[u] >= amount
        /\ balance' = [balance EXCEPT ![Sol] = Add(held, u, -amount)]
        /\ offer' = [offer EXCEPT ![a][u] = o]
    BY <1>3 DEF MakeOffer
  <2> HIDE DEF o, held
  <2>4. InOffer(a, u) = 0
    BY <2>3 DEF InOffer
  <2>5. held[u] + (-amount) \in Nat /\ -amount + Worth(o) = InOffer(a, u)
    BY <1>1, <2>1, <2>2, <2>3, <2>4
  <2>6. PaysFor(u, -amount, a, u, o)
    BY <2>1, <2>3, <2>5 DEF PaysFor, held
  <2> QED  BY <2>2, <2>6, OfferPaidFor
<1>4. CASE CancelOffer(a, u)
  <2> DEFINE n == offer[a][u].amount + offer[a][u].surplus
  <2>1. /\ Offered(a, u) /\ offer' = [offer EXCEPT ![a][u] = Absent]
        /\ balance' = [balance EXCEPT ![Sol] = Add(held, u, n)]
    BY <1>4 DEF CancelOffer
  <2>2. InOffer(a, u) = n /\ n = Worth(offer[a][u])
    BY <2>1 DEF InOffer, Offered, Worth
  <2>3. n \in Nat
    BY <2>2, WorthNat DEF MoneyOK
  <2> HIDE DEF n, held
  <2>4. held[u] + n \in Nat /\ n + Worth(Absent) = InOffer(a, u)
    BY <1>1, <2>2, <2>3 DEF Worth
  <2>5. PaysFor(u, n, a, u, Absent)
    BY <2>1, <2>3, <2>4 DEF PaysFor, held
  <2> QED  BY <2>5, OfferPaidFor
<1>5. ASSUME NEW v \in Users, FundOffer(v, a, u) PROVE MoneyOK'
  <2> DEFINE o == [offer[a][u] EXCEPT !.surplus = @ + 1]
  <2>1. /\ offer[a][u] \in Offer /\ offer[a][u].surplus < MaxSurplus /\ held[v] > 0
        /\ balance' = [balance EXCEPT ![Sol] = Add(held, v, -1)]
        /\ offer' = [offer EXCEPT ![a][u] = o]
    BY <1>5 DEF FundOffer, Offered, MoneyOK
  <2>2. /\ offer[a][u].amount \in Nat /\ offer[a][u].surplus \in Nat
        /\ offer[a][u].surplus + 1 \in 0 .. MaxSurplus
    BY <2>1, MaxU64Assumption, MarketplaceAssumption DEF Offer, U64
  <2>3. o \in Offer /\ o.amount = offer[a][u].amount /\ o.surplus = offer[a][u].surplus + 1
    BY <2>1, <2>2 DEF Offer
  <2>4. o # Absent /\ offer[a][u] # Absent
    BY <2>1, <2>3, AbsentAssumption
  <2> HIDE DEF o, held
  <2>5. Worth(o) = InOffer(a, u) + 1
    BY <2>2, <2>3, <2>4 DEF Worth, InOffer, Offered
  <2>6. InOffer(a, u) \in Nat
    BY <2>2, <2>4 DEF InOffer, Offered
  <2>7. held[v] + (-1) \in Nat /\ -1 + Worth(o) = InOffer(a, u)
    BY <1>1, <2>1, <2>5, <2>6
  <2>8. PaysFor(v, -1, a, u, o)
    BY <2>1, <2>7 DEF PaysFor, held
  <2> QED  BY <2>3, <2>8, OfferPaidFor
<1> QED  BY <1>3, <1>4, <1>5 DEF OfferStep

LEMMA MoneyKept == Inv /\ MarketsOK /\ MoneyOK /\ [Next]_vars => MoneyOK'
<1> SUFFICES ASSUME Inv, MarketsOK, MoneyOK, [Next]_vars PROVE MoneyOK'
  OBVIOUS
<1>1. ASSUME UNCHANGED <<offer, balance>> PROVE MoneyOK'
  BY <1>1 DEF MoneyOK, MoneyConserved, Escrowed, InOffer, Offered
<1>2. CASE UNCHANGED vars
  BY <1>1, <1>2 DEF vars
<1>3. CASE \E m \in Markets, fee \in Fees : Initialize(m, fee)
  BY <1>1, <1>3 DEF Initialize
<1>4. ASSUME NEW m \in Markets, NEW u \in Users, FundTreasury(u, m) PROVE MoneyOK'
  <2> DEFINE paid == Pay(balance[Sol], u, m, RentMin)
  <2>1. paid # Failed /\ balance' = [balance EXCEPT ![Sol] = paid] /\ offer' = offer
    BY <1>4 DEF FundTreasury
  <2>2. /\ balance[Sol] \in [Holders -> Nat] /\ u \in Holders /\ m \in Holders
        /\ RentMin \in Nat
    BY Accounts, MarketplaceAssumption DEF MoneyOK
  <2>3. paid \in [Holders -> Nat] /\ SumFunction(paid) = SumFunction(balance[Sol])
    BY <2>1, <2>2, PayMoves
  <2> HIDE DEF paid
  <2> QED  BY <2>1, <2>3, Accounts, PaymentKeeps
<1>5. ASSUME NEW m \in Markets, NEW a \in Assets, NEW u \in Users, Trade(m, a, u)
      PROVE  MoneyOK'
  BY <1>1, <1>5, BuyKeepsMoney, BuyWithTokenKeepsMoney, AcceptOfferKeepsMoney
     DEF Trade, List, Delist
<1>6. ASSUME NEW a \in Assets, NEW u \in Users, OfferStep(a, u) \/ OwnerStep(a, u)
      PROVE  MoneyOK'
  BY <1>1, <1>6, OfferStepKeepsMoney
     DEF OwnerStep, OwnerTransfers, OwnerRemovesTransfer, OwnerAddsTransfer, OwnerCalls
<1> QED  BY <1>2, <1>3, <1>4, <1>5, <1>6 DEF Next

-----------------------------------------------------------------------------
(***************************************************************************)
(* Who holds what, and what it is paid with, as one inductive invariant.   *)
(***************************************************************************)
LEMMA InitMoney == Init => MarketsOK /\ MoneyOK
<1> SUFFICES ASSUME Init PROVE MarketsOK /\ MoneyOK
  OBVIOUS
<1>1. MarketsOK
  BY DEF Init, MarketsOK, Listed
<1>2. offer \in [Assets -> [Users -> Offer \cup {Absent}]]
  BY DEF Init
<1>3. balance \in [Currencies -> [Holders -> Nat]] /\ balance = InitialBalance
  <2>1. U64 \subseteq Nat
    BY MaxU64Assumption DEF U64
  <2>2. InitialBalance \in [Currencies -> [Holders -> U64]] /\ balance = InitialBalance
    BY MarketplaceAssumption DEF Init
  <2> QED  BY <2>1, <2>2
<1>4. ASSUME NEW u \in Users PROVE Escrowed(u) = 0
  <2>1. [a \in Assets |-> InOffer(a, u)] = [a \in Assets |-> 0]
    BY DEF Init, InOffer, Offered
  <2> QED  BY <2>1, Accounts, SumOfZeros DEF Escrowed
<1>5. InOffers = 0
  <2>1. [u \in Users |-> Escrowed(u)] = [u \in Users |-> 0]
    BY <1>4
  <2> QED  BY <2>1, Accounts, SumOfZeros DEF InOffers
<1>6. \A c \in Currencies : SumFunction(balance[c]) \in Nat
  BY <1>3, Accounts, SumNat
<1>7. MoneyConserved
  BY <1>3, <1>5, <1>6, Accounts DEF MoneyConserved, InOffers
<1> QED  BY <1>1, <1>2, <1>3, <1>7 DEF MoneyOK

\* The invariant that the theorems about money and sales rest on.
THEOREM MarketInvariance == Spec => [](Inv /\ MarketsOK /\ MoneyOK)
<1>1. MarketsOK /\ MoneyOK /\ Inv /\ [Next]_vars => (MarketsOK /\ MoneyOK)'
  BY MarketsKept, MoneyKept
<1> QED  BY <1>1, InitMoney, Invariance, PTL DEF Spec

(***************************************************************************)
(* Wallets, treasuries and open offers always hold together what there was *)
(* at the start, in each currency.                                         *)
(***************************************************************************)
THEOREM MoneyIsConserved == Spec => []MoneyConserved
<1>1. MoneyOK => MoneyConserved
  BY DEF MoneyOK
<1> QED  BY <1>1, MarketInvariance, PTL

(***************************************************************************)
(* No balance leaves u64: none is more than all the money there is.        *)
(***************************************************************************)
LEMMA BalancesFit == MoneyOK => balance \in [Currencies -> [Holders -> U64]]
<1> SUFFICES ASSUME MoneyOK PROVE balance \in [Currencies -> [Holders -> U64]]
  OBVIOUS
<1>1. ASSUME NEW c \in Currencies, NEW h \in Holders PROVE balance[c][h] \in U64
  <2> DEFINE held == balance[c]
  <2>1. held \in [Holders -> Nat]
    BY DEF MoneyOK
  <2>2. SumFunction(held) <= SumFunction(InitialBalance[c])
    <3>1. CASE c = Sol
      <4>1. \A u \in Users : Escrowed(u) \in Nat
        <5> SUFFICES ASSUME NEW u \in Users PROVE Escrowed(u) \in Nat
          OBVIOUS
        <5> DEFINE row == [a \in Assets |-> InOffer(a, u)]
        <5>1. ASSUME NEW a \in Assets PROVE InOffer(a, u) \in Nat
          <6>1. InOffer(a, u) = Worth(offer[a][u])
            BY DEF InOffer, Offered, Worth
          <6> QED  BY <6>1, WorthNat DEF MoneyOK
        <5>2. row \in [Assets -> Nat]
          BY <5>1
        <5> HIDE DEF row
        <5>3. SumFunction(row) \in Nat
          BY <5>2, Accounts, SumNat
        <5> QED  BY <5>3 DEF Escrowed, row
      <4>2. InOffers \in Nat
        <5> DEFINE all == [u \in Users |-> Escrowed(u)]
        <5>1. all \in [Users -> Nat]
          BY <4>1
        <5> HIDE DEF all
        <5>2. SumFunction(all) \in Nat
          BY <5>1, Accounts, SumNat
        <5> QED  BY <5>2 DEF InOffers, all
      <4>3. SumFunction(held) + InOffers = SumFunction(InitialBalance[c])
        BY <3>1 DEF MoneyOK, MoneyConserved, InOffers
      <4>4. SumFunction(held) \in Nat
        BY <2>1, Accounts, SumNat
      <4> QED  BY <4>2, <4>3, <4>4
    <3>2. CASE c # Sol
      <4>1. SumFunction(held) = SumFunction(InitialBalance[c])
        BY <3>2 DEF MoneyOK, MoneyConserved, Currencies
      <4>2. SumFunction(held) \in Nat
        BY <2>1, Accounts, SumNat
      <4> QED  BY <4>1, <4>2
    <3> QED  BY <3>1, <3>2
  <2>3. SumFunction(InitialBalance[c]) <= MaxU64
    BY MarketplaceAssumption
  <2>4. held[h] <= SumFunction(held)
    <3> HIDE DEF held
    <3> QED  BY <2>1, Accounts, SumBound
  <2>5. SumFunction(held) \in Nat /\ held[h] \in Nat
    BY <2>1, Accounts, SumNat
  <2> DEFINE b == held[h]
             sum == SumFunction(held)
             supply == SumFunction(InitialBalance[c])
  <2>6. supply \in Nat
    <3> DEFINE start == InitialBalance[c]
    <3>1. start \in [Holders -> Nat]
      BY MarketplaceAssumption, MaxU64Assumption DEF U64
    <3> HIDE DEF start
    <3>2. SumFunction(start) \in Nat
      BY <3>1, Accounts, SumNat
    <3> QED  BY <3>2 DEF start
  <2>7. b \in Nat /\ sum \in Nat /\ b <= sum /\ sum <= supply /\ supply <= MaxU64
    BY <2>2, <2>3, <2>4, <2>5
  <2>8. b = balance[c][h]
    OBVIOUS
  <2> HIDE DEF b, sum, supply
  <2>9. b \in U64
    BY <2>6, <2>7, MaxU64Assumption DEF U64
  <2> QED  BY <2>8, <2>9
<1> QED  BY <1>1 DEF MoneyOK

LEMMA TypesFollow == Inv /\ MarketsOK /\ MoneyOK => TypeOK
<1> SUFFICES ASSUME Inv, MarketsOK, MoneyOK PROVE TypeOK
  OBVIOUS
<1>1. balance \in [Currencies -> [Holders -> U64]]
  BY BalancesFit
<1> QED  BY <1>1 DEF TypeOK, Inv, RecordsOK, MarketsOK, MoneyOK

(***************************************************************************)
(* Every account of nft_marketplace has its type, balances included.       *)
(***************************************************************************)
THEOREM TypeCorrect == Spec => []TypeOK
<1> QED  BY TypesFollow, MarketInvariance, PTL

-----------------------------------------------------------------------------
(***************************************************************************)
(* The sales.  Nobody but the marketplace that froze an asset lets it      *)
(* change hands, and it does so in a sale.                                 *)
(***************************************************************************)
Sale(m, a, buyer) ==
  \/ Buy(m, a, buyer)
  \/ \E c \in PaymentMints : BuyWithToken(m, a, buyer, c)
  \/ \E seller \in Users : AcceptOffer(m, a, seller, buyer)

LEMMA SaleHandsOver ==
  ASSUME NEW m \in Markets, NEW a \in Assets, NEW buyer \in Users, Sale(m, a, buyer)
  PROVE  HandOver(m, a, buyer) /\ Listed(m, a)
BY DEF Sale, Buy, BuyWithToken, AcceptOffer

LEMMA OnlySales ==
  ASSUME Inv, [Next]_vars, NEW m \in Markets, NEW a \in Assets, NEW buyer \in Users,
         Listed(m, a), asset[a].owner # buyer, asset'[a].owner = buyer
  PROVE  Sale(m, a, buyer)
<1>1. /\ asset \in [Assets -> Asset] /\ asset[a] \in Asset
      /\ asset[a].freeze = m /\ asset[a].frozen /\ m # None
  BY Constants DEF Inv, RecordsOK, ListedMeansHeld
<1>2. asset' # asset
  OBVIOUS
<1>3. ASSUME NEW n \in Markets, NEW b \in Assets, NEW u \in Users, Trade(n, b, u)
      PROVE  Sale(m, a, buyer)
  <2>1. PICK x : asset' = [asset EXCEPT ![b] = x]
    BY <1>3 DEF Trade, List, Delist, Buy, BuyWithToken, AcceptOffer, HandOver
  <2>2. b = a
    BY <1>1, <2>1
  <2>3. ASSUME NEW price \in Prices, NEW c \in Currencies, List(n, b, u, price, c)
        PROVE  FALSE
    <3>1. Delegated(asset[a], u, n) # Failed
      BY <2>2, <2>3 DEF List
    <3> QED  BY <1>1, <3>1, DelegatedAsset
  <2>4. ASSUME Delist(n, b, u) PROVE FALSE
    <3>1. /\ Undelegated(asset[a], u, n) # Failed
          /\ asset' = [asset EXCEPT ![a] = Undelegated(asset[a], u, n)]
      BY <2>2, <2>4 DEF Delist
    <3>2. Undelegated(asset[a], u, n).owner = asset[a].owner
      BY <1>1, <3>1, UndelegatedAsset
    <3>3. asset'[a] = Undelegated(asset[a], u, n)
      BY <1>1, <3>1
    <3> QED  BY <3>2, <3>3
  <2>5. ASSUME NEW v \in Users, HandOver(n, b, v) PROVE n = m /\ v = buyer
    <3>1. /\ Sold(asset[a], v, n) # Failed
          /\ asset' = [asset EXCEPT ![a] = Sold(asset[a], v, n)]
      BY <2>2, <2>5 DEF HandOver
    <3>2. asset[a].freeze = n /\ Sold(asset[a], v, n).owner = v
      BY <1>1, <3>1, SoldAsset
    <3>3. asset'[a] = Sold(asset[a], v, n)
      BY <1>1, <3>1
    <3> QED  BY <1>1, <3>2, <3>3
  <2>6. PICK v \in Users : Sale(n, b, v)
    BY <1>3, <2>3, <2>4 DEF Trade, Sale
  <2> QED  BY <2>2, <2>5, <2>6, SaleHandsOver
<1>4. ASSUME NEW b \in Assets, NEW u \in Users, OwnerStep(b, u) PROVE FALSE
  <2>1. PICK result :
          /\ OwnerCalls(b, result)
          /\ \/ \E v \in Users : result = TransferAsset(asset[b], u, v)
             \/ result = RemoveTransferDelegate(asset[b], u)
             \/ result = AddTransferDelegate(asset[b], u, u)
    BY <1>4 DEF OwnerStep, OwnerTransfers, OwnerRemovesTransfer, OwnerAddsTransfer
  <2>2. result # Failed /\ asset' = [asset EXCEPT ![b] = result]
    BY <2>1 DEF OwnerCalls
  <2>3. b = a
    BY <1>1, <2>2
  <2>4. result.owner = asset[a].owner
    BY <1>1, <2>1, <2>2, <2>3, OwnerCallsAsset
  <2>5. asset'[a] = result
    BY <1>1, <2>2, <2>3
  <2> QED  BY <2>4, <2>5
<1>5. CASE UNCHANGED vars
  BY <1>2, <1>5 DEF vars
<1>6. CASE \E n \in Markets, fee \in Fees : Initialize(n, fee)
  BY <1>2, <1>6 DEF Initialize
<1>7. CASE \E n \in Markets, u \in Users : FundTreasury(u, n)
  BY <1>2, <1>7 DEF FundTreasury
<1>8. ASSUME NEW b \in Assets, NEW u \in Users, OfferStep(b, u) PROVE FALSE
  BY <1>2, <1>8 DEF OfferStep, MakeOffer, CancelOffer, FundOffer
<1> QED  BY <1>3, <1>4, <1>5, <1>6, <1>7, <1>8 DEF Next

\* Who gives and who takes in a sale are three accounts.
LEMMA SalePartners ==
  ASSUME Inv, MoneyOK, NEW m \in Markets, NEW a \in Assets, NEW buyer \in Users,
         Listed(m, a), asset[a].owner # buyer
  PROVE  /\ listing[m][a].seller \in Users /\ listing[m][a].seller # buyer
         /\ listing[m][a].seller # m /\ buyer # m
         /\ {listing[m][a].seller, buyer, m} \subseteq Holders
         /\ \A c \in Currencies : balance[c] \in [Holders -> Nat]
BY Accounts, ListingFields DEF Inv, ListedMeansHeld, MoneyOK

LEMMA BuyPays ==
  ASSUME Inv, MarketsOK, MoneyOK, NEW m \in Markets, NEW a \in Assets, NEW buyer \in Users,
         Buy(m, a, buyer), asset[a].owner # buyer
  PROVE  SalePaid(m, a, buyer)
<1> DEFINE price == listing[m][a].price
           seller == listing[m][a].seller
           fee == Fee(m, price)
           held == balance[Sol]
           first == Pay(held, buyer, m, fee)
           paid == Pay(first, buyer, seller, price - fee)
<1>1. /\ paid # Failed /\ first # Failed /\ Listed(m, a)
      /\ balance' = [balance EXCEPT ![Sol] = paid]
      /\ listing[m][a].payment_mint = Sol
  BY DEF Buy, Pay
<1>2. /\ seller \in Users /\ seller # buyer /\ seller # m /\ buyer # m
      /\ seller \in Holders /\ buyer \in Holders /\ m \in Holders
      /\ held \in [Holders -> Nat]
  BY <1>1, SalePartners, Accounts
<1>3. /\ price \in Nat /\ fee \in Nat /\ price - fee \in Nat /\ fee \in 0 .. price
      /\ fee * BasisPoints <= price * marketplace[m]
  BY <1>1, ListingFields, SaleFee
<1>4. balance'[Sol] = paid
  BY <1>1, Accounts DEF MoneyOK
<1> HIDE DEF price, seller, fee, held
<1>5. /\ first \in [Holders -> Nat]
      /\ first[m] = held[m] + fee /\ first[buyer] = held[buyer] - fee
      /\ first[seller] = held[seller]
  BY <1>1, <1>2, <1>3, PayMoves
<1> HIDE DEF first
<1>6. /\ paid[m] = first[m] /\ paid[buyer] = first[buyer] - (price - fee)
      /\ paid[seller] = first[seller] + (price - fee)
  BY <1>1, <1>2, <1>3, <1>5, PayMoves
<1> HIDE DEF paid
<1>7. /\ paid[m] - held[m] = fee
      /\ paid[seller] = held[seller] + price - fee
      /\ paid[buyer] = held[buyer] - price
  BY <1>2, <1>3, <1>5, <1>6
<1>8. SoldFor(m, a, price, held, paid)
  BY <1>3, <1>7 DEF SoldFor, seller
<1> QED  BY <1>1, <1>4, <1>7, <1>8 DEF SalePaid, price, held

LEMMA BuyWithTokenPays ==
  ASSUME Inv, MarketsOK, MoneyOK, NEW m \in Markets, NEW a \in Assets, NEW buyer \in Users,
         NEW c \in PaymentMints, BuyWithToken(m, a, buyer, c), asset[a].owner # buyer
  PROVE  SalePaid(m, a, buyer)
<1> DEFINE price == listing[m][a].price
           seller == listing[m][a].seller
           fee == Fee(m, price)
           held == balance[c]
           first == Pay(held, buyer, seller, price - fee)
           paid == Pay(first, buyer, m, fee)
<1>1. /\ paid # Failed /\ first # Failed /\ Listed(m, a)
      /\ balance' = [balance EXCEPT ![c] = paid]
      /\ listing[m][a].payment_mint = c
  BY DEF BuyWithToken, Pay
<1>2. /\ seller \in Users /\ seller # buyer /\ seller # m /\ buyer # m
      /\ seller \in Holders /\ buyer \in Holders /\ m \in Holders
      /\ held \in [Holders -> Nat]
  BY <1>1, SalePartners, Accounts
<1>3. /\ price \in Nat /\ fee \in Nat /\ price - fee \in Nat /\ fee \in 0 .. price
      /\ fee * BasisPoints <= price * marketplace[m]
  BY <1>1, ListingFields, SaleFee
<1>4. balance'[c] = paid
  BY <1>1, Accounts DEF MoneyOK
<1> HIDE DEF price, seller, fee, held
<1>5. /\ first \in [Holders -> Nat]
      /\ first[seller] = held[seller] + (price - fee)
      /\ first[buyer] = held[buyer] - (price - fee)
      /\ first[m] = held[m]
  BY <1>1, <1>2, <1>3, PayMoves
<1> HIDE DEF first
<1>6. /\ paid[seller] = first[seller] /\ paid[buyer] = first[buyer] - fee
      /\ paid[m] = first[m] + fee
  BY <1>1, <1>2, <1>3, <1>5, PayMoves
<1> HIDE DEF paid
<1>7. /\ paid[m] - held[m] = fee
      /\ paid[seller] = held[seller] + price - fee
      /\ paid[buyer] = held[buyer] - price
  BY <1>2, <1>3, <1>5, <1>6
<1>8. SoldFor(m, a, price, held, paid)
  BY <1>3, <1>7 DEF SoldFor, seller
<1> QED  BY <1>1, <1>4, <1>7, <1>8 DEF SalePaid, price, held

LEMMA AcceptOfferPays ==
  ASSUME Inv, MarketsOK, MoneyOK, NEW m \in Markets, NEW a \in Assets, NEW seller \in Users,
         NEW buyer \in Users, AcceptOffer(m, a, seller, buyer), asset[a].owner # buyer
  PROVE  SalePaid(m, a, buyer)
<1> DEFINE o == offer[a][buyer]
           held == balance[Sol]
           paid == Settled(held, o, m, seller, buyer)
           fee == Fee(m, o.amount)
<1>1. /\ Listed(m, a) /\ listing[m][a].seller = seller /\ Offered(a, buyer)
      /\ balance' = [balance EXCEPT ![Sol] = paid]
      /\ offer' = [offer EXCEPT ![a][buyer] = Absent]
  BY DEF AcceptOffer
<1>2. /\ seller # buyer /\ seller # m /\ buyer # m
      /\ seller \in Holders /\ buyer \in Holders /\ m \in Holders
      /\ held \in [Holders -> Nat]
  BY <1>1, SalePartners, Accounts
<1>3. o \in Offer
  BY <1>1 DEF MoneyOK, Offered
<1>4. o.amount \in U64 /\ o.amount \in Nat /\ o.surplus \in Nat
  BY <1>3, MaxU64Assumption, MarketplaceAssumption DEF Offer, U64
<1>5. /\ fee \in Nat /\ o.amount - fee \in Nat /\ fee \in 0 .. o.amount
      /\ fee * BasisPoints <= o.amount * marketplace[m]
  BY <1>1, <1>4, SaleFee
<1>6. balance'[Sol] = paid
  BY <1>1, Accounts DEF MoneyOK
<1>7. InOffer(a, buyer) = o.amount + o.surplus /\ Worth(Absent) = 0
  BY <1>1 DEF InOffer, Worth
<1>8. Escrowed(buyer) \in Nat /\ Escrowed(buyer)' = Escrowed(buyer) + Worth(Absent) - InOffer(a, buyer)
  BY <1>1, OneOffer DEF MoneyOK
<1>9. ~Offered(a, buyer)'
  BY <1>1 DEF MoneyOK, Offered
<1> HIDE DEF o, held
<1>10. \A h \in Holders :
         paid[h] = held[h] + (IF h = m THEN fee ELSE 0)
                           + (IF h = seller THEN o.amount - fee ELSE 0)
                           + (IF h = buyer THEN o.surplus ELSE 0)
  BY <1>2, <1>3, <1>5, SettledPays
<1> HIDE DEF fee, paid
<1>11. /\ paid[m] = held[m] + fee
       /\ paid[seller] = held[seller] + (o.amount - fee)
       /\ paid[buyer] = held[buyer] + o.surplus
  BY <1>2, <1>4, <1>5, <1>10
<1>12. /\ paid[m] - held[m] = fee
       /\ paid[seller] = held[seller] + o.amount - fee
  BY <1>2, <1>4, <1>5, <1>11
<1>13. SoldFor(m, a, o.amount, held, paid)
  BY <1>1, <1>5, <1>12 DEF SoldFor
<1>14. Purse(buyer)' = Purse(buyer) - o.amount
  <2>1. Purse(buyer)' = paid[buyer] + Escrowed(buyer)' /\ Purse(buyer) = held[buyer] + Escrowed(buyer)
    BY <1>6 DEF Purse, held
  <2>2. Escrowed(buyer)' = Escrowed(buyer) + 0 - (o.amount + o.surplus)
    BY <1>7, <1>8
  <2>3. held[buyer] \in Nat
    BY <1>2
  <2> QED  BY <1>4, <1>8, <1>11, <2>1, <2>2, <2>3
<1> QED  BY <1>1, <1>6, <1>9, <1>13, <1>14 DEF SalePaid, o, held

\* What the step that sells a listed asset does.
SaleStepPaid ==
  \A m \in Markets, a \in Assets, buyer \in Users :
    Listed(m, a) /\ asset[a].owner # buyer /\ asset'[a].owner = buyer
      => ~Listed(m, a)' /\ SalePaid(m, a, buyer)

LEMMA NextPaid == Inv /\ MarketsOK /\ MoneyOK /\ [Next]_vars => [SaleStepPaid]_vars
<1> SUFFICES ASSUME Inv, MarketsOK, MoneyOK, [Next]_vars,
                    NEW m \in Markets, NEW a \in Assets, NEW buyer \in Users,
                    Listed(m, a), asset[a].owner # buyer, asset'[a].owner = buyer
             PROVE  ~Listed(m, a)' /\ SalePaid(m, a, buyer)
  BY DEF SaleStepPaid
<1>1. Sale(m, a, buyer)
  BY OnlySales
<1>2. listing' = [listing EXCEPT ![m][a] = Absent]
  BY <1>1, SaleHandsOver DEF HandOver
<1>3. ~Listed(m, a)'
  BY <1>2 DEF Listed, Inv, RecordsOK
<1>4. SalePaid(m, a, buyer)
  BY <1>1, BuyPays, BuyWithTokenPays, AcceptOfferPays DEF Sale
<1> QED  BY <1>3, <1>4

(***************************************************************************)
(* A listed asset changes hands only for the listed price or for an offer, *)
(* and the same step pays the seller and the treasury, and nobody but the  *)
(* buyer, who is out of exactly that.                                      *)
(***************************************************************************)
THEOREM SalesAreSettled == Spec => SalesSettled
<1> QED  BY NextPaid, MarketInvariance, PTL DEF Spec, SalesSettled, SaleStepPaid

-----------------------------------------------------------------------------
(***************************************************************************)
(* The ways out of a listing.  An instruction does one thing, for which it *)
(* waits for what May... says: that this is all it takes for the action to *)
(* be enabled is shown first, then when it is so.                          *)
(***************************************************************************)
MayDelist(m, a, u) ==
  /\ Listed(m, a) /\ listing[m][a].seller = u
  /\ Undelegated(asset[a], u, m) # Failed

\* The listing gone, and the asset and the money left like this.
AfterListing(m, a, x, held, offers) ==
  <<marketplace, [listing EXCEPT ![m][a] = Absent], offers,
    [asset EXCEPT ![a] = x], held>>

LEMMA DelistIs ==
  ASSUME NEW m \in Markets, NEW a \in Assets, NEW u \in Users
  PROVE  Delist(m, a, u)
           <=> /\ MayDelist(m, a, u)
               /\ vars' = AfterListing(m, a, Undelegated(asset[a], u, m), balance, offer)
BY DEF Delist, MayDelist, AfterListing, vars

\* What a buyer's payment leaves, in SOL and in tokens.
SolPaid(m, a, u) ==
  LET fee == Fee(m, listing[m][a].price)
  IN  Pay(Pay(balance[Sol], u, m, fee),
          u, listing[m][a].seller, listing[m][a].price - fee)

TokensPaid(m, a, u, c) ==
  LET fee == Fee(m, listing[m][a].price)
  IN  Pay(Pay(balance[c], u, listing[m][a].seller, listing[m][a].price - fee),
          u, m, fee)

MayBuy(m, a, u) ==
  /\ Listed(m, a) /\ listing[m][a].payment_mint = Sol
  /\ SolPaid(m, a, u) # Failed /\ RentExempt(SolPaid(m, a, u)[m])
  /\ Sold(asset[a], u, m) # Failed

LEMMA BuyIs ==
  ASSUME NEW m \in Markets, NEW a \in Assets, NEW u \in Users
  PROVE  Buy(m, a, u)
           <=> /\ MayBuy(m, a, u)
               /\ vars' = AfterListing(m, a, Sold(asset[a], u, m),
                            [balance EXCEPT ![Sol] = SolPaid(m, a, u)], offer)
BY DEF Buy, HandOver, MayBuy, SolPaid, AfterListing, vars

MayBuyWithToken(m, a, u, c) ==
  /\ Listed(m, a) /\ listing[m][a].payment_mint = c
  /\ TokensPaid(m, a, u, c) # Failed
  /\ Sold(asset[a], u, m) # Failed

LEMMA BuyWithTokenIs ==
  ASSUME NEW m \in Markets, NEW a \in Assets, NEW u \in Users, NEW c \in PaymentMints
  PROVE  BuyWithToken(m, a, u, c)
           <=> /\ MayBuyWithToken(m, a, u, c)
               /\ vars' = AfterListing(m, a, Sold(asset[a], u, m),
                            [balance EXCEPT ![c] = TokensPaid(m, a, u, c)], offer)
BY DEF BuyWithToken, HandOver, MayBuyWithToken, TokensPaid, AfterListing, vars

OfferPaid(m, a, u, v) == Settled(balance[Sol], offer[a][v], m, u, v)

MayAccept(m, a, u, v) ==
  /\ Listed(m, a) /\ listing[m][a].seller = u /\ Offered(a, v)
  /\ RentExempt(OfferPaid(m, a, u, v)[m])
  /\ Sold(asset[a], v, m) # Failed

LEMMA AcceptOfferIs ==
  ASSUME NEW m \in Markets, NEW a \in Assets, NEW u \in Users, NEW v \in Users
  PROVE  AcceptOffer(m, a, u, v)
           <=> /\ MayAccept(m, a, u, v)
               /\ vars' = AfterListing(m, a, Sold(asset[a], v, m),
                            [balance EXCEPT ![Sol] = OfferPaid(m, a, u, v)],
                            [offer EXCEPT ![a][v] = Absent])
BY DEF AcceptOffer, HandOver, MayAccept, OfferPaid, AfterListing, vars

-----------------------------------------------------------------------------
\* When the calls of MPL Core succeed on an asset this marketplace froze.
LEMMA UndelegatedSucceeds ==
  ASSUME NEW x \in Asset, NEW m \in Markets, x.freeze = m
  PROVE  Undelegated(x, x.owner, m) # Failed <=> x.transfer # None
<1> DEFINE unfrozen == [x EXCEPT !.frozen = FALSE]
           removed == [unfrozen EXCEPT !.freeze = None]
           bare == [removed EXCEPT !.transfer = None]
<1>1. UpdateFreezeDelegate(x, m, FALSE) = unfrozen
  BY FailedAssumption DEF UpdateFreezeDelegate
<1>2. /\ unfrozen \in Asset /\ unfrozen.owner = x.owner
      /\ unfrozen.freeze = m /\ ~unfrozen.frozen /\ m # None
  BY Constants DEF Asset
<1>3. RemoveFreezeDelegate(unfrozen, x.owner) = removed
  BY <1>2, FailedAssumption DEF RemoveFreezeDelegate
<1>4. removed \in Asset /\ removed.owner = x.owner /\ removed.transfer = x.transfer
  BY <1>2 DEF Asset
<1>5. bare \in Asset
  BY <1>4 DEF Asset
<1> HIDE DEF unfrozen, removed, bare
<1>6. RemoveTransferDelegate(removed, x.owner) # Failed <=> x.transfer # None
  BY <1>4, <1>5, FailedAssumption DEF RemoveTransferDelegate, bare
<1> QED  BY <1>1, <1>3, <1>6 DEF Undelegated

LEMMA SoldSucceeds ==
  ASSUME NEW x \in Asset, NEW m \in Markets, NEW u \in Users, x.freeze = m
  PROVE  Sold(x, u, m) # Failed <=> x.transfer = m
<1> DEFINE unfrozen == [x EXCEPT !.frozen = FALSE]
           moved == [unfrozen EXCEPT !.owner = u]
           removed == [moved EXCEPT !.freeze = None]
           bare == [removed EXCEPT !.transfer = None]
<1>1. UpdateFreezeDelegate(x, m, FALSE) = unfrozen
  BY FailedAssumption DEF UpdateFreezeDelegate
<1>2. /\ unfrozen \in Asset /\ unfrozen.owner = x.owner /\ ~unfrozen.frozen
      /\ unfrozen.freeze = m /\ unfrozen.transfer = x.transfer
      /\ m # None /\ m # x.owner
  BY Constants, Accounts DEF Asset
<1>3. TransferAsset(unfrozen, m, u) = IF x.transfer = m THEN moved ELSE Failed
  BY <1>2, FailedAssumption DEF TransferAsset
<1>4. /\ moved \in Asset /\ moved.owner = u /\ moved.freeze = m /\ ~moved.frozen
      /\ moved.transfer = x.transfer
  BY <1>2 DEF Asset
<1>5. RemoveFreezeDelegate(moved, u) = removed
  BY <1>2, <1>4, FailedAssumption DEF RemoveFreezeDelegate
<1>6. removed \in Asset /\ removed.owner = u /\ removed.transfer = x.transfer
  BY <1>4 DEF Asset
<1>7. bare \in Asset
  BY <1>6 DEF Asset
<1>8. RemoveFreezeDelegate(Failed, u) = Failed /\ RemoveTransferDelegate(Failed, u) = Failed
  BY DEF RemoveFreezeDelegate, RemoveTransferDelegate
<1> HIDE DEF unfrozen, moved, removed, bare
<1>9. x.transfer = m => RemoveTransferDelegate(removed, u) # Failed
  BY <1>2, <1>6, <1>7, FailedAssumption DEF RemoveTransferDelegate, bare
<1> QED  BY <1>1, <1>3, <1>5, <1>8, <1>9 DEF Sold

\* A transfer needs no more than the amount.
LEMMA PaySucceeds ==
  ASSUME NEW held \in [Holders -> Nat], NEW x \in Holders, NEW y \in Holders,
         NEW n \in Nat
  PROVE  Pay(held, x, y, n) # Failed <=> held[x] >= n
<1> SUFFICES ASSUME held[x] >= n PROVE Pay(held, x, y, n) # Failed
  BY DEF Pay
<1> DEFINE mid == Add(held, x, -n)
           got == Add(mid, y, n)
<1>1. held # Failed
  BY PaymentAssumption
<1>2. held[x] + (-n) \in Nat /\ -n \in Int
  OBVIOUS
<1>3. mid \in [Holders -> Nat]
  BY <1>2, AddMoves
<1> HIDE DEF mid
<1>4. mid[y] + n \in Nat
  BY <1>3
<1>5. got \in [Holders -> Nat]
  BY <1>3, <1>4, AddMoves
<1> HIDE DEF got
<1>6. got # Failed
  BY <1>5, PaymentAssumption
<1> QED  BY <1>1, <1>6 DEF Pay, got, mid

\* Who pays two others needs what they get together.
LEMMA TwoPaysSucceed ==
  ASSUME NEW held \in [Holders -> Nat], NEW x \in Holders,
         NEW y \in Holders, NEW z \in Holders, x # y, NEW n \in Nat, NEW k \in Nat
  PROVE  Pay(Pay(held, x, y, n), x, z, k) # Failed <=> held[x] >= n + k
<1> DEFINE first == Pay(held, x, y, n)
<1>1. CASE first = Failed
  <2>1. Pay(first, x, z, k) = Failed
    BY <1>1 DEF Pay
  <2>2. ~(held[x] >= n)
    BY <1>1, PaySucceeds
  <2> QED  BY <2>1, <2>2
<1>2. CASE first # Failed
  <2>1. first \in [Holders -> Nat] /\ held[x] >= n /\ first[x] = held[x] - n
    BY <1>2, PayMoves
  <2> HIDE DEF first
  <2>2. Pay(first, x, z, k) # Failed <=> first[x] >= k
    BY <2>1, PaySucceeds
  <2> QED  BY <2>1, <2>2 DEF first
<1> QED  BY <1>1, <1>2

\* Of two others paid in turn, the first keeps what it got.
LEMMA FirstPaidKeeps ==
  ASSUME NEW held \in [Holders -> Nat], NEW x \in Holders, NEW y \in Holders,
         NEW z \in Holders, x # y, z # y, NEW n \in Nat, NEW k \in Nat,
         Pay(Pay(held, x, y, n), x, z, k) # Failed
  PROVE  Pay(Pay(held, x, y, n), x, z, k)[y] = held[y] + n
<1> DEFINE first == Pay(held, x, y, n)
<1>1. first # Failed
  BY DEF Pay
<1>2. /\ first \in [Holders -> Nat]
      /\ first[y] = held[y] - (IF y = x THEN n ELSE 0) + (IF y = y THEN n ELSE 0)
  BY <1>1, PayMoves
<1>3. Pay(first, x, z, k) # Failed
  OBVIOUS
<1> HIDE DEF first
<1>4. Pay(first, x, z, k)[y] =
        first[y] - (IF y = x THEN k ELSE 0) + (IF y = z THEN k ELSE 0)
  BY <1>2, <1>3, PayMoves
<1>5. held[y] \in Nat /\ first[y] = held[y] + n
  BY <1>2
<1>6. Pay(first, x, z, k)[y] = first[y]
  BY <1>4, <1>5
<1> QED  BY <1>5, <1>6 DEF first

-----------------------------------------------------------------------------
(***************************************************************************)
(* A treasury never holds less than the runtime asks for, once it holds    *)
(* anything.                                                               *)
(***************************************************************************)
TreasuriesOK == \A m \in Markets : RentExempt(balance[Sol][m])

\* Money that goes from and to users leaves the treasuries alone.
LEMMA UsersOnly ==
  ASSUME NEW held \in [Holders -> Nat], NEW u \in Users, NEW n, NEW m \in Markets
  PROVE  Add(held, u, n)[m] = held[m]
BY Accounts DEF Add

LEMMA InitTreasuries == Init => TreasuriesOK
BY TreasuryAssumption DEF Init, TreasuriesOK, RentExempt

LEMMA TreasuriesKept ==
  Inv /\ MarketsOK /\ MoneyOK /\ TreasuriesOK /\ [Next]_vars => TreasuriesOK'
<1> SUFFICES ASSUME Inv, MarketsOK, MoneyOK, TreasuriesOK, [Next]_vars,
                    NEW n \in Markets
             PROVE  RentExempt(balance'[Sol][n])
  BY DEF TreasuriesOK, RentExempt
<1> DEFINE held == balance[Sol]
<1>1. /\ held \in [Holders -> Nat] /\ n \in Holders /\ RentExempt(held[n])
      /\ n \notin Users /\ Users \subseteq Holders /\ Sol \in Currencies
  BY Accounts DEF MoneyOK, TreasuriesOK
<1>2. ASSUME balance'[Sol] = balance[Sol] PROVE RentExempt(balance'[Sol][n])
  BY <1>1, <1>2
<1>3. CASE UNCHANGED vars
  BY <1>2, <1>3 DEF vars
<1>4. CASE \E m \in Markets, fee \in Fees : Initialize(m, fee)
  BY <1>2, <1>4 DEF Initialize
<1>5. ASSUME NEW m \in Markets, NEW u \in Users, FundTreasury(u, m)
      PROVE  RentExempt(balance'[Sol][n])
  <2> DEFINE paid == Pay(held, u, m, RentMin)
  <2>1. paid # Failed /\ held[m] = 0 /\ balance' = [balance EXCEPT ![Sol] = paid]
    BY <1>5 DEF FundTreasury
  <2>2. m \in Holders /\ u \in Holders /\ RentMin \in Nat
    BY Accounts, MarketplaceAssumption
  <2>3. paid[n] = held[n] - (IF n = u THEN RentMin ELSE 0) + (IF n = m THEN RentMin ELSE 0)
    BY <1>1, <2>1, <2>2, PayMoves
  <2>4. balance'[Sol] = paid
    BY <1>1, <2>1 DEF MoneyOK
  <2>5. paid[n] = IF n = m THEN RentMin ELSE held[n]
    <3> HIDE DEF paid
    <3> QED  BY <1>1, <2>1, <2>2, <2>3
  <2> QED  BY <1>1, <2>2, <2>4, <2>5 DEF RentExempt
<1>6. ASSUME NEW m \in Markets, NEW a \in Assets, NEW u \in Users, Trade(m, a, u)
      PROVE  RentExempt(balance'[Sol][n])
  <2>1. CASE Delist(m, a, u) \/ \E price \in Prices, c \in Currencies : List(m, a, u, price, c)
    BY <1>2, <2>1 DEF Delist, List
  <2>2. CASE Buy(m, a, u)
    <3> DEFINE price == listing[m][a].price
               seller == listing[m][a].seller
               fee == Fee(m, price)
               first == Pay(held, u, m, fee)
               paid == Pay(first, u, seller, price - fee)
    <3>1. /\ paid # Failed /\ first # Failed /\ Listed(m, a) /\ RentExempt(paid[m])
          /\ balance' = [balance EXCEPT ![Sol] = paid]
      BY <2>2 DEF Buy, Pay
    <3>2. fee \in Nat /\ price - fee \in Nat /\ seller \in Users /\ m \in Holders
      BY <3>1, ListingFields, SaleFee, Accounts
    <3> HIDE DEF price, seller, fee, held
    <3>3. /\ first \in [Holders -> Nat]
          /\ first[n] = held[n] - (IF n = u THEN fee ELSE 0) + (IF n = m THEN fee ELSE 0)
      BY <1>1, <3>1, <3>2, PayMoves
    <3> HIDE DEF first
    <3>4. paid[n] = first[n] - (IF n = u THEN price - fee ELSE 0)
                      + (IF n = seller THEN price - fee ELSE 0)
      BY <1>1, <3>1, <3>2, <3>3, PayMoves
    <3>5. balance'[Sol] = paid
      BY <1>1, <3>1 DEF MoneyOK
    <3> HIDE DEF paid
    <3>6. n # m => paid[n] = held[n]
      BY <1>1, <3>2, <3>3, <3>4
    <3> QED  BY <1>1, <3>1, <3>5, <3>6
  <2>3. CASE \E c \in PaymentMints : BuyWithToken(m, a, u, c)
    <3>1. PICK c \in PaymentMints : BuyWithToken(m, a, u, c)
      BY <2>3
    <3>2. PICK paid : balance' = [balance EXCEPT ![c] = paid]
      BY <3>1 DEF BuyWithToken
    <3>3. c # Sol
      BY Accounts
    <3> QED  BY <1>1, <1>2, <3>2, <3>3 DEF MoneyOK
  <2>4. ASSUME NEW v \in Users, AcceptOffer(m, a, u, v)
        PROVE  RentExempt(balance'[Sol][n])
    <3> DEFINE o == offer[a][v]
               paid == Settled(held, o, m, u, v)
    <3>1. /\ Listed(m, a) /\ Offered(a, v) /\ RentExempt(paid[m])
          /\ balance' = [balance EXCEPT ![Sol] = paid]
      BY <2>4 DEF AcceptOffer
    <3>2. o \in Offer /\ o.amount \in U64
      BY <3>1 DEF MoneyOK, Offered, Offer
    <3>3. Fee(m, o.amount) \in 0 .. o.amount
      BY <3>1, <3>2, SaleFee
    <3>4. balance'[Sol] = paid
      BY <1>1, <3>1 DEF MoneyOK
    <3> HIDE DEF o, held
    <3>5. paid[n] = held[n] + (IF n = m THEN Fee(m, o.amount) ELSE 0)
                            + (IF n = u THEN o.amount - Fee(m, o.amount) ELSE 0)
                            + (IF n = v THEN o.surplus ELSE 0)
      BY <1>1, <3>2, <3>3, SettledPays
    <3> HIDE DEF paid
    <3>6. n # m => paid[n] = held[n]
      BY <1>1, <3>5
    <3> QED  BY <1>1, <3>1, <3>4, <3>6
  <2> QED  BY <1>6, <2>1, <2>2, <2>3, <2>4 DEF Trade
<1>7. ASSUME NEW a \in Assets, NEW u \in Users, OfferStep(a, u)
      PROVE  RentExempt(balance'[Sol][n])
  <2>1. PICK x \in Users : \E k : balance' = [balance EXCEPT ![Sol] = Add(@, x, k)]
    BY <1>7 DEF OfferStep, MakeOffer, CancelOffer, FundOffer
  <2>2. PICK k : balance' = [balance EXCEPT ![Sol] = Add(@, x, k)]
    BY <2>1
  <2>3. balance'[Sol] = Add(held, x, k)
    BY <1>1, <2>2 DEF MoneyOK
  <2> HIDE DEF held
  <2>4. Add(held, x, k)[n] = held[n]
    BY <1>1, UsersOnly
  <2> QED  BY <1>1, <2>3, <2>4
<1>8. CASE \E a \in Assets, u \in Users : OwnerStep(a, u)
  BY <1>2, <1>8 DEF OwnerStep, OwnerTransfers, OwnerRemovesTransfer,
     OwnerAddsTransfer, OwnerCalls
<1> QED  BY <1>3, <1>4, <1>5, <1>6, <1>7, <1>8 DEF Next

\* No sale, fee or offer leaves a treasury with SOL below the rent minimum.
THEOREM TreasuriesRentExempt == Spec => []TreasuriesOK
<1> QED  BY InitTreasuries, TreasuriesKept, MarketInvariance, PTL DEF Spec

-----------------------------------------------------------------------------
(***************************************************************************)
(* The seller of a listed asset can delist it unless nobody may transfer   *)
(* it, because its owner took the delegate away with MPL Core.             *)
(***************************************************************************)
DelistOpen ==
  \A m \in Markets, a \in Assets : Listed(m, a) =>
    (MayDelist(m, a, listing[m][a].seller) <=> asset[a].transfer # None)

LEMMA MayAlwaysDelist == Inv => DelistOpen
<1> SUFFICES ASSUME Inv, NEW m \in Markets, NEW a \in Assets, Listed(m, a)
             PROVE  MayDelist(m, a, listing[m][a].seller) <=> asset[a].transfer # None
  BY DEF DelistOpen
<1>1. /\ asset[a] \in Asset /\ asset[a].freeze = m
      /\ asset[a].owner = listing[m][a].seller
  BY DEF Inv, RecordsOK, ListedMeansHeld
<1> QED  BY <1>1, UndelegatedSucceeds DEF MayDelist

\* No sequence of instructions bars a seller from delist.
THEOREM DelistIsOpen == Spec => []DelistOpen
<1> QED  BY MayAlwaysDelist, Invariance, PTL

(***************************************************************************)
(* While the marketplace may transfer the asset it lists, whoever else has *)
(* the price, in the currency of the listing, can buy it, and the seller   *)
(* can accept any offer.  All that ever stands in the way of a sale in SOL *)
(* is a fee too small for a treasury that nobody has funded.  Once the     *)
(* marketplace may not, there is no sale at all.  (A seller who buys the   *)
(* asset back pays the price to himself, and in tokens, where that comes   *)
(* before the fee, needs to hold less.)                                    *)
(***************************************************************************)
SalesOpen ==
  \A m \in Markets, a \in Assets, u \in Users : Listed(m, a) =>
    LET l == listing[m][a]
    IN  /\ l.payment_mint = Sol =>
             (MayBuy(m, a, u) <=>
                /\ asset[a].transfer = m /\ balance[Sol][u] >= l.price
                /\ ~RentBars(m, Fee(m, l.price)))
        /\ l.payment_mint # Sol /\ u # l.seller =>
             (MayBuyWithToken(m, a, u, l.payment_mint) <=>
                asset[a].transfer = m /\ balance[l.payment_mint][u] >= l.price)
        /\ Offered(a, u) =>
             (MayAccept(m, a, l.seller, u) <=>
                /\ asset[a].transfer = m
                /\ ~RentBars(m, Fee(m, offer[a][u].amount)))

\* What the fee makes of a treasury decides whether the sale is barred.
LEMMA RentDecides ==
  ASSUME MoneyOK, TreasuriesOK, NEW m \in Markets, NEW fee \in Nat
  PROVE  RentExempt(balance[Sol][m] + fee) <=> ~RentBars(m, fee)
<1>1. balance[Sol][m] \in Nat /\ RentExempt(balance[Sol][m]) /\ RentMin \in Nat
  BY Accounts, MarketplaceAssumption DEF MoneyOK, TreasuriesOK
<1> QED  BY <1>1 DEF RentExempt, RentBars

LEMMA MayAlwaysSell == Inv /\ MarketsOK /\ MoneyOK /\ TreasuriesOK => SalesOpen
<1> SUFFICES ASSUME Inv, MarketsOK, MoneyOK, TreasuriesOK,
                    NEW m \in Markets, NEW a \in Assets, NEW u \in Users, Listed(m, a)
             PROVE  LET l == listing[m][a]
                    IN  /\ l.payment_mint = Sol =>
                             (MayBuy(m, a, u) <=>
                                /\ asset[a].transfer = m /\ balance[Sol][u] >= l.price
                                /\ ~RentBars(m, Fee(m, l.price)))
                        /\ l.payment_mint # Sol /\ u # l.seller =>
                             (MayBuyWithToken(m, a, u, l.payment_mint) <=>
                                /\ asset[a].transfer = m
                                /\ balance[l.payment_mint][u] >= l.price)
                        /\ Offered(a, u) =>
                             (MayAccept(m, a, l.seller, u) <=>
                                /\ asset[a].transfer = m
                                /\ ~RentBars(m, Fee(m, offer[a][u].amount)))
  BY DEF SalesOpen
<1> DEFINE price == listing[m][a].price
           seller == listing[m][a].seller
           c == listing[m][a].payment_mint
           fee == Fee(m, price)
           rest == price - fee
<1>1. asset[a] \in Asset /\ asset[a].freeze = m
  BY DEF Inv, RecordsOK, ListedMeansHeld
<1>2. Sold(asset[a], u, m) # Failed <=> asset[a].transfer = m
  BY <1>1, SoldSucceeds
<1>3. /\ seller \in Users /\ c \in Currencies /\ fee \in Nat /\ rest \in Nat
      /\ price \in Nat /\ price \in U64
  BY ListingFields, SaleFee
<1>4. fee + rest = price /\ rest + fee = price
  BY <1>3
<1>5. /\ u \in Holders /\ m \in Holders /\ seller \in Holders /\ u # m /\ seller # m
      /\ balance[Sol] \in [Holders -> Nat] /\ balance[c] \in [Holders -> Nat]
  BY <1>3, Accounts DEF MoneyOK
<1>6. ASSUME c = Sol
      PROVE  MayBuy(m, a, u) <=> /\ asset[a].transfer = m /\ balance[Sol][u] >= price
                                 /\ ~RentBars(m, fee)
  <2> DEFINE held == balance[Sol]
             first == Pay(held, u, m, fee)
             paid == Pay(first, u, seller, rest)
  <2>1. paid = SolPaid(m, a, u) /\ held \in [Holders -> Nat]
    BY <1>5 DEF SolPaid
  <2> HIDE DEF held, fee, rest, price, seller
  <2>2. paid # Failed <=> held[u] >= price
    <3>1. /\ held \in [Holders -> Nat] /\ fee \in Nat /\ rest \in Nat
          /\ u \in Holders /\ m \in Holders /\ seller \in Holders /\ u # m
      BY <1>3, <1>5, <2>1
    <3> HIDE DEF paid, first
    <3>2. Pay(Pay(held, u, m, fee), u, seller, rest) # Failed <=> held[u] >= fee + rest
      BY <3>1, TwoPaysSucceed
    <3> QED  BY <1>4, <3>2 DEF paid, first
  <2>3. ASSUME paid # Failed PROVE paid[m] = held[m] + fee
    <3>1. /\ held \in [Holders -> Nat] /\ fee \in Nat /\ rest \in Nat
          /\ u \in Holders /\ m \in Holders /\ seller \in Holders
      BY <1>3, <1>5, <2>1
    <3>2. u # m /\ seller # m
      BY <1>5
    <3>3. Pay(Pay(held, u, m, fee), u, seller, rest) # Failed
      BY <2>3, Zenon
    <3> HIDE DEF paid, first
    <3>4. Pay(Pay(held, u, m, fee), u, seller, rest)[m] = held[m] + fee
      BY <3>1, <3>2, <3>3, FirstPaidKeeps
    <3> QED  BY <3>4 DEF paid, first
  <2>4. RentExempt(held[m] + fee) <=> ~RentBars(m, fee)
    BY <1>3, RentDecides DEF held
  <2> HIDE DEF first, paid
  <2> QED  BY <1>2, <1>6, <2>1, <2>2, <2>3, <2>4 DEF MayBuy, held, price
<1>7. ASSUME c # Sol, u # seller
      PROVE  MayBuyWithToken(m, a, u, c)
               <=> asset[a].transfer = m /\ balance[c][u] >= price
  <2> DEFINE paid == Pay(Pay(balance[c], u, seller, rest), u, m, fee)
  <2>1. paid = TokensPaid(m, a, u, c)
    BY DEF TokensPaid
  <2> HIDE DEF fee, rest, price, seller, c
  <2>2. paid # Failed <=> balance[c][u] >= price
    <3>1. /\ balance[c] \in [Holders -> Nat] /\ fee \in Nat /\ rest \in Nat
          /\ u \in Holders /\ m \in Holders /\ seller \in Holders /\ u # seller
      BY <1>3, <1>5, <1>7
    <3> HIDE DEF paid
    <3>2. Pay(Pay(balance[c], u, seller, rest), u, m, fee) # Failed
            <=> balance[c][u] >= rest + fee
      BY <3>1, TwoPaysSucceed
    <3> QED  BY <1>4, <3>2 DEF paid
  <2> HIDE DEF paid
  <2> QED  BY <1>2, <2>1, <2>2 DEF MayBuyWithToken, c
<1>8. ASSUME Offered(a, u)
      PROVE  MayAccept(m, a, seller, u)
               <=> asset[a].transfer = m /\ ~RentBars(m, Fee(m, offer[a][u].amount))
  <2> DEFINE o == offer[a][u]
             held == balance[Sol]
             paid == Settled(held, o, m, seller, u)
             part == Fee(m, o.amount)
  <2>1. o \in Offer /\ o.amount \in U64
    BY <1>8 DEF MoneyOK, Offered, Offer
  <2>2. part \in 0 .. o.amount /\ part \in Nat
    BY <2>1, SaleFee
  <2>3. paid = OfferPaid(m, a, seller, u)
    BY DEF OfferPaid
  <2>4. RentExempt(held[m] + part) <=> ~RentBars(m, part)
    BY <2>2, RentDecides
  <2> HIDE DEF o, held, seller
  <2>5. paid[m] = held[m] + (IF m = m THEN part ELSE 0)
                          + (IF m = seller THEN o.amount - part ELSE 0)
                          + (IF m = u THEN o.surplus ELSE 0)
    BY <1>3, <1>5, <2>1, <2>2, SettledPays DEF held
  <2>6. paid[m] = held[m] + part
    <3> HIDE DEF paid, part
    <3>1. held[m] \in Nat
      BY <1>5 DEF held
    <3> QED  BY <1>5, <2>2, <2>5, <3>1
  <2> HIDE DEF paid, part
  <2> QED  BY <1>2, <1>8, <2>3, <2>4, <2>6 DEF MayAccept, seller, part, o
<1> QED  BY <1>6, <1>7, <1>8

\* No sequence of instructions bars buyer and seller from buy and accept_offer.
THEOREM SalesAreOpen == Spec => []SalesOpen
<1> QED  BY MayAlwaysSell, TreasuriesRentExempt, MarketInvariance, PTL

-----------------------------------------------------------------------------
(***************************************************************************)
(* All of it together, for a program that runs beside others: they may do  *)
(* to the assets what they like, as long as the listed ones stay held.     *)
(***************************************************************************)
AllOK == Inv /\ MarketsOK /\ MoneyOK /\ TreasuriesOK

LEMMA InitAll == Init => AllOK
BY InitInv, InitMoney, InitTreasuries DEF AllOK

LEMMA NextAll == AllOK /\ [Next]_vars => AllOK'
BY NextInv, MarketsKept, MoneyKept, TreasuriesKept DEF AllOK

LEMMA OthersKeepAll ==
  ASSUME AllOK, asset' \in [Assets -> Asset], ListedMeansHeld',
         UNCHANGED <<marketplace, listing, offer, balance>>
  PROVE  AllOK'
<1> USE DEF AllOK
<1>1. Inv'
  BY DEF Inv, RecordsOK
<1>2. MarketsOK'
  BY DEF MarketsOK, Listed
<1>3. MoneyOK'
  BY DEF MoneyOK, MoneyConserved, Escrowed, InOffer, Offered
<1>4. TreasuriesOK'
  BY DEF TreasuriesOK, RentExempt
<1> QED  BY <1>1, <1>2, <1>3, <1>4

=============================================================================
