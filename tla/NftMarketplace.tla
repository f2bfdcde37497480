--------------------------- MODULE NftMarketplace ---------------------------
(***************************************************************************)
(* The marketplace program of Assignment_04: a listed asset is frozen in   *)
(* its seller's wallet, with the marketplace as the delegate that may move *)
(* it, until it is delisted, bought at the listed price in SOL or in       *)
(* tokens, or sold for an offer that a buyer escrowed.  Several            *)
(* marketplaces share the assets, and an offer belongs to none of them.    *)
(* Each instruction is one transaction: all of its calls take effect, or   *)
(* none.  The rent of the accounts, which goes back to who paid it, is     *)
(* left out; that of the treasury, which nobody pays, is not.              *)
(***************************************************************************)
EXTENDS FixedWidth, FiniteSets, Functions, MplCore

CONSTANTS
  Assets,
  InitialOwner,
  Markets,          \* the marketplace PDAs; each also names its treasury
  Sol,              \* system_program::ID as a payment_mint
  PaymentMints,
  InitialBalance,   \* what each wallet and treasury holds of each currency
  Absent,           \* an account that does not exist
  Fees,             \* the fees, prices and offers that are tried
  Prices,
  Amounts,
  MaxSurplus,       \* bound on what strangers add to an offer
  RentMin           \* the least a wallet or treasury that is not empty may hold

Currencies == PaymentMints \cup {Sol}
Holders == Users \cup Markets
BasisPoints == 10000
MaxU16 == 65535
U16 == 0 .. MaxU16

\* The supply of a currency is a u64; system_program::ID is no mint.
ASSUME MarketplaceAssumption ==
  /\ Markets \subseteq Authorities
  /\ IsFiniteSet(Users) /\ IsFiniteSet(Markets) /\ IsFiniteSet(Assets)
  /\ Sol \notin PaymentMints
  /\ InitialOwner \in [Assets -> Users]
  /\ InitialBalance \in [Currencies -> [Holders -> U64]]
  /\ \A c \in Currencies : SumFunction(InitialBalance[c]) <= MaxU64
  /\ Fees \subseteq U16
  /\ Prices \subseteq U64 /\ Amounts \subseteq U64
  /\ MaxSurplus \in Nat /\ RentMin \in Nat

\* A treasury that holds anything starts with what the runtime asks for.
ASSUME TreasuryAssumption ==
  \A m \in Markets : InitialBalance[Sol][m] = 0 \/ InitialBalance[Sol][m] >= RentMin

\* A payment that fails is none that leaves balances.
ASSUME PaymentAssumption == Failed \notin [Holders -> Nat]

VARIABLES
  marketplace,   \* the fee of each marketplace
  listing,       \* the Listing of each asset in each marketplace
  offer,         \* the Offer of each user for each asset
  asset,         \* the MPL Core assets
  balance        \* of each currency, what each wallet and treasury holds

vars == <<marketplace, listing, offer, asset, balance>>

Listing == [seller : Users, price : U64, payment_mint : Currencies]
Offer == [amount : U64, surplus : 0 .. MaxSurplus]   \* surplus: sent since

ASSUME AbsentAssumption == Absent \notin Listing \cup Offer \cup U16

Listed(m, a) == listing[m][a] # Absent
Offered(a, u) == offer[a][u] # Absent

-----------------------------------------------------------------------------
Add(held, to, amount) == [held EXCEPT ![to] = @ + amount]

\* A transfer, or the failure of the instruction; transfers compose.
Pay(held, from, to, amount) ==
  IF held # Failed /\ held[from] >= amount
    THEN Add(Add(held, from, -amount), to, amount) ELSE Failed

\* The runtime refuses a transaction that leaves less than this in an account.
RentExempt(lamports) == lamports = 0 \/ lamports >= RentMin

Fee(m, amount) == AsU64((amount * marketplace[m]) \div BasisPoints)

\* Mutant of Delegated: the asset is not frozen yet.
MutantDelegated(x, seller, m) ==
  AddTransferDelegate(AddFreezeDelegate(x, seller, m, FALSE), seller, m)

\* What list makes of the asset.
Delegated(x, seller, m) ==
  AddTransferDelegate(AddFreezeDelegate(x, seller, m, TRUE), seller, m)

\* Mutant of Undelegated: the plugin is removed before the asset is unfrozen.
MutantUndelegated(x, owner, m) ==
  RemoveTransferDelegate(
    UpdateFreezeDelegate(RemoveFreezeDelegate(x, owner), m, FALSE), owner)

\* What delist makes of it.
Undelegated(x, owner, m) ==
  RemoveTransferDelegate(
    RemoveFreezeDelegate(UpdateFreezeDelegate(x, m, FALSE), owner), owner)

\* Mutant of Sold: the asset moves before it is unfrozen.
MutantSold(x, buyer, m) ==
  RemoveTransferDelegate(
    RemoveFreezeDelegate(
      UpdateFreezeDelegate(TransferAsset(x, m, buyer), m, FALSE), buyer), buyer)

\* What a sale makes of it: the buyer, by then the owner, removes the plugins.
Sold(x, buyer, m) ==
  RemoveTransferDelegate(
    RemoveFreezeDelegate(
      TransferAsset(UpdateFreezeDelegate(x, m, FALSE), m, buyer), buyer), buyer)

-----------------------------------------------------------------------------
\* Mutant of FeeAllowed: any u16.
MutantFeeAllowed(fee) == fee \in U16

FeeAllowed(fee) == fee <= BasisPoints

\* initialize
Initialize(m, fee) ==
  /\ marketplace[m] = Absent
  /\ FeeAllowed(fee)
  /\ marketplace' = [marketplace EXCEPT ![m] = fee]
  /\ UNCHANGED <<listing, offer, asset, balance>>

\* list
List(m, a, seller, price, payment_mint) ==
  /\ marketplace[m] # Absent
  /\ ~Listed(m, a)
  /\ Delegated(asset[a], seller, m) # Failed
  /\ asset' = [asset EXCEPT ![a] = Delegated(@, seller, m)]
  /\ listing' = [listing EXCEPT ![m][a] =
                   [seller |-> seller, price |-> price, payment_mint |-> payment_mint]]
  /\ UNCHANGED <<marketplace, offer, balance>>

\* delist
Delist(m, a, seller) ==
  /\ Listed(m, a) /\ listing[m][a].seller = seller
  /\ Undelegated(asset[a], seller, m) # Failed
  /\ asset' = [asset EXCEPT ![a] = Undelegated(@, seller, m)]
  /\ listing' = [listing EXCEPT ![m][a] = Absent]
  /\ UNCHANGED <<marketplace, offer, balance>>

\* The part of a sale that buy, buy_with_token and accept_offer share.
HandOver(m, a, buyer) ==
  /\ Sold(asset[a], buyer, m) # Failed
  /\ asset' = [asset EXCEPT ![a] = Sold(@, buyer, m)]
  /\ listing' = [listing EXCEPT ![m][a] = Absent]
  /\ UNCHANGED marketplace

\* buy: the fee first, then the seller.
Buy(m, a, buyer) ==
  /\ Listed(m, a) /\ listing[m][a].payment_mint = Sol
  /\ LET price == listing[m][a].price
         fee == Fee(m, price)
         paid == Pay(Pay(balance[Sol], buyer, m, fee),
                     buyer, listing[m][a].seller, price - fee)
     IN  /\ paid # Failed
         /\ RentExempt(paid[m])
         /\ balance' = [balance EXCEPT ![Sol] = paid]
  /\ HandOver(m, a, buyer)
  /\ UNCHANGED offer

\* buy_with_token: the seller first, then the fee.
BuyWithToken(m, a, buyer, payment_mint) ==
  /\ Listed(m, a) /\ listing[m][a].payment_mint = payment_mint
  /\ LET price == listing[m][a].price
         fee == Fee(m, price)
         paid == Pay(Pay(balance[payment_mint], buyer, listing[m][a].seller, price - fee),
                     buyer, m, fee)
     IN  /\ paid # Failed
         /\ balance' = [balance EXCEPT ![payment_mint] = paid]
  /\ HandOver(m, a, buyer)
  /\ UNCHANGED offer

-----------------------------------------------------------------------------
\* make_offer: the asset need not be listed, nor belong to somebody else.
MakeOffer(a, buyer, amount) ==
  /\ amount > 0
  /\ ~Offered(a, buyer)
  /\ balance[Sol][buyer] >= amount
  /\ balance' = [balance EXCEPT ![Sol] = Add(@, buyer, -amount)]
  /\ offer' = [offer EXCEPT ![a][buyer] = [amount |-> amount, surplus |-> 0]]
  /\ UNCHANGED <<marketplace, listing, asset>>

\* Mutant of Settled: closing the offer gives what is left to the seller.
MutantSettled(held, o, m, seller, buyer) ==
  LET fee == Fee(m, o.amount)
  IN  Add(Add(held, m, fee), seller, o.amount - fee + o.surplus)

\* Mutant of Settled: the fee is paid out of nothing.
FreeSettled(held, o, m, seller, buyer) ==
  Add(Add(Add(held, m, Fee(m, o.amount)), seller, o.amount), buyer, o.surplus)

\* The offer account pays the fee and the seller, and closes to the buyer.
Settled(held, o, m, seller, buyer) ==
  LET fee == Fee(m, o.amount)
  IN  Add(Add(Add(held, m, fee), seller, o.amount - fee), buyer, o.surplus)

\* accept_offer: the price and the currency of the listing play no part.
AcceptOffer(m, a, seller, buyer) ==
  /\ Listed(m, a) /\ listing[m][a].seller = seller
  /\ Offered(a, buyer)
  /\ LET paid == Settled(balance[Sol], offer[a][buyer], m, seller, buyer)
     IN  /\ RentExempt(paid[m])
         /\ balance' = [balance EXCEPT ![Sol] = paid]
  /\ HandOver(m, a, buyer)
  /\ offer' = [offer EXCEPT ![a][buyer] = Absent]

\* cancel_offer
CancelOffer(a, buyer) ==
  /\ Offered(a, buyer)
  /\ balance' = [balance EXCEPT ![Sol] =
                   Add(@, buyer, offer[a][buyer].amount + offer[a][buyer].surplus)]
  /\ offer' = [offer EXCEPT ![a][buyer] = Absent]
  /\ UNCHANGED <<marketplace, listing, asset>>

-----------------------------------------------------------------------------
(***************************************************************************)
(* What goes on outside the program: anybody may send SOL to a treasury or *)
(* to an offer, and owners use MPL Core directly.                          *)
(***************************************************************************)
FundTreasury(u, m) ==
  LET paid == Pay(balance[Sol], u, m, RentMin)
  IN  /\ paid # Failed /\ balance[Sol][m] = 0
      /\ balance' = [balance EXCEPT ![Sol] = paid]
      /\ UNCHANGED <<marketplace, listing, offer, asset>>

FundOffer(u, a, buyer) ==
  /\ Offered(a, buyer) /\ offer[a][buyer].surplus < MaxSurplus
  /\ balance[Sol][u] > 0
  /\ balance' = [balance EXCEPT ![Sol] = Add(@, u, -1)]
  /\ offer' = [offer EXCEPT ![a][buyer].surplus = @ + 1]
  /\ UNCHANGED <<marketplace, listing, asset>>

OwnerCalls(a, result) ==
  /\ result # Failed
  /\ asset' = [asset EXCEPT ![a] = result]
  /\ UNCHANGED <<marketplace, listing, offer, balance>>

OwnerTransfers(u, a, v) == OwnerCalls(a, TransferAsset(asset[a], u, v))
OwnerRemovesTransfer(u, a) == OwnerCalls(a, RemoveTransferDelegate(asset[a], u))
OwnerAddsTransfer(u, a) == OwnerCalls(a, AddTransferDelegate(asset[a], u, u))

-----------------------------------------------------------------------------
Init ==
  /\ marketplace = [m \in Markets |-> Absent]
  /\ listing = [m \in Markets |-> [a \in Assets |-> Absent]]
  /\ offer = [a \in Assets |-> [u \in Users |-> Absent]]
  /\ asset = [a \in Assets |-> NewAsset(InitialOwner[a])]
  /\ balance = InitialBalance

Trade(m, a, u) ==
  \/ \E price \in Prices, c \in Currencies : List(m, a, u, price, c)
  \/ Delist(m, a, u)
  \/ Buy(m, a, u)
  \/ \E c \in PaymentMints : BuyWithToken(m, a, u, c)
  \/ \E v \in Users : AcceptOffer(m, a, u, v)

OfferStep(a, u) ==
  \/ \E amount \in Amounts : MakeOffer(a, u, amount)
  \/ CancelOffer(a, u)
  \/ \E v \in Users : FundOffer(v, a, u)

OwnerStep(a, u) ==
  \/ \E v \in Users : OwnerTransfers(u, a, v)
  \/ OwnerRemovesTransfer(u, a)
  \/ OwnerAddsTransfer(u, a)

Next ==
  \/ \E m \in Markets, fee \in Fees : Initialize(m, fee)
  \/ \E m \in Markets, u \in Users : FundTreasury(u, m)
  \/ \E m \in Markets, a \in Assets, u \in Users : Trade(m, a, u)
  \/ \E a \in Assets, u \in Users : OfferStep(a, u) \/ OwnerStep(a, u)

Spec == Init /\ [][Next]_vars

-----------------------------------------------------------------------------
TypeOK ==
  /\ marketplace \in [Markets -> (0 .. BasisPoints) \cup {Absent}]
  /\ listing \in [Markets -> [Assets -> Listing \cup {Absent}]]
  /\ offer \in [Assets -> [Users -> Offer \cup {Absent}]]
  /\ asset \in [Assets -> Asset]
  /\ balance \in [Currencies -> [Holders -> U64]]

(***************************************************************************)
(* A listing stands for an asset that the seller still holds, that is      *)
(* frozen, and that only this marketplace can unfreeze.  So no asset is    *)
(* listed twice, in one marketplace or in two, and no listing is left      *)
(* behind by an asset that changed hands.                                  *)
(***************************************************************************)
ListedMeansHeld ==
  \A m \in Markets, a \in Assets : Listed(m, a) =>
    /\ asset[a].owner = listing[m][a].seller
    /\ asset[a].freeze = m /\ asset[a].frozen

(***************************************************************************)
(* The seller can delist at any time before a sale, unless the owner has   *)
(* taken the transfer delegate away with MPL Core; adding any brings the   *)
(* way back.                                                               *)
(***************************************************************************)
SellerMayDelist ==
  \A m \in Markets, a \in Assets :
    Listed(m, a) /\ asset[a].transfer # None
      => ENABLED Delist(m, a, listing[m][a].seller)

\* What a user has in the offer for an asset, in all offers, and altogether.
InOffer(a, u) == IF Offered(a, u) THEN offer[a][u].amount + offer[a][u].surplus ELSE 0

Escrowed(u) == SumFunction([a \in Assets |-> InOffer(a, u)])

Purse(u) == balance[Sol][u] + Escrowed(u)

(***************************************************************************)
(* No instruction makes or loses money: wallets, treasuries and open       *)
(* offers always hold together what there was at the start.                *)
(***************************************************************************)
MoneyConserved ==
  /\ SumFunction(balance[Sol]) + SumFunction([u \in Users |-> Escrowed(u)])
       = SumFunction(InitialBalance[Sol])
  /\ \A c \in PaymentMints : SumFunction(balance[c]) = SumFunction(InitialBalance[c])

(***************************************************************************)
(* A listed asset changes hands only for the listed price, or for the      *)
(* amount the new owner offered, all of it: the seller is paid in the same *)
(* step, less a fee of at most the marketplace's rate that its treasury    *)
(* gets, and the buyer, surplus in the offer included, is out of that      *)
(* amount and no more.                                                     *)
(***************************************************************************)
SoldFor(m, a, amount, before, after) ==
  LET seller == listing[m][a].seller
      fee == after[m] - before[m]
  IN  /\ fee \in 0 .. amount /\ fee * BasisPoints <= amount * marketplace[m]
      /\ after[seller] = before[seller] + amount - fee

SalePaid(m, a, buyer) ==
  LET price == listing[m][a].price
      c == listing[m][a].payment_mint
  IN  \/ /\ SoldFor(m, a, price, balance[c], balance'[c])
         /\ balance'[c][buyer] = balance[c][buyer] - price
      \/ /\ Offered(a, buyer) /\ ~Offered(a, buyer)'
         /\ SoldFor(m, a, offer[a][buyer].amount, balance[Sol], balance'[Sol])
         /\ Purse(buyer)' = Purse(buyer) - offer[a][buyer].amount

SalesSettled ==
  [][\A m \in Markets, a \in Assets, buyer \in Users :
       Listed(m, a) /\ asset[a].owner # buyer /\ asset'[a].owner = buyer
         => ~Listed(m, a)' /\ SalePaid(m, a, buyer)]_vars

\* The fee would leave the treasury with less than the runtime allows.
RentBars(m, fee) == fee > 0 /\ balance[Sol][m] + fee < RentMin

(***************************************************************************)
(* While the marketplace is still the transfer delegate of a listed asset, *)
(* whoever has the price in SOL can buy it, and the seller can accept any  *)
(* offer for it: all that ever stands in the way is a fee too small for a  *)
(* treasury that nobody has funded.                                        *)
(***************************************************************************)
SolSalesOpen ==
  \A m \in Markets, a \in Assets, u \in Users :
    Listed(m, a) /\ asset[a].transfer = m =>
      LET l == listing[m][a]
      IN  /\ l.payment_mint = Sol /\ balance[Sol][u] >= l.price =>
               (ENABLED Buy(m, a, u) <=> ~RentBars(m, Fee(m, l.price)))
          /\ Offered(a, u) =>
               (ENABLED AcceptOffer(m, a, l.seller, u)
                  <=> ~RentBars(m, Fee(m, offer[a][u].amount)))

=============================================================================
