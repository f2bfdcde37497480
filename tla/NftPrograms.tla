----------------------------- MODULE NftPrograms -----------------------------
(***************************************************************************)
(* nft_staking and nft_marketplace side by side.  Neither knows the other; *)
(* what they share is the MPL Core assets, whose plugins both of them add, *)
(* use and remove, and the users, who go from one to the other.            *)
(***************************************************************************)
EXTENDS Naturals

CONSTANTS
  Users, Authorities, None, Failed, MaxU64, Assets, InitialOwner, Absent,
  Collections, CollectionOf, InitialCollections, Keys, Mentions, Endings, CountKey,
  Text, Config, Points, MaxStakes, FreezePeriods, MaxTime,
  Markets, Sol, PaymentMints, InitialBalance, Fees, Prices, Amounts,
  MaxSurplus, RentMin

\* The config PDA of one program is not a marketplace PDA of the other, and no
\* user is either.
ASSUME AuthoritiesAssumption ==
  /\ Config \in Authorities \ Markets /\ Markets \subseteq Authorities
  /\ Users \cap Authorities = {} /\ None \notin Users \cup Authorities

ASSUME ProgramsAssumption ==
  /\ InitialOwner \in [Assets -> Users]
  /\ Prices \subseteq 0 .. MaxU64

VARIABLES
  config, user_account, stake_account, collection, reward_supply, now, since, paid, counted_from,
  marketplace, listing, offer, balance,
  asset

staking == <<config, user_account, stake_account, collection, reward_supply,
             now, since, paid, counted_from>>
market == <<marketplace, listing, offer, balance>>

Staking == INSTANCE NftStaking
Market == INSTANCE NftMarketplace

ASSUME AbsenceAssumption ==
  /\ Absent \notin Staking!StakeAccount \cup Market!Listing
  /\ Failed \notin Staking!Asset

\* What each of the two programs assumes of its constants holds of them here.
ASSUME ComponentsAssumption ==
  /\ Staking!StakingAssumption /\ Staking!MplCoreAssumption /\ Staking!KeysAssumption
  /\ Staking!AbsentAssumption /\ Staking!MaxU64Assumption /\ Staking!FailedAssumption
  /\ Market!MarketplaceAssumption /\ Market!AbsentAssumption
  /\ Market!TreasuryAssumption /\ Market!PaymentAssumption

Init == Staking!Init /\ Market!Init

Next ==
  \/ Staking!Next /\ UNCHANGED market
  \/ Market!Next /\ UNCHANGED staking

Spec == Init /\ [][Next]_<<staking, market, asset>>

-----------------------------------------------------------------------------
(***************************************************************************)
(* What each program believes of the assets it recorded stays true while   *)
(* the other one works on the same assets: a staked asset and a listed one *)
(* are still held and frozen by the authority that recorded them.          *)
(***************************************************************************)
BothHold == Staking!StakedMeansHeld /\ Market!ListedMeansHeld

\* Who has an asset in custody, going by the records of the two programs.
Custodian(a) ==
  IF Staking!Staked(a) THEN Config
  ELSE IF \E m \in Markets : Market!Listed(m, a)
    THEN CHOOSE m \in Markets : Market!Listed(m, a)
    ELSE None

Custody == INSTANCE AssetCustody WITH
  Custodians <- Markets \cup {Config}, Sellers <- Markets, Free <- None,
  owner <- [a \in Assets |-> asset[a].owner],
  custodian <- [a \in Assets |-> Custodian(a)]

(***************************************************************************)
(* Together the two programs keep custody of the assets: none is staked    *)
(* and listed at once, or listed twice, and one that is staked or listed   *)
(* changes hands only when a marketplace sells it, which ends the custody. *)
(***************************************************************************)
ImplementsCustody == Custody!Spec

(***************************************************************************)
(* The gates of the two exits stay the only ones: the other program never  *)
(* keeps an owner from unstaking an asset whose period is over, or from    *)
(* delisting one.                                                          *)
(***************************************************************************)
ExitsStayOpen == Staking!FreezePeriodIsOnlyGate /\ Market!SellerMayDelist

=============================================================================
