------------------------- MODULE NftPrograms_proofs -------------------------
(***************************************************************************)
(* For any number of users, assets and marketplaces: nft_staking and       *)
(* nft_marketplace, side by side, leave each other's assets alone, and     *)
(* together implement the abstract custody of AssetCustody.  So each keeps *)
(* what it promises alone: the second part takes the steps of each program *)
(* from its own proofs, and shows that the other's steps disturb nothing   *)
(* they rely on.                                                           *)
(*                                                                         *)
(* To both programs the same happens: a record of an asset appears         *)
(* together with a freeze by the program's own authority, on an asset that *)
(* nobody froze before, and both go together again.  The proofs say what   *)
(* each instruction does in these terms, and reason about the terms.       *)
(***************************************************************************)
EXTENDS NftPrograms, TLAPS

Programs == Markets \cup {Config}

\* Program p has a record of the asset a, which names an owner.
Recorded(a, p) == IF p = Config THEN Staking!Staked(a) ELSE Market!Listed(p, a)
RecordedOwner(a, p) ==
  IF p = Config THEN stake_account[a].owner ELSE listing[p][a].seller

\* The types that matter here, and what both programs believe.
Records ==
  /\ stake_account \in [Assets -> Staking!StakeAccount \cup {Absent}]
  /\ listing \in [Markets -> [Assets -> Market!Listing \cup {Absent}]]
  /\ asset \in [Assets -> Staking!Asset]
  /\ now \in Nat

Held ==
  \A a \in Assets, p \in Programs : Recorded(a, p) =>
    /\ asset[a].owner = RecordedOwner(a, p)
    /\ asset[a].freeze = p /\ asset[a].frozen

Inv == Records /\ Held

LEMMA HeldIsBothHold == Held <=> BothHold
<1>1. Config \notin Markets
  BY AuthoritiesAssumption
<1> QED
  BY <1>1 DEF Held, BothHold, Programs, Recorded, RecordedOwner,
              Staking!StakedMeansHeld, Market!ListedMeansHeld

-----------------------------------------------------------------------------
(***************************************************************************)
(* What the steps of the two programs come to.                             *)
(***************************************************************************)
SameRecord(a, p) ==
  /\ Recorded(a, p)' <=> Recorded(a, p)
  /\ Recorded(a, p) => RecordedOwner(a, p)' = RecordedOwner(a, p)

\* Nothing changes but the asset a and what p knows of it.
Only(a, p) ==
  /\ \A b \in Assets, q \in Programs : b # a \/ q # p => SameRecord(b, q)
  /\ \A b \in Assets : b # a => asset'[b] = asset[b]

Takes(a, p) ==
  /\ Only(a, p)
  /\ asset[a].freeze = None
  /\ Recorded(a, p)' /\ asset'[a].owner = RecordedOwner(a, p)'
  /\ asset'[a].owner = asset[a].owner
  /\ asset'[a].freeze = p /\ asset'[a].frozen

Gives(a, p) ==
  /\ Only(a, p)
  /\ asset[a].freeze = p
  /\ Recorded(a, p) /\ ~Recorded(a, p)'
  /\ p \notin Markets => asset'[a].owner = asset[a].owner

\* The records stay, and so does what is frozen.
Keeps(a) ==
  /\ \A b \in Assets, q \in Programs : SameRecord(b, q)
  /\ \A b \in Assets : b # a => asset'[b] = asset[b]
  /\ asset[a].frozen /\ asset[a].freeze # None =>
       /\ asset'[a].owner = asset[a].owner
       /\ asset'[a].freeze = asset[a].freeze /\ asset'[a].frozen

Idles ==
  /\ \A b \in Assets, q \in Programs : SameRecord(b, q)
  /\ asset' = asset

Effect ==
  \/ \E a \in Assets, p \in Programs : Takes(a, p) \/ Gives(a, p)
  \/ \E a \in Assets : Keeps(a)
  \/ Idles

\* Each of them leaves the beliefs of both programs true.
LEMMA EffectKeepsHeld ==
  ASSUME Inv, Effect
  PROVE  Held'
<1> USE DEF Inv
<1>0. None \notin Programs
  BY AuthoritiesAssumption DEF Programs
<1>1. ASSUME NEW a \in Assets, NEW p \in Programs, Takes(a, p) PROVE Held'
  <2> SUFFICES ASSUME NEW b \in Assets, NEW q \in Programs, Recorded(b, q)'
               PROVE  /\ asset'[b].owner = RecordedOwner(b, q)'
                      /\ asset'[b].freeze = q /\ asset'[b].frozen
    BY DEF Held
  <2>1. CASE b = a /\ q = p
    BY <1>1, <2>1 DEF Takes
  <2>2. CASE b # a
    BY <1>1, <2>2 DEF Takes, Only, SameRecord, Held
  <2>3. CASE b = a /\ q # p
    <3>1. Recorded(a, q)
      BY <1>1, <2>3 DEF Takes, Only, SameRecord
    <3> QED  BY <1>0, <1>1, <3>1 DEF Takes, Held
  <2> QED  BY <2>1, <2>2, <2>3
<1>2. ASSUME NEW a \in Assets, NEW p \in Programs, Gives(a, p) PROVE Held'
  <2> SUFFICES ASSUME NEW b \in Assets, NEW q \in Programs, Recorded(b, q)'
               PROVE  /\ asset'[b].owner = RecordedOwner(b, q)'
                      /\ asset'[b].freeze = q /\ asset'[b].frozen
    BY DEF Held
  <2>1. b # a
    <3> SUFFICES ASSUME b = a PROVE FALSE
      OBVIOUS
    <3>1. q # p
      BY <1>2 DEF Gives
    <3>2. Recorded(a, q)
      BY <1>2, <3>1 DEF Gives, Only, SameRecord
    <3> QED  BY <1>2, <3>1, <3>2 DEF Gives, Held
  <2> QED  BY <1>2, <2>1 DEF Gives, Only, SameRecord, Held
<1>3. ASSUME NEW a \in Assets, Keeps(a) PROVE Held'
  BY <1>0, <1>3 DEF Keeps, SameRecord, Held
<1>4. CASE Idles
  BY <1>4 DEF Idles, SameRecord, Held
<1> QED  BY <1>1, <1>2, <1>3, <1>4 DEF Effect

-----------------------------------------------------------------------------
(***************************************************************************)
(* The steps of nft_staking.                                               *)
(***************************************************************************)

\* Another record and another asset in the place of a's, and nothing else.
LEMMA StakingOnly ==
  ASSUME Inv, NEW a \in Assets, UNCHANGED <<listing, now>>,
         NEW r \in Staking!StakeAccount \cup {Absent}, NEW x \in Staking!Asset,
         stake_account' = [stake_account EXCEPT ![a] = r],
         asset' = [asset EXCEPT ![a] = x]
  PROVE  /\ Records' /\ Only(a, Config)
         /\ asset'[a] = x
         /\ Recorded(a, Config)' <=> r # Absent
         /\ RecordedOwner(a, Config)' = r.owner
<1> USE DEF Inv, Records
<1>1. Records'
  OBVIOUS
<1>2. /\ stake_account'[a] = r /\ asset'[a] = x
      /\ \A b \in Assets : b # a => stake_account'[b] = stake_account[b] /\ asset'[b] = asset[b]
  OBVIOUS
<1>3. Only(a, Config)
  BY <1>2 DEF Only, SameRecord, Recorded, RecordedOwner, Staking!Staked, Market!Listed
<1> QED  BY <1>1, <1>2, <1>3 DEF Recorded, RecordedOwner, Staking!Staked

LEMMA StakeEffect ==
  ASSUME Inv, NEW u \in Users, NEW a \in Assets, Staking!Stake(u, a), UNCHANGED market
  PROVE  Records' /\ Takes(a, Config)
<1> DEFINE x == asset[a]
           added == [x EXCEPT !.freeze = Config, !.frozen = FALSE]
           y == [added EXCEPT !.frozen = TRUE]
           r == [owner |-> u, last_update |-> now]
<1>1. x \in Staking!Asset /\ Config \in Authorities /\ now \in Nat
  BY AuthoritiesAssumption DEF Inv, Records
<1>2. Staking!Frozen(x, u) # Failed
  BY DEF Staking!Stake
<1>3. /\ x.owner = u /\ x.freeze = None
      /\ Staking!AddFreezeDelegate(x, u, Config, FALSE) = added
  BY <1>2 DEF Staking!Frozen, Staking!AddFreezeDelegate, Staking!UpdateFreezeDelegate
<1>4. added \in Staking!Asset /\ added.freeze = Config /\ added.owner = u
  BY <1>1, <1>3 DEF Staking!Asset
<1>5. Staking!Frozen(x, u) = y
  BY <1>3, <1>4, AbsenceAssumption DEF Staking!Frozen, Staking!UpdateFreezeDelegate
<1>6. y \in Staking!Asset /\ y.owner = u /\ y.freeze = Config /\ y.frozen
  BY <1>4 DEF Staking!Asset
<1>7. r \in Staking!StakeAccount /\ r # Absent /\ r.owner = u
  BY <1>1, AbsenceAssumption DEF Staking!StakeAccount
<1>8. /\ UNCHANGED <<listing, now>>
      /\ stake_account' = [stake_account EXCEPT ![a] = r]
      /\ asset' = [asset EXCEPT ![a] = y]
  BY <1>5 DEF Staking!Stake, market
<1>9. asset[a].owner = u /\ asset[a].freeze = None
  BY <1>3
<1> HIDE DEF r, y, x, added
<1>10. /\ Records' /\ Only(a, Config) /\ asset'[a] = y
       /\ Recorded(a, Config)' /\ RecordedOwner(a, Config)' = u
  BY <1>6, <1>7, <1>8, StakingOnly
<1> QED  BY <1>6, <1>9, <1>10 DEF Takes

LEMMA UnstakeEffect ==
  ASSUME Inv, NEW u \in Users, NEW a \in Assets, Staking!Unstake(u, a), UNCHANGED market
  PROVE  Records' /\ Gives(a, Config)
<1> DEFINE x == asset[a]
           unfrozen == [x EXCEPT !.frozen = FALSE]
           y == [unfrozen EXCEPT !.freeze = None]
<1>1. x \in Staking!Asset
  BY DEF Inv, Records
<1>2. Staking!Released(x, u) # Failed
  BY DEF Staking!Unstake
<1>3. x.freeze = Config /\ Staking!UpdateFreezeDelegate(x, Config, FALSE) = unfrozen
  BY <1>2 DEF Staking!Released, Staking!RemoveFreezeDelegate, Staking!UpdateFreezeDelegate
<1>4. unfrozen \in Staking!Asset /\ unfrozen.owner = x.owner
  BY <1>1 DEF Staking!Asset
<1>5. Staking!Released(x, u) = y
  BY <1>2, <1>3 DEF Staking!Released, Staking!RemoveFreezeDelegate
<1>6. y \in Staking!Asset /\ y.owner = x.owner
  BY <1>4 DEF Staking!Asset
<1>7. /\ UNCHANGED <<listing, now>>
      /\ stake_account' = [stake_account EXCEPT ![a] = Absent]
      /\ asset' = [asset EXCEPT ![a] = y]
      /\ Recorded(a, Config)
  BY <1>5 DEF Staking!Unstake, market, Recorded
<1> HIDE DEF y
<1> QED  BY <1>3, <1>6, <1>7, StakingOnly DEF Gives

LEMMA ClaimEffect ==
  ASSUME Inv, NEW u \in Users, NEW a \in Assets, Staking!ClaimRewards(u, a), UNCHANGED market
  PROVE  Records' /\ Idles
<1> DEFINE r == [stake_account[a] EXCEPT !.last_update = now]
<1>1. /\ UNCHANGED <<listing, now, asset>>
      /\ stake_account' = [stake_account EXCEPT ![a] = r]
      /\ stake_account[a] \in Staking!StakeAccount /\ now \in Nat
  BY DEF Staking!ClaimRewards, Staking!Advanced, Staking!Staked, market, Inv, Records
<1>2. /\ r \in Staking!StakeAccount /\ r # Absent
      /\ r.owner = stake_account[a].owner /\ stake_account[a] # Absent
  BY <1>1, AbsenceAssumption DEF Staking!StakeAccount
<1> HIDE DEF r
<1>3. Records'
  BY <1>1, <1>2 DEF Inv, Records
<1>4. \A b \in Assets, q \in Programs : SameRecord(b, q)
  BY <1>1, <1>2
  DEF SameRecord, Recorded, RecordedOwner, Staking!Staked, Market!Listed, Inv, Records
<1> QED  BY <1>1, <1>3, <1>4 DEF Idles

\* MPL Core lets an owner change nothing about an asset that is frozen but its
\* transfer delegate.
LEMMA StakingOwnerEffect ==
  ASSUME Inv, NEW u \in Users, NEW a \in Assets, UNCHANGED market,
         \/ \E v \in Users : Staking!OwnerTransfers(u, a, v)
         \/ Staking!OwnerAddsFreeze(u, a)
         \/ Staking!OwnerRemovesFreeze(u, a)
  PROVE  Records' /\ Keeps(a)
<1> DEFINE x == asset[a]
<1>1. PICK y :
        /\ Staking!OwnerCalls(a, y)
        /\ \/ \E v \in Users : y = Staking!TransferAsset(x, u, v)
           \/ y = Staking!AddFreezeDelegate(x, u, u, FALSE)
           \/ y = Staking!RemoveFreezeDelegate(x, u)
  BY DEF Staking!OwnerTransfers, Staking!OwnerAddsFreeze, Staking!OwnerRemovesFreeze
<1>2. /\ y # Failed /\ asset' = [asset EXCEPT ![a] = y]
      /\ UNCHANGED <<stake_account, listing, now>>
  BY <1>1 DEF Staking!OwnerCalls, market
<1>3. x \in Staking!Asset
  BY DEF Inv, Records
<1>4. /\ y \in Staking!Asset
      /\ x.frozen /\ x.freeze # None =>
           y.owner = x.owner /\ y.freeze = x.freeze /\ y.frozen
  <2>1. CASE \E v \in Users : y = Staking!TransferAsset(x, u, v)
    BY <1>2, <1>3, <2>1 DEF Staking!TransferAsset, Staking!Asset
  <2>2. CASE y = Staking!AddFreezeDelegate(x, u, u, FALSE)
    BY <1>2, <1>3, <2>2 DEF Staking!AddFreezeDelegate, Staking!Asset
  <2>3. CASE y = Staking!RemoveFreezeDelegate(x, u)
    BY <1>2, <1>3, <2>3 DEF Staking!RemoveFreezeDelegate, Staking!Asset
  <2> QED  BY <1>1, <2>1, <2>2, <2>3
<1>5. Records'
  BY <1>2, <1>4 DEF Inv, Records
<1>6. \A b \in Assets, q \in Programs : SameRecord(b, q)
  BY <1>2 DEF SameRecord, Recorded, RecordedOwner, Staking!Staked, Market!Listed
<1> QED  BY <1>2, <1>4, <1>5, <1>6 DEF Keeps, Inv, Records

LEMMA StakingEffect ==
  ASSUME Inv, Staking!Next, UNCHANGED market
  PROVE  Records' /\ Effect
<1>1. CASE \E u \in Users, a \in Assets : Staking!UserStep(u, a)
  <2> PICK u \in Users, a \in Assets : Staking!UserStep(u, a)
    BY <1>1
  <2>1. Config \in Programs
    BY DEF Programs
  <2>2. CASE Staking!Stake(u, a)
    BY <2>1, <2>2, StakeEffect DEF Effect
  <2>3. CASE Staking!Unstake(u, a)
    BY <2>1, <2>3, UnstakeEffect DEF Effect
  <2>4. CASE Staking!ClaimRewards(u, a)
    BY <2>4, ClaimEffect DEF Effect
  <2>5. CASE \/ \E v \in Users : Staking!OwnerTransfers(u, a, v)
            \/ Staking!OwnerAddsFreeze(u, a)
            \/ Staking!OwnerRemovesFreeze(u, a)
    BY <2>5, StakingOwnerEffect DEF Effect
  <2> QED  BY <2>2, <2>3, <2>4, <2>5 DEF Staking!UserStep
<1>2. CASE ~(\E u \in Users, a \in Assets : Staking!UserStep(u, a))
  <2>1. UNCHANGED <<stake_account, listing, asset>> /\ now' \in Nat
    BY <1>2
    DEF Staking!Next, Staking!InitializeConfig, Staking!InitializeUser, Staking!Rename,
        Staking!BurnRewards, Staking!Tick, market, Inv, Records
  <2> QED
    BY <2>1
    DEF Inv, Records, Effect, Idles, SameRecord, Recorded, RecordedOwner,
        Staking!Staked, Market!Listed
<1> QED  BY <1>1, <1>2

-----------------------------------------------------------------------------
(***************************************************************************)
(* The steps of nft_marketplace.                                           *)
(***************************************************************************)

\* Another listing by m and another asset in the place of a's.
LEMMA MarketOnly ==
  ASSUME Inv, NEW m \in Markets, NEW a \in Assets, UNCHANGED <<stake_account, now>>,
         NEW l \in Market!Listing \cup {Absent}, NEW x \in Staking!Asset,
         listing' = [listing EXCEPT ![m][a] = l],
         asset' = [asset EXCEPT ![a] = x]
  PROVE  /\ Records' /\ Only(a, m)
         /\ asset'[a] = x
         /\ Recorded(a, m)' <=> l # Absent
         /\ RecordedOwner(a, m)' = l.seller
<1> USE DEF Inv, Records
<1>0. m # Config
  BY AuthoritiesAssumption
<1>1. Records'
  OBVIOUS
<1>2. /\ listing'[m][a] = l /\ asset'[a] = x
      /\ \A b \in Assets, n \in Markets : b # a \/ n # m => listing'[n][b] = listing[n][b]
      /\ \A b \in Assets : b # a => asset'[b] = asset[b]
  OBVIOUS
<1>3. Only(a, m)
  BY <1>2
  DEF Only, SameRecord, Recorded, RecordedOwner, Programs, Staking!Staked, Market!Listed
<1> QED  BY <1>0, <1>1, <1>2, <1>3 DEF Recorded, RecordedOwner, Market!Listed

LEMMA ListEffect ==
  ASSUME Inv, NEW m \in Markets, NEW a \in Assets, NEW u \in Users,
         NEW price \in Prices, NEW c \in Market!Currencies,
         Market!List(m, a, u, price, c), UNCHANGED staking
  PROVE  Records' /\ Takes(a, m)
<1> DEFINE x == asset[a]
           added == [x EXCEPT !.freeze = m, !.frozen = TRUE]
           y == [added EXCEPT !.transfer = m]
           l == [seller |-> u, price |-> price, payment_mint |-> c]
<1>1. x \in Staking!Asset /\ m \in Authorities
  BY AuthoritiesAssumption DEF Inv, Records
<1>2. Market!Delegated(x, u, m) # Failed
  BY DEF Market!List
<1>3. /\ x.owner = u /\ x.freeze = None
      /\ Market!AddFreezeDelegate(x, u, m, TRUE) = added
  BY <1>2 DEF Market!Delegated, Market!AddFreezeDelegate, Market!AddTransferDelegate
<1>4. added \in Staking!Asset /\ added.freeze = m /\ added.owner = u /\ added.frozen
  BY <1>1, <1>3 DEF Staking!Asset
<1>5. Market!Delegated(x, u, m) = y
  BY <1>2, <1>3 DEF Market!Delegated, Market!AddTransferDelegate
<1>6. y \in Staking!Asset /\ y.owner = u /\ y.freeze = m /\ y.frozen
  BY <1>1, <1>4 DEF Staking!Asset
<1>7. l \in Market!Listing /\ l # Absent /\ l.seller = u
  BY ProgramsAssumption, AbsenceAssumption DEF Market!Listing, Market!U64
<1>8. /\ UNCHANGED <<stake_account, now>>
      /\ listing' = [listing EXCEPT ![m][a] = l]
      /\ asset' = [asset EXCEPT ![a] = y]
  BY <1>5 DEF Market!List, staking
<1>9. asset[a].owner = u /\ asset[a].freeze = None
  BY <1>3
<1> HIDE DEF x, added, y, l
<1>10. /\ Records' /\ Only(a, m) /\ asset'[a] = y
       /\ Recorded(a, m)' /\ RecordedOwner(a, m)' = u
  BY <1>6, <1>7, <1>8, MarketOnly, ZenonT(40)
<1> QED  BY <1>6, <1>9, <1>10 DEF Takes

LEMMA DelistEffect ==
  ASSUME Inv, NEW m \in Markets, NEW a \in Assets, NEW u \in Users,
         Market!Delist(m, a, u), UNCHANGED staking
  PROVE  Records' /\ Gives(a, m)
<1> DEFINE x == asset[a]
           unfrozen == [x EXCEPT !.frozen = FALSE]
           removed == [unfrozen EXCEPT !.freeze = None]
           y == [removed EXCEPT !.transfer = None]
<1>1. x \in Staking!Asset
  BY DEF Inv, Records
<1>2. Market!Undelegated(x, u, m) # Failed
  BY DEF Market!Delist
<1>3. x.freeze = m /\ Market!UpdateFreezeDelegate(x, m, FALSE) = unfrozen
  BY <1>2 DEF Market!Undelegated, Market!RemoveTransferDelegate,
              Market!RemoveFreezeDelegate, Market!UpdateFreezeDelegate
<1>4. Market!RemoveFreezeDelegate(unfrozen, u) = removed
  BY <1>2, <1>3 DEF Market!Undelegated, Market!RemoveTransferDelegate,
                    Market!RemoveFreezeDelegate
<1>5. Market!Undelegated(x, u, m) = y
  BY <1>2, <1>3, <1>4 DEF Market!Undelegated, Market!RemoveTransferDelegate
<1>6. y \in Staking!Asset
  BY <1>1 DEF Staking!Asset
<1>7. /\ UNCHANGED <<stake_account, now>>
      /\ listing' = [listing EXCEPT ![m][a] = Absent]
      /\ asset' = [asset EXCEPT ![a] = y]
      /\ Market!Listed(m, a)
  BY <1>5 DEF Market!Delist, staking
<1>8. Recorded(a, m)
  BY <1>7, AuthoritiesAssumption DEF Recorded
<1>9. asset[a].freeze = m
  BY <1>3
<1> HIDE DEF x, unfrozen, removed, y
<1> QED  BY <1>6, <1>7, <1>8, <1>9, MarketOnly DEF Gives

\* The three sales.
LEMMA SaleEffect ==
  ASSUME Inv, NEW m \in Markets, NEW a \in Assets, NEW u \in Users,
         Market!Listed(m, a), Market!HandOver(m, a, u), UNCHANGED staking
  PROVE  Records' /\ Gives(a, m)
<1> DEFINE x == asset[a]
           unfrozen == [x EXCEPT !.frozen = FALSE]
           moved == [unfrozen EXCEPT !.owner = u]
           removed == [moved EXCEPT !.freeze = None]
           y == [removed EXCEPT !.transfer = None]
<1>1. x \in Staking!Asset
  BY DEF Inv, Records
<1>2. Market!Sold(x, u, m) # Failed
  BY DEF Market!HandOver
<1>3. x.freeze = m /\ Market!UpdateFreezeDelegate(x, m, FALSE) = unfrozen
  BY <1>2 DEF Market!Sold, Market!RemoveTransferDelegate, Market!RemoveFreezeDelegate,
              Market!TransferAsset, Market!UpdateFreezeDelegate
<1>4. Market!TransferAsset(unfrozen, m, u) = moved
  BY <1>2, <1>3 DEF Market!Sold, Market!RemoveTransferDelegate,
                    Market!RemoveFreezeDelegate, Market!TransferAsset
<1>5. Market!RemoveFreezeDelegate(moved, u) = removed
  BY <1>2, <1>3, <1>4 DEF Market!Sold, Market!RemoveTransferDelegate,
                          Market!RemoveFreezeDelegate
<1>6. Market!Sold(x, u, m) = y
  BY <1>2, <1>3, <1>4, <1>5 DEF Market!Sold, Market!RemoveTransferDelegate
<1>7. y \in Staking!Asset
  BY <1>1 DEF Staking!Asset
<1>8. /\ UNCHANGED <<stake_account, now>>
      /\ listing' = [listing EXCEPT ![m][a] = Absent]
      /\ asset' = [asset EXCEPT ![a] = y]
  BY <1>6 DEF Market!HandOver, staking
<1>9. Recorded(a, m)
  BY AuthoritiesAssumption DEF Recorded
<1>10. asset[a].freeze = m
  BY <1>3
<1> HIDE DEF x, unfrozen, moved, removed, y
<1> QED  BY <1>7, <1>8, <1>9, <1>10, MarketOnly DEF Gives

LEMMA MarketOwnerEffect ==
  ASSUME Inv, NEW a \in Assets, NEW u \in Users, Market!OwnerStep(a, u), UNCHANGED staking
  PROVE  Records' /\ Keeps(a)
<1> DEFINE x == asset[a]
<1>1. PICK y :
        /\ Market!OwnerCalls(a, y)
        /\ \/ \E v \in Users : y = Market!TransferAsset(x, u, v)
           \/ y = Market!RemoveTransferDelegate(x, u)
           \/ y = Market!AddTransferDelegate(x, u, u)
  BY DEF Market!OwnerStep, Market!OwnerTransfers, Market!OwnerRemovesTransfer,
         Market!OwnerAddsTransfer
<1>2. /\ y # Failed /\ asset' = [asset EXCEPT ![a] = y]
      /\ UNCHANGED <<stake_account, listing, now>>
  BY <1>1 DEF Market!OwnerCalls, staking
<1>3. x \in Staking!Asset
  BY DEF Inv, Records
<1>4. /\ y \in Staking!Asset
      /\ x.frozen => y.owner = x.owner /\ y.freeze = x.freeze /\ y.frozen
  <2>1. CASE \E v \in Users : y = Market!TransferAsset(x, u, v)
    BY <1>2, <1>3, <2>1 DEF Market!TransferAsset, Staking!Asset
  <2>2. CASE y = Market!RemoveTransferDelegate(x, u)
    BY <1>2, <1>3, <2>2 DEF Market!RemoveTransferDelegate, Staking!Asset
  <2>3. CASE y = Market!AddTransferDelegate(x, u, u)
    BY <1>2, <1>3, <2>3 DEF Market!AddTransferDelegate, Staking!Asset
  <2> QED  BY <1>1, <2>1, <2>2, <2>3
<1>5. Records'
  BY <1>2, <1>4 DEF Inv, Records
<1>6. \A b \in Assets, q \in Programs : SameRecord(b, q)
  BY <1>2 DEF SameRecord, Recorded, RecordedOwner, Staking!Staked, Market!Listed
<1> QED  BY <1>2, <1>4, <1>5, <1>6 DEF Keeps, Inv, Records

LEMMA TradeEffect ==
  ASSUME Inv, NEW m \in Markets, NEW a \in Assets, NEW u \in Users,
         Market!Trade(m, a, u), UNCHANGED staking
  PROVE  Records' /\ (Takes(a, m) \/ Gives(a, m))
<1>1. CASE \E price \in Prices, c \in Market!Currencies : Market!List(m, a, u, price, c)
  BY <1>1, ListEffect
<1>2. CASE Market!Delist(m, a, u)
  BY <1>2, DelistEffect
<1>3. CASE Market!Buy(m, a, u)
  BY <1>3, SaleEffect DEF Market!Buy
<1>4. CASE \E c \in PaymentMints : Market!BuyWithToken(m, a, u, c)
  BY <1>4, SaleEffect DEF Market!BuyWithToken
<1>5. CASE \E v \in Users : Market!AcceptOffer(m, a, u, v)
  BY <1>5, SaleEffect DEF Market!AcceptOffer
<1> QED  BY <1>1, <1>2, <1>3, <1>4, <1>5 DEF Market!Trade

LEMMA MarketEffect ==
  ASSUME Inv, Market!Next, UNCHANGED staking
  PROVE  Records' /\ Effect
<1>1. CASE \E m \in Markets, a \in Assets, u \in Users : Market!Trade(m, a, u)
  BY <1>1, TradeEffect DEF Effect, Programs
<1>2. CASE \E a \in Assets, u \in Users : Market!OwnerStep(a, u)
  BY <1>2, MarketOwnerEffect DEF Effect
<1>3. CASE UNCHANGED <<stake_account, listing, asset, now>>
  BY <1>3
  DEF Inv, Records, Effect, Idles, SameRecord, Recorded, RecordedOwner,
      Staking!Staked, Market!Listed
<1>4. CASE \E m \in Markets, fee \in Fees : Market!Initialize(m, fee)
  BY <1>3, <1>4 DEF Market!Initialize, staking
<1>5. CASE \E m \in Markets, u \in Users : Market!FundTreasury(u, m)
  BY <1>3, <1>5 DEF Market!FundTreasury, staking
<1>6. CASE \E a \in Assets, u \in Users : Market!OfferStep(a, u)
  BY <1>3, <1>6
  DEF Market!OfferStep, Market!MakeOffer, Market!CancelOffer, Market!FundOffer, staking
<1> QED  BY <1>1, <1>2, <1>4, <1>5, <1>6 DEF Market!Next

-----------------------------------------------------------------------------
LEMMA InitInv == Init => Inv
<1> SUFFICES ASSUME Init PROVE Inv
  OBVIOUS
<1>1. /\ stake_account = [a \in Assets |-> Absent]
      /\ listing = [m \in Markets |-> [a \in Assets |-> Absent]]
      /\ asset = [a \in Assets |-> Staking!NewAsset(InitialOwner[a])]
      /\ now = 0
  BY DEF Init, Staking!Init, Market!Init
<1>2. \A u \in Users : Staking!NewAsset(u) \in Staking!Asset
  BY DEF Staking!NewAsset, Staking!Asset
<1>3. Records
  BY <1>1, <1>2, ProgramsAssumption DEF Records
<1>4. \A a \in Assets, p \in Programs : ~Recorded(a, p)
  BY <1>1 DEF Recorded, Programs, Staking!Staked, Market!Listed
<1> QED  BY <1>3, <1>4 DEF Inv, Held

\* Every step of the two programs has one of the effects.
LEMMA NextEffect ==
  ASSUME Inv, [Next]_<<staking, market, asset>>
  PROVE  Inv' /\ Effect
<1>1. Records' /\ Effect
  <2>1. CASE Staking!Next /\ UNCHANGED market
    BY <2>1, StakingEffect
  <2>2. CASE Market!Next /\ UNCHANGED staking
    BY <2>2, MarketEffect
  <2>3. CASE UNCHANGED <<staking, market, asset>>
    <3>1. UNCHANGED <<stake_account, listing, asset, now>>
      BY <2>3 DEF staking, market
    <3> QED
      BY <3>1 DEF Inv, Records, Effect, Idles, SameRecord, Recorded, RecordedOwner,
                  Staking!Staked, Market!Listed
  <2> QED  BY <2>1, <2>2, <2>3 DEF Next
<1> QED  BY <1>1, EffectKeepsHeld DEF Inv

LEMMA Invariance == Spec => []Inv
BY InitInv, NextEffect, PTL DEF Spec

(***************************************************************************)
(* A staked asset and a listed one stay with their owners, frozen by the   *)
(* program that recorded them, whatever the other program is asked to do.  *)
(***************************************************************************)
THEOREM BothProgramsHold == Spec => []BothHold
<1>1. Inv => BothHold
  BY HeldIsBothHold DEF Inv
<1> QED  BY <1>1, Invariance, PTL

-----------------------------------------------------------------------------
(***************************************************************************)
(* The custody that the records amount to.                                 *)
(***************************************************************************)

\* One program at most has a record of an asset: its custodian.
OneCustodian ==
  \A a \in Assets :
    /\ \A p \in Programs : Recorded(a, p) => Custodian(a) = p
    /\ (\A p \in Programs : ~Recorded(a, p)) => Custodian(a) = None

LEMMA CustodianKnown == Inv => OneCustodian
<1> SUFFICES ASSUME Inv, NEW a \in Assets
             PROVE  /\ \A p \in Programs : Recorded(a, p) => Custodian(a) = p
                    /\ (\A p \in Programs : ~Recorded(a, p)) => Custodian(a) = None
  BY DEF OneCustodian
<1>1. Config \notin Markets /\ None \notin Programs
  BY AuthoritiesAssumption DEF Programs
<1>2. \A p, q \in Programs : Recorded(a, p) /\ Recorded(a, q) => p = q
  BY DEF Inv, Held
<1>3. Recorded(a, Config) <=> Staking!Staked(a)
  BY DEF Recorded
<1>4. \A m \in Markets : Recorded(a, m) <=> Market!Listed(m, a)
  BY <1>1 DEF Recorded
<1>5. Config \in Programs /\ Markets \subseteq Programs
  BY DEF Programs
<1>6. CASE Recorded(a, Config)
  BY <1>1, <1>2, <1>3, <1>5, <1>6 DEF Custodian
<1>7. CASE ~Recorded(a, Config) /\ \E m \in Markets : Recorded(a, m)
  <2> DEFINE k == CHOOSE m \in Markets : Market!Listed(m, a)
  <2>1. k \in Markets /\ Market!Listed(k, a)
    BY <1>4, <1>7
  <2>2. Custodian(a) = k
    BY <1>3, <1>4, <1>7 DEF Custodian
  <2> HIDE DEF k
  <2> QED  BY <1>2, <1>4, <1>5, <2>1, <2>2
<1>8. CASE ~Recorded(a, Config) /\ ~\E m \in Markets : Recorded(a, m)
  BY <1>3, <1>4, <1>8 DEF Custodian, Programs
<1> QED  BY <1>6, <1>7, <1>8

\* Where no record of an asset changes, neither does its custodian.
LEMMA SameCustodian ==
  ASSUME OneCustodian, OneCustodian', NEW a \in Assets,
         \A p \in Programs : SameRecord(a, p)
  PROVE  Custodian(a)' = Custodian(a)
<1>1. \A p \in Programs : Recorded(a, p)' <=> Recorded(a, p)
  BY DEF SameRecord
<1> QED  BY <1>1 DEF OneCustodian

\* Every step is one of the register's, or changes nothing it knows of.
LEMMA CustodyStep ==
  ASSUME Inv, Inv', OneCustodian, OneCustodian', Effect
  PROVE  [Custody!Next]_(Custody!vars)
<1> DEFINE owner == [a \in Assets |-> asset[a].owner]
           custodian == [a \in Assets |-> Custodian(a)]
<1>0. None \notin Programs /\ Config \notin Markets
  BY AuthoritiesAssumption DEF Programs
<1>1. ASSUME NEW a \in Assets, NEW p \in Programs, Only(a, p)
      PROVE  /\ owner' = [owner EXCEPT ![a] = asset'[a].owner]
             /\ custodian' = [custodian EXCEPT ![a] = Custodian(a)']
  <2>1. \A b \in Assets : b # a => asset'[b].owner = asset[b].owner
    BY <1>1 DEF Only
  <2>2. \A b \in Assets : b # a => Custodian(b)' = Custodian(b)
    BY <1>1, SameCustodian DEF Only
  <2> QED  BY <2>1, <2>2
<1>2. ASSUME NEW a \in Assets, NEW p \in Programs, Takes(a, p)
      PROVE  Custody!Enter(a, p)
  <2>1. Custodian(a) = None
    <3>1. \A q \in Programs : ~Recorded(a, q)
      BY <1>0, <1>2 DEF Takes, Inv, Held
    <3> QED  BY <3>1 DEF OneCustodian
  <2>2. Custodian(a)' = p
    BY <1>2 DEF Takes, OneCustodian
  <2>3. asset'[a].owner = owner[a]
    BY <1>2 DEF Takes
  <2>4. /\ owner' = [owner EXCEPT ![a] = asset'[a].owner]
        /\ custodian' = [custodian EXCEPT ![a] = Custodian(a)']
    BY <1>1, <1>2 DEF Takes
  <2>5. owner' = owner
    BY <2>3, <2>4
  <2> QED  BY <2>1, <2>2, <2>4, <2>5 DEF Custody!Enter
<1>3. ASSUME NEW a \in Assets, NEW p \in Programs, Gives(a, p)
      PROVE  Custody!Leave(a) \/ \E u \in Users : Custody!Sell(a, u)
  <2>1. Custodian(a) = p
    BY <1>3 DEF Gives, OneCustodian
  <2>2. Custodian(a)' = None
    <3>1. \A q \in Programs : ~Recorded(a, q)'
      BY <1>3 DEF Gives, Only, SameRecord, Inv, Held
    <3> QED  BY <3>1 DEF OneCustodian
  <2>3. /\ owner' = [owner EXCEPT ![a] = asset'[a].owner]
        /\ custodian' = [custodian EXCEPT ![a] = None]
    BY <1>1, <1>3, <2>2 DEF Gives
  <2>4. asset'[a].owner \in Users
    BY DEF Inv, Records, Staking!Asset
  <2>5. CASE p \in Markets
    BY <2>1, <2>3, <2>4, <2>5 DEF Custody!Sell
  <2>6. CASE p \notin Markets
    <3>1. owner' = owner
      BY <1>3, <2>3, <2>6 DEF Gives
    <3> QED  BY <1>0, <2>1, <2>3, <3>1 DEF Custody!Leave
  <2> QED  BY <2>5, <2>6
<1>4. ASSUME \A a \in Assets, p \in Programs : SameRecord(a, p)
      PROVE  custodian' = custodian
  BY <1>4, SameCustodian
<1>5. ASSUME NEW a \in Assets, Keeps(a)
      PROVE  UNCHANGED Custody!vars \/ \E u \in Users : Custody!Give(a, u)
  <2>1. custodian' = custodian
    BY <1>4, <1>5 DEF Keeps
  <2>2. owner' = [owner EXCEPT ![a] = asset'[a].owner]
    BY <1>5 DEF Keeps
  <2>3. asset'[a].owner \in Users
    BY DEF Inv, Records, Staking!Asset
  <2>4. CASE Custodian(a) = None
    BY <2>1, <2>2, <2>3, <2>4 DEF Custody!Give
  <2>5. CASE Custodian(a) # None
    <3>1. \E p \in Programs : Recorded(a, p)
      BY <2>5 DEF OneCustodian
    <3>2. asset[a].frozen /\ asset[a].freeze # None
      BY <1>0, <3>1 DEF Inv, Held
    <3>3. owner' = owner
      BY <1>5, <2>2, <3>2 DEF Keeps
    <3> QED  BY <2>1, <3>3 DEF Custody!vars
  <2> QED  BY <2>4, <2>5
<1>6. CASE Idles
  BY <1>4, <1>6 DEF Idles, Custody!vars
<1> QED  BY <1>2, <1>3, <1>5, <1>6 DEF Effect, Custody!Next, Programs

(***************************************************************************)
(* The two programs side by side implement the abstract custody: an asset  *)
(* is staked or listed in one place at a time, and changes hands meanwhile *)
(* only by a sale, which ends the custody.                                 *)
(***************************************************************************)
THEOREM KeepsCustody == Spec => ImplementsCustody
<1>1. Init => Custody!Init
  <2> SUFFICES ASSUME Init PROVE Custody!Init
    OBVIOUS
  <2>1. Inv /\ OneCustodian
    BY InitInv, CustodianKnown
  <2>2. \A a \in Assets, p \in Programs : ~Recorded(a, p)
    BY DEF Init, Staking!Init, Market!Init, Recorded, Programs, Staking!Staked, Market!Listed
  <2>3. \A a \in Assets : Custodian(a) = None
    BY <2>1, <2>2 DEF OneCustodian
  <2>4. \A a \in Assets : asset[a].owner \in Users
    BY <2>1 DEF Inv, Records, Staking!Asset
  <2> QED  BY <2>3, <2>4 DEF Custody!Init
<1>2. Inv /\ Inv' /\ OneCustodian /\ OneCustodian' /\ [Next]_<<staking, market, asset>>
        => [Custody!Next]_(Custody!vars)
  BY NextEffect, CustodyStep
<1> QED  BY <1>1, <1>2, Invariance, CustodianKnown, PTL DEF Spec, ImplementsCustody, Custody!Spec

-----------------------------------------------------------------------------
(***************************************************************************)
(* What was proved of each program alone is proved of NftStaking and       *)
(* NftMarketplace as their own proofs name them.  Here the same two        *)
(* programs go by the names NftPrograms gives them: both say the same,     *)
(* definition by definition.                                               *)
(***************************************************************************)
SP == INSTANCE NftStaking_proofs
MP == INSTANCE NftMarketplace_proofs

\* What the programs assume of their constants, and so what their proofs need.
LEMMA StakingConstants ==
  /\ SP!StakingAssumption /\ SP!MplCoreAssumption /\ SP!KeysAssumption
  /\ SP!AbsentAssumption /\ SP!MaxU64Assumption /\ SP!FailedAssumption
<1>1. /\ SP!StakeConfig = Staking!StakeConfig /\ SP!UserAccount = Staking!UserAccount
      /\ SP!StakeAccount = Staking!StakeAccount /\ SP!Asset = Staking!Asset
      /\ SP!Attribute = Staking!Attribute
  BY DEF SP!StakeConfig, SP!UserAccount, SP!StakeAccount, SP!Asset, SP!Attribute,
         SP!U64, Staking!StakeConfig, Staking!UserAccount, Staking!StakeAccount,
         Staking!Asset, Staking!Attribute, Staking!U64
<1>2. SP!Collection = Staking!Collection
  BY <1>1 DEF SP!Collection, Staking!Collection
<1>3. \A S : SP!IsFiniteSet(S) <=> Staking!IsFiniteSet(S)
  BY DEF SP!IsFiniteSet, Staking!IsFiniteSet
<1>4. /\ Staking!StakingAssumption /\ Staking!MplCoreAssumption
      /\ Staking!KeysAssumption /\ Staking!AbsentAssumption
      /\ Staking!MaxU64Assumption /\ Staking!FailedAssumption
  BY ComponentsAssumption
<1>5. SP!MplCoreAssumption /\ SP!KeysAssumption /\ SP!MaxU64Assumption
  BY <1>4
<1>6. SP!StakingAssumption
  BY <1>2, <1>3, <1>4
<1>7. SP!AbsentAssumption /\ SP!FailedAssumption
  BY <1>1, <1>4
<1> QED  BY <1>5, <1>6, <1>7

LEMMA MarketConstants ==
  /\ MP!MarketplaceAssumption /\ MP!AbsentAssumption /\ MP!TreasuryAssumption
  /\ MP!PaymentAssumption /\ MP!MplCoreAssumption /\ MP!MaxU64Assumption
  /\ MP!FailedAssumption
<1>1. MP!MplCoreAssumption /\ MP!MaxU64Assumption /\ MP!FailedAssumption
  BY ComponentsAssumption DEF MP!Asset, Staking!Asset
<1>2. /\ MP!Listing = Market!Listing /\ MP!Offer = Market!Offer
      /\ MP!Holders = Market!Holders /\ MP!Currencies = Market!Currencies
      /\ MP!U16 = Market!U16 /\ MP!U64 = Market!U64
  BY DEF MP!Listing, MP!Offer, MP!Holders, MP!Currencies, MP!MaxU16, MP!U16,
         MP!U64, Market!Listing, Market!Offer, Market!Holders,
         Market!Currencies, Market!MaxU16, Market!U16, Market!U64
<1>3. /\ \A S : MP!IsFiniteSet(S) <=> Market!IsFiniteSet(S)
      /\ \A f : MP!SumFunction(f) = Market!SumFunction(f)
  BY DEF MP!IsFiniteSet, MP!SumFunction, MP!SumFunctionOnSet,
         MP!FoldFunctionOnSet, MP!MapThenFoldSet, Market!IsFiniteSet,
         Market!SumFunction, Market!SumFunctionOnSet, Market!FoldFunctionOnSet,
         Market!MapThenFoldSet
<1>4. Market!MarketplaceAssumption /\ Market!AbsentAssumption
  BY ComponentsAssumption
<1>5. Market!TreasuryAssumption /\ Market!PaymentAssumption
  BY ComponentsAssumption
<1>6. MP!TreasuryAssumption /\ MP!PaymentAssumption
  BY <1>2, <1>5
<1>7. MP!MarketplaceAssumption
  BY <1>2, <1>3, <1>4
<1>8. MP!AbsentAssumption
  BY <1>2, <1>4
<1> QED  BY <1>1, <1>6, <1>7, <1>8

LEMMA SameStaking ==
  /\ SP!Init <=> Staking!Init
  /\ SP!Next <=> Staking!Next
<1>1. SP!Init <=> Staking!Init
  BY DEF SP!Init, SP!NewAsset, SP!Unambiguous, SP!ShownCount, Staking!Init,
         Staking!NewAsset, Staking!Unambiguous, Staking!ShownCount
<1>2. SP!Next <=> Staking!Next
  BY DEF SP!Next, SP!InitializeConfig, SP!InitializeUser, SP!UserStep, SP!Stake,
         SP!ClaimRewards, SP!Unstake, SP!OwnerTransfers, SP!OwnerAddsFreeze,
         SP!OwnerRemovesFreeze, SP!OwnerCalls, SP!Rename, SP!BurnRewards, SP!Tick, SP!Staked,
         SP!Frozen, SP!Updated, SP!NewCount, SP!ParsedCount, SP!ValueAfter,
         SP!Elapsed, SP!Mintable, SP!Advanced, SP!FreezePeriodOver, SP!Released,
         SP!AddFreezeDelegate, SP!UpdateFreezeDelegate, SP!RemoveFreezeDelegate,
         SP!TransferAsset, SP!U64, Staking!Next, Staking!InitializeConfig,
         Staking!InitializeUser, Staking!UserStep, Staking!Stake,
         Staking!ClaimRewards, Staking!Unstake, Staking!OwnerTransfers,
         Staking!OwnerAddsFreeze, Staking!OwnerRemovesFreeze,
         Staking!OwnerCalls, Staking!Rename, Staking!BurnRewards,
         Staking!Tick, Staking!Staked,
         Staking!Frozen, Staking!Updated, Staking!NewCount, Staking!ParsedCount,
         Staking!ValueAfter, Staking!Elapsed, Staking!Mintable,
         Staking!Advanced, Staking!FreezePeriodOver, Staking!Released,
         Staking!AddFreezeDelegate, Staking!UpdateFreezeDelegate,
         Staking!RemoveFreezeDelegate, Staking!TransferAsset, Staking!U64
<1> QED  BY <1>1, <1>2

LEMMA SameMarket ==
  /\ MP!Init <=> Market!Init
  /\ MP!Next <=> Market!Next
<1>1. MP!Init <=> Market!Init
  BY DEF MP!Init, MP!NewAsset, Market!Init, Market!NewAsset
<1>2. ASSUME NEW m, NEW a, NEW u
      PROVE  MP!Trade(m, a, u) <=> Market!Trade(m, a, u)
  <2>1. /\ \A price, c : MP!List(m, a, u, price, c) <=> Market!List(m, a, u, price, c)
        /\ MP!Delist(m, a, u) <=> Market!Delist(m, a, u)
    BY DEF MP!List, MP!Delist, MP!Listed, MP!Delegated, MP!Undelegated,
           MP!AddFreezeDelegate, MP!AddTransferDelegate,
           MP!UpdateFreezeDelegate, MP!RemoveFreezeDelegate,
           MP!RemoveTransferDelegate, Market!List, Market!Delist, Market!Listed,
           Market!Delegated, Market!Undelegated, Market!AddFreezeDelegate,
           Market!AddTransferDelegate, Market!UpdateFreezeDelegate,
           Market!RemoveFreezeDelegate, Market!RemoveTransferDelegate
  <2>2. MP!HandOver(m, a, u) <=> Market!HandOver(m, a, u)
    BY DEF MP!HandOver, MP!Sold, MP!UpdateFreezeDelegate,
           MP!RemoveFreezeDelegate, MP!RemoveTransferDelegate, MP!TransferAsset,
           Market!HandOver, Market!Sold, Market!UpdateFreezeDelegate,
           Market!RemoveFreezeDelegate, Market!RemoveTransferDelegate,
           Market!TransferAsset
  <2>0. /\ \A x : MP!Fee(m, x) = Market!Fee(m, x) /\ (MP!RentExempt(x) <=> Market!RentExempt(x))
        /\ \A held, x, y, n : MP!Pay(held, x, y, n) = Market!Pay(held, x, y, n)
    BY DEF MP!Fee, MP!AsU64, MP!Add, MP!Pay, MP!RentExempt, MP!BasisPoints,
           Market!Fee, Market!AsU64, Market!Add, Market!Pay, Market!RentExempt,
           Market!BasisPoints
  <2>3. MP!Buy(m, a, u) <=> Market!Buy(m, a, u)
    BY <2>0, <2>2 DEF MP!Buy, MP!Listed, Market!Buy, Market!Listed
  <2>4. \A c : MP!BuyWithToken(m, a, u, c) <=> Market!BuyWithToken(m, a, u, c)
    BY <2>0, <2>2 DEF MP!BuyWithToken, MP!Listed, Market!BuyWithToken,
           Market!Listed
  <2>5. \A held, o, x, y : MP!Settled(held, o, m, x, y) = Market!Settled(held, o, m, x, y)
    BY DEF MP!Settled, MP!Fee, MP!AsU64, MP!Add, MP!BasisPoints,
           Market!Settled, Market!Fee, Market!AsU64, Market!Add, Market!BasisPoints
  <2>6. ASSUME NEW v
        PROVE  MP!AcceptOffer(m, a, u, v) <=> Market!AcceptOffer(m, a, u, v)
    <3>1. MP!HandOver(m, a, v) <=> Market!HandOver(m, a, v)
      BY DEF MP!HandOver, MP!Sold, MP!UpdateFreezeDelegate,
             MP!RemoveFreezeDelegate, MP!RemoveTransferDelegate, MP!TransferAsset,
             Market!HandOver, Market!Sold, Market!UpdateFreezeDelegate,
             Market!RemoveFreezeDelegate, Market!RemoveTransferDelegate,
             Market!TransferAsset
    <3> QED  BY <2>0, <2>5, <3>1 DEF MP!AcceptOffer, MP!Listed, MP!Offered,
               Market!AcceptOffer, Market!Listed, Market!Offered
  <2> QED  BY <2>1, <2>3, <2>4, <2>6 DEF MP!Trade, Market!Trade, MP!Currencies, Market!Currencies
<1>3. ASSUME NEW a, NEW u
      PROVE  /\ MP!OfferStep(a, u) <=> Market!OfferStep(a, u)
             /\ MP!OwnerStep(a, u) <=> Market!OwnerStep(a, u)
  BY DEF MP!OfferStep, MP!MakeOffer, MP!CancelOffer, MP!FundOffer, MP!OwnerStep,
         MP!OwnerTransfers, MP!OwnerRemovesTransfer, MP!OwnerAddsTransfer,
         MP!OwnerCalls, MP!Offered, MP!Add, MP!AddTransferDelegate,
         MP!RemoveTransferDelegate, MP!TransferAsset, Market!OfferStep,
         Market!MakeOffer, Market!CancelOffer, Market!FundOffer,
         Market!OwnerStep, Market!OwnerTransfers, Market!OwnerRemovesTransfer,
         Market!OwnerAddsTransfer, Market!OwnerCalls, Market!Offered,
         Market!Add, Market!AddTransferDelegate, Market!RemoveTransferDelegate,
         Market!TransferAsset
<1>4. MP!Next <=> Market!Next
  BY <1>2, <1>3 DEF MP!Next, MP!Initialize, MP!FeeAllowed, MP!BasisPoints,
         MP!FundTreasury, MP!Add, MP!Pay, Market!Next, Market!Initialize,
         Market!FeeAllowed, Market!BasisPoints, Market!FundTreasury, Market!Add,
         Market!Pay
<1> QED  BY <1>1, <1>4

LEMMA SameProperties ==
  /\ SP!TypeOK <=> Staking!TypeOK
  /\ SP!CountsAgree <=> Staking!CountsAgree
  /\ SP!EverySecondPaidOnce <=> Staking!EverySecondPaidOnce
  /\ MP!TypeOK <=> Market!TypeOK
  /\ MP!MoneyConserved <=> Market!MoneyConserved
<1>1. /\ SP!TypeOK <=> Staking!TypeOK
      /\ SP!CountsAgree <=> Staking!CountsAgree
      /\ SP!EverySecondPaidOnce <=> Staking!EverySecondPaidOnce
  BY DEF SP!TypeOK, SP!CountsAgree, SP!EverySecondPaidOnce, SP!Staked,
         SP!Elapsed, SP!ShownCount, SP!U64, SP!StakeConfig, SP!UserAccount,
         SP!StakeAccount, SP!Collection, SP!Attribute, SP!Asset, SP!Cardinality,
         Staking!TypeOK, Staking!CountsAgree, Staking!EverySecondPaidOnce,
         Staking!Staked, Staking!Elapsed, Staking!ShownCount, Staking!U64,
         Staking!StakeConfig, Staking!UserAccount, Staking!StakeAccount,
         Staking!Collection, Staking!Attribute, Staking!Asset,
         Staking!Cardinality
<1>2. /\ MP!TypeOK <=> Market!TypeOK
      /\ MP!MoneyConserved <=> Market!MoneyConserved
  BY DEF MP!TypeOK, MP!MoneyConserved, MP!InOffer, MP!Escrowed, MP!Listed,
         MP!Offered, MP!Listing, MP!Offer, MP!Currencies, MP!Holders,
         MP!BasisPoints, MP!U64, MP!Asset, MP!SumFunction, MP!SumFunctionOnSet,
         MP!FoldFunctionOnSet, MP!MapThenFoldSet, Market!TypeOK,
         Market!MoneyConserved, Market!InOffer, Market!Escrowed, Market!Listed,
         Market!Offered, Market!Listing, Market!Offer, Market!Currencies,
         Market!Holders, Market!BasisPoints, Market!U64, Market!Asset,
         Market!SumFunction, Market!SumFunctionOnSet, Market!FoldFunctionOnSet,
         Market!MapThenFoldSet
<1> QED  BY <1>1, <1>2

-----------------------------------------------------------------------------
(***************************************************************************)
(* What the two programs promise, kept by the steps of both.               *)
(***************************************************************************)
Promises == SP!CInv /\ MP!AllOK

\* Neither program reaches the accounts of the other; all it could spoil is
\* what the other believes of the assets.
LEMMA InitPromises == Init => Promises
<1> SUFFICES ASSUME Init PROVE Promises
  OBVIOUS
<1>1. SP!Init /\ MP!Init
  BY SameStaking, SameMarket DEF Init
<1> QED  BY <1>1, StakingConstants, MarketConstants, SP!InitCounts, MP!InitAll
      DEF Promises

LEMMA NextPromises ==
  ASSUME Inv, Inv', Promises, [Next]_<<staking, market, asset>>
  PROVE  Promises'
<1> USE DEF Promises
<1>1. SP!StakedMeansHeld' /\ asset' \in [Assets -> SP!Asset]
  <2>1. Staking!StakedMeansHeld' /\ asset' \in [Assets -> Staking!Asset]
    BY HeldIsBothHold DEF Inv, Records, Held, Recorded, RecordedOwner, Programs,
       Staking!StakedMeansHeld
  <2> QED
    BY <2>1 DEF SP!StakedMeansHeld, SP!Staked, SP!Asset,
                Staking!StakedMeansHeld, Staking!Staked, Staking!Asset
<1>2. MP!ListedMeansHeld' /\ asset' \in [Assets -> MP!Asset]
  <2>1. Config \notin Markets
    BY AuthoritiesAssumption
  <2>2. Market!ListedMeansHeld' /\ asset' \in [Assets -> Staking!Asset]
    BY <2>1 DEF Inv, Records, Held, Recorded, RecordedOwner, Programs,
       Market!ListedMeansHeld
  <2> QED
    BY <2>2 DEF MP!ListedMeansHeld, MP!Listed, MP!Asset,
                Market!ListedMeansHeld, Market!Listed, Staking!Asset
<1>3. CASE Staking!Next /\ UNCHANGED market
  <2>1. SP!Next
    BY <1>3, SameStaking
  <2>2. SP!CInv'
    BY <2>1, StakingConstants, SP!NextCounts
  <2>3. UNCHANGED <<marketplace, listing, offer, balance>>
    BY <1>3 DEF market
  <2> QED  BY <1>2, <2>2, <2>3, MarketConstants, MP!OthersKeepAll
<1>4. CASE Market!Next /\ UNCHANGED staking
  <2>1. MP!Next
    BY <1>4, SameMarket
  <2>2. MP!AllOK'
    BY <2>1, MarketConstants, MP!NextAll
  <2>3. UNCHANGED <<config, user_account, stake_account, collection, reward_supply,
                    now, since, paid, counted_from>>
    BY <1>4 DEF staking
  <2> QED  BY <1>1, <2>2, <2>3, StakingConstants, SP!OthersKeepCounts
<1>5. CASE UNCHANGED <<staking, market, asset>>
  <2>1. /\ UNCHANGED <<marketplace, listing, offer, balance>>
        /\ UNCHANGED <<config, user_account, stake_account, collection, reward_supply,
                       now, since, paid, counted_from>>
    BY <1>5 DEF staking, market
  <2> QED
    BY <1>1, <1>2, <2>1, StakingConstants, MarketConstants,
       MP!OthersKeepAll, SP!OthersKeepCounts
<1> QED  BY <1>3, <1>4, <1>5 DEF Next

LEMMA PromisesInvariance == Spec => []Promises
<1>1. Inv /\ Inv' /\ Promises /\ [Next]_<<staking, market, asset>> => Promises'
  BY NextPromises
<1> QED  BY <1>1, InitPromises, Invariance, PTL DEF Spec

(***************************************************************************)
(* Side by side, the two programs keep what each promises alone: the       *)
(* records of the stakings agree and pay every second once, and no         *)
(* instruction makes or loses money.                                       *)
(***************************************************************************)
THEOREM PromisesKept ==
  Spec => [](/\ Staking!TypeOK /\ Staking!CountsAgree /\ Staking!EverySecondPaidOnce
             /\ Market!TypeOK /\ Market!MoneyConserved)
<1>1. Promises => /\ Staking!TypeOK /\ Staking!CountsAgree /\ Staking!EverySecondPaidOnce
                  /\ Market!TypeOK /\ Market!MoneyConserved
  <2> SUFFICES ASSUME Promises
               PROVE  /\ Staking!TypeOK /\ Staking!CountsAgree
                      /\ Staking!EverySecondPaidOnce
                      /\ Market!TypeOK /\ Market!MoneyConserved
    OBVIOUS
  <2>1. SP!TypeOK /\ SP!CountsAgree /\ SP!EverySecondPaidOnce
    BY DEF Promises, SP!CInv, SP!Inv
  <2>2. MP!TypeOK
    BY MarketConstants, MP!TypesFollow DEF Promises, MP!AllOK
  <2>3. MP!MoneyConserved
    BY DEF Promises, MP!AllOK, MP!MoneyOK
  <2> QED  BY <2>1, <2>2, <2>3, SameProperties
<1> QED  BY <1>1, PromisesInvariance, PTL

(***************************************************************************)
(* The marketplace is no way around the freeze period.                     *)
(***************************************************************************)
THEOREM LockStillHolds == Spec => Staking!LockedForPeriod
<1> DEFINE Lock == \A a \in Assets : Staking!Staked(a) /\ stake_account'[a] = Absent
                     => now - since[a] >= config.freeze_period
<1>1. Promises /\ [Next]_<<staking, market, asset>> => [Lock]_(Staking!vars)
  <2> SUFFICES ASSUME Promises, [Next]_<<staking, market, asset>> PROVE [Lock]_(Staking!vars)
    OBVIOUS
  <2>1. CASE Staking!Next
    <3>1. [SP!Locked]_(SP!vars)
      BY <2>1, SameStaking, StakingConstants, SP!NextLocked DEF Promises, SP!CInv
    <3> QED  BY <3>1 DEF SP!Locked, SP!Staked, SP!vars, Staking!Staked, Staking!vars
  <2>2. CASE UNCHANGED staking
    BY <2>2 DEF staking, Staking!Staked
  <2>3. CASE UNCHANGED <<staking, market, asset>>
    BY <2>2, <2>3
  <2> QED  BY <2>1, <2>2, <2>3 DEF Next
<1> QED  BY <1>1, PromisesInvariance, PTL DEF Spec, Staking!LockedForPeriod

LEMMA SameSale ==
  ASSUME NEW m, NEW a, NEW u
  PROVE  MP!SalePaid(m, a, u) <=> Market!SalePaid(m, a, u)
<1>1. MP!Purse(u) = Market!Purse(u) /\ MP!Purse(u)' = Market!Purse(u)'
  BY DEF MP!Purse, MP!Escrowed, MP!InOffer, MP!Offered, MP!SumFunction,
         MP!SumFunctionOnSet, MP!FoldFunctionOnSet, MP!MapThenFoldSet,
         Market!Purse, Market!Escrowed, Market!InOffer, Market!Offered,
         Market!SumFunction, Market!SumFunctionOnSet, Market!FoldFunctionOnSet,
         Market!MapThenFoldSet
<1>2. \A b, x, y, z : MP!SoldFor(m, b, x, y, z) <=> Market!SoldFor(m, b, x, y, z)
  BY DEF MP!SoldFor, MP!BasisPoints, Market!SoldFor, Market!BasisPoints
<1> QED
  BY <1>1, <1>2 DEF MP!SalePaid, MP!Offered, Market!SalePaid, Market!Offered

(***************************************************************************)
(* Staking is no way to take a listed asset without paying for it.         *)
(***************************************************************************)
THEOREM SalesStillSettled == Spec => Market!SalesSettled
<1> DEFINE Settles ==
      \A m \in Markets, a \in Assets, buyer \in Users :
        Market!Listed(m, a) /\ asset[a].owner # buyer /\ asset'[a].owner = buyer
          => ~Market!Listed(m, a)' /\ Market!SalePaid(m, a, buyer)
<1>1. Inv /\ Inv' /\ Promises /\ [Next]_<<staking, market, asset>>
        => [Settles]_(Market!vars)
  <2> SUFFICES ASSUME Inv, Inv', Promises, [Next]_<<staking, market, asset>>
               PROVE  [Settles]_(Market!vars)
    OBVIOUS
  <2>1. CASE Market!Next
    <3>1. [MP!SaleStepPaid]_(MP!vars)
      BY <2>1, SameMarket, MarketConstants, MP!NextPaid DEF Promises, MP!AllOK
    <3>2. ASSUME NEW m \in Markets, NEW a \in Assets, NEW buyer \in Users
          PROVE  MP!SalePaid(m, a, buyer) => Market!SalePaid(m, a, buyer)
      BY SameSale
    <3> QED  BY <3>1, <3>2 DEF MP!SaleStepPaid, MP!Listed, MP!vars, Market!Listed, Market!vars
  <2>2. CASE UNCHANGED market
    <3> SUFFICES ASSUME NEW m \in Markets, NEW a \in Assets, Market!Listed(m, a)
                 PROVE  asset'[a].owner = asset[a].owner
      OBVIOUS
    <3>1. m # Config /\ m \in Programs
      BY AuthoritiesAssumption DEF Programs
    <3>2. listing' = listing
      BY <2>2 DEF market
    <3>3. Recorded(a, m) /\ Recorded(a, m)'
      BY <3>1, <3>2 DEF Recorded, Market!Listed
    <3>4. /\ asset[a].owner = RecordedOwner(a, m)
          /\ asset'[a].owner = RecordedOwner(a, m)'
      BY <3>1, <3>3 DEF Inv, Held
    <3> QED  BY <3>1, <3>2, <3>4 DEF RecordedOwner
  <2>3. CASE UNCHANGED <<staking, market, asset>>
    BY <2>2, <2>3
  <2> QED  BY <2>1, <2>2, <2>3 DEF Next
<1> QED  BY <1>1, Invariance, PromisesInvariance, PTL DEF Spec, Market!SalesSettled

(***************************************************************************)
(* The ways out stay as open as each program leaves them: whatever happens *)
(* in the other, the owner of a staked asset may unstake it exactly when   *)
(* its period is over and claim exactly what its counters have room for,   *)
(* and the seller of a listed one may delist it exactly as long as         *)
(* somebody may transfer it, and sell it exactly as long as the            *)
(* marketplace may.                                                        *)
(***************************************************************************)
THEOREM ExitsAreOpen ==
  Spec => [](SP!UnstakeOpen /\ SP!ClaimOpen /\ MP!DelistOpen /\ MP!SalesOpen)
<1>1. Promises => SP!UnstakeOpen /\ SP!ClaimOpen /\ MP!DelistOpen /\ MP!SalesOpen
  BY StakingConstants, MarketConstants, SP!MayAlwaysUnstake, SP!MayAlwaysClaim,
     MP!MayAlwaysDelist, MP!MayAlwaysSell
     DEF Promises, MP!AllOK
<1> QED  BY <1>1, PromisesInvariance, PTL

=============================================================================
