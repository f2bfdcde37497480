SPECIFICATION Spec
CONSTANTS
  u1 = u1
  u2 = u2
  a1 = a1
  m1 = m1
  c1 = c1
  staked_count = staked_count
  Keys = {staked_count}
  Mentions = {staked_count}
  Endings = {staked_count}
  CountKey = staked_count
  Text = Text
  InitialCollections <- NoAttributes
  Users = {u1, u2}
  Assets = {a1}
  Collections = {c1}
  Config = Config
  Markets = {m1}
  Authorities = {m1, Config}
  PaymentMints = {}
  Sol = Sol
  None = None
  Failed = Failed
  Absent = Absent
  CollectionOf <- OneCollection
  InitialOwner <- OwnedByFirst
  InitialBalance <- Twos
  Points = {1}
  MaxStakes = {1}
  FreezePeriods = {1}
  MaxTime = 2
  Fees = {5000}
  Prices = {2}
  Amounts = {1}
  MaxSurplus = 0
  RentMin = 1
  MaxU64 = 4
INVARIANTS BothHold ExitsStayOpen
PROPERTIES ImplementsCustody
