SPECIFICATION Spec
CONSTANTS
  u1 = u1
  u2 = u2
  a1 = a1
  a2 = a2
  c1 = c1
  staked_count = staked_count
  unstaked_count = unstaked_count
  staked_count_max = staked_count_max
  rarity = rarity
  Keys = {staked_count, unstaked_count, staked_count_max, rarity}
  Mentions = {staked_count, unstaked_count, staked_count_max}
  Endings = {staked_count, unstaked_count}
  CountKey = staked_count
  Text = Text
  InitialCollections <- Kinds
  Users = {u1, u2}
  Assets = {a1, a2}
  Collections = {c1}
  Config = Config
  Authorities = {Config}
  None = None
  Failed = Failed
  Absent = Absent
  CollectionOf <- OneCollection
  InitialOwner <- OwnedByFirst
  Points = {0, 2}
  MaxStakes = {1, 2}
  FreezePeriods = {0, 1, 2}
  MaxTime = 3
  MaxU64 = 7
CHECK_DEADLOCK FALSE
INVARIANTS UnstakeAfterClaim
