SPECIFICATION Spec
CONSTANTS
  u1 = u1
  m1 = m1
  m2 = m2
  m3 = m3
  Users = {u1}
  Mints = {m1, m2, m3}
  Pools <- TwoPools
  Others <- Foreign
  Amounts = {1, 2}
  LpAmounts = {1}
  MinAmounts = {1}
  InitialWallet <- OneOfTheLast
  MaxIxs = 4
  MaxShares = 3
  MaxU64 = 4095
INVARIANTS TypeOK BurnsMatched
PROPERTIES SharesUndiluted
