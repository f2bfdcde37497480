SPECIFICATION Spec
CONSTANTS
  u1 = u1
  m1 = m1
  m2 = m2
  m3 = m3
  Users = {u1}
  Mints = {m1, m2}
  Pools <- OnePool
  Others = {}
  Amounts = {1, 4}
  LpAmounts = {0}
  MinAmounts = {1}
  InitialWallet <- SixEach
  MaxIxs = 1
  MaxShares = 4095
  MaxU64 = 4095
PROPERTIES SwapKeepsProduct
