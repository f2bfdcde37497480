SPECIFICATION Spec
CONSTANTS
  u1 = u1
  Users = {u1}
  Fees = {30, 10000, 10001}
  Amounts = {1, 2, 5}
  LpAmounts = {0, 1, 2}
  MinAmounts = {0, 2}
  InitialTokens <- EightTokens
  MaxU64 = 4095
INVARIANTS TypeOK Backed
PROPERTIES ImplementsPool
