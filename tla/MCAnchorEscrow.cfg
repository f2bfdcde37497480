SPECIFICATION Spec
CONSTANTS
  u1 = u1
  u2 = u2
  ma = ma
  mb = mb
  s1 = s1
  Users = {u1, u2}
  Mints = {ma, mb}
  Seeds = {s1}
  Amounts = {0, 1, 2}
  InitialBalance <- OneEach
  Absent = Absent
  Failed = Failed
  MaxU64 = 3
INVARIANTS TypeOK TokensConserved DepositsCovered RefundStaysOpen
PROPERTIES AtomicSwap
