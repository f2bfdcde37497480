SPECIFICATION Spec
CONSTANTS
  u1 = u1
  u2 = u2
  a1 = a1
  a2 = a2
  m1 = m1
  m2 = m2
  usd = usd
  Users = {u1, u2}
  Assets = {a1}
  Markets = {m1, m2}
  Authorities = {m1, m2}
  PaymentMints = {usd}
  Sol = Sol
  None = None
  Failed = Failed
  Absent = Absent
  InitialOwner <- OwnedByFirst
  InitialBalance <- Fours
  Fees = {5000, 10001}
  Prices = {4}
  Amounts = {2}
  MaxSurplus = 1
  RentMin = 2
  MaxU64 = 8
INVARIANTS TypeOK ListedMeansHeld SellerMayDelist MoneyConserved SolSalesOpen
SYMMETRY Symmetry
PROPERTIES SalesSettled
