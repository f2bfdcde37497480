SPECIFICATION VaultSpec
CONSTANTS
  u1 = u1
  u2 = u2
  Users = {u1, u2}
  Amounts = {0, 1, 2, 4}
  InitialWallet <- Sixes
  StateRent = 3
  RentMin = 2
  MaxU64 = 12
INVARIANTS VaultTypeOK LamportsAccounted ExitsStayOpen
