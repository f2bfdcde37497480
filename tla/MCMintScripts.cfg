SPECIFICATION Spec
CONSTANTS
  t1 = t1
  n2 = n2
  n1 = n1
  Runs = {t1, n1, n2}
  NftRuns = {n1, n2}
  Earlier = Earlier
  EarlierSol = {4, 5}
  MinSol = 5
  MaxFaults = 1
  Absent = Absent
  Empty = Empty
  Torn = Torn
CHECK_DEADLOCK FALSE
INVARIANTS TypeOK NothingStranded MintedOnce StaysFunded
PROPERTIES RunsEnd RerunSucceeds
