\* The nightly job beside a manual sync; fair processes, no crash.
SPECIFICATION FairSpec
CONSTANTS
  s1 = s1
  s2 = s2
  A = A
  B = B
  i1 = i1
  None = None
  Syncer = {s1, s2}
  Invoice = {i1}
  TaxNos <- TwoCompanies
  Seller <- AllFromA
  Buyer <- AllToB
  Registered = {A}
  MaxVersion = 1
  MaxSyncs = 3
  MaxCrashes = 0
CHECK_DEADLOCK FALSE
PROPERTIES
  SyncEnds
INVARIANTS
  NightlyCoversSynced
  ExitCodeIsHonest
