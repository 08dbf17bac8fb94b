\* Two syncers, invoices that change, and a crash, against the invariants and SyncLedger.
SPECIFICATION Spec
CONSTANTS
  s1 = s1
  s2 = s2
  A = A
  B = B
  i1 = i1
  i2 = i2
  None = None
  Syncer = {s1, s2}
  Invoice = {i1, i2}
  TaxNos <- TwoCompanies
  Seller <- AllFromA
  Buyer <- AllToB
  Registered = {}
  MaxVersion = 2
  MaxSyncs = 2
  MaxCrashes = 1
CHECK_DEADLOCK FALSE
SYMMETRY Symmetry
PROPERTIES
  ImplementsLedger
  OnlyOverlapTakesBack
INVARIANTS
  TypeOK
  SameCompanyIsSerial
  StoredIsArchived
  ItemsOfOneAnswer
  SuccessIsArchived
