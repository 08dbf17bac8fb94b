\* A sync whose API call fails in transport.
SPECIFICATION Spec
CONSTANTS
  s1 = s1
  s2 = s2
  A = A
  B = B
  i1 = i1
  i2 = i2
  None = None
  Syncer = {s1, s2}
  Invoice = {i1, i2}
  TaxNos <- TwoCompanies
  Seller <- AllFromA
  Buyer <- AllToB
  Registered = {}
  MaxVersion = 1
  MaxSyncs = 2
  MaxCrashes = 0
CHECK_DEADLOCK FALSE
SYMMETRY Symmetry
INVARIANTS
  FailureIsRecorded
