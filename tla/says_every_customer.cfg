\* A pass that meets a customer with a row in runs or sessions.
SPECIFICATION Spec
CONSTANTS
  c1 = c1
  c2 = c2
  None = None
  Customer = {c1, c2}
  MaxCalls = 2
  Limit = 2
  Hour = 2
  MaxTime = 1
  MaxOps = 1
  MaxPasses = 1
  MaxEscapes = 0
CHECK_DEADLOCK FALSE
SYMMETRY Symmetry
INVARIANTS
  EveryListedIsReported
