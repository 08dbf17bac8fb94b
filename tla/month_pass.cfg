\* Two passes over two customers while people give commands.
SPECIFICATION FairSpec
CONSTANTS
  c1 = c1
  c2 = c2
  None = None
  Customer = {c1, c2}
  MaxCalls = 2
  Limit = 2
  Hour = 1
  MaxTime = 2
  MaxOps = 2
  MaxPasses = 2
  MaxEscapes = 1
CHECK_DEADLOCK FALSE
INVARIANTS
  TypeOK
  ExitCodeCoversListed
  BudgetHolds
  HourlyLimit
PROPERTIES
  PassEnds
