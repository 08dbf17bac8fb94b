\* One user's requests beside two commits of others, from every small warehouse.
SPECIFICATION MCSpec
CONSTANTS
  i1 = i1
  i2 = i2
  i3 = i3
  A = A
  B = B
  None = None
  first = i1
  theirs = i2
  Invoice = {i1, i2, i3}
  Company = {A, B}
  Home <- OneIsTheirs
  PageMin = 1
  PageMax = 2
  MaxKey = 3
  MaxChanges = 2
CHECK_DEADLOCK FALSE
INVARIANTS
  TypeOK
  ShownIsGranted
  MissIsExplained
