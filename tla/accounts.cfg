\* Two handlers at a time, up to three requests after one or two accounts were set
\* up; of three accounts there is room for two more of one name beside the first.
SPECIFICATION Spec
CONSTANTS
  h1 = h1
  h2 = h2
  n1 = n1
  n2 = n2
  A = A
  None = None
  Handler = {h1, h2}
  Name = {n1, n2}
  Company = {A}
  MaxUsers = 3
  MaxFailed = 2
  MaxRequests = 3
CHECK_DEADLOCK FALSE
SYMMETRY Symmetry
INVARIANTS
  TypeOK
  UniqueNames
  NoOrphanGrants
  AdminRemains
  MustMatchesSecret
PROPERTIES
  LockIsLiftedOnPurpose
