\* Two passes over every small answer.
SPECIFICATION Spec
CONSTANTS
  p1 = p1
  p2 = p2
  i1 = i1
  i2 = i2
  FPJCXX = FPJCXX
  JZFW = JZFW
  None = None
  Pass = {p1, p2}
  Id = {i1, i2}
  HeaderSection = {FPJCXX, JZFW}
  MaxItems = 3
  MaxHeaders = 2
CHECK_DEADLOCK FALSE
SYMMETRY Symmetry
INVARIANTS
  TypeOK
  ParsedIsAnswer
  PassesAgree
