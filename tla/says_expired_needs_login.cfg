\* An expired session is put back to VALID by the same run.
SPECIFICATION Spec
CONSTANTS
  w1 = w1
  t1 = t1
  r1 = r1
  None = None
  Worker = {w1}
  Tenant = {t1}
  RunId = {r1}
  DryRun = {FALSE}
  MaxCount = 0
  MaxKills = 0
  MaxDbFaults = 0
PROPERTIES
  ExpiredNeedsLogin
