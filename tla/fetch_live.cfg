\* Progress of fair workers that compete for one tenant; nothing is killed.
SPECIFICATION FairSpec
CONSTANTS
  w1 = w1
  w2 = w2
  t1 = t1
  r1 = r1
  r2 = r2
  None = None
  Worker = {w1, w2}
  Tenant = {t1}
  RunId = {r1, r2}
  DryRun = {FALSE}
  MaxCount = 0
  MaxKills = 0
  MaxDbFaults = 0
PROPERTIES
  SessionIsReleased
  RunEnds
