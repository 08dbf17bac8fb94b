\* A run archives the export an earlier run submitted.
SPECIFICATION Spec
CONSTANTS
  w1 = w1
  t1 = t1
  r1 = r1
  r2 = r2
  None = None
  Worker = {w1}
  Tenant = {t1}
  RunId = {r1, r2}
  DryRun = {FALSE}
  MaxCount = 0
  MaxKills = 0
  MaxDbFaults = 0
INVARIANTS
  ArchivesOwnExport
