\* Two workers compete for one tenant; one process is killed, one transaction fails.
\* Invariants, the transition table, and the abstract lifecycle.
SPECIFICATION Spec
CONSTANTS
  w1 = w1
  w2 = w2
  t1 = t1
  r1 = r1
  r2 = r2
  None = None
  Worker = {w1, w2}
  Tenant = {t1}
  RunId = {r1, r2}
  DryRun = {FALSE, TRUE}
  MaxCount = 1
  MaxKills = 1
  MaxDbFaults = 1
SYMMETRY Symmetry
PROPERTIES
  RowsFollowTable
  ImplementsLifecycle
  ArchiveHasOneWriter
INVARIANTS
  TypeOK
  ExclusiveSession
  NoOrphanLock
  NoForeignRelease
  ProfileIsFree
  LockedRowIsHeld
  ReportMatchesLedger
  DoneIsEarned
