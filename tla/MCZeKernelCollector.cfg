SPECIFICATION EarlyDestroySpec
CONSTANTS
  Threads = {t1, t2}
  Contexts = {c1}
  Lists = {l1, l2}
  Commands = {k1, k2}
  Events = {e1, e2}
  AppEvents = {e1}
  Fences = {f1}
  EVENT_POOL_SIZE = 1
  None = None
  MaxKernels = 2
  MaxRuns = 1
  Switching = TRUE
INVARIANTS
  TypeOK NoOrphanedCall ListRecords PendingEventsExist Accounted
PROPERTIES
  ReportedAfterRun
SYMMETRY Symmetry
