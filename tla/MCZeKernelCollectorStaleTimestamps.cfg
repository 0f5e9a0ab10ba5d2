SPECIFICATION Spec
CONSTANTS
  Threads = {t1, t2}
  Contexts = {c1}
  Lists = {l1}
  Commands = {k1, k2}
  Events = {e1, e2}
  AppEvents = {}
  Fences = {f1}
  EVENT_POOL_SIZE = 1
  None = None
  MaxKernels = 2
  MaxRuns = 2
  Switching = TRUE
PROPERTIES
  ReportedAfterRun
