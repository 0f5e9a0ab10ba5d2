SPECIFICATION FairSpec
CONSTANTS
  Threads = {t1, t2}
  Queues = {q1}
  Events = {e1, e2}
  OtherEvents = {e1}
  None = None
  MaxKernels = 2
  MaxRefs = 2
  MaxSwitches = 1
INVARIANTS
  TypeOK References HandlesIdentify Accounted
PROPERTIES
  ProcessedComplete SynchronizedProcessed EventuallyProcessed
