SPECIFICATION Spec
CONSTANTS
  t1 = t1
  t2 = t2
  Threads = {t1, t2}
  Functions <- FunctionsOfThreads
  Statuses = {CL_SUCCESS, CL_INVALID_VALUE}
  Success = CL_SUCCESS
  None = None
INVARIANTS
  NoNullDereference StatusShown Transparent ArgumentsShown
