SPECIFICATION Spec
CONSTANTS
  Threads = {t1, t2}
  OptionSets <- OptionSetsChecked
  MaxCalls = 3
  MaxKernels = 2
SYMMETRY Symmetry
INVARIANTS
  NoUseAfterDelete OutputsWritten ReportFinal
CHECK_DEADLOCK FALSE
