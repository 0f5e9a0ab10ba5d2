-------------------------- MODULE MCUnifiedTracer --------------------------
(***************************************************************************)
(* Instances of UnifiedTracer for TLC.                                     *)
(***************************************************************************)
EXTENDS UnifiedTracer, TLC

Symmetry == Permutations(Threads)

\* Every combination of the options the finish callbacks depend on, each option
\* alone, and sets that need both kinds of collector (the first is the default).
OptionSetsChecked ==
  {options \in SUBSET {"DEVICE_TIMELINE", "CHROME_DEVICE_TIMELINE", "CHROME_KERNEL_TIMELINE",
                       "CHROME_DEVICE_STAGES"} : options # {} /\ ~Conflicting(options)}
    \cup {{option} : option \in ApiOptions \cup KernelOptions}
    \cup {{"HOST_TIMING", "DEVICE_TIMING"},
          {"CALL_LOGGING", "CHROME_CALL_LOGGING", "CHROME_DEVICE_TIMELINE", "KERNEL_SUBMITTING"}}
=============================================================================
