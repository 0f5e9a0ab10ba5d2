------------------------ MODULE MCZeKernelCollector ------------------------
(***************************************************************************)
(* Instances of ZeKernelCollector for TLC.                                 *)
(***************************************************************************)
EXTENDS ZeKernelCollector, TLC

\* Neither the threads, the contexts, the lists, the command objects, the
\* fences nor the events of one kind are told apart.
Symmetry ==
  Permutations(Threads) \cup Permutations(Contexts) \cup Permutations(Lists)
    \cup Permutations(Commands) \cup Permutations(AppEvents)
    \cup Permutations(Events \ AppEvents) \cup Permutations(Fences)
=============================================================================
