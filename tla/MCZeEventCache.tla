--------------------------- MODULE MCZeEventCache ---------------------------
(* Instances of ZeEventCache for TLC.                                      *)
EXTENDS ZeEventCache, TLC

\* Handles and commands are interchangeable: no definition of the module
\* names one.
Symmetry ==
  Permutations(Contexts) \cup Permutations(Events) \cup Permutations(Holders)
=============================================================================
