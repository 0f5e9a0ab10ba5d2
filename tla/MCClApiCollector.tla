-------------------------- MODULE MCClApiCollector --------------------------
(***************************************************************************)
(* Instances of ClApiCollector for TLC.                                    *)
(***************************************************************************)
EXTENDS ClApiCollector, TLC

\* Threads are not told apart.
Symmetry == Permutations(Threads)
=============================================================================
