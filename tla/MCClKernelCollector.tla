------------------------ MODULE MCClKernelCollector ------------------------
(***************************************************************************)
(* Instances of ClKernelCollector for TLC.  No symmetry: a run that checks *)
(* liveness cannot use it, and OtherEvents tells the events apart.         *)
(***************************************************************************)
EXTENDS ClKernelCollector
=============================================================================
