--------------------------- MODULE MCKernelTimes ---------------------------
(***************************************************************************)
(* Instances of KernelTimes for TLC.                                       *)
(***************************************************************************)
EXTENDS KernelTimes

\* Counters of two and three bits that a word exceeds, one as wide as a word,
\* one of a tick a nanosecond and two slower ones.
TimersChecked ==
  {[frequency |-> 3, valid_bits |-> 3],
   [frequency |-> 4, valid_bits |-> 2],
   [frequency |-> 2, valid_bits |-> 6]}

MonotonicLagChecked == 3
=============================================================================
