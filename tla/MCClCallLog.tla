---------------------------- MODULE MCClCallLog ----------------------------
(***************************************************************************)
(* Instances of ClCallLog for TLC.                                         *)
(***************************************************************************)
EXTENDS ClCallLog

CONSTANTS t1, t2

\* One thread calls every function the runtime traces, the other one with
\* errcodeRet and one the kernel collector records.
FunctionsOfThreads ==
  [t \in {t1, t2} |->
     IF t = t1 THEN DOMAIN OnEnterFunction
     ELSE {"clCreateBuffer", "clEnqueueReadBuffer"}]
=============================================================================
