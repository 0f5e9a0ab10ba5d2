----------------------------- MODULE MCLauncher -----------------------------
(***************************************************************************)
(* Instances of Launcher for TLC.                                          *)
(***************************************************************************)
EXTENDS Launcher, TLC

Symmetry == Permutations(Processes)

\* Options before, after and instead of the application, names of log files
\* that look like options, missing and empty ones, conflicts on one line and on two.
CommandsChecked ==
  {<<"app">>,
   <<"app", "VERBOSE">>,
   <<"finetrace">>,
   <<"finetrace", "app", "CALL_LOGGING">>,
   <<"finetrace", "CALL_LOGGING", "app", "output", "x">>,
   <<"finetrace", "VERBOSE", "output", "log", "app">>,
   <<"finetrace", "output", "PID", "output", "other", "HOST_TIMING", "app">>,
   <<"finetrace", "output", "version", "TID", "app">>,
   <<"finetrace", "DEVICE_TIMING", "output">>,
   <<"finetrace", "TID", "output", "", "app">>,
   <<"finetrace", "output", "", "finetrace", "output", "log", "app">>,
   <<"finetrace", "output", "log", "version", "app">>,
   <<"finetrace", "CHROME_DEVICE_TIMELINE", "app">>,
   <<"finetrace", "CHROME_DEVICE_STAGES", "app", "x">>,
   <<"finetrace", "CHROME_KERNEL_TIMELINE", "CHROME_DEVICE_TIMELINE", "app">>,
   <<"finetrace", "finetrace", "CHROME_KERNEL_TIMELINE", "app">>}

\* No options, one that conflicts with others, and a log file with a name,
\* without one, and a name without the log file.
ShellsChecked ==
  {[flags |-> {}, log |-> ""],
   [flags |-> {"CHROME_DEVICE_TIMELINE"}, log |-> ""],
   [flags |-> {"LOG_TO_FILE"}, log |-> "mine"],
   [flags |-> {"LOG_TO_FILE"}, log |-> ""],
   [flags |-> {}, log |-> "mine"]}
=============================================================================
