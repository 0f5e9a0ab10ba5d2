------------------------------ MODULE Launcher ------------------------------
(***************************************************************************)
(* How options reach the processes they are for.  The loader (loader.cc)   *)
(* has the tool parse its arguments (tool.cc), which leaves options in     *)
(* environment variables, and turns into the application with the tracer   *)
(* preloaded.  The constructor of the tracer (init.cc) reads the variables *)
(* back.  The environment is inherited: the application's children are     *)
(* traced as well, and one of them may be a loader again.                  *)
(*                                                                         *)
(* An argument is the name of an option, whichever way it is spelled, or   *)
(* any other word.  Of the variables those set to "1" matter, and the name *)
(* of the log file, "" if it is not set.  Linux only.                      *)
(***************************************************************************)
EXTENDS Integers, Sequences

CONSTANTS
  Processes,  \* process ids
  Commands,   \* a program with its arguments, each
  Shells,     \* the variables users may have set, each
  MaxImages,  \* bound on the programs from a shell to a process
  None        \* no process, no name of a log file, no tracer

\* Variables without an operand.
Flags ==
  {"CALL_LOGGING", "HOST_TIMING", "DEVICE_TIMING", "KERNEL_SUBMITTING", "DEVICE_TIMELINE",
   "CHROME_CALL_LOGGING", "CHROME_DEVICE_TIMELINE", "CHROME_KERNEL_TIMELINE",
   "CHROME_DEVICE_STAGES", "VERBOSE", "DEMANGLE", "KERNELS_PER_TILE", "TID", "PID",
   "CONDITIONAL_COLLECTION"}
Options == Flags \cup {"output", "version"}

ASSUME CommandAssumption == \A command \in Commands : command \in Seq(STRING) /\ command # <<>>
ASSUME BoundAssumption == MaxImages \in Nat

VARIABLE process  \* process[p]: what process p is (see ProcessType)

\* Options as the environment holds them, and with what the loader adds for
\* LD_PRELOAD and FTRACE_ENABLE.
ToldType == [flags : SUBSET (Flags \cup {"LOG_TO_FILE"}), log : STRING]
EnvType == [flags : SUBSET (Flags \cup {"LOG_TO_FILE"}), log : STRING, enable : BOOLEAN]
TracerType == [flags : SUBSET (Flags \cup {"LOG_TO_FILE"}), log : STRING \cup {None}]

ASSUME ShellAssumption == Shells \subseteq ToldType

\* A program whose tracer has asserted something is aborted.  A tracer has the
\* flags and the log file it was created with.
\* History: the options users asked for on the way here, the arguments meant
\* for this program, and the number of programs so far.
ProcessType ==
  [program : STRING, args : Seq(STRING), env : EnvType,
   state : {"started", "running", "aborted"}, tracer : TracerType \cup {None},
   asked : ToldType, meant : Seq(STRING), images : Nat]

ASSUME NoneAssumption == None \notin STRING \cup TracerType

-----------------------------------------------------------------------------
(* Arguments (a "Fault" is a bug put into what follows it).                *)

AppIndexAfterOutputShort(index) ==  \* Fault: the file name is not counted.
  index + 1
AppIndexAfterOutput(index) == index + 2

\* ParseArgs, from argument i on: the variables it sets, and what it returns: the
\* position of the application, 0 if there is nothing to run, -1 for an error.
Parsed(args) ==
  LET after(rest, flag) ==
        [rest EXCEPT !.flags = @ \cup {flag}, !.app_index = IF @ <= 0 THEN @ ELSE @ + 1]
      parse[i \in 1..(Len(args) + 1)] ==
        IF i > Len(args) \/ args[i] \notin Options
          THEN [flags |-> {}, log |-> None, app_index |-> 1]
        ELSE IF args[i] = "version"
          THEN [flags |-> {}, log |-> None, app_index |-> 0]
        ELSE IF args[i] # "output" THEN after(parse[i + 1], args[i])
        ELSE IF i = Len(args)
          THEN [flags |-> {"LOG_TO_FILE"}, log |-> None, app_index |-> -1]
        ELSE [flags |-> parse[i + 2].flags \cup {"LOG_TO_FILE"},
              log |-> IF parse[i + 2].log = None THEN args[i + 1] ELSE parse[i + 2].log,
              app_index |-> IF parse[i + 2].app_index <= 0 THEN parse[i + 2].app_index
                            ELSE AppIndexAfterOutput(parse[i + 2].app_index)]
  IN  parse[1]

\* The environment with the variables ParseArgs has set.
SetEnv(env, parsed) ==
  [env EXCEPT !.flags = @ \cup parsed.flags,
              !.log = IF parsed.log = None THEN @ ELSE parsed.log]

Conflicting(flags) ==
  /\ "CHROME_DEVICE_TIMELINE" \in flags
  /\ flags \cap {"CHROME_DEVICE_STAGES", "CHROME_KERNEL_TIMELINE"} # {}

ConflictOnLine(env, parsed) == Conflicting(parsed.flags)  \* Fault: only the line's options.
\* The errors of ParseArgs: the variables are read back.
Conflict(env, parsed) == Conflicting(SetEnv(env, parsed).flags)

Succeeds(env, parsed, args) ==
  /\ ~Conflict(env, parsed)
  /\ parsed.app_index \in 1..Len(args)

\* ReadArgs and TraceOptions: without any option, the two summaries.
ReadArgs(env) ==
  [flags |-> IF env.flags = {} THEN {"HOST_TIMING", "DEVICE_TIMING"} ELSE env.flags,
   log |-> IF "LOG_TO_FILE" \in env.flags THEN env.log ELSE None]

\* They assert that a log file has a name, Create that no options conflict.
Unnamed(told) == "LOG_TO_FILE" \in told.flags /\ told.log = ""
Asserted(env) == ~Unnamed(env) /\ ~Conflicting(ReadArgs(env).flags)

-----------------------------------------------------------------------------
(* What is meant: the reference for ParseArgs.                             *)

\* The positions in args before k that are options (starts) such that the other
\* ones are names of log files.
Starts(args, k) ==
  {starts \in SUBSET (1..(k - 1)) : \A i \in 1..(k - 1) :
     IF i \in starts THEN args[i] \in Options \ {"version"} /\ ~(i = k - 1 /\ args[i] = "output")
                          /\ ~(i > 1 /\ i - 1 \in starts /\ args[i - 1] = "output")
     ELSE i > 1 /\ i - 1 \in starts /\ args[i - 1] = "output"}

\* The position of the first argument that is neither.
IsCommand(args, k) == k <= Len(args) /\ args[k] \notin Options /\ Starts(args, k) # {}

MeantFlags(args, k) ==
  {IF args[i] = "output" THEN "LOG_TO_FILE" ELSE args[i] : i \in UNION Starts(args, k)}

MeantLog(args, k) ==
  LET outputs == {i \in UNION Starts(args, k) : args[i] = "output"}
  IN  IF outputs = {} THEN None ELSE args[(CHOOSE i \in outputs : \A j \in outputs : j <= i) + 1]

-----------------------------------------------------------------------------
Init == process = [p \in Processes |-> None]

\* A process runs a command in an environment, after options were asked for.
Image(command, env, asked, meant, images) ==
  [program |-> Head(command), args |-> Tail(command), env |-> env, state |-> "started",
   tracer |-> None, asked |-> asked, meant |-> meant, images |-> images]

\* The user starts the loader.
Start(p, command, shell) ==
  /\ process[p] = None
  /\ Head(command) = "finetrace"
  /\ process' = [process EXCEPT ![p] =
       Image(command, [flags |-> shell.flags, log |-> shell.log, enable |-> FALSE], shell,
             Tail(command), 1)]

\* The tracer's library is loaded: preloaded, or opened by the loader.
Load(p) ==
  /\ process[p] # None /\ process[p].state = "started"
  /\ LET env == process[p].env
     IN  process' = [process EXCEPT
           ![p].state = IF env.enable /\ ~Asserted(env) THEN "aborted" ELSE "running",
           ![p].tracer = IF env.enable /\ Asserted(env) THEN ReadArgs(env) ELSE None]

Running(p) == process[p] # None /\ process[p].state = "running"
Loader(p) == Running(p) /\ process[p].program = "finetrace"
Application(p) == Running(p) /\ process[p].program # "finetrace"

\* main of the loader: it turns into the application, ...
Launch(p) ==
  /\ Loader(p)
  /\ LET me == process[p]
         parsed == Parsed(me.args)
         meant == {k \in 1..Len(me.meant) : IsCommand(me.meant, k)}
         k == CHOOSE k \in meant : TRUE
     IN  /\ Succeeds(me.env, parsed, me.args)
         /\ process' = [process EXCEPT ![p] =
              Image(SubSeq(me.args, parsed.app_index, Len(me.args)),
                    [SetEnv(me.env, parsed) EXCEPT !.enable = TRUE],
                    IF meant = {} THEN me.asked
                    ELSE [flags |-> me.asked.flags \cup MeantFlags(me.meant, k),
                          log |-> IF MeantLog(me.meant, k) = None THEN me.asked.log
                                  ELSE MeantLog(me.meant, k)],
                    IF meant = {} THEN <<>> ELSE SubSeq(me.meant, k + 1, Len(me.meant)),
                    me.images + 1)]

\* ... or gives up: on an error, or because execvp fails.
GiveUp(p) ==
  /\ Loader(p)
  /\ process' = [process EXCEPT ![p] = None]

MayStart(p) == Application(p) /\ process[p].images < MaxImages

\* The application starts another program, a loader perhaps.
Spawn(p, q, command) ==
  /\ MayStart(p) /\ process[q] = None
  /\ process' = [process EXCEPT ![q] =
       Image(command, process[p].env, process[p].asked, Tail(command), process[p].images + 1)]

\* It turns into another program.
Exec(p, command) ==
  /\ MayStart(p)
  /\ process' = [process EXCEPT ![p] =
       Image(command, process[p].env, process[p].asked, Tail(command), process[p].images + 1)]

\* An application ends, or an aborted process is gone.
Exit(p) ==
  /\ Application(p) \/ (process[p] # None /\ process[p].state = "aborted")
  /\ process' = [process EXCEPT ![p] = None]

Next ==
  \E p \in Processes :
    \/ \E command \in Commands, shell \in Shells : Start(p, command, shell)
    \/ Load(p)
    \/ Launch(p)
    \/ GiveUp(p)
    \/ \E q \in Processes, command \in Commands : Spawn(p, q, command)
    \/ \E command \in Commands : Exec(p, command)
    \/ Exit(p)

Spec == Init /\ [][Next]_process

-----------------------------------------------------------------------------
(* Correctness.                                                            *)

\* Conflicting options, whoever set them, never meet in a tracer, where Create
\* would abort the process: the only ones that abort are those asked, by a user's
\* environment or a command line, to log into a file without a name.
OptionsConsistent ==
  \A p \in Processes :
    process[p] # None /\ process[p].state = "aborted" => Unnamed(process[p].asked)

\* The loaders on the way to an application have given it what their command
\* lines say: the options in front of the first other argument, to the process
\* and to its children, and the arguments behind it, to the application.  Without
\* a name for its log file, no application runs.
OptionsReach ==
  \A p \in Processes : Application(p) =>
    /\ process[p].tracer # None
    /\ process[p].args = process[p].meant
    /\ process[p].tracer.flags =
         IF process[p].asked.flags = {} THEN {"HOST_TIMING", "DEVICE_TIMING"}
         ELSE process[p].asked.flags
    /\ process[p].tracer.log =
         IF "LOG_TO_FILE" \in process[p].asked.flags THEN process[p].asked.log ELSE None
    /\ ~Unnamed(process[p].asked)
=============================================================================
