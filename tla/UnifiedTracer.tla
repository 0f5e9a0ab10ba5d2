--------------------------- MODULE UnifiedTracer ---------------------------
(***************************************************************************)
(* The life of the tracer in a traced process (unified_tracer.h): which    *)
(* collectors the options create, what a finished call or kernel writes,   *)
(* and how all of it is taken down while threads of the application are    *)
(* still inside of traced functions.                                       *)
(*                                                                         *)
(* What a collector does in a callback is in the modules of the            *)
(* collectors; here a call only uses the objects its callbacks use, and is *)
(* counted.  The drivers promise that nobody is in a callback of a tracer  *)
(* when clDisableTracing (OpenCL) or zelTracerDestroy (Level Zero) is      *)
(* done.  Nobody promises that of the wrappers of extension functions: one *)
(* that finds its objects deleted has undefined behaviour, and there the   *)
(* model ends (phase "undefined").                                         *)
(***************************************************************************)
EXTENDS Naturals, Sequences, FiniteSets

CONSTANTS
  Threads,    \* application threads
  OptionSets, \* sets of options a process may be started with
  MaxCalls,   \* bound on the traced calls of a behaviour
  MaxKernels  \* bound on the kernels a callback finds finished

Backends == {"ze", "cpu", "gpu"}
ClBackends == {"cpu", "gpu"}
Kinds == {"api", "kernel"}

ApiOptions == {"CALL_LOGGING", "CHROME_CALL_LOGGING", "HOST_TIMING"}
KernelOptions ==
  {"DEVICE_TIMING", "KERNEL_SUBMITTING", "DEVICE_TIMELINE", "CHROME_DEVICE_TIMELINE",
   "CHROME_KERNEL_TIMELINE", "CHROME_DEVICE_STAGES"}
ChromeOptions ==
  {"CHROME_CALL_LOGGING", "CHROME_DEVICE_TIMELINE", "CHROME_KERNEL_TIMELINE",
   "CHROME_DEVICE_STAGES"}

\* The options that ParseArgs refuses together, and Create asserts are not.
Conflicting(options) ==
  /\ "CHROME_DEVICE_TIMELINE" \in options
  /\ options \cap {"CHROME_DEVICE_STAGES", "CHROME_KERNEL_TIMELINE"} # {}

ASSUME OptionAssumption ==
  \A options \in OptionSets :
    options \subseteq ApiOptions \cup KernelOptions /\ ~Conflicting(options)
ASSUME BoundAssumption == MaxCalls \in Nat /\ MaxKernels \in Nat
ASSUME ThreadAssumption == IsFiniteSet(Threads)

VARIABLES
  options_,       \* the options of this process
  phase,          \* construct, kernels, apis, running, unload, delete, untraced,
                  \* aborted or undefined
  at,             \* the step of Teardown that is next
  collector,      \* collector[kind][backend]: the state of this collector
  instance_,      \* the extension collector and the API collectors it points to
  chrome_logger_, \* the logger of the JSON file
  wrappers,       \* devices the application has wrappers of extension functions of
  thr,            \* thr[t]: the traced function or wrapper thread t is in
  table,          \* table[kind][backend]: the calls or kernels a collector has counted
  \* history
  written,        \* written[kind]: the sorts of line calls or kernels have led to
  reported,       \* the tables that were printed
  open,           \* open[kind][backend]: threads inside of the collector then
  late            \* late[backend]: wrappers that have ended since

history == <<written, reported, open, late>>
vars == <<options_, phase, at, collector, instance_, chrome_logger_, wrappers, thr, table,
          history>>

Idle == [in |-> "application"]
InFunction(t) == thr[t].in = "function"
InWrapper(t) == thr[t].in = "wrapper"

\* Threads between the callbacks of this collector.
Inside(kind, backend) ==
  {t \in Threads : InFunction(t) /\ thr[t].backend = backend /\ kind \in thr[t].kinds}

Asked(options) == options_ \cap options # {}

-----------------------------------------------------------------------------
(* What a finished kernel or call writes: sets of lines, each of a file,   *)
(* what its rows stand for, and what it tells.  A callback of each name    *)
(* exists for Level Zero and for OpenCL.                                   *)

Stages == {"appended", "submitted", "executed"}

DeviceTimelineCallback == {<<"log", "queue", "times">>}
ChromeDeviceCallback == {<<"json", "queue", "executed">>}
ChromeKernelCallback == {<<"json", "kernel", "executed">>}
ChromeStagesCallback == {<<"json", "command", s>> : s \in Stages}
ChromeKernelStagesCallback == {<<"json", "kernel", s>> : s \in Stages}
DeviceAndChromeDeviceCallback == DeviceTimelineCallback \cup ChromeDeviceCallback
DeviceAndChromeKernelCallback == DeviceTimelineCallback \cup ChromeKernelCallback
DeviceAndChromeStagesCallback == DeviceTimelineCallback \cup ChromeStagesCallback
DeviceAndChromeKernelStagesCallback == DeviceTimelineCallback \cup ChromeKernelStagesCallback
ChromeLoggingCallback == {<<"json", "thread", "call">>}

\* Sets of options with the callback for them, in the order Create tests them.
ForAllThree ==
  << <<{"DEVICE_TIMELINE", "CHROME_KERNEL_TIMELINE", "CHROME_DEVICE_STAGES"},
       DeviceAndChromeKernelStagesCallback>> >>
ForTwo ==
  << <<{"DEVICE_TIMELINE", "CHROME_DEVICE_TIMELINE"}, DeviceAndChromeDeviceCallback>>,
     <<{"DEVICE_TIMELINE", "CHROME_KERNEL_TIMELINE"}, DeviceAndChromeKernelCallback>>,
     <<{"DEVICE_TIMELINE", "CHROME_DEVICE_STAGES"}, DeviceAndChromeStagesCallback>>,
     <<{"CHROME_KERNEL_TIMELINE", "CHROME_DEVICE_STAGES"}, ChromeKernelStagesCallback>> >>
ForOne ==
  << <<{"DEVICE_TIMELINE"}, DeviceTimelineCallback>>,
     <<{"CHROME_DEVICE_TIMELINE"}, ChromeDeviceCallback>>,
     <<{"CHROME_KERNEL_TIMELINE"}, ChromeKernelCallback>>,
     <<{"CHROME_DEVICE_STAGES"}, ChromeStagesCallback>> >>

ChoicesTwoFirst == ForTwo \o ForAllThree \o ForOne  \* Fault: all three are tested too late.
Choices == ForAllThree \o ForTwo \o ForOne

\* The callback Create gives the kernel collectors.
KernelCallback ==
  LET fitting == {i \in DOMAIN Choices : Choices[i][1] \subseteq options_}
      first == CHOOSE i \in fitting : \A j \in fitting : i <= j
  IN  IF fitting = {} THEN {} ELSE Choices[first][2]

\* The lines of a call: the collector's log, the callback of the tracer.
CallLines ==
  (IF "CALL_LOGGING" \in options_ THEN {<<"log", "thread", "call">>} ELSE {})
    \cup (IF "CHROME_CALL_LOGGING" \in options_ THEN ChromeLoggingCallback ELSE {})

Lines(kind) == IF kind = "api" THEN CallLines ELSE KernelCallback

WritesTimeline(kind) == \E line \in Lines(kind) : line[1] = "json"

-----------------------------------------------------------------------------
(* Construction.                                                           *)

NoCollectors == [backend \in Backends |-> "none"]

Init ==
  /\ options_ \in OptionSets
  /\ phase = "construct" /\ at = 1
  /\ collector = [kind \in Kinds |-> NoCollectors]
  /\ instance_ = [state |-> "none", collectors |-> {}]
  /\ chrome_logger_ = "none"
  /\ wrappers = {}
  /\ thr = [t \in Threads |-> Idle]
  /\ table = [kind \in Kinds |-> [backend \in Backends |-> 0]]
  /\ written = [kind \in Kinds |-> {}]
  /\ reported = {}
  /\ open = [kind \in Kinds |-> [backend \in Backends |-> 0]]
  /\ late = [backend \in Backends |-> 0]

\* The constructor.
Construct ==
  /\ phase = "construct"
  /\ chrome_logger_' = IF Asked(ChromeOptions) THEN "live" ELSE "none"
  /\ phase' = "kernels"
  /\ UNCHANGED <<options_, at, collector, instance_, wrappers, thr, table, history>>

\* Collectors for the backends that exist and can be traced.
Made(made) == [backend \in Backends |-> IF backend \in made THEN "enabled" ELSE "none"]

\* Create: the kernel collectors.  Without any of them the tracer is deleted.
CreateKernelCollectors(made) ==
  /\ phase = "kernels"
  /\ made # {} => Asked(KernelOptions)
  /\ collector' = [collector EXCEPT !["kernel"] = Made(made)]
  /\ phase' = IF Asked(KernelOptions) /\ made = {} THEN "delete" ELSE "apis"
  /\ UNCHANGED <<options_, at, instance_, chrome_logger_, wrappers, thr, table,
                 history>>

InstanceForAny(made) == made # {}  \* Fault: created for Level Zero, too.
NeedsInstance(made) == made \cap ClBackends # {}

\* Create: the API collectors, and the extension collector for those of OpenCL.
CreateApiCollectors(made) ==
  /\ phase = "apis"
  /\ made # {} => Asked(ApiOptions)
  /\ collector' = [collector EXCEPT !["api"] = Made(made)]
  /\ instance_' = IF NeedsInstance(made)
                    THEN [state |-> "live", collectors |-> made \cap ClBackends]
                    ELSE instance_
  /\ phase' = IF Asked(ApiOptions) /\ made = {} THEN "delete" ELSE "running"
  /\ UNCHANGED <<options_, at, chrome_logger_, wrappers, thr, table, history>>

-----------------------------------------------------------------------------
(* The steps of the destructor.                                            *)

Disable(kind, backend) == [do |-> "disable", kind |-> kind, backend |-> backend]
Delete(kind, backend) == [do |-> "delete", kind |-> kind, backend |-> backend]
ReportStep == [do |-> "report"]
DestroyInstanceStep == [do |-> "instance"]
DeleteLoggerStep == [do |-> "logger"]

Disabling ==
  <<Disable("api", "cpu"), Disable("api", "gpu"), Disable("api", "ze"),
    Disable("kernel", "cpu"), Disable("kernel", "gpu"), Disable("kernel", "ze")>>
DeletingApi == <<Delete("api", "cpu"), Delete("api", "gpu"), Delete("api", "ze")>>
DeletingClKernel == <<Delete("kernel", "cpu"), Delete("kernel", "gpu"), DestroyInstanceStep>>

-----------------------------------------------------------------------------
(* The application's calls.                                                *)

Traced == phase \in {"running", "unload"}
Calls == LET sum(kind) == table[kind]["ze"] + table[kind]["cpu"] + table[kind]["gpu"]
         IN  sum("api") + sum("kernel")

\* A thread enters a function of a backend: enter callbacks of the collectors
\* that are enabled.
EnterFunction(t, backend) ==
  /\ Traced /\ thr[t] = Idle /\ Calls < MaxCalls
  /\ LET kinds == {kind \in Kinds : collector[kind][backend] = "enabled"}
     IN  /\ kinds # {}
         /\ thr' = [thr EXCEPT ![t] = [in |-> "function", backend |-> backend, kinds |-> kinds]]
  /\ UNCHANGED <<options_, phase, at, collector, instance_, chrome_logger_, wrappers, table,
                 history>>

\* Calls and kernels of a backend are counted and written.
Count(backend, counts) ==
  /\ table' = [kind \in Kinds |-> [table[kind] EXCEPT ![backend] = @ + counts[kind]]]
  /\ written' = [kind \in Kinds |->
       IF counts[kind] > 0 THEN written[kind] \cup Lines(kind) ELSE written[kind]]

\* Exit callbacks.  The kernel collector finds any number of kernels finished, the
\* API collector counts the call and, of an OpenCL device, may give out a wrapper.
ExitFunction(t, finished, address) ==
  /\ InFunction(t)
  /\ finished > 0 => "kernel" \in thr[t].kinds
  /\ address => "api" \in thr[t].kinds /\ thr[t].backend \in ClBackends
  /\ Count(thr[t].backend,
           [api |-> IF "api" \in thr[t].kinds THEN 1 ELSE 0, kernel |-> finished])
  /\ wrappers' = IF address THEN wrappers \cup {thr[t].backend} ELSE wrappers
  /\ thr' = [thr EXCEPT ![t] = Idle]
  /\ UNCHANGED <<options_, phase, at, collector, instance_, chrome_logger_, reported, open,
                 late>>

\* What the wrappers of a device use: the extension collector (instance_ still points
\* to it when it is deleted), the API collector behind it, the logger.
Backed(device) ==
  /\ instance_.state = "live" /\ device \in instance_.collectors
  /\ collector["api"][device] \in {"enabled", "disabled"}
  /\ WritesTimeline("api") => chrome_logger_ = "live"

\* The application has the addresses of the wrappers as long as its threads run.
BeginWrapper(t, device) ==
  /\ phase \in {"running", "unload", "untraced"} /\ thr[t] = Idle /\ Calls < MaxCalls
  /\ device \in wrappers
  /\ IF Backed(device)
       THEN /\ thr' = [thr EXCEPT ![t] = [in |-> "wrapper", backend |-> device]]
            /\ UNCHANGED phase
       ELSE /\ phase' = "undefined"
            /\ UNCHANGED thr
  /\ UNCHANGED <<options_, at, collector, instance_, chrome_logger_, wrappers, table, history>>

\* The tables have been printed.
Printed == at > Len(Disabling) + 1

EndWrapper(t) ==
  /\ InWrapper(t) /\ phase \in {"running", "unload", "untraced"}
  /\ \/ /\ Backed(thr[t].backend)
        /\ Count(thr[t].backend, [api |-> 1, kernel |-> 0])
        /\ late' = IF Printed THEN [late EXCEPT ![thr[t].backend] = @ + 1] ELSE late
        /\ thr' = [thr EXCEPT ![t] = Idle]
        /\ UNCHANGED phase
     \/ /\ ~Backed(thr[t].backend)
        /\ phase' = "undefined"
        /\ UNCHANGED <<thr, table, written, late>>
  /\ UNCHANGED <<options_, at, collector, instance_, chrome_logger_, wrappers, reported, open>>

-----------------------------------------------------------------------------
(* The destructor, step by step.                                           *)

\* Fault: the logger goes before the collectors that write to it.
TeardownLoggerFirst ==
  Disabling \o <<ReportStep, DeleteLoggerStep>> \o DeletingApi \o DeletingClKernel
    \o <<Delete("kernel", "ze")>>

\* Fault: the results are printed while functions are traced.
TeardownReportFirst ==
  <<ReportStep>> \o Disabling \o DeletingApi \o DeletingClKernel
    \o <<Delete("kernel", "ze"), DeleteLoggerStep>>

Teardown ==
  Disabling \o <<ReportStep>> \o DeletingApi \o DeletingClKernel
    \o <<Delete("kernel", "ze"), DeleteLoggerStep>>

\* A table is for each backend with a collector that has counted something.
Tables(title, kind) ==
  {[table |-> title, backend |-> backend, count |-> table[kind][backend]] :
     backend \in {b \in Backends : collector[kind][b] # "none" /\ table[kind][b] > 0}}

\* FTRACE_ASSERT(ze_collector != nullptr || ...) of ReportTiming and of
\* ReportKernelSubmission.
HasCollectors(kind) == \E backend \in Backends : collector[kind][backend] # "none"

Reported ==
  UNION {IF "HOST_TIMING" \in options_ THEN Tables("API", "api") ELSE {},
         IF "DEVICE_TIMING" \in options_ THEN Tables("Device", "kernel") ELSE {},
         IF "KERNEL_SUBMITTING" \in options_ THEN Tables("Submission", "kernel") ELSE {}}

\* A report without a collector fails its assertion.
ReportAborts ==
  \/ "HOST_TIMING" \in options_ /\ ~HasCollectors("api")
  \/ Asked({"DEVICE_TIMING", "KERNEL_SUBMITTING"}) /\ ~HasCollectors("kernel")

\* Unload calls DisableProfiling, which deletes the tracer if there is one, whatever
\* the threads of the application are doing.
Unload ==
  /\ phase = "running"
  /\ phase' = "unload"
  /\ UNCHANGED <<options_, at, collector, instance_, chrome_logger_, wrappers, thr, table,
                 history>>

\* One step of ~UnifiedTracer, of Unload or of a Create that gives up.
Destruct ==
  /\ phase \in {"unload", "delete"} /\ at \in DOMAIN Teardown
  /\ LET step == Teardown[at]
         is(do) == step.do = do
         exists == collector[step.kind][step.backend] # "none"
     IN
     /\ CASE is("disable") ->
               exists /\ step.backend \in ClBackends => Inside(step.kind, step.backend) = {}
          [] is("delete") -> exists => Inside(step.kind, step.backend) = {}
          [] OTHER -> TRUE
     /\ collector' =
          CASE is("disable") /\ exists -> [collector EXCEPT ![step.kind][step.backend] = "disabled"]
            [] is("delete") /\ exists -> [collector EXCEPT ![step.kind][step.backend] = "deleted"]
            [] OTHER -> collector
     /\ instance_' =
          IF is("instance") /\ instance_.state = "live"
               /\ \E device \in ClBackends : collector["kernel"][device] # "none"
            THEN [instance_ EXCEPT !.state = "deleted"] ELSE instance_
     /\ chrome_logger_' =
          IF is("logger") /\ chrome_logger_ = "live" THEN "deleted" ELSE chrome_logger_
     /\ reported' = IF is("report") THEN Reported ELSE reported
     /\ open' = IF is("report")
                  THEN [kind \in Kinds |->
                         [backend \in Backends |-> Cardinality(Inside(kind, backend))]]
                  ELSE open
     /\ phase' = IF is("report") /\ ReportAborts THEN "aborted"
                 ELSE IF at = Len(Teardown) THEN "untraced" ELSE phase
  /\ at' = at + 1
  /\ UNCHANGED <<options_, wrappers, thr, table, written, late>>

-----------------------------------------------------------------------------
Next ==
  \/ Construct
  \/ \E made \in SUBSET Backends : CreateKernelCollectors(made) \/ CreateApiCollectors(made)
  \/ \E t \in Threads :
       \/ \E backend \in Backends : EnterFunction(t, backend)
       \/ \E finished \in 0..MaxKernels, address \in BOOLEAN : ExitFunction(t, finished, address)
       \/ \E device \in ClBackends : BeginWrapper(t, device)
       \/ EndWrapper(t)
  \/ Unload
  \/ Destruct

Spec == Init /\ [][Next]_vars

-----------------------------------------------------------------------------
(* Correctness.                                                            *)

\* What a thread between two callbacks is going to use exists whatever the destructor
\* has come to: its collectors, and the logger of the JSON file (FTRACE_ASSERT(
\* chrome_logger_ != nullptr)).  A wrapper can count on its objects until the tables are
\* printed; only then may one that is in progress, or called later, find them deleted.
NoUseAfterDelete ==
  /\ \A t \in Threads :
       /\ InFunction(t) => \A kind \in thr[t].kinds :
            /\ collector[kind][thr[t].backend] \in {"enabled", "disabled"}
            /\ WritesTimeline(kind) => chrome_logger_ = "live"
       /\ InWrapper(t) /\ ~Printed => Backed(thr[t].backend)
  /\ phase = "undefined" => Printed

\* What the options ask for is what a finished call or kernel writes: a line
\* of the device timeline, JSON rows per queue, per kernel, per command and
\* stage, or per kernel and stage, a log line and a JSON row of a call.
Requested(kind) ==
  LET chosen(option) == option \in options_
      rows == IF chosen("CHROME_KERNEL_TIMELINE") THEN {"kernel"}
              ELSE IF chosen("CHROME_DEVICE_STAGES") THEN {"command"}
              ELSE IF chosen("CHROME_DEVICE_TIMELINE") THEN {"queue"} ELSE {}
      parts == IF chosen("CHROME_DEVICE_STAGES") THEN Stages ELSE {"executed"}
  IN  IF kind = "kernel"
        THEN {<<"json", row, part>> : row \in rows, part \in parts}
               \cup {<<"log", "queue", "times">> : o \in options_ \cap {"DEVICE_TIMELINE"}}
        ELSE {<<"log", "thread", "call">> : o \in options_ \cap {"CALL_LOGGING"}}
               \cup {<<"json", "thread", "call">> : o \in options_ \cap {"CHROME_CALL_LOGGING"}}

OutputsWritten ==
  \A kind \in Kinds :
    written[kind] = IF \E b \in Backends : table[kind][b] > 0 THEN Requested(kind) ELSE {}

\* The tables asked for of calls or kernels, and the counts one shows of a backend.
Titles(kind) ==
  IF kind = "api" THEN {"API" : o \in options_ \cap {"HOST_TIMING"}}
  ELSE {"Device" : o \in options_ \cap {"DEVICE_TIMING"}}
         \cup {"Submission" : o \in options_ \cap {"KERNEL_SUBMITTING"}}

Counts(title, backend) ==
  {r.count : r \in {q \in reported : q.table = title /\ q.backend = backend}}

\* When the tables are printed nobody is inside of an OpenCL collector, and later nobody
\* enters any: of OpenCL they contain every kernel, and every call but those of wrappers
\* that end later; of Level Zero, where functions go on, every call but the last one of
\* each thread inside, and every kernel if no thread is.
ReportFinal ==
  phase \in {"unload", "delete", "untraced"} /\ Printed =>
    \A kind \in Kinds, b \in Backends :
      /\ b \in ClBackends => open[kind][b] = 0
      /\ \A title \in Titles(kind) : \E n \in 0..table[kind][b] :
           /\ Counts(title, b) = {n} \ {0}
           /\ kind = "api" => table[kind][b] <= n + open[kind][b] + late[b]
           /\ kind = "kernel" /\ open[kind][b] = 0 => table[kind][b] = n
=============================================================================
