------------------------ MODULE UnifiedTracerProofs ------------------------
(***************************************************************************)
(* Proofs about UnifiedTracer for any sets of options, any finite number   *)
(* of threads and any number of calls.                                     *)
(***************************************************************************)
EXTENDS UnifiedTracer, FiniteSetTheorems, TLAPS

-----------------------------------------------------------------------------
(* The inductive invariant.  What exists is told by `at', the step of the  *)
(* destructor that is next.                                                *)

CallType ==
  {Idle} \cup [in : {"function"}, backend : Backends, kinds : SUBSET Kinds]
    \cup [in : {"wrapper"}, backend : ClBackends]

\* Types of the variables, except of the histories.
TypeOK ==
  /\ options_ \in OptionSets
  /\ phase \in {"construct", "kernels", "apis", "running", "unload", "delete", "aborted",
                "untraced", "undefined"}
  /\ at \in 1..16
  /\ collector \in [Kinds -> [Backends -> {"none", "enabled", "disabled", "deleted"}]]
  /\ instance_ \in [state : {"none", "live", "deleted"}, collectors : SUBSET ClBackends]
  /\ chrome_logger_ \in {"none", "live", "deleted"}
  /\ wrappers \in SUBSET ClBackends
  /\ thr \in [Threads -> CallType]
  /\ table \in [Kinds -> [Backends -> Nat]]
  /\ written = [kind \in Kinds |-> written[kind]]
  /\ open \in [Kinds -> [Backends -> Nat]]
  /\ late \in [Backends -> Nat]

\* The steps of Teardown that disable and delete a collector.
DisableAt(kind, backend) ==
  (IF kind = "api" THEN 0 ELSE 3)
    + (IF backend = "cpu" THEN 1 ELSE IF backend = "gpu" THEN 2 ELSE 3)
DeleteAt(kind, backend) ==
  (IF kind = "api" THEN 0 ELSE 3)
    + (IF backend = "cpu" THEN 8 ELSE IF backend = "gpu" THEN 9
       ELSE IF kind = "api" THEN 10 ELSE 11)
ReportAt == 7
LoggerAt == 15
InstanceAt == 13

\* Collectors are made in order, before anything is taken down.
Building ==
  /\ phase \in {"construct", "kernels", "apis", "running"} => at = 1
  /\ phase \in {"construct", "kernels"} => collector["kernel"] = NoCollectors
  /\ phase \in {"construct", "kernels", "apis"} => collector["api"] = NoCollectors

\* A collector that was made is enabled, disabled or deleted as far as the destructor
\* has come, and only such a collector has counted anything.
CollectorsShaped ==
  \A kind \in Kinds, b \in Backends :
    /\ collector[kind][b] # "none" =>
         collector[kind][b] = IF at <= DisableAt(kind, b) THEN "enabled"
                              ELSE IF at <= DeleteAt(kind, b) THEN "disabled" ELSE "deleted"
    /\ table[kind][b] > 0 => collector[kind][b] # "none"

\* The destructor waits: for who is in an OpenCL function to disable the collector,
\* for who is in one of Level Zero to delete it.
CallsAwaited ==
  \A t \in Threads : InFunction(t) =>
    /\ thr[t].kinds # {}
    /\ \A kind \in thr[t].kinds :
         /\ collector[kind][thr[t].backend] # "none"
         /\ at <= IF thr[t].backend = "ze" THEN DeleteAt(kind, "ze")
                  ELSE DisableAt(kind, thr[t].backend)

\* Wrappers are given out for devices whose API collector the extension collector knows,
\* which is there until its step; nothing is undefined before the tables are printed.
WrappersBacked ==
  /\ \A t \in Threads : InWrapper(t) => thr[t].backend \in wrappers
  /\ instance_.collectors = {d \in ClBackends : collector["api"][d] # "none"}
  /\ wrappers \subseteq instance_.collectors
  /\ instance_.collectors # {} /\ at <= InstanceAt => instance_.state = "live"
  /\ phase = "undefined" => at > ReportAt

\* The logger of the JSON file is there, if asked for, until the last step.
LoggerKept ==
  phase # "construct" /\ at <= LoggerAt => (chrome_logger_ = "live" <=> Asked(ChromeOptions))

\* What a table misses has happened since it was printed: calls of threads that were
\* inside then and no longer are, the kernels they found finished, and wrappers.
ReportKept ==
  at > ReportAt /\ phase # "aborted" =>
    \A kind \in Kinds, b \in Backends :
      /\ b \in ClBackends => open[kind][b] = 0
      /\ open[kind][b] = 0 => Inside(kind, b) = {}
      /\ \A title \in Titles(kind) : \E n \in 0..table[kind][b] :
           /\ Counts(title, b) = {n} \ {0}
           /\ kind = "api" =>
                table[kind][b] + Cardinality(Inside(kind, b)) <= n + open[kind][b] + late[b]
           /\ kind = "kernel" /\ open[kind][b] = 0 => table[kind][b] = n

IInv ==
  /\ TypeOK /\ Building /\ CollectorsShaped /\ CallsAwaited /\ WrappersBacked
  /\ LoggerKept /\ OutputsWritten /\ ReportKept

-----------------------------------------------------------------------------
(* The steps of the destructor and the choice of callbacks.                *)

LEMMA TeardownSteps ==
  /\ Len(Teardown) = 15
  /\ Teardown[1] = Disable("api", "cpu") /\ Teardown[2] = Disable("api", "gpu")
  /\ Teardown[3] = Disable("api", "ze") /\ Teardown[4] = Disable("kernel", "cpu")
  /\ Teardown[5] = Disable("kernel", "gpu") /\ Teardown[6] = Disable("kernel", "ze")
  /\ Teardown[7] = ReportStep
  /\ Teardown[8] = Delete("api", "cpu") /\ Teardown[9] = Delete("api", "gpu")
  /\ Teardown[10] = Delete("api", "ze") /\ Teardown[11] = Delete("kernel", "cpu")
  /\ Teardown[12] = Delete("kernel", "gpu") /\ Teardown[13] = DestroyInstanceStep
  /\ Teardown[14] = Delete("kernel", "ze") /\ Teardown[15] = DeleteLoggerStep
  /\ Len(Disabling) + 1 = ReportAt
  BY DEF Teardown, Disabling, DeletingApi, DeletingClKernel, ReportAt

\* The callbacks in the order in which Create tests for them.
LEMMA ChoiceList ==
  /\ DOMAIN Choices = 1..9
  /\ Choices[1] = <<{"DEVICE_TIMELINE", "CHROME_KERNEL_TIMELINE", "CHROME_DEVICE_STAGES"},
                    DeviceAndChromeKernelStagesCallback>>
  /\ Choices[2] = <<{"DEVICE_TIMELINE", "CHROME_DEVICE_TIMELINE"},
                    DeviceAndChromeDeviceCallback>>
  /\ Choices[3] = <<{"DEVICE_TIMELINE", "CHROME_KERNEL_TIMELINE"},
                    DeviceAndChromeKernelCallback>>
  /\ Choices[4] = <<{"DEVICE_TIMELINE", "CHROME_DEVICE_STAGES"},
                    DeviceAndChromeStagesCallback>>
  /\ Choices[5] = <<{"CHROME_KERNEL_TIMELINE", "CHROME_DEVICE_STAGES"},
                    ChromeKernelStagesCallback>>
  /\ Choices[6] = <<{"DEVICE_TIMELINE"}, DeviceTimelineCallback>>
  /\ Choices[7] = <<{"CHROME_DEVICE_TIMELINE"}, ChromeDeviceCallback>>
  /\ Choices[8] = <<{"CHROME_KERNEL_TIMELINE"}, ChromeKernelCallback>>
  /\ Choices[9] = <<{"CHROME_DEVICE_STAGES"}, ChromeStagesCallback>>
  BY DEF Choices, ForAllThree, ForTwo, ForOne

\* The first that fits is chosen, ...
LEMMA FirstFit ==
  ASSUME NEW k \in 1..9, Choices[k][1] \subseteq options_,
         \A j \in 1..9 : j < k => ~(Choices[j][1] \subseteq options_)
  PROVE  KernelCallback = Choices[k][2]
<1>. DEFINE fitting == {i \in DOMAIN Choices : Choices[i][1] \subseteq options_}
            first == CHOOSE i \in fitting : \A j \in fitting : i <= j
<1>1. DOMAIN Choices = 1..9
  BY ChoiceList
<1>2. k \in fitting /\ fitting \subseteq 1..9 /\ \A j \in fitting : k <= j
  BY <1>1
<1>. HIDE DEF fitting
<1>3. first \in fitting /\ \A j \in fitting : first <= j
  BY <1>2
<1>. HIDE DEF first
<1>4. first = k
  BY <1>2, <1>3
<1>. QED  BY <1>2, <1>4 DEF KernelCallback, fitting, first

\* ... and writes what the options ask for.
LEMMA CallbackAsRequested ==
  ASSUME TypeOK
  PROVE  KernelCallback = Requested("kernel")
<1>. DEFINE dt == "DEVICE_TIMELINE" \in options_
            cd == "CHROME_DEVICE_TIMELINE" \in options_
            ck == "CHROME_KERNEL_TIMELINE" \in options_
            cs == "CHROME_DEVICE_STAGES" \in options_
            Row(row) == {<<"json", row, s>> : s \in Stages}
            Timeline == {<<"log", "queue", "times">>}
<1>1. ~(cd /\ (ck \/ cs))
  BY OptionAssumption DEF TypeOK, Conflicting
<1>2. Requested("kernel") =
        (IF dt THEN Timeline ELSE {})
          \cup (IF ck THEN (IF cs THEN Row("kernel") ELSE {<<"json", "kernel", "executed">>})
                ELSE IF cs THEN Row("command")
                ELSE IF cd THEN {<<"json", "queue", "executed">>} ELSE {})
  <2>1. {<<"log", "queue", "times">> : o \in options_ \cap {"DEVICE_TIMELINE"}}
          = IF dt THEN Timeline ELSE {}
    OBVIOUS
  <2>2. ASSUME NEW row, NEW parts
        PROVE  {<<"json", r, part>> : r \in {row}, part \in parts}
                 = {<<"json", row, part>> : part \in parts}
    OBVIOUS
  <2>3. ASSUME NEW row
        PROVE  {<<"json", row, part>> : part \in {"executed"}} = {<<"json", row, "executed">>}
    OBVIOUS
  <2>4. ASSUME NEW parts
        PROVE  {<<"json", r, part>> : r \in {}, part \in parts} = {}
    OBVIOUS
  <2>. QED  BY <1>1, <2>1, <2>2, <2>3, <2>4 DEF Requested
<1>. DEFINE fits(k) == Choices[k][1] \subseteq options_
<1>3. /\ fits(1) <=> dt /\ ck /\ cs
      /\ fits(2) <=> dt /\ cd
      /\ fits(3) <=> dt /\ ck
      /\ fits(4) <=> dt /\ cs
      /\ fits(5) <=> ck /\ cs
      /\ fits(6) <=> dt
      /\ fits(7) <=> cd
      /\ fits(8) <=> ck
      /\ fits(9) <=> cs
  BY ChoiceList
<1>4. \A k \in 1..9 : fits(k) /\ (\A j \in 1..9 : j < k => ~fits(j)) => KernelCallback = Choices[k][2]
  BY FirstFit
<1>5. (\A k \in 1..9 : ~fits(k)) => KernelCallback = {}
  BY ChoiceList DEF KernelCallback
<1>. HIDE DEF fits
<1>6. KernelCallback =
        IF fits(1) THEN Choices[1][2] ELSE IF fits(2) THEN Choices[2][2]
        ELSE IF fits(3) THEN Choices[3][2] ELSE IF fits(4) THEN Choices[4][2]
        ELSE IF fits(5) THEN Choices[5][2] ELSE IF fits(6) THEN Choices[6][2]
        ELSE IF fits(7) THEN Choices[7][2] ELSE IF fits(8) THEN Choices[8][2]
        ELSE IF fits(9) THEN Choices[9][2] ELSE {}
  <2>1. CASE fits(1)
    BY <1>4, <2>1
  <2>2. CASE fits(2) /\ ~fits(1)
    BY <1>4, <2>2
  <2>3. CASE fits(3) /\ ~fits(1) /\ ~fits(2)
    BY <1>4, <2>3
  <2>4. CASE fits(4) /\ ~fits(1) /\ ~fits(2) /\ ~fits(3)
    BY <1>4, <2>4
  <2>5. CASE fits(5) /\ ~fits(1) /\ ~fits(2) /\ ~fits(3) /\ ~fits(4)
    BY <1>4, <2>5
  <2>6. CASE fits(6) /\ ~fits(1) /\ ~fits(2) /\ ~fits(3) /\ ~fits(4) /\ ~fits(5)
    BY <1>4, <2>6
  <2>7. CASE fits(7) /\ ~fits(1) /\ ~fits(2) /\ ~fits(3) /\ ~fits(4) /\ ~fits(5) /\ ~fits(6)
    BY <1>4, <2>7
  <2>8. CASE fits(8) /\ ~fits(1) /\ ~fits(2) /\ ~fits(3) /\ ~fits(4) /\ ~fits(5) /\ ~fits(6) /\ ~fits(7)
    BY <1>4, <2>8
  <2>9. CASE fits(9) /\ ~fits(1) /\ ~fits(2) /\ ~fits(3) /\ ~fits(4) /\ ~fits(5) /\ ~fits(6) /\ ~fits(7) /\ ~fits(8)
    BY <1>4, <2>9
  <2>10. CASE \A k \in 1..9 : ~fits(k)
    BY <1>5, <2>10
  <2>. QED  BY <2>1, <2>2, <2>3, <2>4, <2>5, <2>6, <2>7, <2>8, <2>9, <2>10
<1>7. /\ Choices[1][2] = Timeline \cup Row("kernel")
      /\ Choices[2][2] = Timeline \cup {<<"json", "queue", "executed">>}
      /\ Choices[3][2] = Timeline \cup {<<"json", "kernel", "executed">>}
      /\ Choices[4][2] = Timeline \cup Row("command")
      /\ Choices[5][2] = Row("kernel")
      /\ Choices[6][2] = Timeline
      /\ Choices[7][2] = {<<"json", "queue", "executed">>}
      /\ Choices[8][2] = {<<"json", "kernel", "executed">>}
      /\ Choices[9][2] = Row("command")
  BY ChoiceList DEF DeviceAndChromeKernelStagesCallback, DeviceAndChromeDeviceCallback,
     DeviceAndChromeKernelCallback, DeviceAndChromeStagesCallback,
     ChromeKernelStagesCallback, DeviceTimelineCallback, ChromeDeviceCallback,
     ChromeKernelCallback, ChromeStagesCallback
<1>. HIDE DEF Timeline, Row, dt, cd, ck, cs
<1>8. CASE ck /\ cs
  <2>1. CASE dt
    BY <1>2, <1>3, <1>6, <1>7, <1>8, <2>1
  <2>2. CASE ~dt
    BY <1>1, <1>2, <1>3, <1>6, <1>7, <1>8, <2>2, ZenonT(60)
  <2>. QED  BY <2>1, <2>2
<1>9. CASE ck /\ ~cs
  <2>1. CASE dt
    BY <1>1, <1>2, <1>3, <1>6, <1>7, <1>9, <2>1
  <2>2. CASE ~dt
    BY <1>1, <1>2, <1>3, <1>6, <1>7, <1>9, <2>2
  <2>. QED  BY <2>1, <2>2
<1>10. CASE ~ck /\ cs
  <2>1. CASE dt
    BY <1>1, <1>2, <1>3, <1>6, <1>7, <1>10, <2>1
  <2>2. CASE ~dt
    BY <1>1, <1>2, <1>3, <1>6, <1>7, <1>10, <2>2
  <2>. QED  BY <2>1, <2>2
<1>11. CASE ~ck /\ ~cs
  <2>1. CASE dt
    BY <1>2, <1>3, <1>6, <1>7, <1>11, <2>1
  <2>2. CASE ~dt
    BY <1>2, <1>3, <1>6, <1>7, <1>11, <2>2
  <2>. QED  BY <2>1, <2>2
<1>. QED  BY <1>8, <1>9, <1>10, <1>11

LEMMA LinesAsRequested ==
  ASSUME TypeOK, NEW kind \in Kinds
  PROVE  /\ Lines(kind) = Requested(kind)
         /\ WritesTimeline(kind) => Asked(ChromeOptions)
<1>. USE CallbackAsRequested
<1>1. CASE kind = "api"
  <2>1. Requested("api") =
          (IF "CALL_LOGGING" \in options_ THEN {<<"log", "thread", "call">>} ELSE {})
            \cup (IF "CHROME_CALL_LOGGING" \in options_ THEN {<<"json", "thread", "call">>}
                  ELSE {})
    BY DEF Requested
  <2>2. Lines("api") = Requested("api")
    BY <2>1 DEF Lines, CallLines, ChromeLoggingCallback
  <2>3. (\E line \in Requested("api") : line[1] = "json") => "CHROME_CALL_LOGGING" \in options_
    BY <2>1
  <2>. QED  BY <1>1, <2>2, <2>3 DEF WritesTimeline, Asked, ChromeOptions
<1>2. CASE kind = "kernel"
  <2>1. Lines(kind) = Requested("kernel")
    BY <1>2 DEF Lines
  <2>2. ASSUME NEW line \in Requested("kernel"), line[1] = "json"
        PROVE  options_ \cap {"CHROME_KERNEL_TIMELINE", "CHROME_DEVICE_STAGES",
                              "CHROME_DEVICE_TIMELINE"} # {}
    BY <2>2 DEF Requested
  <2>. QED  BY <1>2, <2>1, <2>2 DEF WritesTimeline, Asked, ChromeOptions
<1>. QED  BY <1>1, <1>2 DEF Kinds

-----------------------------------------------------------------------------
(* The invariant holds at first and is preserved by every step.            *)

LEMMA InitInv == Init => IInv
<1>. SUFFICES ASSUME Init PROVE IInv
  OBVIOUS
<1>1. TypeOK
  BY DEF Init, TypeOK, NoCollectors, CallType, Kinds, Backends
<1>2. Building
  BY DEF Init, Building, Kinds
<1>3. CollectorsShaped
  BY DEF Init, CollectorsShaped, NoCollectors
<1>4. CallsAwaited
  BY DEF Init, CallsAwaited, InFunction, Idle
<1>5. WrappersBacked
  BY DEF Init, WrappersBacked, InWrapper, Idle, NoCollectors, Kinds, Backends, ClBackends
<1>6. LoggerKept /\ ReportKept
  BY DEF Init, LoggerKept, ReportKept, ReportAt
<1>7. OutputsWritten
  BY DEF Init, OutputsWritten
<1>. QED  BY <1>1, <1>2, <1>3, <1>4, <1>5, <1>6, <1>7 DEF IInv

\* What the options ask for, once and for all, ...
LEMMA SameOptions ==
  ASSUME options_' = options_, NEW kind \in Kinds
  PROVE  Requested(kind)' = Requested(kind) /\ Titles(kind)' = Titles(kind)
  BY DEF Requested, Titles

\* ... is untouched by a step that counts no call ...
LEMMA NothingCounted ==
  ASSUME OutputsWritten, UNCHANGED <<options_, table, written>>
  PROVE  OutputsWritten'
<1>. SUFFICES ASSUME NEW kind \in Kinds
              PROVE  written'[kind] = IF \E b \in Backends : table'[kind][b] > 0
                                        THEN Requested(kind)' ELSE {}
  BY DEF OutputsWritten
<1>. QED  BY SameOptions DEF OutputsWritten

\* ... and so are the tables printed by one in which nobody enters or leaves.
LEMMA NothingReported ==
  ASSUME ReportKept, UNCHANGED <<options_, table, reported, thr, open, late>>,
         at > ReportAt, phase # "aborted"
  PROVE  ReportKept'
<1>1. \A kind \in Kinds, b \in Backends : Inside(kind, b)' = Inside(kind, b)
  BY DEF Inside, InFunction
<1>2. \A title, b : Counts(title, b)' = Counts(title, b)
  BY DEF Counts
<1>3. \A kind \in Kinds : Titles(kind)' = Titles(kind)
  BY SameOptions
<1>. QED  BY <1>1, <1>2, <1>3 DEF ReportKept

LEMMA ConstructInv ==
  ASSUME IInv, Construct
  PROVE  IInv'
<1>1. at = 1
  BY DEF IInv, Building, Construct
<1>2. TypeOK'
  BY DEF IInv, TypeOK, Construct, history
<1>3. Building' /\ CollectorsShaped' /\ CallsAwaited' /\ WrappersBacked'
  BY DEF IInv, Construct, Building, CollectorsShaped, CallsAwaited, WrappersBacked, InFunction,
         InWrapper
<1>4. LoggerKept'
  BY DEF Construct, LoggerKept, Asked
<1>5. OutputsWritten'
  BY NothingCounted DEF IInv, Construct, history
<1>6. ReportKept'
  BY <1>1 DEF Construct, ReportKept, ReportAt
<1>. QED  BY <1>2, <1>3, <1>4, <1>5, <1>6 DEF IInv

LEMMA CreateKernelCollectorsInv ==
  ASSUME IInv, NEW made \in SUBSET Backends, CreateKernelCollectors(made)
  PROVE  IInv'
<1>1. at = 1 /\ at' = 1 /\ phase = "kernels" /\ phase' \in {"apis", "delete"}
  BY DEF IInv, Building, CreateKernelCollectors
<1>2. /\ collector'["api"] = collector["api"]
      /\ collector'["kernel"] \in [Backends -> {"none", "enabled"}]
      /\ collector' \in [Kinds -> [Backends -> {"none", "enabled", "disabled", "deleted"}]]
  BY DEF IInv, TypeOK, CreateKernelCollectors, Made, Kinds, Backends
<1>3. /\ collector["kernel"] = NoCollectors /\ collector["api"] = NoCollectors
      /\ \A kind \in Kinds, b \in Backends : collector[kind][b] = "none"
  BY <1>1 DEF IInv, Building, NoCollectors, Kinds
<1>4. \A t \in Threads : ~InFunction(t)
  BY <1>3 DEF IInv, CallsAwaited, InFunction, TypeOK, CallType, Idle
<1>5. TypeOK'
  BY <1>1, <1>2 DEF IInv, TypeOK, CreateKernelCollectors, history
<1>6. Building'
  BY <1>1, <1>2, <1>3 DEF Building
<1>7. CollectorsShaped'
  BY <1>1, <1>2, <1>3
     DEF IInv, CollectorsShaped, DisableAt, DeleteAt, CreateKernelCollectors, Kinds, NoCollectors
<1>8. CallsAwaited'
  BY <1>4 DEF CallsAwaited, InFunction, CreateKernelCollectors
<1>9. WrappersBacked'
  BY <1>1, <1>2 DEF IInv, WrappersBacked, InWrapper, CreateKernelCollectors
<1>10. LoggerKept'
  BY <1>1 DEF IInv, LoggerKept, CreateKernelCollectors, Asked
<1>11. OutputsWritten'
  BY NothingCounted DEF IInv, CreateKernelCollectors, history
<1>12. ReportKept'
  BY <1>1 DEF ReportKept, ReportAt
<1>. QED  BY <1>5, <1>6, <1>7, <1>8, <1>9, <1>10, <1>11, <1>12 DEF IInv

LEMMA CreateApiCollectorsInv ==
  ASSUME IInv, NEW made \in SUBSET Backends, CreateApiCollectors(made)
  PROVE  IInv'
<1>1. at = 1 /\ at' = 1 /\ phase = "apis" /\ phase' \in {"running", "delete"}
  BY DEF IInv, Building, CreateApiCollectors
<1>2. /\ collector'["kernel"] = collector["kernel"]
      /\ collector'["api"] = Made(made)
      /\ Made(made) \in [Backends -> {"none", "enabled"}]
      /\ \A b \in Backends : Made(made)[b] # "none" <=> b \in made
      /\ collector' \in [Kinds -> [Backends -> {"none", "enabled", "disabled", "deleted"}]]
  BY DEF IInv, TypeOK, CreateApiCollectors, Made, Kinds, Backends
<1>3. collector["api"] = NoCollectors /\ \A b \in Backends : collector["api"][b] = "none"
  BY <1>1 DEF IInv, Building, NoCollectors
<1>4. \A t \in Threads : InFunction(t) => "api" \notin thr[t].kinds
  BY <1>3 DEF IInv, CallsAwaited, InFunction, TypeOK, CallType, Idle
<1>5. TypeOK'
  <2>1. instance_' \in [state : {"none", "live", "deleted"}, collectors : SUBSET ClBackends]
    BY DEF IInv, TypeOK, CreateApiCollectors
  <2>. QED  BY <1>1, <1>2, <2>1 DEF IInv, TypeOK, CreateApiCollectors, history
<1>6. Building'
  BY <1>1 DEF Building
<1>7. CollectorsShaped'
  BY <1>1, <1>2, <1>3
     DEF IInv, CollectorsShaped, DisableAt, DeleteAt, CreateApiCollectors, Kinds
<1>8. CallsAwaited'
  BY <1>1, <1>2, <1>4
     DEF IInv, CallsAwaited, InFunction, CreateApiCollectors, TypeOK, CallType, Kinds, Idle
<1>9. WrappersBacked'
  <2>1. instance_.collectors = {} /\ wrappers = {}
    BY <1>3 DEF IInv, WrappersBacked, ClBackends, Backends
  <2>2. \A t \in Threads : ~InWrapper(t)
    BY <2>1 DEF IInv, WrappersBacked
  <2>3. instance_'.collectors = made \cap ClBackends
    BY <2>1 DEF CreateApiCollectors, NeedsInstance
  <2>4. instance_'.collectors # {} => instance_'.state = "live"
    BY <2>1 DEF CreateApiCollectors, NeedsInstance
  <2>5. wrappers' = {} /\ thr' = thr
    BY <2>1 DEF CreateApiCollectors
  <2>6. {d \in ClBackends : collector'["api"][d] # "none"} = made \cap ClBackends
    BY <1>2 DEF ClBackends, Backends
  <2>7. phase' # "undefined"
    BY <1>1
  <2>. QED  BY <2>2, <2>3, <2>4, <2>5, <2>6, <2>7 DEF WrappersBacked, InWrapper
<1>10. LoggerKept'
  BY <1>1 DEF IInv, LoggerKept, CreateApiCollectors, Asked
<1>11. OutputsWritten'
  BY NothingCounted DEF IInv, CreateApiCollectors, history
<1>12. ReportKept'
  BY <1>1 DEF ReportKept, ReportAt
<1>. QED  BY <1>5, <1>6, <1>7, <1>8, <1>9, <1>10, <1>11, <1>12 DEF IInv

\* Threads of Level Zero's functions are finitely many.
LEMMA InsideFinite ==
  ASSUME NEW kind, NEW b
  PROVE  /\ Inside(kind, b) \subseteq Threads /\ IsFiniteSet(Inside(kind, b))
         /\ Cardinality(Inside(kind, b)) \in Nat /\ Cardinality(Threads) \in Nat
         /\ Cardinality(Inside(kind, b)) <= Cardinality(Threads)
<1>1. Inside(kind, b) \subseteq Threads
  BY DEF Inside
<1>. QED  BY <1>1, ThreadAssumption, FS_Subset, FS_CardinalityType

LEMMA EnterFunctionInv ==
  ASSUME IInv, NEW t \in Threads, NEW backend \in Backends, EnterFunction(t, backend)
  PROVE  IInv'
<1>. DEFINE kinds == {kind \in Kinds : collector[kind][backend] = "enabled"}
            call == [in |-> "function", backend |-> backend, kinds |-> kinds]
<1>1. /\ kinds # {} /\ thr' = [thr EXCEPT ![t] = call] /\ Traced
      /\ UNCHANGED <<options_, phase, at, collector, instance_, chrome_logger_, wrappers, table,
                     history>>
  BY DEF EnterFunction
<1>2. \A u \in Threads : thr'[u] = IF u = t THEN call ELSE thr[u]
  BY <1>1 DEF IInv, TypeOK
<1>3. \A kind \in kinds : at <= DisableAt(kind, backend) /\ at < ReportAt
                          /\ DisableAt(kind, backend) <= DeleteAt(kind, backend)
  BY DEF IInv, CollectorsShaped, DisableAt, DeleteAt, ReportAt, TypeOK
<1>4. TypeOK'
  <2>1. call \in CallType
    BY DEF CallType
  <2>. QED  BY <1>1, <2>1 DEF IInv, TypeOK, history
<1>5. Building' /\ CollectorsShaped' /\ LoggerKept'
  BY <1>1 DEF IInv, Building, CollectorsShaped, LoggerKept, Asked
<1>6. CallsAwaited'
  <2>. SUFFICES ASSUME NEW u \in Threads, InFunction(u)'
                PROVE  /\ thr'[u].kinds # {}
                       /\ \A kind \in thr'[u].kinds :
                            /\ collector[kind][thr'[u].backend] # "none"
                            /\ at <= IF thr'[u].backend = "ze" THEN DeleteAt(kind, "ze")
                                     ELSE DisableAt(kind, thr'[u].backend)
    BY <1>1 DEF CallsAwaited
  <2>1. CASE u = t
    <3>. HIDE DEF kinds
    <3>0. thr'[u] = call
      BY <1>2, <2>1
    <3>1. thr'[u].kinds = kinds /\ thr'[u].backend = backend
      BY <3>0
    <3>2. \A kind \in kinds : collector[kind][backend] # "none"
      BY DEF kinds
    <3>. QED  BY <1>1, <1>3, <3>1, <3>2 DEF IInv, TypeOK, DisableAt, DeleteAt
  <2>2. CASE u # t
    BY <1>2, <2>2 DEF IInv, CallsAwaited, InFunction
  <2>. QED  BY <2>1, <2>2
<1>7. WrappersBacked'
  BY <1>1, <1>2 DEF IInv, WrappersBacked, InWrapper
<1>8. OutputsWritten'
  BY <1>1, NothingCounted DEF IInv, history
<1>9. ReportKept'
  BY <1>1, <1>3 DEF ReportKept, ReportAt, IInv, TypeOK
<1>. QED  BY <1>4, <1>5, <1>6, <1>7, <1>8, <1>9 DEF IInv

\* Calls and kernels, of which collectors exist, are counted and written.
LEMMA CountKeeps ==
  ASSUME IInv, NEW counts \in [Kinds -> Nat], NEW backend \in Backends, Count(backend, counts),
         \A kind \in Kinds : counts[kind] > 0 => collector[kind][backend] # "none",
         collector' = collector, options_' = options_, at' = at
  PROVE  /\ CollectorsShaped' /\ OutputsWritten'
         /\ table' \in [Kinds -> [Backends -> Nat]] /\ written' = [kind \in Kinds |-> written'[kind]]
         /\ \A kind \in Kinds, b \in Backends :
              table'[kind][b] = IF b = backend THEN table[kind][b] + counts[kind]
                                ELSE table[kind][b]
<1>0. \A kind \in Kinds, b \in Backends : table[kind][b] \in Nat /\ counts[kind] \in Nat
  BY DEF IInv, TypeOK
<1>1. \A kind \in Kinds, b \in Backends :
        table'[kind][b] = IF b = backend THEN table[kind][b] + counts[kind] ELSE table[kind][b]
  BY DEF Count, IInv, TypeOK
<1>2. table' \in [Kinds -> [Backends -> Nat]]
  BY DEF Count, IInv, TypeOK
<1>3. CollectorsShaped'
  <2>. SUFFICES ASSUME NEW kind \in Kinds, NEW b \in Backends
                PROVE  table'[kind][b] > 0 => collector[kind][b] # "none"
    BY DEF IInv, CollectorsShaped, DisableAt, DeleteAt
  <2>. QED  BY <1>0, <1>1 DEF IInv, CollectorsShaped
<1>4. OutputsWritten'
  <2>. SUFFICES ASSUME NEW kind \in Kinds
                PROVE  written'[kind] = IF \E b \in Backends : table'[kind][b] > 0
                                          THEN Requested(kind)' ELSE {}
    BY DEF OutputsWritten
  <2>1. Requested(kind)' = Requested(kind)
    BY SameOptions
  <2>2. CASE counts[kind] > 0
    <3>1. table'[kind][backend] > 0
      BY <1>0, <1>1, <2>2
    <3>2. written'[kind] = written[kind] \cup Requested(kind)
      BY <2>2, LinesAsRequested DEF Count, IInv
    <3>. QED  BY <2>1, <3>1, <3>2 DEF IInv, OutputsWritten
  <2>3. CASE ~(counts[kind] > 0)
    <3>1. \A b \in Backends : table'[kind][b] = table[kind][b]
      BY <1>0, <1>1, <2>3
    <3>2. written'[kind] = written[kind]
      BY <2>3 DEF Count
    <3>. QED  BY <2>1, <3>1, <3>2 DEF IInv, OutputsWritten
  <2>. QED  BY <2>2, <2>3
<1>5. written' = [kind \in Kinds |-> written'[kind]]
  BY DEF Count
<1>. QED  BY <1>1, <1>2, <1>3, <1>4, <1>5

\* Nobody is inside of an OpenCL collector when the tables are printed, or later.
LEMMA OpenClLeft ==
  ASSUME IInv, at >= ReportAt, NEW kind \in Kinds, NEW b \in ClBackends
  PROVE  Inside(kind, b) = {}
<1>. SUFFICES ASSUME NEW t \in Inside(kind, b) PROVE FALSE
  OBVIOUS
<1>1. InFunction(t) /\ kind \in thr[t].kinds /\ thr[t].backend = b /\ t \in Threads
  BY DEF Inside
<1>2. at <= DisableAt(kind, b)
  BY <1>1 DEF IInv, CallsAwaited, ClBackends
<1>3. DisableAt(kind, b) \in 1..6
  BY DEF DisableAt, Kinds, ClBackends
<1>. QED  BY <1>2, <1>3 DEF IInv, TypeOK, ReportAt

LEMMA ExitFunctionInv ==
  ASSUME IInv, NEW t \in Threads, NEW finished \in 0..MaxKernels, NEW address \in BOOLEAN,
         ExitFunction(t, finished, address)
  PROVE  IInv'
<1>. DEFINE backend == thr[t].backend
            counts == [api |-> IF "api" \in thr[t].kinds THEN 1 ELSE 0, kernel |-> finished]
<1>1. /\ InFunction(t) /\ Count(backend, counts) /\ thr' = [thr EXCEPT ![t] = Idle]
      /\ wrappers' = IF address THEN wrappers \cup {backend} ELSE wrappers
      /\ UNCHANGED <<options_, phase, at, collector, instance_, chrome_logger_, reported, open,
                     late>>
  BY DEF ExitFunction
<1>2. /\ backend \in Backends /\ thr[t].kinds \subseteq Kinds
      /\ counts \in [Kinds -> Nat] /\ counts["kernel"] = finished /\ finished \in Nat
      /\ counts["api"] = IF "api" \in thr[t].kinds THEN 1 ELSE 0
      /\ \A kind \in Kinds : counts[kind] > 0 => kind \in thr[t].kinds
  <2>1. backend \in Backends /\ thr[t].kinds \subseteq Kinds
    BY <1>1 DEF IInv, TypeOK, CallType, InFunction, Idle
  <2>2. finished \in Nat
    BY BoundAssumption
  <2>3. counts \in [Kinds -> Nat]
    BY <2>2 DEF Kinds
  <2>4. finished > 0 => "kernel" \in thr[t].kinds
    BY DEF ExitFunction
  <2>. QED  BY <2>1, <2>2, <2>3, <2>4 DEF Kinds
<1>3. \A kind \in thr[t].kinds : collector[kind][backend] # "none"
  BY <1>1 DEF IInv, CallsAwaited
<1>6. address => backend \in ClBackends /\ collector["api"][backend] # "none"
  BY <1>3 DEF ExitFunction, backend
<1>. HIDE DEF counts, backend
<1>4. /\ CollectorsShaped' /\ OutputsWritten'
      /\ table' \in [Kinds -> [Backends -> Nat]] /\ written' = [kind \in Kinds |-> written'[kind]]
      /\ \A kind \in Kinds, b \in Backends :
           table'[kind][b] = IF b = backend THEN table[kind][b] + counts[kind] ELSE table[kind][b]
  BY <1>1, <1>2, <1>3, CountKeeps
<1>5. \A u \in Threads : thr'[u] = IF u = t THEN Idle ELSE thr[u]
  BY <1>1 DEF IInv, TypeOK
<1>7. TypeOK'
  BY <1>1, <1>4, <1>6 DEF IInv, TypeOK, CallType
<1>8. Building' /\ LoggerKept'
  BY <1>1 DEF IInv, Building, LoggerKept, Asked
<1>9. CallsAwaited'
  BY <1>1, <1>5 DEF IInv, CallsAwaited, InFunction, Idle
<1>10. WrappersBacked'
  BY <1>1, <1>5, <1>6 DEF IInv, WrappersBacked, InWrapper, Idle
<1>11. ReportKept'
  <2>. SUFFICES ASSUME at > ReportAt, phase # "aborted", NEW kind \in Kinds, NEW b \in Backends
                PROVE  /\ b \in ClBackends => open[kind][b] = 0
                       /\ open[kind][b] = 0 => Inside(kind, b)' = {}
                       /\ \A title \in Titles(kind) : \E n \in 0..table'[kind][b] :
                            /\ Counts(title, b)' = {n} \ {0}
                            /\ kind = "api" =>
                                 table'[kind][b] + Cardinality(Inside(kind, b)')
                                   <= n + open[kind][b] + late[b]
                            /\ kind = "kernel" /\ open[kind][b] = 0 => table'[kind][b] = n
    BY <1>1, SameOptions DEF ReportKept
  <2>1. Inside(kind, b)' = Inside(kind, b) \ {t}
    BY <1>5, <1>1 DEF Inside, InFunction, Idle
  <2>2. /\ b \in ClBackends => open[kind][b] = 0
        /\ open[kind][b] = 0 => Inside(kind, b) = {}
    BY DEF IInv, ReportKept
  <2>3. b = backend /\ counts[kind] > 0 => t \in Inside(kind, b)
    BY <1>1, <1>2 DEF Inside, backend
  <2>4. ASSUME NEW title \in Titles(kind)
        PROVE  \E n \in 0..table'[kind][b] :
                 /\ Counts(title, b)' = {n} \ {0}
                 /\ kind = "api" => table'[kind][b] + Cardinality(Inside(kind, b)')
                                      <= n + open[kind][b] + late[b]
                 /\ kind = "kernel" /\ open[kind][b] = 0 => table'[kind][b] = n
    <3>1. PICK n \in 0..table[kind][b] :
            /\ Counts(title, b) = {n} \ {0}
            /\ kind = "api" =>
                 table[kind][b] + Cardinality(Inside(kind, b)) <= n + open[kind][b] + late[b]
            /\ kind = "kernel" /\ open[kind][b] = 0 => table[kind][b] = n
      BY <2>4 DEF IInv, ReportKept
    <3>2. /\ table[kind][b] \in Nat /\ counts[kind] \in Nat /\ open[kind][b] \in Nat
          /\ late[b] \in Nat
      BY <1>2 DEF IInv, TypeOK
    <3>3. table'[kind][b] = IF b = backend THEN table[kind][b] + counts[kind] ELSE table[kind][b]
      BY <1>4
    <3>4. Counts(title, b)' = Counts(title, b)
      BY <1>1 DEF Counts
    <3>5. kind = "kernel" /\ open[kind][b] = 0 => table'[kind][b] = n
      BY <2>2, <2>3, <3>1, <3>2, <3>3
    <3>6. n \in 0..table'[kind][b]
      BY <3>1, <3>2, <3>3
    <3>7. ASSUME kind = "api"
          PROVE  table'[kind][b] + Cardinality(Inside(kind, b)') <= n + open[kind][b] + late[b]
      <4>1. Cardinality(Inside(kind, b)) \in Nat
        BY InsideFinite
      <4>2. table[kind][b] + Cardinality(Inside(kind, b)) <= n + open[kind][b] + late[b]
        BY <3>1, <3>7
      <4>3. CASE t \in Inside(kind, b)
        <5>1. Cardinality(Inside(kind, b)') = Cardinality(Inside(kind, b)) - 1
          BY <2>1, <4>3, InsideFinite, FS_RemoveElement
        <5>2. counts[kind] <= 1
          BY <1>2, <3>7
        <5>. QED  BY <3>1, <3>2, <3>3, <4>1, <4>2, <5>1, <5>2
      <4>4. CASE t \notin Inside(kind, b)
        <5>1. Inside(kind, b)' = Inside(kind, b)
          BY <2>1, <4>4
        <5>2. table'[kind][b] = table[kind][b]
          BY <2>3, <3>2, <3>3, <4>4
        <5>. QED  BY <4>2, <5>1, <5>2
      <4>. QED  BY <4>3, <4>4
    <3>. QED  BY <3>1, <3>4, <3>5, <3>6, <3>7
  <2>. QED  BY <2>1, <2>2, <2>4
<1>. QED  BY <1>4, <1>7, <1>8, <1>9, <1>10, <1>11 DEF IInv

\* What a wrapper uses is there until the tables are printed.
LEMMA BackedUntilPrinted ==
  ASSUME IInv, at <= ReportAt, NEW device \in wrappers
  PROVE  Backed(device)
<1>1. /\ device \in instance_.collectors /\ instance_.state = "live" /\ device \in ClBackends
      /\ collector["api"][device] # "none"
  BY DEF IInv, TypeOK, WrappersBacked, ReportAt, InstanceAt
<1>2. /\ DisableAt("api", device) \in 1..6 /\ DeleteAt("api", device) \in 8..14
      /\ "api" \in Kinds /\ device \in Backends
  BY <1>1 DEF DisableAt, DeleteAt, Kinds, Backends, ClBackends
<1>3. collector["api"][device] \in {"enabled", "disabled"}
  BY <1>1, <1>2 DEF IInv, TypeOK, CollectorsShaped, ReportAt
<1>4. phase # "construct"
  BY <1>1 DEF IInv, Building, NoCollectors, ClBackends, Backends
<1>5. WritesTimeline("api") => chrome_logger_ = "live"
  BY <1>2, <1>4, LinesAsRequested DEF IInv, LoggerKept, LoggerAt, ReportAt, TypeOK
<1>. QED  BY <1>1, <1>3, <1>5 DEF Backed

\* With a deleted object nothing changes but the phase.
LEMMA UndefinedInv ==
  ASSUME IInv, phase' = "undefined", at > ReportAt, phase # "aborted",
         UNCHANGED <<options_, at, collector, instance_, chrome_logger_, wrappers, thr, table,
                     history>>
  PROVE  IInv'
<1>1. TypeOK'
  BY DEF IInv, TypeOK, history
<1>2. Building' /\ CollectorsShaped'
  BY DEF IInv, Building, CollectorsShaped, DisableAt, DeleteAt
<1>3. LoggerKept'
  BY DEF IInv, TypeOK, Building, LoggerKept, Asked, ReportAt
<1>4. CallsAwaited' /\ WrappersBacked'
  BY DEF IInv, CallsAwaited, WrappersBacked, InFunction, InWrapper, DisableAt, DeleteAt
<1>5. OutputsWritten'
  BY NothingCounted DEF IInv, history
<1>6. ReportKept'
  BY NothingReported DEF IInv, history
<1>. QED  BY <1>1, <1>2, <1>3, <1>4, <1>5, <1>6 DEF IInv

LEMMA BeginWrapperInv ==
  ASSUME IInv, NEW t \in Threads, NEW device \in ClBackends, BeginWrapper(t, device)
  PROVE  IInv'
<1>1. /\ device \in wrappers /\ thr[t] = Idle /\ phase \notin {"construct", "aborted", "undefined"}
      /\ UNCHANGED <<options_, at, collector, instance_, chrome_logger_, wrappers, table, history>>
  BY DEF BeginWrapper
<1>2. CASE ~Backed(device)
  <2>1. phase' = "undefined" /\ thr' = thr
    BY <1>2 DEF BeginWrapper
  <2>2. at > ReportAt
    BY <1>1, <1>2, BackedUntilPrinted DEF IInv, TypeOK, ReportAt
  <2>. QED  BY <1>1, <2>1, <2>2, UndefinedInv
<1>3. CASE Backed(device)
  <2>. DEFINE call == [in |-> "wrapper", backend |-> device]
  <2>1. thr' = [thr EXCEPT ![t] = call] /\ phase' = phase
    BY <1>3 DEF BeginWrapper
  <2>2. \A u \in Threads : thr'[u] = IF u = t THEN call ELSE thr[u]
    BY <2>1 DEF IInv, TypeOK
  <2>3. TypeOK'
    BY <1>1, <2>1 DEF IInv, TypeOK, CallType, history
  <2>4. Building' /\ CollectorsShaped' /\ LoggerKept'
    BY <1>1, <2>1 DEF IInv, Building, CollectorsShaped, LoggerKept, Asked
  <2>5. CallsAwaited'
    BY <1>1, <2>2 DEF IInv, CallsAwaited, InFunction
  <2>6. WrappersBacked'
    BY <1>1, <2>1, <2>2 DEF IInv, WrappersBacked, InWrapper
  <2>7. OutputsWritten'
    BY <1>1, NothingCounted DEF IInv, history
  <2>8. ReportKept'
    <3>1. \A kind \in Kinds, b \in Backends : Inside(kind, b)' = Inside(kind, b)
      BY <1>1, <2>2 DEF Inside, InFunction, Idle
    <3>2. \A title, b : Counts(title, b)' = Counts(title, b)
      BY <1>1 DEF Counts, history
    <3>3. \A kind \in Kinds : Titles(kind)' = Titles(kind)
      BY <1>1, SameOptions
    <3>. QED  BY <1>1, <2>1, <3>1, <3>2, <3>3 DEF IInv, ReportKept, history
  <2>. QED  BY <2>3, <2>4, <2>5, <2>6, <2>7, <2>8 DEF IInv
<1>. QED  BY <1>2, <1>3

LEMMA EndWrapperInv ==
  ASSUME IInv, NEW t \in Threads, EndWrapper(t)
  PROVE  IInv'
<1>. DEFINE device == thr[t].backend
            counts == [api |-> 1, kernel |-> 0]
<1>1. /\ InWrapper(t) /\ phase \notin {"construct", "aborted", "undefined"}
      /\ UNCHANGED <<options_, at, collector, instance_, chrome_logger_, wrappers, reported, open>>
  BY DEF EndWrapper
<1>2. device \in wrappers /\ device \in ClBackends /\ device \in Backends
  BY <1>1 DEF IInv, TypeOK, WrappersBacked, ClBackends, Backends
<1>3. collector["api"][device] # "none"
  BY <1>2 DEF IInv, WrappersBacked
<1>4. CASE ~Backed(device)
  <2>1. phase' = "undefined" /\ UNCHANGED <<thr, table, written, late>>
    BY <1>4 DEF EndWrapper
  <2>2. at > ReportAt
    BY <1>2, <1>4, BackedUntilPrinted DEF IInv, TypeOK, ReportAt
  <2>. QED  BY <1>1, <2>1, <2>2, UndefinedInv DEF history
<1>5. CASE Backed(device)
  <2>1. /\ Count(device, counts) /\ thr' = [thr EXCEPT ![t] = Idle] /\ phase' = phase
        /\ late' = IF Printed THEN [late EXCEPT ![device] = @ + 1] ELSE late
    BY <1>5 DEF EndWrapper
  <2>2. /\ counts \in [Kinds -> Nat] /\ counts["api"] = 1 /\ counts["kernel"] = 0
        /\ \A kind \in Kinds : counts[kind] > 0 => collector[kind][device] # "none"
    BY <1>3 DEF Kinds
  <2>. HIDE DEF device, counts
  <2>3. /\ CollectorsShaped' /\ OutputsWritten'
        /\ table' \in [Kinds -> [Backends -> Nat]] /\ written' = [kind \in Kinds |-> written'[kind]]
        /\ \A kind \in Kinds, b \in Backends :
             table'[kind][b] = IF b = device THEN table[kind][b] + counts[kind] ELSE table[kind][b]
    BY <1>1, <1>2, <2>1, <2>2, CountKeeps
  <2>4. \A u \in Threads : thr'[u] = IF u = t THEN Idle ELSE thr[u]
    BY <2>1 DEF IInv, TypeOK
  <2>5. late' \in [Backends -> Nat]
    BY <1>2, <2>1 DEF IInv, TypeOK
  <2>6. TypeOK'
    BY <1>1, <2>1, <2>3, <2>5 DEF IInv, TypeOK, CallType
  <2>7. Building' /\ LoggerKept'
    BY <1>1, <2>1 DEF IInv, Building, LoggerKept, Asked
  <2>8. CallsAwaited'
    BY <1>1, <2>4 DEF IInv, CallsAwaited, InFunction, Idle
  <2>9. WrappersBacked'
    BY <1>1, <2>1, <2>4 DEF IInv, WrappersBacked, InWrapper, Idle
  <2>10. ReportKept'
    <3>. SUFFICES ASSUME at > ReportAt, NEW kind \in Kinds, NEW b \in Backends
                  PROVE  /\ b \in ClBackends => open[kind][b] = 0
                         /\ open[kind][b] = 0 => Inside(kind, b)' = {}
                         /\ \A title \in Titles(kind) : \E n \in 0..table'[kind][b] :
                              /\ Counts(title, b)' = {n} \ {0}
                              /\ kind = "api" =>
                                   table'[kind][b] + Cardinality(Inside(kind, b)')
                                     <= n + open[kind][b] + late'[b]
                              /\ kind = "kernel" /\ open[kind][b] = 0 => table'[kind][b] = n
      BY <1>1, SameOptions DEF ReportKept
    <3>1. Inside(kind, b)' = Inside(kind, b)
      BY <1>1, <2>4 DEF Inside, InFunction, InWrapper, Idle
    <3>2. late'[b] = IF b = device THEN late[b] + 1 ELSE late[b]
      BY <1>2, <2>1, TeardownSteps DEF IInv, TypeOK, Printed
    <3>3. \A title \in Titles(kind) : Counts(title, b)' = Counts(title, b)
      BY <1>1 DEF Counts
    <3>4. /\ table[kind][b] \in Nat /\ late[b] \in Nat /\ open[kind][b] \in Nat
          /\ Cardinality(Inside(kind, b)) \in Nat
      BY InsideFinite DEF IInv, TypeOK
    <3>5. table'[kind][b] = IF b = device /\ kind = "api" THEN table[kind][b] + 1
                            ELSE table[kind][b]
      BY <2>2, <2>3, <3>4 DEF Kinds
    <3>6. /\ b \in ClBackends => open[kind][b] = 0
          /\ open[kind][b] = 0 => Inside(kind, b) = {}
          /\ \A title \in Titles(kind) : \E n \in 0..table[kind][b] :
               /\ Counts(title, b) = {n} \ {0}
               /\ kind = "api" =>
                    table[kind][b] + Cardinality(Inside(kind, b)) <= n + open[kind][b] + late[b]
               /\ kind = "kernel" /\ open[kind][b] = 0 => table[kind][b] = n
      BY <1>1 DEF IInv, ReportKept
    <3>7. ASSUME NEW n \in 0..table[kind][b], kind = "api",
                 table[kind][b] + Cardinality(Inside(kind, b)) <= n + open[kind][b] + late[b]
          PROVE  table'[kind][b] + Cardinality(Inside(kind, b)') <= n + open[kind][b] + late'[b]
      BY <3>1, <3>2, <3>4, <3>5, <3>7
    <3>8. 0..table[kind][b] \subseteq 0..table'[kind][b]
      BY <3>4, <3>5
    <3>. QED  BY <3>1, <3>3, <3>5, <3>6, <3>7, <3>8
  <2>. QED  BY <2>3, <2>6, <2>7, <2>8, <2>9, <2>10 DEF IInv
<1>. QED  BY <1>4, <1>5

LEMMA UnloadInv ==
  ASSUME IInv, Unload
  PROVE  IInv'
<1>1. /\ phase = "running" /\ phase' = "unload" /\ at = 1
      /\ UNCHANGED <<options_, at, collector, instance_, chrome_logger_, wrappers, thr, table,
                     history>>
  BY DEF Unload, IInv, Building
<1>2. TypeOK'
  BY <1>1 DEF IInv, TypeOK, history
<1>3. Building' /\ CollectorsShaped' /\ LoggerKept'
  BY <1>1 DEF IInv, Building, CollectorsShaped, LoggerKept, Asked
<1>4. CallsAwaited' /\ WrappersBacked'
  BY <1>1 DEF IInv, CallsAwaited, WrappersBacked, InFunction, InWrapper
<1>5. OutputsWritten'
  BY <1>1, NothingCounted DEF IInv, history
<1>6. ReportKept'
  BY <1>1 DEF ReportKept, ReportAt
<1>. QED  BY <1>2, <1>3, <1>4, <1>5, <1>6 DEF IInv

-----------------------------------------------------------------------------
(* The destructor.                                                         *)

\* A step of the destructor is the one of Teardown that is next.
LEMMA DestructStep ==
  ASSUME IInv, Destruct
  PROVE  /\ phase \in {"unload", "delete"} /\ at \in 1..15 /\ at' = at + 1
         /\ UNCHANGED <<options_, wrappers, thr, table, written, late>>
         /\ phase' \in {phase, "aborted", "untraced"}
         /\ \A kind \in Kinds, b \in Backends :
              /\ at = DisableAt(kind, b) =>
                   Teardown[at] = Disable(kind, b)
              /\ at = DeleteAt(kind, b) =>
                   Teardown[at] = Delete(kind, b)
         /\ \/ \E kind \in Kinds, b \in Backends :
                 at \in {DisableAt(kind, b), DeleteAt(kind, b)}
            \/ at = ReportAt /\ Teardown[at] = ReportStep
            \/ at = 13 /\ Teardown[at] = DestroyInstanceStep
            \/ at = LoggerAt /\ Teardown[at] = DeleteLoggerStep
<1>1. /\ phase \in {"unload", "delete"} /\ at \in DOMAIN Teardown /\ at' = at + 1
      /\ UNCHANGED <<options_, wrappers, thr, table, written, late>>
      /\ phase' \in {phase, "aborted", "untraced"}
  BY DEF Destruct
<1>2. at \in 1..15
  BY <1>1, TeardownSteps DEF IInv, TypeOK
<1>3. \A kind \in Kinds, b \in Backends :
        /\ Teardown[DisableAt(kind, b)] = Disable(kind, b)
        /\ Teardown[DeleteAt(kind, b)] = Delete(kind, b)
  BY TeardownSteps DEF DisableAt, DeleteAt, Kinds, Backends
<1>4. \/ \E kind \in Kinds, b \in Backends : at \in {DisableAt(kind, b), DeleteAt(kind, b)}
      \/ at \in {7, 13, 15}
  <2>1. /\ DisableAt("api", "cpu") = 1 /\ DisableAt("api", "gpu") = 2 /\ DisableAt("api", "ze") = 3
        /\ DisableAt("kernel", "cpu") = 4 /\ DisableAt("kernel", "gpu") = 5
        /\ DisableAt("kernel", "ze") = 6
        /\ DeleteAt("api", "cpu") = 8 /\ DeleteAt("api", "gpu") = 9 /\ DeleteAt("api", "ze") = 10
        /\ DeleteAt("kernel", "cpu") = 11 /\ DeleteAt("kernel", "gpu") = 12
        /\ DeleteAt("kernel", "ze") = 14
    BY DEF DisableAt, DeleteAt
  <2>2. \A i \in 1..15 : i \in {1, 2, 3, 4, 5, 6, 7, 8, 9, 10, 11, 12, 13, 14, 15}
    OBVIOUS
  <2>. QED  BY <1>2, <2>1, <2>2 DEF Kinds, Backends
<1>. QED  BY <1>1, <1>2, <1>3, <1>4, TeardownSteps DEF ReportAt, LoggerAt

\* The numbers of the steps that take down the collectors tell them apart.
LEMMA StepNumbers ==
  ASSUME NEW kind \in Kinds, NEW b \in Backends
  PROVE  /\ DisableAt(kind, b) \in 1..6 /\ DeleteAt(kind, b) \in 8..14 \ {13}
         /\ \A k \in Kinds, c \in Backends :
              /\ DisableAt(k, c) = DisableAt(kind, b) => k = kind /\ c = b
              /\ DeleteAt(k, c) = DeleteAt(kind, b) => k = kind /\ c = b
  BY DEF DisableAt, DeleteAt, Kinds, Backends

\* A step of a collector disables or deletes it, when those who may use it are done.
LEMMA TakeDown ==
  ASSUME IInv, Destruct, NEW kind \in Kinds, NEW b \in Backends,
         at \in {DisableAt(kind, b), DeleteAt(kind, b)}
  PROVE  /\ collector[kind][b] # "none" /\ (b \in ClBackends \/ at = DeleteAt(kind, b)) =>
              Inside(kind, b) = {}
         /\ collector' =
              IF collector[kind][b] = "none" THEN collector
              ELSE [collector EXCEPT ![kind][b] =
                      IF at = DisableAt(kind, b) THEN "disabled" ELSE "deleted"]
         /\ UNCHANGED <<instance_, chrome_logger_, reported, open>>
<1>1. Teardown[at] = IF at = DisableAt(kind, b) THEN Disable(kind, b) ELSE Delete(kind, b)
  BY DestructStep
<1>2. DisableAt(kind, b) # DeleteAt(kind, b)
  BY StepNumbers
<1>3. CASE at = DisableAt(kind, b)
  <2>1. Teardown[at] = [do |-> "disable", kind |-> kind, backend |-> b]
    BY <1>1, <1>3 DEF Disable
  <2>2. Teardown[at].do = "disable" /\ Teardown[at].kind = kind /\ Teardown[at].backend = b
    BY <2>1
  <2>. QED  BY <1>2, <1>3, <2>2 DEF Destruct
<1>4. CASE at = DeleteAt(kind, b)
  <2>1. Teardown[at] = [do |-> "delete", kind |-> kind, backend |-> b]
    BY <1>1, <1>2, <1>4 DEF Delete
  <2>2. Teardown[at].do = "delete" /\ Teardown[at].kind = kind /\ Teardown[at].backend = b
    BY <2>1
  <2>. QED  BY <1>2, <1>4, <2>2 DEF Destruct
<1>. QED  BY <1>3, <1>4

\* The other steps leave the collectors alone.
LEMMA OtherStep ==
  ASSUME IInv, Destruct, NEW do \in {"report", "instance", "logger"}, Teardown[at] = [do |-> do]
  PROVE  /\ collector' = collector
         /\ instance_' \in {instance_, [instance_ EXCEPT !.state = "deleted"]}
         /\ chrome_logger_' = IF do = "logger" /\ chrome_logger_ = "live" THEN "deleted"
                             ELSE chrome_logger_
         /\ reported' = IF do = "report" THEN Reported ELSE reported
         /\ open' = IF do = "report"
                      THEN [kind \in Kinds |->
                             [backend \in Backends |-> Cardinality(Inside(kind, backend))]]
                      ELSE open
         /\ instance_' # instance_ => do = "instance"
         /\ phase' # "aborted" \/ do = "report"
<1>1. Teardown[at].do = do
  OBVIOUS
<1>. QED  BY <1>1 DEF Destruct

\* The tables printed show what was counted: nothing was that has no collector.
LEMMA TablesPrinted ==
  ASSUME IInv, reported' = Reported, NEW kind \in Kinds, NEW b \in Backends,
         NEW title \in Titles(kind)
  PROVE  Counts(title, b)' = {table[kind][b]} \ {0}
<1>. DEFINE rows == {q \in Reported : q.table = title /\ q.backend = b}
            row == [table |-> title, backend |-> b, count |-> table[kind][b]]
<1>1. table[kind][b] \in Nat /\ (table[kind][b] > 0 => collector[kind][b] # "none")
  BY DEF IInv, TypeOK, CollectorsShaped
<1>2. \A q \in Tables(title, kind) : q.backend = b => q = row
  BY DEF Tables
<1>3. \A t2, k2 : \A q \in Tables(t2, k2) : q.table = t2
  BY DEF Tables
<1>4. /\ Tables(title, kind) \subseteq Reported
      /\ \A q \in Reported : q.table = title => q \in Tables(title, kind)
  <2>1. CASE kind = "api"
    BY <1>3, <2>1 DEF Titles, Reported
  <2>2. CASE kind = "kernel"
    BY <1>3, <2>2 DEF Titles, Reported
  <2>. QED  BY <2>1, <2>2 DEF Kinds
<1>5. table[kind][b] > 0 => row \in Tables(title, kind)
  BY <1>1 DEF Tables
<1>6. table[kind][b] = 0 => \A q \in Tables(title, kind) : q.backend # b
  BY DEF Tables
<1>7. rows = IF table[kind][b] > 0 THEN {row} ELSE {}
  <2>. HIDE DEF row
  <2>1. row.table = title /\ row.backend = b
    BY DEF row
  <2>2. CASE table[kind][b] > 0
    BY <1>2, <1>4, <1>5, <2>1, <2>2
  <2>3. CASE table[kind][b] = 0
    BY <1>4, <1>6, <2>3
  <2>. QED  BY <1>1, <2>2, <2>3
<1>8. Counts(title, b)' = {r.count : r \in rows}
  BY DEF Counts
<1>. HIDE DEF rows
<1>9. CASE table[kind][b] > 0
  <2>1. row.count = table[kind][b]
    OBVIOUS
  <2>. HIDE DEF row
  <2>2. {r.count : r \in {row}} = {row.count}
    OBVIOUS
  <2>. QED  BY <1>1, <1>7, <1>8, <1>9, <2>1, <2>2
<1>10. CASE table[kind][b] = 0
  BY <1>7, <1>8, <1>10
<1>. QED  BY <1>1, <1>9, <1>10

LEMMA DestructInv ==
  ASSUME IInv, Destruct
  PROVE  IInv'
<1>1. /\ phase \in {"unload", "delete"} /\ at \in 1..15 /\ at' = at + 1
      /\ UNCHANGED <<options_, wrappers, thr, table, written, late>>
      /\ phase' \in {phase, "aborted", "untraced"}
      /\ \/ \E kind \in Kinds, b \in Backends : at \in {DisableAt(kind, b), DeleteAt(kind, b)}
         \/ at = ReportAt /\ Teardown[at] = ReportStep
         \/ at = 13 /\ Teardown[at] = DestroyInstanceStep
         \/ at = LoggerAt /\ Teardown[at] = DeleteLoggerStep
  BY DestructStep
\* What the steps do to the objects.
<1>3. /\ collector' \in [Kinds -> [Backends -> {"none", "enabled", "disabled", "deleted"}]]
      /\ \A kind \in Kinds, b \in Backends :
           collector'[kind][b] =
             IF collector[kind][b] = "none" THEN "none"
             ELSE IF at = DisableAt(kind, b) THEN "disabled"
             ELSE IF at = DeleteAt(kind, b) THEN "deleted" ELSE collector[kind][b]
  <2>1. CASE \E kind \in Kinds, b \in Backends : at \in {DisableAt(kind, b), DeleteAt(kind, b)}
    <3>1. PICK kind \in Kinds, b \in Backends : at \in {DisableAt(kind, b), DeleteAt(kind, b)}
      BY <2>1
    <3>2. \A k \in Kinds, c \in Backends :
            k # kind \/ c # b => at # DisableAt(k, c) /\ at # DeleteAt(k, c)
      BY <3>1, StepNumbers
    <3>3. collector' =
              IF collector[kind][b] = "none" THEN collector
              ELSE [collector EXCEPT ![kind][b] =
                      IF at = DisableAt(kind, b) THEN "disabled" ELSE "deleted"]
      BY <3>1, TakeDown
    <3>. QED  BY <3>1, <3>2, <3>3 DEF IInv, TypeOK
  <2>2. CASE at \in {ReportAt, 13, LoggerAt}
    <3>1. \A k \in Kinds, c \in Backends : at # DisableAt(k, c) /\ at # DeleteAt(k, c)
      BY <2>2, StepNumbers DEF ReportAt, LoggerAt
    <3>2. collector' = collector
      BY <1>1, <3>1, OtherStep DEF ReportStep, DestroyInstanceStep, DeleteLoggerStep
    <3>. QED  BY <3>1, <3>2 DEF IInv, TypeOK
  <2>. QED  BY <1>1, <2>1, <2>2
<1>4. /\ instance_' \in {instance_, [instance_ EXCEPT !.state = "deleted"]}
      /\ at # InstanceAt => instance_' = instance_
      /\ at # LoggerAt => chrome_logger_' = chrome_logger_
      /\ at # ReportAt => reported' = reported /\ open' = open /\ phase' # "aborted"
      /\ open' \in [Kinds -> [Backends -> Nat]]
      /\ chrome_logger_' \in {"none", "live", "deleted"}
  <2>1. CASE \E kind \in Kinds, b \in Backends : at \in {DisableAt(kind, b), DeleteAt(kind, b)}
    <3>1. PICK kind \in Kinds, b \in Backends : at \in {DisableAt(kind, b), DeleteAt(kind, b)}
      BY <2>1
    <3>2. UNCHANGED <<instance_, chrome_logger_, reported, open>>
      BY <3>1, TakeDown
    <3>3. Teardown[at] \in {Disable(kind, b), Delete(kind, b)}
      BY <3>1, DestructStep
    <3>4. Teardown[at].do # "report"
      BY <3>3 DEF Disable, Delete
    <3>5. phase' # "aborted"
      BY <1>1, <3>4 DEF Destruct
    <3>. QED  BY <3>2, <3>5 DEF IInv, TypeOK
  <2>2. CASE at = ReportAt /\ Teardown[at] = ReportStep
    BY <2>2, OtherStep, InsideFinite DEF ReportStep, IInv, TypeOK, ReportAt, LoggerAt, InstanceAt
  <2>3. CASE at = 13 /\ Teardown[at] = DestroyInstanceStep
    BY <2>3, OtherStep DEF DestroyInstanceStep, IInv, TypeOK, ReportAt, LoggerAt, InstanceAt
  <2>4. CASE at = LoggerAt /\ Teardown[at] = DeleteLoggerStep
    BY <2>4, OtherStep DEF DeleteLoggerStep, IInv, TypeOK, ReportAt, LoggerAt, InstanceAt
  <2>. QED  BY <1>1, <2>1, <2>2, <2>3, <2>4
<1>5. TypeOK'
  <2>1. instance_' \in [state : {"none", "live", "deleted"}, collectors : SUBSET ClBackends]
    BY <1>4 DEF IInv, TypeOK
  <2>2. phase' \in {"unload", "delete", "aborted", "untraced"} /\ at' \in 1..16
    BY <1>1
  <2>3. /\ options_ \in OptionSets /\ wrappers \in SUBSET ClBackends /\ thr \in [Threads -> CallType]
        /\ table \in [Kinds -> [Backends -> Nat]] /\ late \in [Backends -> Nat]
        /\ written = [kind \in Kinds |-> written[kind]]
    BY DEF IInv, TypeOK
  <2>. QED  BY <1>1, <1>3, <1>4, <2>1, <2>2, <2>3 DEF TypeOK
<1>6. Building'
  BY <1>1 DEF Building
<1>7. CollectorsShaped'
  <2>. SUFFICES ASSUME NEW kind \in Kinds, NEW b \in Backends
                PROVE  /\ collector'[kind][b] # "none" =>
                            collector'[kind][b] = IF at + 1 <= DisableAt(kind, b) THEN "enabled"
                                                  ELSE IF at + 1 <= DeleteAt(kind, b)
                                                  THEN "disabled" ELSE "deleted"
                       /\ table[kind][b] > 0 => collector'[kind][b] # "none"
    BY <1>1 DEF CollectorsShaped, DisableAt, DeleteAt
  <2>1. DisableAt(kind, b) \in 1..6 /\ DeleteAt(kind, b) \in 8..14
    BY StepNumbers
  <2>. QED  BY <1>1, <1>3, <2>1 DEF IInv, CollectorsShaped
<1>8. CallsAwaited'
  <2>. SUFFICES ASSUME NEW u \in Threads, InFunction(u), NEW kind \in thr[u].kinds
                PROVE  /\ collector'[kind][thr[u].backend] # "none"
                       /\ at + 1 <= IF thr[u].backend = "ze" THEN DeleteAt(kind, "ze")
                                    ELSE DisableAt(kind, thr[u].backend)
    BY <1>1 DEF CallsAwaited, InFunction, DisableAt, DeleteAt, IInv
  <2>. DEFINE b == thr[u].backend
  <2>1. kind \in Kinds /\ b \in Backends
    BY DEF IInv, TypeOK, CallType, InFunction, Idle
  <2>2. /\ collector[kind][b] # "none"
        /\ at <= IF b = "ze" THEN DeleteAt(kind, "ze") ELSE DisableAt(kind, b)
    BY DEF IInv, CallsAwaited
  <2>3. u \in Inside(kind, b)
    BY DEF Inside
  <2>. HIDE DEF b
  <2>4. at # IF b = "ze" THEN DeleteAt(kind, "ze") ELSE DisableAt(kind, b)
    BY <2>1, <2>2, <2>3, TakeDown DEF ClBackends, Backends
  <2>5. collector'[kind][b] # "none"
    BY <1>3, <2>1, <2>2 DEF IInv, TypeOK
  <2>6. DisableAt(kind, b) \in Nat /\ DeleteAt(kind, b) \in Nat
    BY <2>1, StepNumbers
  <2>7. at + 1 <= IF b = "ze" THEN DeleteAt(kind, "ze") ELSE DisableAt(kind, b)
    BY <1>1, <2>2, <2>4, <2>6
  <2>. QED  BY <2>5, <2>7 DEF b
<1>9. WrappersBacked'
  <2>1. \A d \in ClBackends : collector'["api"][d] # "none" <=> collector["api"][d] # "none"
    BY <1>3 DEF Kinds, ClBackends, Backends
  <2>2. instance_'.collectors = instance_.collectors
    BY <1>4 DEF IInv, TypeOK
  <2>3. at + 1 <= InstanceAt => instance_' = instance_ /\ at <= InstanceAt
    BY <1>1, <1>4 DEF InstanceAt
  <2>4. phase' # "undefined"
    BY <1>1
  <2>. QED  BY <1>1, <2>1, <2>2, <2>3, <2>4 DEF IInv, WrappersBacked, InWrapper
<1>10. LoggerKept'
  BY <1>1, <1>4 DEF IInv, LoggerKept, Asked, LoggerAt
<1>11. OutputsWritten'
  BY <1>1, NothingCounted DEF IInv
<1>12. ReportKept'
  <2>1. CASE at = ReportAt
    <3>1. reported' = Reported
      BY <1>1, <2>1, OtherStep, StepNumbers DEF ReportStep, ReportAt, LoggerAt
    <3>2. open' = [kind \in Kinds |->
                    [backend \in Backends |-> Cardinality(Inside(kind, backend))]]
      BY <1>1, <2>1, OtherStep, StepNumbers DEF ReportStep, ReportAt, LoggerAt
    <3>3. SUFFICES ASSUME NEW kind \in Kinds, NEW b \in Backends
                   PROVE  /\ b \in ClBackends => open'[kind][b] = 0
                          /\ open'[kind][b] = 0 => Inside(kind, b)' = {}
                          /\ \A title \in Titles(kind) :
                               /\ Counts(title, b)' = {table[kind][b]} \ {0}
                               /\ table[kind][b] \in 0..table[kind][b]
                               /\ table[kind][b] + Cardinality(Inside(kind, b)')
                                    <= table[kind][b] + open'[kind][b] + late[b]
      BY <1>1, SameOptions DEF ReportKept
    <3>4. table[kind][b] \in Nat /\ late[b] \in Nat
      BY DEF IInv, TypeOK
    <3>5. Inside(kind, b)' = Inside(kind, b)
      BY <1>1 DEF Inside, InFunction
    <3>6. open'[kind][b] = Cardinality(Inside(kind, b))
      BY <3>2
    <3>7. b \in ClBackends => Inside(kind, b) = {}
      BY <2>1, OpenClLeft DEF ReportAt
    <3>. QED  BY <3>1, <3>4, <3>5, <3>6, <3>7, InsideFinite, TablesPrinted, FS_EmptySet
  <2>2. CASE at > ReportAt
    BY <1>1, <1>4, <2>2, NothingReported DEF IInv, ReportAt
  <2>3. CASE at < ReportAt
    BY <1>1, <2>3 DEF ReportKept, ReportAt
  <2>. QED  BY <1>1, <2>1, <2>2, <2>3 DEF ReportAt
<1>. QED  BY <1>5, <1>6, <1>7, <1>8, <1>9, <1>10, <1>11, <1>12 DEF IInv

LEMMA NextInv ==
  ASSUME IInv, [Next]_vars
  PROVE  IInv'
<1>1. CASE Construct
  BY <1>1, ConstructInv
<1>2. ASSUME NEW made \in SUBSET Backends, CreateKernelCollectors(made)
      PROVE  IInv'
  BY <1>2, CreateKernelCollectorsInv
<1>3. ASSUME NEW made \in SUBSET Backends, CreateApiCollectors(made)
      PROVE  IInv'
  BY <1>3, CreateApiCollectorsInv
<1>4. ASSUME NEW t \in Threads, NEW backend \in Backends, EnterFunction(t, backend)
      PROVE  IInv'
  BY <1>4, EnterFunctionInv
<1>5. ASSUME NEW t \in Threads, NEW finished \in 0..MaxKernels, NEW address \in BOOLEAN,
             ExitFunction(t, finished, address)
      PROVE  IInv'
  BY <1>5, ExitFunctionInv
<1>6. ASSUME NEW t \in Threads, NEW device \in ClBackends, BeginWrapper(t, device)
      PROVE  IInv'
  BY <1>6, BeginWrapperInv
<1>7. ASSUME NEW t \in Threads, EndWrapper(t)
      PROVE  IInv'
  BY <1>7, EndWrapperInv
<1>8. CASE Unload
  BY <1>8, UnloadInv
<1>9. CASE Destruct
  BY <1>9, DestructInv
<1>10. CASE UNCHANGED vars
  <2>. USE <1>10 DEF vars, history
  <2>1. TypeOK' /\ Building' /\ CollectorsShaped' /\ LoggerKept'
    BY DEF IInv, TypeOK, Building, CollectorsShaped, LoggerKept, Asked
  <2>2. CallsAwaited' /\ WrappersBacked'
    BY DEF IInv, CallsAwaited, WrappersBacked, InFunction, InWrapper
  <2>3. OutputsWritten'
    BY NothingCounted DEF IInv
  <2>4. ReportKept'
    <3>1. CASE at > ReportAt /\ phase # "aborted"
      BY <3>1, NothingReported DEF IInv
    <3>2. CASE ~(at > ReportAt /\ phase # "aborted")
      BY <3>2 DEF ReportKept
    <3>. QED  BY <3>1, <3>2
  <2>. QED  BY <2>1, <2>2, <2>3, <2>4 DEF IInv
<1>. QED
  BY <1>1, <1>2, <1>3, <1>4, <1>5, <1>6, <1>7, <1>8, <1>9, <1>10 DEF Next

LEMMA Invariance == Spec => []IInv
  BY InitInv, NextInv, PTL DEF Spec

-----------------------------------------------------------------------------
(* The theorems.                                                           *)

\* A callback never finds the collector or the logger of the JSON file it uses gone: not
\* while the destructor takes them down, and not when Create gives up.  A wrapper of an
\* extension function does not find the extension collector, the API collector or the
\* logger gone before the tables have been printed; later it may.
THEOREM ObjectsOutliveCalls == Spec => []NoUseAfterDelete
<1>1. IInv => NoUseAfterDelete
  <2>. SUFFICES ASSUME IInv
                PROVE  /\ \A t \in Threads :
                            /\ InFunction(t) => \A kind \in thr[t].kinds :
                                 /\ collector[kind][thr[t].backend] \in {"enabled", "disabled"}
                                 /\ WritesTimeline(kind) => chrome_logger_ = "live"
                            /\ InWrapper(t) /\ ~Printed => Backed(thr[t].backend)
                       /\ phase = "undefined" => Printed
    BY DEF NoUseAfterDelete
  <2>1. ASSUME at < LoggerAt, phase # "construct", NEW kind \in Kinds, WritesTimeline(kind)
        PROVE  chrome_logger_ = "live"
    BY <2>1, LinesAsRequested DEF IInv, LoggerKept, LoggerAt, TypeOK
  <2>2. ASSUME NEW t \in Threads, InFunction(t), NEW kind \in thr[t].kinds
        PROVE  /\ collector[kind][thr[t].backend] \in {"enabled", "disabled"}
               /\ WritesTimeline(kind) => chrome_logger_ = "live"
    <3>. DEFINE b == thr[t].backend
    <3>1. kind \in Kinds /\ b \in Backends
      BY <2>2 DEF IInv, TypeOK, CallType, InFunction, Idle
    <3>2. /\ collector[kind][b] # "none"
          /\ at <= IF b = "ze" THEN DeleteAt(kind, "ze") ELSE DisableAt(kind, b)
      BY <2>2 DEF IInv, CallsAwaited
    <3>. HIDE DEF b
    <3>3. DisableAt(kind, b) \in 1..6 /\ DeleteAt(kind, b) \in 8..14
      BY <3>1, StepNumbers
    <3>4. at \in 1..16
      BY DEF IInv, TypeOK
    <3>5. at <= DeleteAt(kind, b)
      BY <3>2, <3>3, <3>4
    <3>6. collector[kind][b] \in {"enabled", "disabled"}
      BY <3>1, <3>2, <3>5 DEF IInv, CollectorsShaped
    <3>7. phase # "construct"
      BY <3>1, <3>2 DEF IInv, Building, NoCollectors, Kinds
    <3>8. at < LoggerAt
      BY <3>3, <3>4, <3>5 DEF LoggerAt
    <3>. QED  BY <2>1, <3>1, <3>6, <3>7, <3>8 DEF b
  <2>3. Printed <=> at > ReportAt
    BY TeardownSteps DEF Printed
  <2>4. ASSUME NEW t \in Threads, InWrapper(t), ~Printed
        PROVE  Backed(thr[t].backend)
    <3>1. thr[t].backend \in wrappers
      BY <2>4 DEF IInv, WrappersBacked
    <3>2. at <= ReportAt
      BY <2>3, <2>4 DEF IInv, TypeOK, ReportAt
    <3>. QED  BY <3>1, <3>2, BackedUntilPrinted
  <2>5. phase = "undefined" => Printed
    BY <2>3 DEF IInv, WrappersBacked
  <2>. QED  BY <2>2, <2>4, <2>5
<1>. QED  BY Invariance, <1>1, PTL

\* Whatever set of options the process was started with, a counted call or kernel has
\* written exactly what they ask for: the callback Create finds first is the right one.
THEOREM OutputsAsRequested == Spec => []OutputsWritten
<1>1. IInv => OutputsWritten
  BY DEF IInv
<1>. QED  BY Invariance, <1>1, PTL

\* The tables the destructor prints hold every kernel of the OpenCL collectors, and every
\* call of them but those of wrappers that ended later; of Level Zero all calls but one of
\* each thread that was inside then, and all kernels if none was.
THEOREM ReportsFinal == Spec => []ReportFinal
<1>1. IInv => ReportFinal
  <2>. SUFFICES ASSUME IInv, phase \in {"unload", "delete", "untraced"}, at > ReportAt,
                       NEW kind \in Kinds, NEW b \in Backends
                PROVE  /\ b \in ClBackends => open[kind][b] = 0
                       /\ \A title \in Titles(kind) : \E n \in 0..table[kind][b] :
                            /\ Counts(title, b) = {n} \ {0}
                            /\ kind = "api" => table[kind][b] <= n + open[kind][b] + late[b]
                            /\ kind = "kernel" /\ open[kind][b] = 0 => table[kind][b] = n
    BY TeardownSteps DEF ReportFinal, Printed
  <2>1. /\ b \in ClBackends => open[kind][b] = 0
        /\ \A title \in Titles(kind) : \E n \in 0..table[kind][b] :
             /\ Counts(title, b) = {n} \ {0}
             /\ kind = "api" =>
                  table[kind][b] + Cardinality(Inside(kind, b)) <= n + open[kind][b] + late[b]
             /\ kind = "kernel" /\ open[kind][b] = 0 => table[kind][b] = n
    BY DEF IInv, ReportKept
  <2>2. /\ table[kind][b] \in Nat /\ Cardinality(Inside(kind, b)) \in Nat
        /\ open[kind][b] \in Nat /\ late[b] \in Nat
    BY InsideFinite DEF IInv, TypeOK
  <2>3. ASSUME NEW n \in Nat,
               table[kind][b] + Cardinality(Inside(kind, b)) <= n + open[kind][b] + late[b]
        PROVE  table[kind][b] <= n + open[kind][b] + late[b]
    BY <2>2, <2>3
  <2>. QED  BY <2>1, <2>2, <2>3
<1>. QED  BY Invariance, <1>1, PTL

=============================================================================
