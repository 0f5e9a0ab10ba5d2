---------------------------- MODULE KernelTimes ----------------------------
(***************************************************************************)
(* The times reported of a command of a device: when it was appended (or   *)
(* queued), submitted, started and ended, in host nanoseconds since the    *)
(* tracer began.                                                           *)
(*                                                                         *)
(* Level Zero (ze_kernel_collector.h) gives the start and the end in ticks *)
(* of a counter that wraps around; the collector reads both clocks when    *)
(* the command is submitted and counts on from there.  OpenCL              *)
(* (cl_kernel_collector.h) gives all four times in nanoseconds of the      *)
(* device; the collector reads both clocks when the command is enqueued,   *)
(* and corrects the host's for a CPU, which gives CLOCK_MONOTONIC.         *)
(***************************************************************************)
EXTENDS Integers, FiniteSetsExt

CONSTANTS
  Timers,      \* what a Level Zero device may be: [frequency, valid_bits]
  NSEC_IN_SEC,
  WordBits,    \* of a machine word, in which products wrap
  Offsets,     \* what the device's clock may show at time 0
  MonotonicLag,\* CLOCK_MONOTONIC_RAW minus CLOCK_MONOTONIC
  ReadGaps,    \* what may pass between the reading of these two clocks
  MaxTime,     \* bound on the clock
  MaxRuns      \* bound on the runs of commands

ASSUME TimersAssumption ==
  /\ NSEC_IN_SEC \in Nat \ {0} /\ WordBits \in Nat \ {0}
  /\ \A timer \in Timers : /\ timer.frequency \in 1..NSEC_IN_SEC
                           /\ timer.valid_bits \in 1..WordBits
  /\ Offsets \subseteq Nat /\ MonotonicLag \in Int
  /\ ReadGaps \subseteq Nat /\ \E longest \in ReadGaps : \A gap \in ReadGaps : gap <= longest
ASSUME BoundAssumption == MaxTime \in Nat /\ MaxRuns \in Nat

VARIABLES
  device,      \* backend and clock of the device
  stages,      \* are stages shown in the Chrome timeline?
  now,         \* host time: CLOCK_MONOTONIC_RAW since the correlator's base time
  command,     \* the command at work: its stage, what the collector recorded of
               \* it, what the driver stamped it with, and (history) at what
               \* host times that really was
  reported,    \* history: the times reported of the last run of the command
  runs,        \* history: how many commands began to run
  aborted      \* an assertion has failed

vars == <<device, stages, now, command, reported, runs, aborted>>

\* 1 << n, before a word cuts it off.
Bit[n \in 0..WordBits] == IF n = 0 THEN 1 ELSE 2 * Bit[n - 1]

Word(x) == x % Bit[WordBits]

\* What zeDeviceGetGlobalTimestamps shows at a time: more bits than valid ones.
GlobalTicks(time) == Word((time * device.frequency) \div NSEC_IN_SEC + device.offset)

\* What the driver stamps a command with: the valid bits.
KernelTicks(time) == GlobalTicks(time) % Bit[device.valid_bits]

ClTicks(time) == time + device.offset

-----------------------------------------------------------------------------
(* The conversions.                                                        *)

\* GetDeviceTimestampMask.
TimerMask == IF device.valid_bits = WordBits THEN Bit[WordBits] - 1
             ELSE Word(Bit[device.valid_bits]) - 1

DeviceSyncUnmasked == GlobalTicks(now)  \* Fault: the mask is left out.

\* GetSyncTimestamps: the device's reading & mask.
DeviceSync == GlobalTicks(now) % (TimerMask + 1)

Nanoseconds(ticks) == Word(Word(ticks) * NSEC_IN_SEC) \div device.frequency

ComputeDurationOfNone(start, end) ==  \* Fault: equal readings are no overflow.
  IF start <= end THEN Nanoseconds(end - start)
  ELSE Nanoseconds(Word(TimerMask + 1) + end - start)

ComputeDuration(start, end) ==
  IF start < end THEN Nanoseconds(end - start)
  ELSE Nanoseconds(Word(TimerMask + 1) + end - start)  \* Timer Overflow

\* GetHostTime.
ZeTimes(c) ==
  LET started == c.host_sync + ComputeDuration(c.device_sync, c.stamp.started)
  IN  [appended |-> c.append_time, submitted |-> c.host_sync, started |-> started,
       ended |-> started + ComputeDuration(c.stamp.started, c.stamp.ended)]

\* ConvertClockMonotonicToRaw, if `gap' passes between the two readings.
Raw(monotonic, gap) ==
  LET raw == now
      later == now + gap - MonotonicLag
  IN  IF raw > later THEN monotonic + (raw - later) ELSE monotonic - (later - raw)

\* ComputeHostTimestamps.
ClTimes(c) ==
  LET queued == c.host_sync + (c.stamp.appended - c.device_sync)
      submitted == queued + (c.stamp.submitted - c.stamp.appended)
      started == submitted + (c.stamp.started - c.stamp.submitted)
  IN  [appended |-> queued, submitted |-> submitted, started |-> started,
       ended |-> started + (c.stamp.ended - c.stamp.started)]

Times(c) == IF device.backend = "ze" THEN ZeTimes(c) ELSE ClTimes(c)

\* The assertions on the times of a command of Level Zero, ...
PlausibleZe(times) ==
  /\ times.appended > 0 /\ times.appended <= times.submitted
  /\ times.submitted <= times.started /\ times.started <= times.ended

\* ... and of OpenCL, before they are converted.
PlausibleCl(c) ==
  /\ c.device_sync <= c.stamp.appended /\ c.stamp.appended <= c.stamp.submitted
  /\ c.stamp.submitted <= c.stamp.started /\ c.stamp.started < c.stamp.ended

\* Those of the callbacks of the tracer that CHROME_DEVICE_STAGES chooses.
PlausibleStages(times) ==
  /\ device.backend # "ze" => times.appended < times.submitted
  /\ times.submitted < times.started /\ times.started < times.ended

Plausible(c, times) ==
  /\ IF device.backend = "ze" THEN PlausibleZe(times) ELSE PlausibleCl(c)
  /\ stages => PlausibleStages(times)

-----------------------------------------------------------------------------
Devices ==
  [backend : {"ze"}, frequency : {t.frequency : t \in Timers},
   valid_bits : {t.valid_bits : t \in Timers}, offset : Offsets]
    \cup [backend : {"cl_gpu", "cl_cpu"}, offset : Offsets]

Init ==
  /\ device \in {d \in Devices : d.backend = "ze" =>
                   [frequency |-> d.frequency, valid_bits |-> d.valid_bits] \in Timers}
  /\ stages \in BOOLEAN
  /\ now = 1 + Max(ReadGaps) /\ command = [stage |-> "none"]
  /\ reported = <<>> /\ runs = 0 /\ aborted = FALSE

\* OnEnterKernelAppend of a regular list.
AppendCommand ==
  /\ ~aborted /\ device.backend = "ze" /\ command.stage = "none" /\ runs < MaxRuns
  /\ command' = [stage |-> "appended", append_time |-> now, at |-> [appended |-> now]]
  /\ UNCHANGED <<device, stages, now, reported, runs, aborted>>

Submitted(append_time, appended) ==
  [stage |-> "submitted", append_time |-> append_time,
   host_sync |-> now, device_sync |-> DeviceSync, stamp |-> <<>>,
   at |-> [appended |-> appended, submitted |-> now]]

\* OnEnterKernelAppend of an immediate list: the append time is the
\* submission's.
AppendImmediate ==
  /\ ~aborted /\ device.backend = "ze" /\ command.stage = "none" /\ runs < MaxRuns
  /\ command' = Submitted(now, now) /\ runs' = runs + 1
  /\ UNCHANGED <<device, stages, now, reported, aborted>>

\* OnEnterCommandQueueExecuteCommandLists, AddKernelCalls: the first time or
\* again, of a list that has been reported.
Execute ==
  /\ ~aborted /\ device.backend = "ze" /\ runs < MaxRuns
  /\ command.stage \in {"appended", "reported"}
  /\ command' = Submitted(command.append_time, command.at.appended) /\ runs' = runs + 1
  /\ UNCHANGED <<device, stages, now, reported, aborted>>

\* OnEnterEnqueueKernel; reading the clocks of a CPU takes a while.
Enqueue ==
  /\ ~aborted /\ device.backend # "ze" /\ runs < MaxRuns
  /\ command.stage \in {"none", "reported"}
  /\ \E gap \in IF device.backend = "cl_cpu" THEN ReadGaps ELSE {0} :
       /\ now' = now + gap
       /\ command' = [stage |-> "entered", device_sync |-> ClTicks(now),
                      host_sync |-> IF device.backend = "cl_cpu"
                                    THEN Raw(now - MonotonicLag, gap) ELSE now,
                      gap |-> gap, stamp |-> <<>>, at |-> <<>>]
  /\ runs' = runs + 1
  /\ UNCHANGED <<device, stages, reported, aborted>>

\* The driver queues, submits, starts and ends the command (external).
NextStage ==
  IF device.backend = "ze" THEN [submitted |-> "started", started |-> "ended"]
  ELSE [entered |-> "appended", appended |-> "submitted",
        submitted |-> "started", started |-> "ended"]

Advance ==
  /\ ~aborted /\ command.stage \in DOMAIN NextStage
  /\ LET next == NextStage[command.stage]
         ticks == IF device.backend = "ze" THEN KernelTicks(now) ELSE ClTicks(now)
     IN  command' = [command EXCEPT
           !.stage = next,
           !.stamp = [s \in DOMAIN @ \cup {next} |-> IF s = next THEN ticks ELSE @[s]],
           !.at = [s \in DOMAIN @ \cup {next} |-> IF s = next THEN now ELSE @[s]]]
  /\ UNCHANGED <<device, stages, now, reported, runs, aborted>>

\* ProcessCall, ProcessKernelInstance.  A Level Zero command may run again.
Process ==
  /\ ~aborted /\ command.stage = "ended"
  /\ LET times == Times(command)
     IN  IF Plausible(command, times)
         THEN /\ reported' = times
              /\ command' = [command EXCEPT !.stage = "reported"]
              /\ UNCHANGED aborted
         ELSE /\ aborted' = TRUE
              /\ UNCHANGED <<command, reported>>
  /\ UNCHANGED <<device, stages, now, runs>>

\* zeCommandListReset: the command is deleted.
Reset ==
  /\ ~aborted /\ device.backend = "ze" /\ command.stage = "reported"
  /\ command' = [stage |-> "none"]
  /\ UNCHANGED <<device, stages, now, reported, runs, aborted>>

Tick ==
  /\ ~aborted /\ now < MaxTime
  /\ now' = now + 1
  /\ UNCHANGED <<device, stages, command, reported, runs, aborted>>

Next == \/ AppendCommand \/ AppendImmediate \/ Execute \/ Enqueue
        \/ Advance \/ Process \/ Reset \/ Tick

Spec == Init /\ [][Next]_vars

-----------------------------------------------------------------------------
\* The counter of the device, if it did not wrap.
Elapsed(from, to) ==
  (to * device.frequency) \div NSEC_IN_SEC - (from * device.frequency) \div NSEC_IN_SEC

\* What a wrapping counter and a word can tell: from one tick to a whole
\* period, and few enough to be multiplied by NSEC_IN_SEC.
Measurable(from, to) ==
  /\ Elapsed(from, to) \in 1..Bit[device.valid_bits]
  /\ Elapsed(from, to) * NSEC_IN_SEC < Bit[WordBits]

\* Times that one tick and the rounding down to nanoseconds cannot tell apart.
Close(a, b) ==
  LET slack == NSEC_IN_SEC + 2 * device.frequency
  IN  (a - b) * device.frequency \in -slack..slack

\* The timeline puts a command where it was: the append and submission of Level
\* Zero at their host times, start and end within a tick of theirs, whatever
\* the counter shows, however often it wrapped before and in whichever run of
\* a list; all four times of OpenCL exactly, or early by what reading the
\* clocks of a CPU took (GetHostTime, ComputeHostTimestamps).
TimesFaithful ==
  command.stage = "reported" =>
    LET at == command.at
    IN  IF device.backend = "ze"
        THEN /\ reported.appended = at.appended /\ reported.submitted = at.submitted
             /\ Measurable(at.submitted, at.started) =>
                  /\ Close(reported.started, at.started)
                  /\ Measurable(at.started, at.ended) => Close(reported.ended, at.ended)
        ELSE \A stage \in DOMAIN reported : reported[stage] = at[stage] - command.gap

\* The ticks the counter shows, a period for none, exceed a word in nanoseconds:
\* with 64 valid bits those of the period are 0.
Overflows(from, to) ==
  LET period == Bit[device.valid_bits]
      ticks == Elapsed(from, to) % period
  IN  (IF ticks = 0 THEN period ELSE ticks) * NSEC_IN_SEC >= Bit[WordBits]

\* The assertions on the times abort the application only
\* - for an OpenCL command that ended in the nanosecond it started in or, when
\*   stages are shown, entered two stages in one, and
\* - for a Level Zero command of an interval that overflows, when stages are
\*   shown: equal readings alone are taken for a whole period.
\* Both clocks are read before all the driver does with the command.
AbortsOnlyOnExtremes ==
  aborted =>
    LET at == command.at
    IN  IF device.backend = "ze"
        THEN stages /\ (Overflows(at.submitted, at.started) \/ Overflows(at.started, at.ended))
        ELSE \/ at.started = at.ended
             \/ stages /\ (at.appended = at.submitted \/ at.submitted = at.started)

=============================================================================
