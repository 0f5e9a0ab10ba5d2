# A formal model of FineTrace

FineTrace is a tracer for OpenCL and Level Zero programs. A loader starts the
program with the tracer preloaded; the tracer's collectors intercept the
functions of the two runtimes, measure host functions and device kernels, and
print summaries or write timelines when the process ends. The collectors run
inside the application: in its threads, between its calls, and with
assertions (`FTRACE_ASSERT`, never compiled out) that abort it. The project
models the parts that keep state across calls or decide what is shown of them,
checks them with TLC, and proves what matters most with TLAPS.

## Inventory

| Component | State | Operations | Modelled |
|---|---|---|---|
| Level Zero event cache, `ze_event_cache.h` | free events per context, the context of each cached event, pools per context | `GetEvent`, `ReleaseEvent`, `ReleaseContext`, `QueryEvent`, destructor | `ZeEventCache` |
| Level Zero kernel collector, `ze_kernel_collector.h` | command lists, their commands, the list of pending calls, kernel ids, summary tables, image and group sizes | enter and exit callbacks of about 40 functions | `ZeKernelCollector`, partly |
| Correlator, `utils/correlator.h` | kernel and call ids per command list, thread-local kernel id, conditional collection, time base | lookups and updates by both collectors | in `ZeKernelCollector`, `ClApiCollector`, `KernelTimes`, partly |
| Level Zero API collector, `ze_api_collector.h`, generated callbacks | times per function | enter and exit callback of every function | one step of `ZeKernelCollector` |
| OpenCL kernel collector, `cl_kernel_collector.h` | kernel instances with retained events | enqueue, wait, release and finish callbacks | `ClKernelCollector`, `KernelTimes`, partly |
| OpenCL API collector, `cl_api_collector.h`, `cl_api_callbacks.h` | times per function, status variables of threads | callbacks; logging handlers for each of 118 functions | `ClApiCollector`, `ClApiCallbacks`, `ClCallLog`, partly |
| OpenCL extension collector, `cl_ext_*` | substituted extension functions | wrappers | `ClApiCollector`, `UnifiedTracer` |
| Conversion of timestamps, in both kernel collectors and `utils/` | clock readings of a command | synchronization, durations, host times | `KernelTimes` |
| Unified tracer, `unified_tracer.h` | the collectors and loggers an option set asks for | create, finish callbacks, report, teardown | `UnifiedTracer`, partly |
| Loader, tool and options, `loader/`, `tool.cc`, `trace_options.h` | arguments and environment | parsing, preload, enable, disable | `Launcher`, partly |
| Logger, metric devices, rest of the platform helpers | files, handles | input and output | no |

How they interact. Both collectors of a runtime intercept the same functions in
the application's threads; the kernel collector's exit callback runs before the
API collector's. They share the correlator. The kernel collector's state is
under `lock_`, the event cache has a lock of its own, and the correlator has
none. The device signals events whenever it likes. Nothing is persisted:
there is no restart to recover from, but every callback runs in somebody
else's process and may be interleaved with any other.

What is hard: the driver acts before the exit callback records that it did; the
application may poll, reset and destroy events without the collector seeing
it; a handle may be reused while the collector has a record of its old meaning;
a call may fail between the two callbacks; and what is recorded must be
reported exactly once, with its own timestamps, before its memory goes.

What makes the components correct:

- the cache: an event has one owner, is ready when handed out, is not destroyed
  while owned, and none is lost;
- the kernel collector: every submission made while collection is enabled is
  reported once, after it ran; no command is deleted with a call pending; its
  assertions hold;
- the correlator: after an execution its ids pair up;
- the OpenCL kernel collector: each instance keeps its event alive until it is
  processed, and is processed once;
- the API collectors: a traced function counts if and only if collection was
  enabled when it was entered, and the queries under a wrapper's guard do not;
- their call logs: a handler follows no null pointer, shows the call's own status
  and arguments, and leaves the application what it would have without it;
- times: start and end within a tick of the true ones, however the counter wraps;
- the unified tracer: nothing is used after it was destroyed, every output asked
  for is written, and what is reported is final;
- the loader: the options in front of the application reach it and its children,
  those behind it are its own, and no tracer is created with options that conflict.

## Modules

| Module | What it is |
|---|---|
| `EventLease` | what the cache promises: exclusive leases of events |
| `ZeEventCache` | the cache, with the commands, device and application around it |
| `ZeEventCacheProofs` | its theorems |
| `ZeKernelCollector` | the kernel collector; it uses the operators of `ZeEventCache` (`Cache == INSTANCE ...`) on its own variables |
| `ZeKernelCollectorProofs` | its theorems, and those of the cache carried over |
| `ClKernelCollector` | the OpenCL kernel collector |
| `ClKernelCollectorProofs` | its theorems |
| `ClApiCollector` | the OpenCL API collector and the wrappers of extension functions |
| `ClApiCollectorProofs` | its theorems |
| `ClApiCallbacks` | the logging handlers of all OpenCL functions, as what they do with pointers |
| `ClCallLog` | a call from its enter callbacks to its exit callbacks, with these handlers and the kernel collector's |
| `ClCallLogProofs` | its theorems |
| `KernelTimes` | the clocks of host and device, and what the kernel collectors make of them |
| `KernelTimesProofs` | its theorems |
| `UnifiedTracer` | creation, outputs, reports and teardown of the tracer around calls in progress |
| `UnifiedTracerProofs` | its theorems |
| `Launcher` | arguments, environment and processes |
| `LauncherProofs` | its theorems |
| `MC...` | instances for TLC: symmetry sets, and the constants a `.cfg` cannot write down |

### ZeEventCache

`event_map_[c]` is the stack of free events of context `c` (the code's vector
with `back` and `pop_back`), `event_info_map_` the context of every cached
event, and `event_pools_` counts pools. `GetEvent` takes the last free event
(`TakeFree`) or makes a pool (`GrowPool`); `ReleaseEvent` resets a cached event
and pushes it; `ReleaseContext` destroys everything of a context if the number
of free events equals the size of the pools, and nothing otherwise. Each
runs under the cache's lock and is one step. `ResetEvent` is dead code.

Around it: a `Holder` is a `ZeKernelCommand`, which holds a cached event or one
of the application's. `status` is what the driver reports of a handle: "none"
(not an event), "reset" or "signaled". Application events live in the same
space of handles, and the driver may give a handle out again once it is
destroyed.

`Spec` has the application keep an event for as long as a command names it.
`EarlyDestroySpec` allows what Level Zero allows: destroying it once it is
signaled. Then the handle of a stale command may become a cached event, and
`GetEvent`'s assertion fails (see Findings).

### ZeKernelCollector

A step named `Begin...` is the enter callback and the driver's function, the
matching `End...` (or `AddKernelCalls`, `LogExecute`) the exit callback, so the
device and all other threads act in between. `thr[t]` is what thread `t`
is inside of. A callback holds `lock_` throughout and is one step;
`RemoveKernelCommands` is one step per command, as it uses the cache's own lock
for each, and other callbacks wait for it (`LockFree`).

- `command[c]` is a `ZeKernelCommand`, its `kernel_id` 0 until
  `AddKernelCommand`. The vector of a list's commands is their set in the order
  of kernel ids.
- `kernel_call_list_` is the set of pending `ZeKernelCall`s. The list's order
  matters only to `ProcessCall(event)`, which takes the first call of an event;
  all calls of an event belong to one command here and are numbered.
- `kernel_id_map_`, `call_id_map_` are the correlator's lists. A pair of
  `call_id_map_[l]` names the kernel the call id stands next to.
- `list`, `running`, `fence`, `status`, `enabled` are the driver, the device
  and the environment variable of conditional collection.
- `wanted` and `reported` of a command are history variables: the submissions
  made while collection was enabled, sampled when the driver gets them, and
  those reported. `need_to_process` is read where the code reads it: in the exit
  callback of an execution, in the enter callback of an append.
- `Toggle` (another thread's `setenv`) may come at any time, also between these
  two samples. `raced` is the history of the submissions for which it did;
  `Accounted` is about all others, and says so.

`zeEventHostSynchronize`, `zeCommandQueueSynchronize` and
`zeCommandQueueDestroy` all come to `ProcessCalls` (`Synchronize`): the
`ProcessCall(event)` that the first runs before it takes a call that
`ProcessCalls` would. A command that cannot be run again may name a destroyed
event, so `BeginExecute` wants the events of its commands alive. `EndAppend`
joins `AddKernelCommand` and `AddKernelCall`, two critical sections, as the
list is in use by this one thread between them; so does `EndDestroyOrReset`
with `ProcessCalls` and the start of the removal.

The actions have the guards of legal use: one function per list at a time, no
change to a list on the device. What else the application and the driver are
asked for is not in the actions but beside them in `Next`, under a name each:

- `Fresh`: an event of the application is given to one command at a time. Level
  Zero allows more; then the first call of an event is not the only one, and
  `ProcessCall` leaves the others pending.
- `Settled`: it is reset when the functions about it have returned, and by no
  command on the device.
- `Unrecorded`: the driver keeps the handle of a list until the exit callback of
  `zeCommandListDestroy` has run, which it does not promise.
- `HandleKept`: it does not reuse the handle of an event a command names;
  `Unnamed`: the application destroys no such event (`Spec` only).

And an execution succeeds. What happens otherwise is in the Findings; the
properties say nothing of it.

### ClKernelCollector

OpenCL counts references to events, and an instance holds one. `refs[e]` is the
runtime's count, `mine[e]` how many the application must release; a handle
whose count is 0 may become a new event. `kernel_instance_list_` is the set of
instances, in the order of their kernel ids. `exec[e]` goes from "queued" to
"complete" or "error"; `ProcessKernelInstance(event)` reads it in one step
(`QueryStatus`) and takes the lock in another, as in the code. `due` is
history: the kernels that a `clFinish`, `clWaitForEvents` or blocking transfer
waited for. `ClEnqueueData` carries timestamps only and is left out, and so
is a function that fails when called.

The collection switch changes at any time. `began` are the threads in an enqueue
since whose submission it has been on, `switched` those for which it has
changed; when the enqueue ends, the kernel's id is added to `wanted` or `raced`
or neither. None of this reads `need_to_process`, which the exit callback takes
from the switch as it finds it. `flips` counts the changes, for the bound.

The application passes references on to nobody who does not count: a thread
releases no event that another waits for unless a second reference is left, and
has no event before the function that creates it returns. A command the
collector does not record (markers, and `clEnqueueCopyBufferRect`, which is
registered for tracing but has no branch in `Callback`) is `OtherEvent`.

An event of the collector's own is retained although it already belongs to the
collector: the comparison at cl_kernel_collector.h:831 and :886 is with the
address of `correlationData`, not with what it holds, and never equal. The
model does the same (`RetainedCount`), and the third term of `References` is
the reference that is never released: each kernel enqueued without an event
leaks one.

### ClApiCollector

The runtime calls `Callback` when a thread enters an API function
(`EnterFunction`) and leaves it (`ExitFunction`); `thr[t].start` is the
`correlationData` that the first leaves for the second, 0 if collection was
disabled. An enqueue has a step between the two, `ExitEnqueue`: the exit
callback of the kernel collector, which is enabled first and which hands over
the kernel's id in a variable of the thread (`kernel_id_`). `Callback` also
answers who asks for the address of an extension function with that of a
wrapper (`addresses`, each with what it leads to). A wrapper is three steps: it
takes the guard (`BeginExtension`), asks the driver for the function it
replaces (`GetFunctionAddress`, an API function as well), and records its call
when the function has returned (`EndExtension`).

`function_info_map_` is the table, `log` the lines of the log, `calls` the
finished calls with what they should have come to (history). Call logging and
the tracer's callback are on, which is the case with most code in it.

`Callback` takes no guard (the kernel collector's does), so what an enter handler
calls is traced too: to log an enqueue of a kernel it asks for the kernel's name,
and `clGetKernelInfo` gets a line and a place in the table before the line of
the enqueue. `EnterNaming`, `QueryName` and `EndNaming` are that enter callback,
the query a call of its own (`caller` tells where it returns to). This assumes that
the runtime traces calls made inside of callbacks, as the wrappers' guard does. Of
the functions in `Enqueues` (14 in the code) those in `Reported` (3) hand on the
kernel's id with the call.

An
address asked for while collection is disabled stays that of the driver, as
`Callback` has returned before it substitutes it; calls through it meet no code
of the tracer. Of the two functions that return addresses there is one, as they
are treated alike. Tracing is enabled before the first call and not disabled.

### ClApiCallbacks and ClCallLog

`cl_api_callbacks.h` is two handlers for each function, written by hand in pairs.
`ClApiCallbacks` has a definition for each pair, named after the function: the
pointers it prints, those it reads through, whether it puts `current_error` in
the place of a null `errcodeRet`, and where the exit handler takes the status
from. `OnEnterFunction` and `OnExitFunction` are the tables of the dispatchers.
Values and wording are left out.

`ClCallLog` runs a call through them. The arguments are shared, so the order
counts: the kernel collector puts its own variable in the place of a null
`event` and its own list in that of a queue's properties (`Instrument`), the API
collector prints (`Printed`, `Followed`) and then substitutes (`Substitute`),
the driver writes (`Run`), the kernel collector reads the event and the sizes
(`ExitKernel`), the API collector the status (`ExitFunction`). A pointer is a
member of `Place`: where it leads. `current_error` is a variable of each thread,
all calls of which share it. `followed` are the parameters that were read through.

The exit callback takes `traced` from what the enter callback left, so a call
that began while collection was disabled has no line, and one that was is
finished. `Run` fails where a kernel is null. A null size may succeed, and
`NoNullDereference` names the one read that follows from it (`SizeOmitted`; see
Findings).

### KernelTimes

One device, its clock and one command at a time; commands do not influence
each other's times. `now` is the host's clock since the correlator's base
time. `GlobalTicks` is what the driver shows of the device's, in a word of
`WordBits` bits (`Bit[n]` is 2^n), `KernelTicks` the valid bits a command is stamped with.
`DeviceSync`, `ComputeDuration`, `ZeTimes` and `ClTimes` are
the code's arithmetic, each product and shift modulo the word; `Plausible` is
every assertion on the results: `PlausibleZe` and `PlausibleCl` those of the two
collectors, `PlausibleStages` those of the stages callbacks if stages are shown. `at` are the true times (history) that `TimesFaithful` compares with.

A command of a regular list is appended, then executed, perhaps again before a
reset; of an immediate list appended and submitted at once. For an OpenCL CPU
the collector converts `CLOCK_MONOTONIC` to `CLOCK_MONOTONIC_RAW` by reading
both, and `gap` passes in between.

### UnifiedTracer

`phase` is where the tracer is in its life, `at` the next step of `Teardown`, the
destructor's body as a sequence. `collector[kind][backend]` are the six
pointers (`ze`, `cl_cpu`, `cl_gpu` of either kind): "none", "enabled",
"disabled", "deleted". Which backends can be traced is chosen at creation. A
thread in a function is between the enter and exit callbacks of the collectors
that were enabled when it entered, and needs them until it leaves. The
destructor runs in between, one step at a time. An exit callback of a kernel
collector reports as many kernels as it finds finished (`finished`, up to
`MaxKernels`).

Two promises of the drivers are assumed: `clDisableTracing` returns when the
calls in progress have, `zelTracerDestroy` too; `zelTracerSetEnabled` does not
wait, so tables of Level Zero may be printed while a last call of each thread is
on its way, with any number of kernels (`ReportFinal` says so).

Nothing waits for wrappers of extension functions, which are no traced functions.
A thread may be in one when the destructor starts, or call one during or after
it. `Backed` is what a wrapper uses: `instance_`, the API collector behind it,
the logger. A wrapper that begins or ends and finds it deleted leads to phase
"undefined", where the model ends: freed memory is used. `NoUseAfterDelete` says
that this cannot happen before the tables are printed. Afterwards it can, which
is the limit of what the code achieves and is listed among the findings.

`KernelCallback` is the choice of one of nine callbacks as the first entry of
`Choices` that fits; the set of lines it stands for is compared with what the
options say (`Requested`, after the option texts of the tool). The tables are
records of a title, a backend and a count; one without any is not printed.

### Launcher

A process is a program with its arguments and environment, and "started", "running"
or "aborted". `Load` is the library's constructor, which makes a tracer of the
variables if `FTRACE_ENABLE` is "1" and aborts the process if they fail an assertion
(`Asserted`: a log file without a name in `ReadArgs`, conflicts in `Create`);
`Launch` is the loader's `main`: `ParseArgs` as a recursive function over the
arguments (`Parsed`), then `execvp`. `GiveUp` is the loader's end, on an error or
when `execvp` fails. A user's environment (`Shells`) may have any of the variables;
an unset log file name reads as "", like an empty one. Traced applications start children, or turn
into other programs, loaders among them, and hand on the environment. The reference for `ParseArgs` does not count: `Starts` are the
ways to read arguments as options and file names, and the application is at the
first position that is neither.

## Runs

| Run | Bounds | Shows |
|---|---|---|
| `cache` | 2 contexts, pools of 2, 5 handles, 3 commands | invariants, `ContextReleasable`, `ImplementsLease` |
| `cache_early_destroy` | as `cache` | violates `FreeEventsReady` |
| `kernel_calls` | 2 threads, 2 lists, 2 command objects, 2 kernel ids, 1 execution per reset, one cached and one reusable event handle, 1 fence, a switch that changes at any time | `NoOrphanedCall`, `ListRecords`, `PendingEventsExist`, `Accounted`, `ReportedAfterRun` with early destruction of events |
| `kernel_reexecute` | the same with one list, executed up to twice, events of the cache, a switch that is on or off | `FenceImpliesEvent`, `IdListsPaired`, `ImplementsCache`, `EventuallyProcessed` |
| `kernel_stale_timestamps` | one list, two executions | violates `ReportedAfterRun` |
| `cl_kernel` | 2 threads, 1 queue, 2 event handles (one of which may also be of a command that is not recorded), 2 kernels, 2 references, 1 change of the switch | `References`, `HandlesIdentify`, `Accounted`, `ProcessedComplete`, `SynchronizedProcessed`, `EventuallyProcessed` |
| `api_calls` | 2 threads, 2 enqueues (one reported with its id), `clGetKernelInfo`, the function that returns addresses, 1 extension, 3 calls, a clock up to 2 | `Summarized`, `LogPaired`, `OwnKernelId`, `WrappersCallDriver` |
| `api_disabled` | as `api_calls`, with a clock up to 4 | violates `OmittedWhenDisabled` |
| `call_log` | 1 thread that calls all functions, 1 that calls two, every combination of null pointers (a null size may succeed), 2 statuses | `NoNullDereference`, `StatusShown`, `Transparent`, `ArgumentsShown` |
| `times` | counters of 3, 2 and 6 bits at 3, 4 and 2 ticks per 4 "nanoseconds of a second", words of 6 bits, clocks that start at 0 and close to the end of a word, gaps of 0 and 1, a clock up to 13, 2 runs | `TimesFaithful`, `AbortsOnlyOnExtremes` |
| `tracer` | 2 threads, 3 backends, 3 calls, up to 2 kernels in an exit callback, 16 sets of options: all of timelines, each other option, two mixed ones | `NoUseAfterDelete`, `OutputsWritten`, `ReportFinal` |
| `launcher` | 2 processes, 3 programs from a shell to a process, 16 command lines, 5 environments of a user | `OptionsConsistent`, `OptionsReach` |

Bounds. Two contexts show that events of one do not reach the other; pools of
two and five handles give two pools, a free list longer than one, and handles
left for the application; three commands are one more than a conflict needs.
Two threads and two lists give every pair of callbacks. `MaxKernels` (ids handed
out in a behaviour) and `MaxRuns` (executions of a list between resets) are
the only counters cut. The switch of `kernel_calls` is not limited. It keeps its first
value, on or off, in `kernel_reexecute`, whose properties do not depend on it.
`kernel_reexecute` has no application events because a
list executed twice with one meets the third variant of the `NoOrphanedCall`
finding. `Destruct` ends the cache, so the cache runs do not check for
deadlock; the others do.

For OpenCL, two handles let one be reused while the other's instance is pending,
which is what the hazards need; a second queue only makes `clFinish` wait for
less. One change of the switch turns it on or off, as either value is the first,
at each point of an enqueue.

For the API collector, three calls are enough for a minimum that is not the
first call's, for an address asked for and a wrapper called while another
thread is in a function, and for kernel ids of two threads; a query of a name is
one of the three. A clock that starts at 1 and goes up to 2 gives calls of two
lengths, which a minimum and a maximum take. In `call_log`, handlers share nothing but
`current_error`, for which the second thread's two functions are enough.

In `times`, a counter of 3 bits at 3 ticks in 4 wraps once in about 11 units, one
of 2 bits at full rate in 4, so both do within a clock of 13; the one of 6 bits
is as wide as a word. In `tracer` two kernels in one exit callback are more than the callback's own, so
that a table may lack more of them than threads. It stops when the tracer is gone
and its calls are used up, or where behaviour is undefined, `times` when an assertion has failed or its clock is at the end:
neither run checks for deadlock. Three programs in a row let a loader start
an application that starts a loader; two command lines are what a conflict takes. The five environments have each way
to fail `ReadArgs`, or not to.

Fairness. `EventuallyProcessed` assumes that a thread finishes the function it
is in (weak fairness of its callbacks), that the device finishes what was
submitted (weak), and that the application synchronizes again and again (strong
fairness of `Synchronize`, for OpenCL of `BeginFinish`: a thread may be busy at any one moment). The
last is the application's; the code has no thread of its own and reports at
synchronizations only. What is pending when the process ends is never
reported.

Each definition marked *Fault* is a bug put in the definition next to it, with
which the property it is for fails.

## Findings

Shown by a run:

- A command keeps the handle of an application event that has been destroyed
  (`cache_early_destroy`).
- A list executed again reports the previous execution's timestamps
  (`kernel_stale_timestamps`).
- A wrapper of an extension function does not ask whether collection is enabled
  (`api_disabled`).

Met while modelling, both kernel collectors:

- Whether a kernel is reported is decided when its exit callback runs
  (ze_kernel_collector.h:1093 for executions, cl_kernel_collector.h:864 and :904):
  one submitted while collection is disabled is reported if another thread
  enables collection before that, and the other way round. src/README.md:149 has
  it that what is submitted in a disabled interval is omitted. The properties
  `Accounted` leave these submissions out by history (`raced`).

Level Zero:

- A pending call whose event is reset unseen stays for ever, and the removal of
  its list aborts the program. The device may reset it, or another thread before
  the exit callback of the append has recorded the call; and of two pending
  calls of one event of a list executed twice, `zeEventHostReset` reports one.
- A list's (or image's) handle reused before the exit callback of its destruction
  ran meets an assertion.
- A failed `zeCommandQueueExecuteCommandLists` leaves kernel ids without call
  ids, and the next execution fails the assertion on their number; one of no
  lists stores nothing in its enter callback and asserts in its exit callback
  that it did (ze_kernel_collector.h:1995).
- An append with a null list and no event is left alone by the enter callback,
  and the exit callback asserts that there is an event.
- `OnEnterCommandListAppendMemoryCopyRegion` computes the size of the region into
  a variable that hides the one it uses: the kernel's name has 0 bytes.
- Two equal readings of a counter are taken for a wrap, and give a kernel shorter
  than a tick the length of a period; counters as wide as a word overflow the
  product with `NSEC_IN_SEC`. `TimesFaithful` and `AbortsOnlyOnExtremes` leave
  these out by name.

OpenCL:

- A command that ends in the nanosecond it started in aborts the application
  (cl_kernel_collector.h:438); with stages shown, so do two equal stamps of other
  stages (unified_tracer.h:879-903).
- Times of a CPU are early by what passed between the readings of two clocks.
- A null global size, which OpenCL 2.1 allows, is read through
  (cl_kernel_collector.h:741).
- The API collector's callbacks hold no guard (cl_api_collector.h:231), so the
  `clGetKernelInfo` calls of its own enter handlers (cl_api_callbacks.h:3580,
  cl_utils.h:127) are logged and counted as if they were the application's.
- The commands of 14 functions get kernel ids, and three functions are reported
  with one (cl_api_collector.h:271-273): the kernels of the others, those of
  `clEnqueueTask` among them, belong to no call of the timeline.
- An enqueue that fails is reported with the id of the thread's previous kernel.
- A function that begins while collection is disabled returns from its exit
  callback before the substitution of addresses (cl_api_collector.h:257).

The tracer and its loader:

- A tracer that can trace no kernels warns and deletes itself
  (unified_tracer.h:132-135), but the destructor's report asserts that there is
  a collector and aborts the application (phase "aborted").
- The extension collector is created with the API collectors and destroyed with
  the OpenCL kernel collectors: without those it is leaked. Its `instance_` is
  never nulled, and nothing waits for wrappers: one that is in progress when the
  API collectors are deleted (unified_tracer.h:245), or called later, uses freed
  memory (phase "undefined").
- Disabling a Level Zero tracer waits for nobody, so its tables may lack, of each
  thread in a function, the call and any number of kernels: an exit callback reports
  every kernel it finds finished (ze_kernel_collector.h:850).
- The extension of a log file is looked for with `find_last_of('.')` in the whole
  path: `-o ./log` splits at the directory's dot, and the traced process fails to
  open its log (logger.h:16).
- `-o ""` passes the loader and aborts the traced process: the name is empty when
  the tracer reads it back (tool.cc:262). A user's `FINETRACE_LogToFile` without a
  name does the same.
- An option that only modifies others, such as `-v` alone, replaces the default
  summaries by none.
- A program that turns into another one keeps its process id: the second log
  overwrites the first, whose tables were not printed.

## Proofs

`ZeEventCacheProofs` proves every property of the `cache` run for any number of
contexts, events, commands and any pool size. Assumed: the pool size is a
positive number (`EVENT_POOL_SIZE` is a constant of the code), the null handle
is no event or context, and handles are finitely many (cardinalities are
compared).

`OnePlace` alone is not inductive. `IInv` joins it to `TypeOK`,
`FreeEventsReady`, `NoDanglingEvent` and `Conserved`, and to `stale = {}` (no
event was destroyed while a command held it), because each needs the others:
an event handed out is ready because a free one is in no command's hands, and
a new handle is not cached already because every cached event exists. All of
it is under `Spec`, whose application destroys no event a command names; under
`EarlyDestroySpec` the first is false.
`NoDanglingEvent` needs all of it, as `ReleaseContext` argues from a length to
"nothing is held": the free list has no duplicates (`OnePlace`), so its length
is the number of its events, which equals the number of all events of the
context's pools (`Conserved`) only if none is held. One lemma per action, then the temporal theorems. `CacheImplementsLease`
maps `lease` to the cached events commands hold and `idle` to all free lists:
acquisition is `Lease`, a return of a cached event `GiveBack`, releasing a
context and the destructor `Retire`, and everything else stutters.

`ClKernelCollectorProofs` proves every safety property of the `cl_kernel` run
for any number of queues, events, kernels and references, and any finite number
of threads. Assumed: the null event is no event (`HandleAssumption`), and the
bounds are numbers (`BoundAssumption`).

The difficulty is `ProcessedComplete`: the event's status is read before the
lock, and in between the instance may be processed by another thread, its event
freed and the handle given to a new command. The argument is one about who has
a reference. `ReferencesCovered` says that the application has one for each
thread that is giving one up or waiting; with `References` an event in a
thread's hands then exists, so that `NewEvent` cannot choose its handle
(`Gone`), and what was seen complete stays complete (`ThreadShape`). The same
gives `HandlesIdentify`: an instance holds a reference, and a command being
enqueued is the only one with its event (`EnqueueNew`). `InternalUnseen` keeps
events of the collector's own out of the application's hands, `KernelIds` makes
a kernel id name one instance, and `DueShape` follows what a synchronization
waited for down to what it has still to process, from which
`SynchronizedProcessed` follows when nothing is left. For `Accounted`, `SwitchKept`
relates the switch to the enqueues in progress (a thread in `began` finds it on, one
in neither history finds it off), which is what the exit callback's reading of it is
compared with. One lemma per action;
`ThreadStep` does those that change only what a thread is about, `ProcessKeeps`
both that process instances.

`ClApiCollectorProofs` proves every property of the `api_calls` run for any
number of threads, functions and calls and any clock. Assumed: enqueues,
`clGetKernelInfo` and the function that returns addresses are different functions,
extension functions are none of them, and those reported with an id are enqueues
(`FunctionAssumption`). Everything hangs on state that is the thread's own. `GuardHeld`
says the guard is held while the thread is in a wrapper and at no other time, so
that `Callback` answers a wrapper's question with the driver's address.
`KernelIdKept` says that between the two exit callbacks of an enqueue the
correlator holds its kernel's id; `CallKept` that a start time means collection
was enabled on entry, and that it is not in the future. `OwnStep` shows once that
a step of a thread disturbs no other's. `TableFaithful` follows the table against
the history of calls, those of enter handlers and wrappers included: one call more moves the total by its time and the minimum and
maximum to it or not at all. `LinesPaired` follows the log: between an open
line of a thread and the next of that thread lie lines of others only. The total
is a recursive function; that it exists and adds one call at a time is shown with
the least length for which it would not.

`ZeKernelCollectorProofs` proves every safety property of the two `kernel` runs for
any number of threads, lists, commands, events, fences and bounds. Assumed: the
null value is no list, command, event or context, there are finitely many events,
and the pool size and bounds are positive numbers. The invariant grows in
layers, each proved with one lemma per callback on the one below:

- `Base`, under `EarlyDestroySpec`: types, lists and the records of them, the
  commands of a list, which command has which call pending or upcoming
  (`Upcoming`: sent to the device by an execution or append whose exit callback has
  not run), and the cache. From it `Types` and `RecordsOfLists`.
- `AccountsInv` relates `wanted`, `reported` and the pending calls by their number,
  for all submissions but the `raced`: `SubmissionsAccounted`. In between, a
  submission that is not raced has been made under the switch as it is now. `IdsInv` relates the ids of the correlator with the commands of
  each list: `IdsOfExecution`. Both also under `EarlyDestroySpec`.
- `QueryInv`: a call's event is signaled unless the device still runs the call. From
  it `QueriedEventsExist`, `CommandsOutliveCalls` and `FencesOfCalls`, under the
  hypothesis `Modest`: a list is executed once between resets, or no event of the
  application is named. It is needed: `ProcessCall(event)` takes the first call of the
  event only, and with two a host reset leaves the second pending for ever. TLC
  shows it on two executions with one application event; it is listed among
  the findings. `ReportsAfterRun` wants `MaxRuns = 1`, as a second execution meets the
  events of the first still signaled (`kernel_stale_timestamps`).
- `HeldInv`, under `Spec`: the application keeps its events. `KeptEventsExist`
  needs no hypothesis then.

`CollectorImplementsCache` is a refinement: every callback, and every step of
driver, device and application, is a step of `ZeEventCache`'s closed system or a
stutter. `CacheOfCollector` then takes the theorems of `ZeEventCacheProofs` over: the
assertion of `GetEvent` holds in the collector, no event is lost, and a context is
complete when it is released.

`UnifiedTracerProofs` proves the properties of `tracer` for any sets of options and
calls and finitely many threads. `at`, the step of the destructor that is next, tells
what exists: `CollectorsShaped` and `LoggerKept` say what of the six collectors and
the logger is deleted by then, `CallsAwaited` that the destructor waits for calls in
progress before it disables a collector of OpenCL or deletes one of Level Zero,
`WrappersBacked` that the application has wrappers only of devices the extension
collector knows, whose objects are there until the tables are printed.
`ReportKept` compares the printed tables with what is counted: of calls they lack one for
each thread inside then and one for each wrapper that ended since, of kernels
none unless a thread was inside. That the callback writes what the options ask for
(`OutputsAsRequested`) is a theorem about a list of conditions and all sets of
options: it needs no state.

`ClCallLogProofs` proves the properties of `call_log` for any threads, calls and
statuses. `HandlersAgree` goes through the handlers of all functions once: the exit
handler reads a status through `errcodeRet` if and only if the enter handler
replaces a null one, and nothing else read through is replaced (`Agree`). The rest
argues with this alone. The size that `SizeOmitted` names is the only null pointer
for which the argument fails. `ParamsPassed` and `DriverDone` say what each parameter
points to in each step of a call.

`LauncherProofs` proves `OptionsConsistent` and `OptionsReach` for any commands,
processes and programs. Assumed: a command is a nonempty sequence of strings, and
the variables a user sets are options of the tool, a log file with or without a name
among them. The invariant `Informed` says that the environment of a process holds what
was asked for on the way to it, that it enables the tracer only if that does not
conflict, that a running process has a tracer that was told what the environment
says, and that one is aborted only if a log file was asked for without a name. `ParsedAsMeant` is the theorem about the parser: for
every line, `Parsed` returns the options of `Starts` and the first position that
is neither option nor file name. It argues with the last argument from which the
parser would go wrong, as the prover has no induction over sequences.

`KernelTimesProofs` proves `TimesFaithful` and `AbortsOnlyOnExtremes` for any
frequency up to a tick a nanosecond, any width of words and number of valid bits, any
offset, lag and time. The invariant gives the command in each stage as a record of the
times at which it got there (`ZeRun`, `ClRun`): what the collector recorded and the
driver stamped is a function of these. The arithmetic is in lemmas: the valid bits
of a word are those of the number (`LowerBits`, as the period divides the word's:
`Widths`, a property of the recursive `Bit`), two readings are as far apart as the
counter went on (`ReadingsApart`), `ComputeDuration` of them is exact from one
tick to a period (`Duration`, with the case of `mask + 1` wrapping to 0), and the
remainders cancel between submission, start and end (`Rounded`, `ZeFaithful`).

Every property of a passing run is the statement of a theorem except the two
`EventuallyProcessed`, which are liveness under fairness and out of the prover's
reach: they are model-checked only. The fault definitions are no part of what is
proved.

## Plan

Done: all modules above, and theorems for every invariant and refinement. To
come, in this order:

1. Action properties of the collectors that a reviewer would want as theorems, where
   an invariant states them less directly: a submission once reported stays
   reported, a log's lines are only added to.
2. An exactly-once report per submission as an abstract specification, shared by
   both kernel collectors, with refinements from each; a multiset of timed
   calls for the API collectors.
3. What `ZeKernelCollector` leaves out of its component: the arguments of the
   append functions, images, group sizes, per-tile reports; the times of the
   Level Zero API collector; the summary tables.

## Not modelled

The text of logs and tables, demangling, the logger's one write under a lock, and
the building of the project have no state a property could be about. The metric
library is used by nothing in the repository, and kernel intervals exist only in
a build with `FTRACE_KERNEL_INTERVALS`, which nothing here defines. The samples are
programs to trace. Windows has a loader of its own that is not modelled. The
generated callbacks of Level Zero are known from their generator only.

Undefined behaviour of the unlocked correlator maps is not explored: reads are
atomic steps. The same holds for the tables of Level Zero collectors, which the
report reads while a last exit callback may write.
