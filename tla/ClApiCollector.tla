--------------------------- MODULE ClApiCollector ---------------------------
(***************************************************************************)
(* The OpenCL API collector (cl_api_collector.h) and the wrappers of       *)
(* extension functions (cl_ext_callbacks.h).  The runtime calls Callback   *)
(* when a thread enters and leaves an API function; the wrappers replace   *)
(* functions the runtime does not trace.  Both add to the table of         *)
(* function times, log a line on entry and one on exit, and tell the       *)
(* tracer of each finished call.                                           *)
(*                                                                         *)
(* A callback is one step, the driver's function lies between two, and so  *)
(* does the API function an enter callback calls.  Call logging and the    *)
(* tracer's callback are on.                                               *)
(***************************************************************************)
EXTENDS Integers, Sequences, FiniteSetsExt

CONSTANTS
  Threads,     \* application threads
  Functions,   \* functions the runtime traces, ...
  Enqueues,    \* ... those of them whose commands get a kernel id,
  Reported,    \* of these, the ones that are reported with it,
  Naming,      \* those whose enter line has the name of the kernel,
  KernelInfo,  \* clGetKernelInfo, which is asked for it,
  GetAddress,  \* and clGetExtensionFunctionAddressForPlatform
  Extensions,  \* extension functions
  None,        \* no function
  MaxCalls,    \* bound on the calls when the application makes another
  MaxTime      \* bound on the clock

ASSUME FunctionAssumption ==
  /\ Enqueues \subseteq Functions /\ Reported \subseteq Enqueues
  /\ GetAddress \in Functions \ Enqueues /\ KernelInfo \in Functions \ Enqueues
  /\ KernelInfo # GetAddress /\ Naming \subseteq Functions \ {GetAddress, KernelInfo}
  /\ Functions \cap Extensions = {} /\ None \notin Functions \cup Extensions
ASSUME BoundAssumption == MaxCalls \in Nat /\ MaxTime \in Nat

VARIABLES
  clock,              \* GetTimestamp; it is past 0 when collectors exist
  enabled,            \* IsCollectionEnabled
  addresses,          \* addresses of extension functions the application has
  inactive_count_,    \* TraceGuard's count, of each thread
  kernel_id_,         \* the correlator's kernel id, of each thread
  next_kernel_id,     \* the kernel collector's counter
  function_info_map_, \* the table of function times
  thr,                \* thr[t]: the call thread t is in (see CallType)
  \* history
  calls,              \* the finished calls, in order
  log                 \* the lines of the log, in order

vars == <<clock, enabled, addresses, inactive_count_, kernel_id_, next_kernel_id,
          function_info_map_, thr, calls, log>>

Names == Functions \cup Extensions

\* An address leads to the driver's function or to the wrapper of it.
Target == {"driver", "wrapper"}

\* start is correlationData, 0 for a call that is not collected; of is the
\* extension function asked for, target what a wrapper calls, caller the
\* function whose enter callback makes the call, if one does.  History are own,
\* the id the call's kernel was given, and entered and wanted, the time and the
\* state of collection at entry.
CallType ==
  [fn : Names \cup {None}, of : Extensions \cup {None}, caller : Naming \cup {None},
   site : {"idle", "name", "named", "enqueue", "exit", "resolve", "end"},
   target : Target, start : Nat, own : Nat, entered : Nat, wanted : BOOLEAN]

\* A function that has not been called is not in the table.
NoInfo == [total_time |-> 0, min_time |-> 0, max_time |-> 0, call_count |-> 0]

NoCall == [fn |-> None, of |-> None, caller |-> None, site |-> "idle", target |-> "driver",
           start |-> 0, own |-> 0, entered |-> 0, wanted |-> FALSE]

Idle(t) == thr[t].site = "idle"
Busy == {t \in Threads : ~Idle(t)}

-----------------------------------------------------------------------------
(* The parts of callbacks and wrappers (a "Fault" is a bug put into what   *)
(* follows it).                                                            *)

GuardIgnored(t) == FALSE  \* Fault: the wrappers have no guard.
Inactive(t) == inactive_count_[t] > 0

StillEnabled(t) == enabled  \* Fault: the exit callback asks the environment.
Collected(t) == thr[t].start # 0

ElapsedSwapped(t) == thr[t].start - clock  \* Fault: start and end swapped.
Elapsed(t) == clock - thr[t].start

AddFunctionTimeNoMin(f, time) ==  \* Fault: the minimum is that of the first call.
  [function_info_map_ EXCEPT ![f] =
     IF @.call_count = 0
       THEN [total_time |-> time, min_time |-> time, max_time |-> time, call_count |-> 1]
       ELSE [@ EXCEPT !.total_time = @ + time, !.max_time = Max({@, time}),
                      !.call_count = @ + 1]]

AddFunctionTime(f, time) ==
  [function_info_map_ EXCEPT ![f] =
     IF @.call_count = 0
       THEN [total_time |-> time, min_time |-> time, max_time |-> time, call_count |-> 1]
       ELSE [total_time |-> @.total_time + time,
             min_time |-> Min({@.min_time, time}),
             max_time |-> Max({@.max_time, time}),
             call_count |-> @.call_count + 1]]

SetKernelIdShared(t, id) == [u \in Threads |-> id]  \* Fault: not thread_local.
SetKernelId(t, id) == [kernel_id_ EXCEPT ![t] = id]

\* The id a finished call is reported with.
ReportedId(t) == IF thr[t].fn \in Reported THEN kernel_id_[t] ELSE 0

Line(t, f, site) == [thread |-> t, fn |-> f, site |-> site]

Finished(t, id) ==
  [fn |-> thr[t].fn, wanted |-> thr[t].wanted, time |-> clock - thr[t].entered,
   own |-> thr[t].own, id |-> id]

-----------------------------------------------------------------------------
(* Functions the runtime traces.                                           *)

Init ==
  /\ clock = 1
  /\ enabled \in BOOLEAN
  /\ addresses = {}
  /\ inactive_count_ = [t \in Threads |-> 0]
  /\ kernel_id_ = [t \in Threads |-> 0]
  /\ next_kernel_id = 1
  /\ function_info_map_ = [f \in Names |-> NoInfo]
  /\ thr = [t \in Threads |-> NoCall]
  /\ calls = <<>> /\ log = <<>>

\* The enter site of Callback, but for the query of a kernel's name.
Enter(t, f, of, caller) ==
  LET traced == enabled /\ ~Inactive(t)
  IN
  /\ thr' = [thr EXCEPT ![t] =
       [NoCall EXCEPT !.fn = f, !.of = of, !.caller = caller,
          !.site = IF f \in Enqueues THEN "enqueue" ELSE "exit",
          !.start = IF traced THEN clock ELSE 0, !.entered = clock, !.wanted = enabled]]
  /\ log' = IF traced THEN Append(log, Line(t, f, "enter")) ELSE log
  /\ UNCHANGED <<clock, enabled, addresses, inactive_count_, kernel_id_, next_kernel_id,
                 function_info_map_, calls>>

\* The application calls f (that of Naming is not collected, or without a kernel).
EnterFunction(t, f, of) ==
  /\ Idle(t)
  /\ Len(calls) + Cardinality(Busy) < MaxCalls
  /\ of # None <=> f = GetAddress
  /\ Enter(t, f, of, None)

\* The call of f whose enter callback is busy with the name: before the query
\* it makes for it, and after.
Entering(f, site) == [NoCall EXCEPT !.fn = f, !.site = site, !.wanted = TRUE]

\* The application calls f, whose enter callback is to log the kernel's name.
EnterNaming(t, f) ==
  /\ Idle(t)
  /\ Len(calls) + Cardinality(Busy) < MaxCalls
  /\ f \in Naming
  /\ enabled /\ ~Inactive(t)
  /\ thr' = [thr EXCEPT ![t] = Entering(f, "name")]
  /\ UNCHANGED <<clock, enabled, addresses, inactive_count_, kernel_id_, next_kernel_id,
                 function_info_map_, calls, log>>

\* GetKernelName in the enter callback calls clGetKernelInfo.  Callback holds no
\* guard: that call comes to Callback like one of the application.
QueryName(t) ==
  /\ thr[t].site = "name"
  /\ Enter(t, KernelInfo, None, thr[t].fn)

\* The enter callback has the name, logs its line and takes the start time.
EndNaming(t) ==
  LET f == thr[t].fn
  IN
  /\ thr[t].site = "named"
  /\ thr' = [thr EXCEPT ![t] =
       [NoCall EXCEPT !.fn = f, !.site = IF f \in Enqueues THEN "enqueue" ELSE "exit",
                      !.start = clock, !.entered = clock, !.wanted = TRUE]]
  /\ log' = Append(log, Line(t, f, "enter"))
  /\ UNCHANGED <<clock, enabled, addresses, inactive_count_, kernel_id_, next_kernel_id,
                 function_info_map_, calls>>

\* The exit callback of the kernel collector, which was enabled first and
\* comes first; a function that failed leaves no kernel.
ExitEnqueue(t) ==
  /\ thr[t].site = "enqueue"
  /\ \/ /\ thr' = [thr EXCEPT ![t].site = "exit", ![t].own = next_kernel_id]
        /\ kernel_id_' = SetKernelId(t, next_kernel_id)
        /\ next_kernel_id' = next_kernel_id + 1
     \/ /\ thr' = [thr EXCEPT ![t].site = "exit"]
        /\ UNCHANGED <<kernel_id_, next_kernel_id>>
  /\ UNCHANGED <<clock, enabled, addresses, inactive_count_, function_info_map_, calls, log>>

\* Where a call returns to: the application, or the enter callback that made it.
Return(t) ==
  IF thr[t].caller = None THEN NoCall ELSE Entering(thr[t].caller, "named")

\* The exit site of Callback.  It returns early if the call is not collected,
\* and then the application gets the address the driver returned.
ExitFunction(t) ==
  /\ thr[t].site = "exit"
  /\ IF Collected(t)
       THEN /\ function_info_map_' = AddFunctionTime(thr[t].fn, Elapsed(t))
            /\ log' = Append(log, Line(t, thr[t].fn, "exit"))
            /\ calls' = Append(calls, Finished(t, ReportedId(t)))
       ELSE /\ calls' = Append(calls, Finished(t, 0))
            /\ UNCHANGED <<function_info_map_, log>>
  /\ addresses' = IF thr[t].fn # GetAddress THEN addresses ELSE
       addresses \cup {<<thr[t].of, IF Collected(t) THEN "wrapper" ELSE "driver">>}
  /\ thr' = [thr EXCEPT ![t] = Return(t)]
  /\ UNCHANGED <<clock, enabled, inactive_count_, kernel_id_, next_kernel_id>>

-----------------------------------------------------------------------------
(* Extension functions.  One called at the driver's address meets no code  *)
(* of the tracer.                                                          *)

\* A wrapper, up to GetFunctionAddress.
BeginExtension(t, f) ==
  /\ Idle(t)
  /\ <<f, "wrapper">> \in addresses
  /\ Len(calls) + Cardinality(Busy) < MaxCalls
  /\ inactive_count_' = [inactive_count_ EXCEPT ![t] = @ + 1]
  /\ thr' = [thr EXCEPT ![t] =
       [NoCall EXCEPT !.fn = f, !.site = "resolve", !.start = clock, !.entered = clock,
                      !.wanted = enabled]]
  /\ log' = Append(log, Line(t, f, "enter"))
  /\ UNCHANGED <<clock, enabled, addresses, kernel_id_, next_kernel_id, function_info_map_,
                 calls>>

\* GetFunctionAddress, whose own calls come to Callback as well (the guard is to
\* make it return early; of what it would do otherwise there are the table and
\* the substitution).
GetFunctionAddress(t) ==
  LET traced == enabled /\ ~Inactive(t)
  IN
  /\ thr[t].site = "resolve"
  /\ function_info_map_' = IF traced THEN AddFunctionTime(GetAddress, 0)
                           ELSE function_info_map_
  /\ thr' = [thr EXCEPT ![t].site = "end", ![t].target = IF traced THEN "wrapper" ELSE "driver"]
  /\ UNCHANGED <<clock, enabled, addresses, inactive_count_, kernel_id_, next_kernel_id,
                 calls, log>>

\* The driver's function has returned to the wrapper.
EndExtension(t) ==
  /\ thr[t].site = "end"
  /\ function_info_map_' = AddFunctionTime(thr[t].fn, Elapsed(t))
  /\ log' = Append(log, Line(t, thr[t].fn, "exit"))
  /\ calls' = Append(calls, Finished(t, 0))
  /\ inactive_count_' = [inactive_count_ EXCEPT ![t] = @ - 1]
  /\ thr' = [thr EXCEPT ![t] = NoCall]
  /\ UNCHANGED <<clock, enabled, addresses, kernel_id_, next_kernel_id>>

-----------------------------------------------------------------------------
(* The rest of the process.                                                *)

Tick ==
  /\ clock < MaxTime
  /\ clock' = clock + 1
  /\ UNCHANGED <<enabled, addresses, inactive_count_, kernel_id_, next_kernel_id,
                 function_info_map_, thr, calls, log>>

\* FTRACE_ENABLE_COLLECTION is set or unset.
Toggle ==
  /\ enabled' = ~enabled
  /\ UNCHANGED <<clock, addresses, inactive_count_, kernel_id_, next_kernel_id,
                 function_info_map_, thr, calls, log>>

Next ==
  \/ \E t \in Threads, f \in Functions, of \in Extensions \cup {None} : EnterFunction(t, f, of)
  \/ \E t \in Threads, f \in Naming : EnterNaming(t, f)
  \/ \E t \in Threads : QueryName(t)
  \/ \E t \in Threads : EndNaming(t)
  \/ \E t \in Threads : ExitEnqueue(t)
  \/ \E t \in Threads : ExitFunction(t)
  \/ \E t \in Threads, f \in Extensions : BeginExtension(t, f)
  \/ \E t \in Threads : GetFunctionAddress(t)
  \/ \E t \in Threads : EndExtension(t)
  \/ Tick
  \/ Toggle

Spec == Init /\ [][Next]_vars

-----------------------------------------------------------------------------
(* Correctness.                                                            *)

TypeOK ==
  /\ clock \in Nat \ {0} /\ enabled \in BOOLEAN
  /\ addresses \subseteq Extensions \X Target
  /\ inactive_count_ \in [Threads -> Nat]
  /\ kernel_id_ \in [Threads -> Nat] /\ next_kernel_id \in Nat \ {0}
  /\ function_info_map_ \in
       [Names -> [total_time : Nat, min_time : Nat, max_time : Nat, call_count : Nat]]
  /\ thr \in [Threads -> CallType]
  /\ calls \in Seq([fn : Names, wanted : BOOLEAN, time : Nat, own : Nat, id : Nat])
  /\ log \in Seq([thread : Threads, fn : Names, site : {"enter", "exit"}])

\* The calls of f that should be in the table: those that began while
\* collection was enabled, and all of wrappers.
Timed(f) ==
  {i \in DOMAIN calls : calls[i].fn = f /\ (calls[i].wanted \/ f \in Extensions)}

TotalTime(f) ==
  LET total[n \in 0..Len(calls)] ==
        IF n = 0 THEN 0
        ELSE total[n - 1] + (IF n \in Timed(f) THEN calls[n].time ELSE 0)
  IN  total[Len(calls)]

\* The table sums up these calls, each once and with its own time, whatever
\* happened to FTRACE_ENABLE_COLLECTION before they ended.  Among them are the
\* calls of clGetKernelInfo that the enter callbacks make themselves; of the
\* queries of GetFunctionAddress, under the guard of a wrapper, it has none.
Summarized ==
  \A f \in Names :
    LET times == {calls[i].time : i \in Timed(f)}
    IN  function_info_map_[f] =
          IF times = {} THEN NoInfo
          ELSE [total_time |-> TotalTime(f), min_time |-> Min(times), max_time |-> Max(times),
                call_count |-> Cardinality(Timed(f))]

\* Of the lines of their thread, line j comes right before line i; line i is last.
Before(lines, i, j) ==
  /\ j < i /\ lines[j].thread = lines[i].thread
  /\ \A m \in DOMAIN lines : j < m /\ m < i => lines[m].thread # lines[i].thread
LastLine(lines, i) == \A m \in DOMAIN lines : i < m => lines[m].thread # lines[i].thread

\* In the lines of one thread enter and exit lines alternate, an exit line follows
\* the enter line of the same call, and an enter line that no line follows is
\* that of the call the thread is in.
LogPaired ==
  \A i \in DOMAIN log :
    /\ \A j \in DOMAIN log : Before(log, i, j) => log[i].site # log[j].site
    /\ log[i].site = "exit" => \E j \in DOMAIN log : Before(log, i, j) /\ log[i].fn = log[j].fn
    /\ log[i].site = "enter" /\ LastLine(log, i) =>
         LET t == log[i].thread IN ~Idle(t) /\ log[i].fn = thr[t].fn

\* A collected call of the functions in Reported that enqueued a kernel is
\* reported with the id of that kernel, whatever other threads enqueue.  (One
\* that failed is reported with the id of the thread's previous kernel, and the
\* kernels of other functions are not reported with any call.)
OwnKernelId ==
  \A i \in DOMAIN calls :
    calls[i].fn \in Reported /\ calls[i].own # 0 /\ calls[i].wanted =>
      calls[i].id = calls[i].own

\* A wrapper calls the driver's function: the address it is given was not
\* replaced by that of the wrapper, which would call itself for ever.
WrappersCallDriver ==
  \A t \in Threads : thr[t].site = "end" => thr[t].target = "driver"

\* Calls that began while collection was disabled are omitted from the table.
OmittedWhenDisabled ==
  \A f \in Names :
    function_info_map_[f].call_count
      <= Len(SelectSeq(calls, LAMBDA c : c.fn = f /\ c.wanted))
=============================================================================
