------------------------------ MODULE ClCallLog ------------------------------
(***************************************************************************)
(* What the two OpenCL collectors do with the arguments of the calls they  *)
(* see.  The parameters of a call are shared: the kernel collector's enter *)
(* callback (cl_kernel_collector.h) replaces some, then the API collector  *)
(* (cl_api_collector.h) logs them and replaces another, then the driver    *)
(* uses them, and the exit callbacks read through them.  What the handlers *)
(* of each function touch is in ClApiCallbacks.                            *)
(*                                                                         *)
(* Call logging is on.  A pointer is where it points to.                   *)
(***************************************************************************)
EXTENDS ClApiCallbacks

CONSTANTS
  Threads,   \* application threads
  Functions, \* Functions[t]: the functions thread t calls
  Statuses,  \* what the driver returns, ...
  Success,   \* ... CL_SUCCESS
  None       \* no status

ASSUME CallAssumption ==
  /\ Functions \in [Threads -> SUBSET DOMAIN OnEnterFunction]
  /\ Success \in Statuses
  /\ None \notin Statuses

VARIABLES
  enabled,        \* IsCollectionEnabled
  kernel_tracing, \* there is a kernel collector
  current_error,  \* of each thread, what a null errcodeRet is replaced by
  thr             \* thr[t]: the call thread t is in (see CallType)

vars == <<enabled, kernel_tracing, current_error, thr>>

\* Where a pointer leads: nowhere, to a variable of the application, or to one
\* a collector put in its place.
Place == {"null", "application", "current_error", "enqueue_data", "profiling"}

Pointers(f) == OnEnterFunction[f].prints \cup OnEnterFunction[f].reads

\* The functions whose kernels and transfers the kernel collector records.
Instrumented ==
  {"clEnqueueNDRangeKernel", "clEnqueueTask", "clEnqueueReadBuffer", "clEnqueueWriteBuffer",
   "clEnqueueCopyBuffer", "clEnqueueFillBuffer", "clEnqueueReadBufferRect",
   "clEnqueueWriteBufferRect", "clEnqueueReadImage", "clEnqueueWriteImage",
   "clEnqueueCopyImage", "clEnqueueFillImage", "clEnqueueCopyImageToBuffer",
   "clEnqueueCopyBufferToImage"}

\* args are the pointers the application passed, params what they are now,
\* printed those of the enter line; followed are the pointers callbacks have
\* read through, and status what the driver decided, seen what of it the application
\* has in its own variables, shown what the exit line says.
CallType(f) ==
  [site : {"driver", "kernel", "exit", "done"}, fn : {f}, traced : BOOLEAN,
   args : [Pointers(f) -> {"null", "application"}], params : [Pointers(f) -> Place],
   printed : [Pointers(f) -> Place], followed : SUBSET Pointers(f),
   status : Statuses \cup {None}, seen : [error : Statuses \cup {None}, event : BOOLEAN],
   shown : Statuses \cup {None}]

Idle == [site |-> "idle"]

-----------------------------------------------------------------------------
(* The parts of callbacks (a "Fault" is a bug put into what follows it).   *)

\* The enter callback of the kernel collector.
Instrument(f, args) ==
  [p \in DOMAIN args |->
     IF kernel_tracing /\ p = "event" /\ f \in Instrumented /\ args[p] = "null"
       THEN "enqueue_data"
     ELSE IF kernel_tracing /\ p = "properties" THEN "profiling"
     ELSE args[p]]

SubstituteAlways(f, params) ==  \* Fault: an errcodeRet of the application's is replaced.
  IF OnEnterFunction[f].substitutes THEN [params EXCEPT !["errcodeRet"] = "current_error"]
  ELSE params

\* The end of the API collector's enter handler.
Substitute(f, params) ==
  IF OnEnterFunction[f].substitutes /\ params["errcodeRet"] = "null"
    THEN [params EXCEPT !["errcodeRet"] = "current_error"]
  ELSE params

PrintedLate(f, params) == Substitute(f, params)  \* Fault: logged after the substitution.

\* What the enter line shows.
Printed(f, params) == params

FollowedUnchecked(f, params) ==  \* Fault: strings are printed without a look at the pointer.
  OnEnterFunction[f].reads

\* What the enter handler reads through.
Followed(f, params) == {p \in OnEnterFunction[f].reads : params[p] # "null"}

CellShared(t) == CHOOSE u \in Threads : TRUE  \* Fault: current_error is not thread_local.
Cell(t) == t

\* The status in the exit line.
Shown(t, source, place) ==
  CASE source = "return value"  -> thr[t].status
    [] place = "current_error"  -> current_error[Cell(t)]
    [] OTHER                    -> thr[t].seen.error

-----------------------------------------------------------------------------
Init ==
  /\ enabled \in BOOLEAN
  /\ kernel_tracing \in BOOLEAN
  /\ current_error = [t \in Threads |-> Success]
  /\ thr = [t \in Threads |-> Idle]

\* The enter callbacks, the kernel collector's first.
EnterFunction(t, f, args) ==
  /\ thr[t] = Idle
  /\ LET params == Instrument(f, args)
     IN  thr' = [thr EXCEPT ![t] =
           [site |-> "driver", fn |-> f, traced |-> enabled, args |-> args,
            params |-> IF enabled THEN Substitute(f, params) ELSE params,
            printed |-> IF enabled THEN Printed(f, params) ELSE args,
            followed |-> IF enabled THEN Followed(f, params) ELSE {},
            status |-> None, seen |-> [error |-> None, event |-> FALSE], shown |-> None]]
  /\ UNCHANGED <<enabled, kernel_tracing, current_error>>

\* The driver's function.  It wants a kernel; a size may be left to it.
Run(t, status) ==
  /\ thr[t] # Idle /\ thr[t].site = "driver"
  /\ LET params == thr[t].params
         through(p) == IF p \in DOMAIN params THEN params[p] ELSE "null"
     IN
     /\ status = Success /\ "kernel" \in DOMAIN params => params["kernel"] # "null"
     /\ current_error' = IF through("errcodeRet") = "current_error"
                           THEN [current_error EXCEPT ![Cell(t)] = status] ELSE current_error
     /\ thr' = [thr EXCEPT ![t].site = "kernel", ![t].status = status,
          ![t].seen = [error |-> IF through("errcodeRet") = "application" THEN status ELSE None,
                       event |-> through("event") = "application" /\ status = Success]]
  /\ UNCHANGED <<enabled, kernel_tracing>>

\* The exit callback of the kernel collector: it retains the event of a command
\* that was enqueued and reads the sizes of a kernel.
ExitKernel(t) ==
  /\ thr[t] # Idle /\ thr[t].site = "kernel"
  /\ thr' = [thr EXCEPT ![t].site = "exit",
       ![t].followed = @ \cup
         IF kernel_tracing /\ thr[t].fn \in Instrumented /\ thr[t].status = Success
           THEN {"event", "globalWorkSize"} \cap DOMAIN thr[t].params
           ELSE {}]
  /\ UNCHANGED <<enabled, kernel_tracing, current_error>>

\* The exit handler of the API collector.
ExitFunction(t) ==
  /\ thr[t] # Idle /\ thr[t].site = "exit"
  /\ LET source == OnExitFunction(thr[t].fn).status
         place == IF source = "errcodeRet" THEN thr[t].params["errcodeRet"] ELSE "null"
     IN  thr' = [thr EXCEPT ![t].site = "done",
           ![t].followed = @ \cup IF thr[t].traced /\ source = "errcodeRet" THEN {source} ELSE {},
           ![t].shown = IF thr[t].traced /\ source # "none" THEN Shown(t, source, place)
                        ELSE None]
  /\ UNCHANGED <<enabled, kernel_tracing, current_error>>

Return(t) ==
  /\ thr[t] # Idle /\ thr[t].site = "done"
  /\ thr' = [thr EXCEPT ![t] = Idle]
  /\ UNCHANGED <<enabled, kernel_tracing, current_error>>

\* FTRACE_ENABLE_COLLECTION is set or unset.
Toggle ==
  /\ enabled' = ~enabled
  /\ UNCHANGED <<kernel_tracing, current_error, thr>>

Next ==
  \/ \E t \in Threads : \E f \in Functions[t] :
       \E args \in [Pointers(f) -> {"null", "application"}] : EnterFunction(t, f, args)
  \/ \E t \in Threads, status \in Statuses : Run(t, status)
  \/ \E t \in Threads : ExitKernel(t) \/ ExitFunction(t) \/ Return(t)
  \/ Toggle

Spec == Init /\ [][Next]_vars

-----------------------------------------------------------------------------
(* Correctness.                                                            *)

\* The sizes of a kernel that the driver has enqueued without one, as OpenCL 2.1
\* allows: the exit callback of the kernel collector does not ask.
SizeOmitted(call, p) ==
  p = "globalWorkSize" /\ call.status = Success /\ call.site \in {"exit", "done"}

Followable(call) == \A p \in call.followed : call.params[p] = "null" => SizeOmitted(call, p)

\* No callback reads through a null pointer, with the exception of SizeOmitted: an
\* exit handler that takes the status from errcodeRet belongs to an enter handler
\* that made sure of it, for every function, and the strings, kernels and sizes an
\* enter handler prints are there.
NoNullDereference == \A t \in Threads : thr[t] # Idle => Followable(thr[t])

\* The exit line of a call shows the status of this call, whether the
\* application asked for it or not, and whatever other threads call meanwhile.
StatusShown ==
  \A t \in Threads :
    thr[t] # Idle =>
      (thr[t].site = "done" /\ thr[t].traced /\ OnExitFunction(thr[t].fn).status # "none"
         => thr[t].shown = thr[t].status)

\* The application's variables have what they would have without the tracer: the
\* status, and the event of a command that was enqueued, if it asked for them.
Transparent ==
  \A t \in Threads :
    thr[t] # Idle =>
      (thr[t].site = "done" =>
         /\ "errcodeRet" \in DOMAIN thr[t].args =>
              thr[t].seen.error
                = IF thr[t].args["errcodeRet"] = "application" THEN thr[t].status ELSE None
         /\ "event" \in DOMAIN thr[t].args =>
              (thr[t].seen.event
                 <=> thr[t].args["event"] = "application" /\ thr[t].status = Success))

\* The enter line shows the pointers the application passed, except those the
\* kernel collector, which comes first, has replaced.
ArgumentsShown ==
  \A t \in Threads :
    thr[t] # Idle =>
      \A p \in DOMAIN thr[t].printed :
        \/ thr[t].printed[p] = thr[t].args[p]
        \/ kernel_tracing /\ thr[t].printed[p] \in {"enqueue_data", "profiling"}
=============================================================================
