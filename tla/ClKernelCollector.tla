------------------------- MODULE ClKernelCollector -------------------------
(***************************************************************************)
(* The OpenCL kernel collector (cl_kernel_collector.h).  Every enqueued    *)
(* command gets a kernel instance, which holds a reference to the          *)
(* command's event.  Callbacks of clFinish, clReleaseCommandQueue,         *)
(* clWaitForEvents, clReleaseEvent and of blocking transfers process the   *)
(* instances whose events are complete: report them, release the events.   *)
(*                                                                         *)
(* As in ZeKernelCollector, the driver's function belongs to the step of   *)
(* the enter callback if that comes to anything, and a critical section of *)
(* lock_ is one step.                                                      *)
(***************************************************************************)
EXTENDS Integers, FiniteSets

CONSTANTS
  Threads,      \* application threads
  Queues,       \* cl_command_queue values
  Events,       \* cl_event values
  OtherEvents,  \* those the runtime may give to commands that are not traced
  None,         \* no event
  MaxKernels,   \* bound on the commands enqueued
  MaxRefs,      \* bound on the application's references to an event
  MaxSwitches   \* bound on the changes of FTRACE_ENABLE_COLLECTION

ASSUME HandleAssumption == None \notin Events /\ IsFiniteSet(Threads)
ASSUME EventAssumption == OtherEvents \subseteq Events
ASSUME BoundAssumption ==
  MaxKernels \in Nat /\ MaxRefs \in Nat \ {0} /\ MaxSwitches \in Nat

VARIABLES
  \* the OpenCL runtime and the application
  refs,        \* refs[e]: CL_EVENT_REFERENCE_COUNT, 0 if there is no event e
  exec,        \* exec[e]: the execution status of the event's command
  queue,       \* queue[e]: the queue of the event's command
  mine,        \* mine[e]: references the application must release
  enabled,     \* IsCollectionEnabled
  \* the collector
  kernel_id_,             \* the next kernel id
  kernel_instance_list_,  \* instances not processed yet (see InstanceType)
  thr,                    \* thr[t]: the intercepted function thread t is in
  \* history
  flips,       \* how often the switch has changed
  began,       \* threads enqueueing with collection enabled all the while ...
  switched,    \* ... and those during whose enqueue the switch has changed
  wanted,      \* ids of the kernels enqueued with collection enabled
  raced,       \* ids of those during whose enqueue the switch changed
  reported,    \* ids of the kernels reported
  internal     \* events that no one but the collector ever saw

driverVars == <<refs, exec, queue, mine>>
switches == <<flips, began, switched, wanted, raced>>
history == <<switches, reported, internal>>
vars == <<driverVars, enabled, kernel_id_, kernel_instance_list_, thr, history>>

\* One list entry has one event; its order is that of the kernel ids.
InstanceType == [event : Events, kernel_id : Nat, need_to_process : BOOLEAN]

\* todo: the events to process.  seen: the one of them found complete.
\* due: the instances that were complete when the driver's function ended.
ThreadType ==
  [op : {"idle", "enqueue", "process", "wait", "release"},
   event : Events \cup {None}, blocking : BOOLEAN, todo : SUBSET Events,
   seen : Events \cup {None}, due : SUBSET Nat]

Idle == [op |-> "idle", event |-> None, blocking |-> FALSE,
         todo |-> {}, seen |-> None, due |-> {}]

InstancesOf(E) == {i \in kernel_instance_list_ : i.event \in E}
Complete(i) == exec[i.event] = "complete"

\* References to e that a thread is still being given or is giving up, ...
Users(e) == {t \in Threads : thr[t].event = e}
InUse(e) == Cardinality(Users(e))
\* ... and whether a thread is waiting for e.
Awaited(e) ==
  \E t \in Threads : thr[t].op = "wait" /\ e \in thr[t].todo \cup {thr[t].seen}

-----------------------------------------------------------------------------
(* Instances are processed (a "Fault" is a bug put into what follows it).  *)

ProcessUnreleased(S) ==  \* Fault: the instance's reference is not released.
  /\ kernel_instance_list_' = kernel_instance_list_ \ S
  /\ reported' = reported \cup {i.kernel_id : i \in {j \in S : j.need_to_process}}
  /\ refs' = refs

ProcessAlways(S) ==  \* Fault: need_to_process is not asked.
  /\ kernel_instance_list_' = kernel_instance_list_ \ S
  /\ reported' = reported \cup {i.kernel_id : i \in S}
  /\ refs' = [e \in Events |-> refs[e] - Cardinality({i \in S : i.event = e})]

\* ProcessKernelInstance(instance), for each of S.
Process(S) ==
  /\ kernel_instance_list_' = kernel_instance_list_ \ S
  /\ reported' = reported \cup {i.kernel_id : i \in {j \in S : j.need_to_process}}
  /\ refs' = [e \in Events |-> refs[e] - Cardinality({i \in S : i.event = e})]

\* Fault: the loop ends at the first instance that is not complete.
FinishedPrefix ==
  {i \in kernel_instance_list_ :
     \A j \in kernel_instance_list_ : j.kernel_id <= i.kernel_id => Complete(j)}

\* What ProcessKernelInstances processes.
FinishedInstances == {i \in kernel_instance_list_ : Complete(i)}

\* The first instance of event e.
FirstOf(e) ==
  {i \in InstancesOf({e}) : \A j \in InstancesOf({e}) : i.kernel_id <= j.kernel_id}

-----------------------------------------------------------------------------
(* Commands are enqueued.                                                  *)

Init ==
  /\ refs = [e \in Events |-> 0]
  /\ exec = [e \in Events |-> "complete"]
  /\ queue \in [Events -> Queues]
  /\ mine = [e \in Events |-> 0]
  /\ enabled \in BOOLEAN
  /\ kernel_id_ = 1
  /\ kernel_instance_list_ = {}
  /\ thr = [t \in Threads |-> Idle]
  /\ flips = 0 /\ began = {} /\ switched = {} /\ wanted = {} /\ raced = {}
  /\ reported = {} /\ internal = {}

\* The runtime makes an event, with a handle no live event has.
NewEvent(e, q) ==
  /\ refs[e] = 0 /\ exec[e] # "queued"
  /\ refs' = [refs EXCEPT ![e] = 1]
  /\ exec' = [exec EXCEPT ![e] = "queued"]
  /\ queue' = [queue EXCEPT ![e] = q]

\* OnEnterEnqueueKernel, which passes an event of its own if the application
\* asks for none, and the runtime's function.  (One that fails leaves nothing.)
BeginEnqueue(t, q, e, own, blocking) ==
  /\ thr[t].op = "idle"
  /\ kernel_id_ + Cardinality({u \in Threads : thr[u].op = "enqueue"}) <= MaxKernels
  /\ NewEvent(e, q)
  /\ mine' = [mine EXCEPT ![e] = IF own THEN 1 ELSE 0]
  /\ internal' = IF own THEN internal \ {e} ELSE internal \cup {e}
  /\ thr' = [thr EXCEPT ![t] =
       [Idle EXCEPT !.op = "enqueue", !.event = e, !.blocking = blocking]]
  /\ began' = IF enabled THEN began \cup {t} ELSE began
  /\ UNCHANGED <<enabled, kernel_id_, kernel_instance_list_,
                 flips, switched, wanted, raced, reported>>

\* The reference count of an event once its instance exists.  The test for
\* the collector's own event compares with the wrong pointer: all are retained.
CountUnretained(e) == refs[e]  \* Fault: no reference is taken.
RetainedCount(e) == refs[e] + 1

\* OnExitEnqueueKernel and OnExitEnqueueTransfer with AddKernelInstance, which
\* ask for the switch again, after the command was submitted.
EndEnqueue(t) ==
  LET e == thr[t].event
  IN
  /\ thr[t].op = "enqueue"
  /\ thr[t].blocking => exec[e] = "complete"
  /\ refs' = [refs EXCEPT ![e] = RetainedCount(e)]
  /\ kernel_id_' = kernel_id_ + 1
  /\ kernel_instance_list_' = kernel_instance_list_ \cup
       {[event |-> e, kernel_id |-> kernel_id_, need_to_process |-> enabled]}
  /\ wanted' = IF t \in began THEN wanted \cup {kernel_id_} ELSE wanted
  /\ raced' = IF t \in switched THEN raced \cup {kernel_id_} ELSE raced
  /\ began' = began \ {t} /\ switched' = switched \ {t}
  /\ thr' = [thr EXCEPT ![t] =
       IF thr[t].blocking THEN [Idle EXCEPT !.op = "process", !.due = {kernel_id_}] ELSE Idle]
  /\ UNCHANGED <<exec, queue, mine, enabled, flips, reported, internal>>

\* A blocking transfer that ends with an error fails: nothing is recorded.
EndEnqueueFailed(t) ==
  /\ thr[t].op = "enqueue" /\ thr[t].blocking
  /\ exec[thr[t].event] = "error"
  /\ thr' = [thr EXCEPT ![t] = Idle]
  /\ began' = began \ {t} /\ switched' = switched \ {t}
  /\ UNCHANGED <<driverVars, enabled, kernel_id_, kernel_instance_list_,
                 flips, wanted, raced, reported, internal>>

-----------------------------------------------------------------------------
(* The application synchronizes.                                           *)

\* clFinish, up to the driver's return.
BeginFinish(t, q) ==
  LET ofQueue == {e \in Events : refs[e] > 0 /\ queue[e] = q}
  IN
  /\ thr[t].op = "idle"
  /\ \A e \in ofQueue : exec[e] # "queued"
  /\ thr' = [thr EXCEPT ![t] =
       [Idle EXCEPT !.op = "process",
         !.due = {i.kernel_id : i \in {j \in InstancesOf(ofQueue) : Complete(j)}}]]
  /\ UNCHANGED <<driverVars, enabled, kernel_id_, kernel_instance_list_, history>>

\* clReleaseCommandQueue, which waits for nothing.
BeginReleaseQueue(t) ==
  /\ thr[t].op = "idle"
  /\ thr' = [thr EXCEPT ![t] = [Idle EXCEPT !.op = "process"]]
  /\ UNCHANGED <<driverVars, enabled, kernel_id_, kernel_instance_list_, history>>

\* ProcessKernelInstances, the end of the exit callback of both and of
\* blocking transfers.
ProcessKernelInstances(t) ==
  /\ thr[t].op = "process"
  /\ Process(FinishedInstances)
  /\ thr' = [thr EXCEPT ![t] = Idle]
  /\ UNCHANGED <<exec, queue, mine, enabled, kernel_id_, switches, internal>>

\* clWaitForEvents, up to the driver's return: with an error unless all are
\* complete, and then the collector does nothing.  The application has
\* references to the events it waits for.
BeginWait(t, E) ==
  /\ thr[t].op = "idle"
  /\ E # {}
  /\ \A e \in E : mine[e] > InUse(e) /\ exec[e] = "complete"
  /\ thr' = [thr EXCEPT ![t] =
       [Idle EXCEPT !.op = "wait", !.todo = E,
                    !.due = {i.kernel_id : i \in InstancesOf(E)}]]
  /\ UNCHANGED <<driverVars, enabled, kernel_id_, kernel_instance_list_, history>>

\* The enter callback of clReleaseEvent; the reference the application gives
\* up is none that another of its threads is using.
BeginRelease(t, e) ==
  /\ thr[t].op = "idle"
  /\ mine[e] > InUse(e) + (IF Awaited(e) THEN 1 ELSE 0)
  /\ thr' = [thr EXCEPT ![t] =
       [Idle EXCEPT !.op = "release", !.event = e, !.todo = {e}]]
  /\ UNCHANGED <<driverVars, enabled, kernel_id_, kernel_instance_list_, history>>

\* ProcessKernelInstance(event), before the lock: an event that is not
\* complete is left alone.
SeenAlways(e) == e  \* Fault: the status is not asked.
SeenIfComplete(e) == IF exec[e] = "complete" THEN e ELSE None

QueryStatus(t, e) ==
  /\ thr[t].op \in {"wait", "release"}
  /\ thr[t].seen = None
  /\ e \in thr[t].todo
  /\ thr' = [thr EXCEPT ![t].todo = @ \ {e}, ![t].seen = SeenIfComplete(e)]
  /\ UNCHANGED <<driverVars, enabled, kernel_id_, kernel_instance_list_, history>>

\* ProcessKernelInstance(event), with the lock.
ProcessKernelInstance(t) ==
  /\ thr[t].seen # None
  /\ Process(FirstOf(thr[t].seen))
  /\ thr' = [thr EXCEPT ![t].seen = None]
  /\ UNCHANGED <<exec, queue, mine, enabled, kernel_id_, switches, internal>>

\* clWaitForEvents returns.
EndWait(t) ==
  /\ thr[t].op = "wait" /\ thr[t].todo = {} /\ thr[t].seen = None
  /\ thr' = [thr EXCEPT ![t] = Idle]
  /\ UNCHANGED <<driverVars, enabled, kernel_id_, kernel_instance_list_, history>>

\* The driver's clReleaseEvent, and its return.
EndRelease(t) ==
  LET e == thr[t].event
  IN
  /\ thr[t].op = "release" /\ thr[t].todo = {} /\ thr[t].seen = None
  /\ refs' = [refs EXCEPT ![e] = @ - 1]
  /\ mine' = [mine EXCEPT ![e] = @ - 1]
  /\ thr' = [thr EXCEPT ![t] = Idle]
  /\ UNCHANGED <<exec, queue, enabled, kernel_id_, kernel_instance_list_, history>>

-----------------------------------------------------------------------------
(* What is not intercepted, and the system.                                *)

\* clRetainEvent.
Retain(e) ==
  /\ mine[e] \in 1..(MaxRefs - 1)
  /\ mine[e] > InUse(e)
  /\ refs' = [refs EXCEPT ![e] = @ + 1]
  /\ mine' = [mine EXCEPT ![e] = @ + 1]
  /\ UNCHANGED <<exec, queue, enabled, kernel_id_, kernel_instance_list_, thr, history>>

\* An event of a command the collector does not intercept (a marker, a map).
OtherEvent(e, q) ==
  /\ e \in OtherEvents
  /\ NewEvent(e, q)
  /\ mine' = [mine EXCEPT ![e] = 1]
  /\ internal' = internal \ {e}
  /\ UNCHANGED <<enabled, kernel_id_, kernel_instance_list_, thr, switches, reported>>

\* The device finishes a command.
Execute(e) ==
  /\ exec[e] = "queued"
  /\ \E s \in {"complete", "error"} : exec' = [exec EXCEPT ![e] = s]
  /\ UNCHANGED <<refs, queue, mine, enabled, kernel_id_, kernel_instance_list_, thr, history>>

\* FTRACE_ENABLE_COLLECTION is set or unset, whatever threads are doing.
Toggle ==
  /\ flips < MaxSwitches
  /\ flips' = flips + 1
  /\ enabled' = ~enabled
  /\ switched' = {t \in Threads : thr[t].op = "enqueue"}
  /\ began' = {}
  /\ UNCHANGED <<driverVars, kernel_id_, kernel_instance_list_, thr,
                 wanted, raced, reported, internal>>

CallStep(t) ==
  \/ \E q \in Queues, e \in Events, own, blocking \in BOOLEAN :
       BeginEnqueue(t, q, e, own, blocking)
  \/ \E q \in Queues : BeginFinish(t, q)
  \/ BeginReleaseQueue(t)
  \/ \E E \in SUBSET Events : BeginWait(t, E)
  \/ \E e \in Events : BeginRelease(t, e)

CallbackStep(t) ==
  \/ EndEnqueue(t)
  \/ EndEnqueueFailed(t)
  \/ ProcessKernelInstances(t)
  \/ \E e \in Events : QueryStatus(t, e)
  \/ ProcessKernelInstance(t)
  \/ EndWait(t)
  \/ EndRelease(t)

OutsideStep ==
  \/ \E e \in Events : Retain(e)
  \/ \E e \in Events, q \in Queues : OtherEvent(e, q)
  \/ \E e \in Events : Execute(e)
  \/ Toggle

Next == OutsideStep \/ \E t \in Threads : CallbackStep(t) \/ CallStep(t)

Spec == Init /\ [][Next]_vars

\* Threads finish the functions they are in, the device what was enqueued,
\* and the application calls clFinish again and again.
FairSpec ==
  /\ Spec
  /\ \A t \in Threads : WF_vars(CallbackStep(t))
  /\ WF_vars(\E e \in Events : Execute(e))
  /\ SF_vars(\E t \in Threads, q \in Queues : BeginFinish(t, q))

-----------------------------------------------------------------------------
(* Correctness.                                                            *)

TypeOK ==
  /\ refs \in [Events -> Nat] /\ mine \in [Events -> Nat]
  /\ exec \in [Events -> {"queued", "complete", "error"}]
  /\ queue \in [Events -> Queues]
  /\ enabled \in BOOLEAN
  /\ kernel_id_ \in Nat \ {0}
  /\ kernel_instance_list_ \subseteq InstanceType
  /\ flips \in Nat /\ began \subseteq Threads /\ switched \subseteq Threads
  /\ wanted \subseteq Nat /\ raced \subseteq Nat /\ reported \subseteq Nat
  /\ internal \subseteq Events
  /\ thr \in [Threads -> ThreadType]

\* Every reference to an event belongs to the application, to an instance,
\* or is the one the runtime gave the collector with an event of its own,
\* which nothing ever releases: references are neither lost nor overdrawn.
References ==
  \A e \in Events :
    refs[e] = mine[e] + Cardinality(InstancesOf({e}))
                + (IF e \in internal THEN 1 ELSE 0)

\* The list is searched by event handle: as an instance keeps its event
\* alive, the handle is not reused and finds the instance of that event.
HandlesIdentify ==
  \A i, j \in kernel_instance_list_ : i.event = j.event => i = j

\* FTRACE_ASSERT(event_status == CL_COMPLETE) of ProcessKernelInstance: what
\* was read before the lock still holds when the instance is found.
ProcessedComplete ==
  [][\A i \in kernel_instance_list_ \ kernel_instance_list_' : Complete(i)]_vars

\* A kernel enqueued while collection was enabled is pending or reported, and
\* not both; one enqueued while it was disabled is not reported.  Except for
\* kernels during whose enqueue the switch changed: as need_to_process is what
\* the exit callback finds, one submitted with collection disabled may be
\* reported, and one submitted with collection enabled may not.
Accounted ==
  LET pending == {i.kernel_id : i \in {j \in kernel_instance_list_ : j.need_to_process}}
  IN  /\ pending \cap reported = {}
      /\ (pending \cup reported) \ raced = wanted

\* When clFinish, clWaitForEvents or a blocking transfer returns to the
\* application, the kernels it waited for have been processed.
SynchronizedProcessed ==
  [][\A t \in Threads : thr[t].op # "idle" /\ thr'[t].op = "idle" =>
       \A i \in kernel_instance_list_' : i.kernel_id \notin thr[t].due]_vars

\* Again and again no kernel that has completed is left to process: each is
\* processed in the end (one that ends with an error never is: its instance and
\* event stay).
EventuallyProcessed == []<>(\A i \in kernel_instance_list_ : ~Complete(i))
=============================================================================
