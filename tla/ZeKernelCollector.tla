------------------------- MODULE ZeKernelCollector -------------------------
(***************************************************************************)
(* The Level Zero kernel collector (ze_kernel_collector.h).  Callbacks     *)
(* before ("Begin") and after ("End") the driver's functions record the    *)
(* commands appended to command lists and, for each submission, a pending  *)
(* call per command.  Callbacks of synchronizing functions report the      *)
(* pending calls whose events are signaled.                                *)
(*                                                                         *)
(* A driver function belongs to the step of its Begin callback, so that    *)
(* the device and other threads may act before the End callback runs.      *)
(* Callbacks hold lock_ and are one step, except that list removal returns *)
(* events to the cache one by one (the cache has a lock of its own).       *)
(*                                                                         *)
(* FTRACE_ASSERT aborts the process: the asserted condition is a guard of  *)
(* the step and an invariant says that the guard is met.                   *)
(***************************************************************************)
EXTENDS Naturals, FiniteSets

CONSTANTS
  Threads,          \* application threads
  Contexts,         \* ze_context_handle_t values
  Lists,            \* ze_command_list_handle_t values
  Commands,         \* ZeKernelCommand objects
  Events,           \* ze_event_handle_t values
  AppEvents,        \* those the application may be given for events of its own
  Fences,           \* ze_fence_handle_t values
  EVENT_POOL_SIZE,
  None,             \* a null handle, an absent record
  MaxKernels,       \* bound on kernel_id_
  MaxRuns,          \* bound on the submissions of a command list between resets
  Switching         \* whether the application changes FTRACE_ENABLE_COLLECTION

ASSUME EventAssumption == AppEvents \subseteq Events /\ IsFiniteSet(Events)
ASSUME PoolSizeAssumption == EVENT_POOL_SIZE \in Nat \ {0}
ASSUME BoundAssumption ==
  MaxKernels \in Nat /\ MaxRuns \in Nat \ {0} /\ Switching \in BOOLEAN

VARIABLES
  \* the event cache and the events of the driver (ZeEventCache)
  event_map_, event_info_map_, event_pools_, status,
  \* the driver, the device and the application
  list,        \* list[l]: None or the driver's [context, immediate, open]
  running,     \* submitted commands the device has not finished
  fence,       \* fence[f]: "reset", "busy" or "signaled"
  enabled,     \* FTRACE_ENABLE_COLLECTION (IsCollectionEnabled)
  raced,       \* history: ids of submissions that it changed during, unrecorded
  \* the collector and its correlator
  command_list_map_,  \* None or [context, immediate]
  command,            \* command[c]: None or a ZeKernelCommand (see CommandType)
  kernel_call_list_,  \* the pending calls (see CallType)
  kernel_id_,         \* the next kernel id
  kernel_id_map_,     \* kernel_id_map_[l]: ids of the commands of list l
  call_id_map_,       \* call_id_map_[l]: <<kernel id, call id>> of its last submission
  thr                 \* thr[t]: the intercepted function thread t is in

cacheVars == <<event_map_, event_info_map_, event_pools_, status>>
driverVars == <<list, running, fence, enabled, raced>>
idVars == <<kernel_id_, kernel_id_map_, call_id_map_>>
vars == <<cacheVars, driverVars, command_list_map_, command, kernel_call_list_,
          idVars, thr>>

\* The event each command object holds, from the cache or the application.
Held == [c \in Commands |-> IF command[c] = None THEN None ELSE command[c].event]

Cache == INSTANCE ZeEventCache WITH
  Holders <- Commands, held <- Held, stale <- {}, alive <- TRUE

-----------------------------------------------------------------------------
(* Records and helpers.                                                    *)

\* kernel_id is 0 until AddKernelCommand.  wanted and reported are history:
\* the submissions made while collection was enabled, those reported.
CommandType ==
  [list : Lists, event : Events, kernel_id : Nat, call_count : Nat,
   wanted : SUBSET Nat, reported : SUBSET Nat]

\* The order of the list of calls is abstracted to that of the call ids.
CallType ==
  [command : Commands, call_id : Nat, need_to_process : BOOLEAN,
   fence : Fences \cup {None}]

\* A null handle is no handle, an absent record no record.
ASSUME NoneAssumption ==
  /\ None \notin Events \cup Contexts \cup Commands \cup Fences \cup CommandType
  /\ None \notin [context : Contexts, immediate : BOOLEAN]
  /\ None \notin [context : Contexts, immediate : BOOLEAN, open : BOOLEAN]

\* kernel_command_list of list l; its order is that of the kernel ids.
CommandsOf(l) ==
  {c \in Commands : command[c] # None /\ command[c].list = l /\ command[c].kernel_id > 0}

EventOf(call) == command[call.command].event
Signaled(call) == status[EventOf(call)] = "signaled"

Idle == [op |-> "idle", lists |-> {}, todo |-> {}, command |-> None,
         fence |-> None, ok |-> TRUE, need |-> FALSE]

\* The application does not use a list in two functions at once, and changes
\* it only when the device does not execute it.
InFunction(l) == \E t \in Threads : l \in thr[t].lists
OnDevice(l) == \E r \in running : command[r.command].list = l
Usable(l) == list[l] # None /\ ~InFunction(l)

\* A thread in RemoveKernelCommands keeps lock_ over several steps.
Removing == {"erase", "clear"}
LockFree == \A t \in Threads : thr[t].op \notin Removing

-----------------------------------------------------------------------------
(* Pending calls are reported: removed, and shown if collection was on.    *)
(* (A "Fault" is a variant of the definition after it with a bug, to see   *)
(* that the properties tell the two apart.)                                *)

Shown(S, c) == {k.call_id : k \in {j \in S : j.command = c /\ j.need_to_process}}

Report(S) ==
  /\ kernel_call_list_' = kernel_call_list_ \ S
  /\ command' = [c \in Commands |->
       IF command[c] = None THEN None
       ELSE [command[c] EXCEPT !.reported = @ \cup Shown(S, c)]]

\* Faults: no event is queried; calls not to be shown stay in the list.
ProcessCallsUnqueried == Report(kernel_call_list_)
ProcessCallsShown == Report({k \in kernel_call_list_ : Signaled(k) /\ k.need_to_process})

\* Every call whose event is signaled.
ProcessCalls == Report({k \in kernel_call_list_ : Signaled(k)})

ProcessCallNot(e) == Report({})  \* Fault: the callback does nothing.

\* The first call that names event e, if e is signaled: the first of a command, and
\* of any of those that name e.
ProcessCall(e) ==
  LET named == {k \in kernel_call_list_ : EventOf(k) = e /\ Signaled(k)}
      First(k) == \A j \in named : j.command = k.command => k.call_id <= j.call_id
  IN  \/ named = {} /\ Report({})
      \/ \E k \in named : First(k) /\ Report({k})

\* Every call of fence f, whatever its event, then every signaled one.
ProcessFence(f) ==
  Report({k \in kernel_call_list_ : (k.fence = f /\ fence[f] = "signaled") \/ Signaled(k)})

-----------------------------------------------------------------------------
(* Command lists are created and commands appended.                        *)

Init ==
  /\ Cache!CacheInit
  /\ status = [e \in Events |-> "none"]
  /\ list = [l \in Lists |-> None]
  /\ running = {}
  /\ fence = [f \in Fences |-> "reset"]
  /\ enabled \in BOOLEAN
  /\ raced = {}
  /\ command_list_map_ = [l \in Lists |-> None]
  /\ command = [c \in Commands |-> None]
  /\ kernel_call_list_ = {}
  /\ kernel_id_ = 1
  /\ kernel_id_map_ = [l \in Lists |-> {}]
  /\ call_id_map_ = [l \in Lists |-> {}]
  /\ thr = [t \in Threads |-> Idle]

\* zeCommandListCreate and zeCommandListCreateImmediate.
BeginCreate(t, l) ==
  /\ thr[t].op = "idle"
  /\ list[l] = None
  /\ \E c \in Contexts, immediate \in BOOLEAN :
       list' = [list EXCEPT ![l] =
                 [context |-> c, immediate |-> immediate, open |-> TRUE]]
  /\ thr' = [thr EXCEPT ![t] = [Idle EXCEPT !.op = "create", !.lists = {l}]]
  /\ UNCHANGED <<cacheVars, running, fence, enabled, raced, command_list_map_, command,
                 kernel_call_list_, idVars>>

\* What AddCommandList records of list l.
NewRecordContextless(l) ==  \* Fault: not its context.
  [context |-> None, immediate |-> list[l].immediate]
NewRecord(l) == [context |-> list[l].context, immediate |-> list[l].immediate]

\* AddCommandList, which asserts that the collector does not know the list.
EndCreate(t) ==
  /\ thr[t].op = "create"
  /\ LockFree
  /\ \E l \in thr[t].lists :
       /\ command_list_map_[l] = None
       /\ command_list_map_' = [command_list_map_ EXCEPT ![l] = NewRecord(l)]
       /\ kernel_id_map_' = [kernel_id_map_ EXCEPT ![l] = {}]
       /\ call_id_map_' = [call_id_map_ EXCEPT ![l] = {}]
  /\ thr' = [thr EXCEPT ![t] = Idle]
  /\ UNCHANGED <<cacheVars, driverVars, command, kernel_call_list_, kernel_id_>>

\* An event of the application exists, and names it in an append.
AppEvent(e) == status[e] # "none" /\ ~Cache!QueryEvent(e)
AppEventFor(e) == AppEvent(e) /\ UNCHANGED cacheVars

\* OnEnterKernelAppend and the driver's append.  An immediate list submits
\* at once; its call takes need_to_process here.
BeginAppend(t, l, c, e) ==
  /\ thr[t].op = "idle"
  /\ LockFree
  /\ Usable(l) /\ list[l].open /\ command_list_map_[l] # None
  /\ command[c] = None
  /\ kernel_id_ + Cardinality({u \in Threads : thr[u].op = "append"}) <= MaxKernels
  /\ Cache!GetEvent(command_list_map_[l].context, e) \/ AppEventFor(e)
  /\ \E ok \in BOOLEAN :
       LET submitted == ok /\ command_list_map_[l].immediate
       IN
       /\ command' = [command EXCEPT ![c] =
            [list |-> l, event |-> e, kernel_id |-> 0, call_count |-> 0,
             wanted |-> IF submitted /\ enabled THEN {1} ELSE {}, reported |-> {}]]
       /\ running' = running \cup
            (IF submitted THEN {[command |-> c, call_id |-> 1, fence |-> None]} ELSE {})
       /\ thr' = [thr EXCEPT ![t] =
            [Idle EXCEPT !.op = "append", !.lists = {l}, !.command = c,
                         !.ok = ok, !.need = enabled]]
  /\ UNCHANGED <<list, fence, enabled, raced, command_list_map_, kernel_call_list_, idVars>>

\* AddKernelCommand and, for an immediate list, AddKernelCall.
AddKernelCommand(c) ==
  LET l == command[c].list
      immediate == command_list_map_[l].immediate
  IN
  /\ kernel_id_' = kernel_id_ + 1
  /\ kernel_id_map_' = [kernel_id_map_ EXCEPT ![l] = @ \cup {kernel_id_}]
  /\ command' = [command EXCEPT ![c].kernel_id = kernel_id_,
                                ![c].call_count = IF immediate THEN 1 ELSE 0]
  /\ call_id_map_' = [call_id_map_ EXCEPT ![l] =
       @ \cup (IF immediate THEN {<<kernel_id_, 1>>} ELSE {})]

\* The call of a command that was appended to an immediate list.
ImmediateCallsAlways(t) ==  \* Fault: a call for every append.
  {[command |-> thr[t].command, call_id |-> 1, need_to_process |-> thr[t].need, fence |-> None]}
ImmediateCalls(t) ==
  {[command |-> thr[t].command, call_id |-> 1, need_to_process |-> thr[t].need, fence |-> None] :
     l \in {m \in thr[t].lists : command_list_map_[m].immediate}}

\* Fault: the event of a failed append is not released.
EndAppendUnreleased(t) ==
  /\ thr[t].op = "append" /\ ~thr[t].ok
  /\ thr' = [thr EXCEPT ![t] = Idle]
  /\ command' = [command EXCEPT ![thr[t].command] = None]
  /\ UNCHANGED <<cacheVars, driverVars, command_list_map_, kernel_call_list_, idVars>>

\* OnExitKernelAppend.
EndAppend(t) ==
  LET c == thr[t].command
  IN
  /\ thr[t].op = "append"
  /\ thr' = [thr EXCEPT ![t] = Idle]
  /\ \/ /\ ~thr[t].ok
        /\ Cache!ReleaseEvent(command[c].event)
        /\ command' = [command EXCEPT ![c] = None]
        /\ UNCHANGED <<kernel_call_list_, idVars>>
     \/ /\ thr[t].ok
        /\ LockFree
        /\ AddKernelCommand(c)
        /\ kernel_call_list_' = kernel_call_list_ \cup ImmediateCalls(t)
        /\ UNCHANGED cacheVars
  /\ UNCHANGED <<driverVars, command_list_map_>>

-----------------------------------------------------------------------------
(* Command lists are executed, and calls synchronized with.                *)

\* zeCommandQueueExecuteCommandLists, up to the driver's return.
BeginExecute(t, L, f) ==
  LET commands == UNION {CommandsOf(l) : l \in L}
  IN
  /\ thr[t].op = "idle"
  /\ LockFree
  /\ L # {}
  /\ \A l \in L : /\ Usable(l) /\ command_list_map_[l] # None
                  /\ ~list[l].immediate /\ ~OnDevice(l)
  /\ \A c \in commands : /\ command[c].call_count < MaxRuns
                         /\ status[command[c].event] # "none"
  /\ f # None => fence[f] = "reset"
  /\ list' = [l \in Lists |-> IF l \in L THEN [list[l] EXCEPT !.open = FALSE] ELSE list[l]]
  /\ running' = running \cup
       {[command |-> c, call_id |-> command[c].call_count + 1, fence |-> f] : c \in commands}
  /\ fence' = [g \in Fences |-> IF g = f THEN "busy" ELSE fence[g]]
  /\ command' = [c \in Commands |->
       IF c \in commands /\ enabled
       THEN [command[c] EXCEPT !.wanted = @ \cup {command[c].call_count + 1}]
       ELSE command[c]]
  /\ thr' = [thr EXCEPT ![t] =
       [Idle EXCEPT !.op = "execute", !.lists = L, !.todo = L, !.fence = f]]
  /\ UNCHANGED <<cacheVars, enabled, raced, command_list_map_, kernel_call_list_, idVars>>

\* The ids of the calls that an execution of list l adds to the correlator.
CallIds(l) ==
  {<<command[c].kernel_id, command[c].call_count + 1>> : c \in CommandsOf(l)}

\* call_id_map_[l] after ResetCallIdList and AddCallId.
NewCallIdsUnreset(l) == call_id_map_[l] \cup CallIds(l)  \* Fault: no reset.
NewCallIds(l) == CallIds(l)

\* OnExitCommandQueueExecuteCommandLists, for one of its lists.
AddKernelCalls(t, l) ==
  /\ thr[t].op = "execute"
  /\ l \in thr[t].todo
  /\ LockFree
  /\ kernel_call_list_' = kernel_call_list_ \cup
       {[command |-> c, call_id |-> command[c].call_count + 1, need_to_process |-> enabled,
         fence |-> thr[t].fence] : c \in CommandsOf(l)}
  /\ call_id_map_' = [call_id_map_ EXCEPT ![l] = NewCallIds(l)]
  /\ command' = [c \in Commands |->
       IF c \in CommandsOf(l) THEN [command[c] EXCEPT !.call_count = @ + 1] ELSE command[c]]
  /\ thr' = [thr EXCEPT ![t].todo = @ \ {l},
                        ![t].op = IF thr[t].todo = {l} THEN "executed" ELSE "execute"]
  /\ UNCHANGED <<cacheVars, driverVars, command_list_map_, kernel_id_, kernel_id_map_>>

\* The exit callback of the API collector, which runs after the kernel
\* collector's, pairs the ids of the correlator.
LogExecute(t) ==
  /\ thr[t].op = "executed"
  /\ \A l \in thr[t].lists : Cardinality(kernel_id_map_[l]) = Cardinality(call_id_map_[l])
  /\ thr' = [thr EXCEPT ![t] = Idle]
  /\ UNCHANGED <<cacheVars, driverVars, command_list_map_, command, kernel_call_list_, idVars>>

\* Fault: processed events are reset (the code says "DO NOT RESET EVENT").
SynchronizeResetting(t) ==
  /\ thr[t].op = "idle"
  /\ LockFree
  /\ ProcessCalls
  /\ status' = [e \in Events |->
       IF Cache!QueryEvent(e) /\ \E k \in kernel_call_list_ : EventOf(k) = e /\ Signaled(k)
       THEN "reset" ELSE status[e]]
  /\ UNCHANGED <<event_map_, event_info_map_, event_pools_, driverVars,
                 command_list_map_, idVars, thr>>

\* zeEventHostSynchronize, zeCommandQueueSynchronize, zeCommandQueueDestroy.
Synchronize(t) ==
  /\ thr[t].op = "idle"
  /\ LockFree
  /\ ProcessCalls
  /\ UNCHANGED <<cacheVars, driverVars, command_list_map_, idVars, thr>>

\* zeFenceHostSynchronize.  The event of a call of the fence must be signaled
\* (asserted for events of the cache and for calls to show).
FenceHostSynchronize(t, f) ==
  /\ thr[t].op = "idle"
  /\ LockFree
  /\ fence[f] = "signaled"
  /\ \A k \in kernel_call_list_ :
       k.fence = f /\ (Cache!QueryEvent(EventOf(k)) \/ k.need_to_process) => Signaled(k)
  /\ ProcessFence(f)
  /\ UNCHANGED <<cacheVars, driverVars, command_list_map_, idVars, thr>>

-----------------------------------------------------------------------------
(* Command lists are reset and destroyed.                                  *)

\* zeCommandListDestroy and zeCommandListReset, up to the driver's return.
BeginDestroy(t, l) ==
  /\ thr[t].op = "idle"
  /\ Usable(l) /\ ~OnDevice(l)
  /\ list' = [list EXCEPT ![l] = None]
  /\ thr' = [thr EXCEPT ![t] = [Idle EXCEPT !.op = "destroy", !.lists = {l}]]
  /\ UNCHANGED <<cacheVars, running, fence, enabled, raced, command_list_map_, command,
                 kernel_call_list_, idVars>>

BeginReset(t, l) ==
  /\ thr[t].op = "idle"
  /\ Usable(l) /\ ~OnDevice(l) /\ ~list[l].immediate
  /\ list' = [list EXCEPT ![l].open = TRUE]
  /\ thr' = [thr EXCEPT ![t] = [Idle EXCEPT !.op = "reset", !.lists = {l}]]
  /\ UNCHANGED <<cacheVars, running, fence, enabled, raced, command_list_map_, command,
                 kernel_call_list_, idVars>>

\* The exit callback processes the calls, then removes the list's commands:
\* RemoveCommandList forgets the list ("erase"), ResetCommandList does not.
EndDestroyOrReset(t) ==
  /\ thr[t].op \in {"destroy", "reset"}
  /\ LockFree
  /\ ProcessCalls
  /\ thr' = [thr EXCEPT ![t].op = IF @ = "destroy" THEN "erase" ELSE "clear"]
  /\ UNCHANGED <<cacheVars, driverVars, command_list_map_, idVars>>

\* One turn of the loop of RemoveKernelCommands, which asserts that no call
\* of the command is pending.
RemoveKernelCommand(t, l, c) ==
  /\ thr[t].op \in Removing
  /\ l \in thr[t].lists
  /\ c \in CommandsOf(l)
  /\ \A d \in CommandsOf(l) : command[c].kernel_id <= command[d].kernel_id
  /\ \A k \in kernel_call_list_ : k.command # c
  /\ Cache!ReleaseEvent(command[c].event)
  /\ command' = [command EXCEPT ![c] = None]
  /\ UNCHANGED <<driverVars, command_list_map_, kernel_call_list_, idVars, thr>>

\* What is left in command_list_map_ of a list whose commands are removed.
RecordAfterErased(t, l) == None  \* Fault: a list that is reset is forgotten too.
RecordAfter(t, l) == IF thr[t].op = "erase" THEN None ELSE command_list_map_[l]

\* The end of RemoveCommandList and of ResetCommandList.
EndRemove(t, l) ==
  /\ thr[t].op \in Removing
  /\ l \in thr[t].lists
  /\ CommandsOf(l) = {}
  /\ command_list_map_' = [command_list_map_ EXCEPT ![l] = RecordAfter(t, l)]
  /\ kernel_id_map_' = [kernel_id_map_ EXCEPT ![l] = {}]
  /\ call_id_map_' = [call_id_map_ EXCEPT ![l] = {}]
  /\ thr' = [thr EXCEPT ![t] = Idle]
  /\ UNCHANGED <<cacheVars, driverVars, command, kernel_call_list_, kernel_id_>>

\* zeContextDestroy: the application has destroyed the context's lists.
ContextDestroy(t, c) ==
  /\ thr[t].op = "idle"
  /\ \A l \in Lists :
       /\ ~InFunction(l)
       /\ list[l] # None => list[l].context # c
  /\ Cache!ReleaseContext(c)
  /\ UNCHANGED <<driverVars, command_list_map_, command, kernel_call_list_, idVars, thr>>

-----------------------------------------------------------------------------
(* The application's events, the device, and what else is not intercepted. *)

CreateEvent(e) ==
  /\ e \in AppEvents
  /\ status[e] = "none"
  /\ status' = [status EXCEPT ![e] = "reset"]
  /\ UNCHANGED <<event_map_, event_info_map_, event_pools_, driverVars,
                 command_list_map_, command, kernel_call_list_, idVars, thr>>

\* The application owns e, and the device does not use it.
AppOwned(e) ==
  /\ AppEvent(e)
  /\ \A r \in running : Held[r.command] # e

\* zeEventDestroy and zeEventHostReset: the enter callback, then the driver.
EventDestroy(e) ==
  /\ AppOwned(e)
  /\ LockFree
  /\ ProcessCall(e)
  /\ status' = [status EXCEPT ![e] = "none"]
  /\ UNCHANGED <<event_map_, event_info_map_, event_pools_, driverVars,
                 command_list_map_, idVars, thr>>

EventHostReset(e) ==
  /\ AppOwned(e)
  /\ LockFree
  /\ ProcessCall(e)
  /\ status' = [status EXCEPT ![e] = "reset"]
  /\ UNCHANGED <<event_map_, event_info_map_, event_pools_, driverVars,
                 command_list_map_, idVars, thr>>

\* The device finishes a command and signals its event.
Finish(r) ==
  /\ r \in running
  /\ running' = running \ {r}
  /\ status' = [status EXCEPT ![Held[r.command]] = "signaled"]
  /\ UNCHANGED <<event_map_, event_info_map_, event_pools_, list, fence, enabled, raced,
                 command_list_map_, command, kernel_call_list_, idVars, thr>>

FenceSignal(f) ==
  /\ fence[f] = "busy"
  /\ \A r \in running : r.fence # f
  /\ fence' = [fence EXCEPT ![f] = "signaled"]
  /\ UNCHANGED <<cacheVars, list, running, enabled, raced, command_list_map_, command,
                 kernel_call_list_, idVars, thr>>

\* zeFenceReset.
FenceReset(f) ==
  /\ fence[f] = "signaled"
  /\ \A t \in Threads : thr[t].fence # f
  /\ fence' = [fence EXCEPT ![f] = "reset"]
  /\ UNCHANGED <<cacheVars, list, running, enabled, raced, command_list_map_, command,
                 kernel_call_list_, idVars, thr>>

\* setenv or unsetenv of FTRACE_ENABLE_COLLECTION, at any time: also between the
\* execution of lists and the exit callback that asks whether to report it.
Toggle ==
  /\ Switching
  /\ enabled' = ~enabled
  /\ raced' = raced \cup UNION {CallIds(l) : l \in UNION {thr[t].todo : t \in Threads}}
  /\ UNCHANGED <<cacheVars, list, running, fence, command_list_map_, command,
                 kernel_call_list_, idVars, thr>>

-----------------------------------------------------------------------------
(* The system under the demands an application and a driver may make.      *)

\* No function in progress concerns a command that names e ...
Settled(e) ==
  \A c \in Commands : Held[c] = e => ~InFunction(command[c].list)
\* ... and no command at all names it.
Unnamed(e) == \A c \in Commands : Held[c] # e

\* The application appends a command with an event of its own when the event is reset and
\* no other command names it.  (Level Zero allows more; the first call of any command
\* would be all that ProcessCall reports.)
Fresh(e) == status[e] = "reset" /\ Unnamed(e)

\* The driver does not reuse the handle of a destroyed event while a command
\* names it (ZeEventCache shows what happens if it does) ...
HandleKept ==
  \A e \in Events : status[e] = "none" /\ ~Unnamed(e) => status'[e] = "none"
\* ... nor that of a list while the collector has a record of it.
Unrecorded(l) == command_list_map_[l] = None /\ ~InFunction(l)

CreateStep ==
  \E t \in Threads, l \in Lists : Unrecorded(l) /\ BeginCreate(t, l)

CallbackStep(t) ==
  \/ EndCreate(t)
  \/ EndAppend(t)
  \/ \E l \in Lists : AddKernelCalls(t, l)
  \/ LogExecute(t)
  \/ EndDestroyOrReset(t)
  \/ \E l \in Lists, c \in Commands : RemoveKernelCommand(t, l, c)
  \/ \E l \in Lists : EndRemove(t, l)

CallStep(t) ==
  \/ \E l \in Lists, c \in Commands, e \in Events :
       (AppEvent(e) => Fresh(e)) /\ BeginAppend(t, l, c, e) /\ HandleKept
  \/ \E L \in SUBSET Lists, f \in Fences \cup {None} : BeginExecute(t, L, f)
  \/ Synchronize(t)
  \/ \E f \in Fences : FenceHostSynchronize(t, f)
  \/ \E l \in Lists : BeginDestroy(t, l)
  \/ \E l \in Lists : BeginReset(t, l)
  \/ \E c \in Contexts : ContextDestroy(t, c)

OutsideStep ==
  \/ \E e \in Events : CreateEvent(e) /\ HandleKept
  \/ \E r \in running : Finish(r)
  \/ \E f \in Fences : FenceSignal(f)
  \/ \E f \in Fences : FenceReset(f)
  \/ Toggle

Common == OutsideStep \/ \E t \in Threads : CallbackStep(t) \/ CallStep(t)

\* A careful application resets an event when the functions that concern it
\* have returned, and destroys it when no command names it.
Next ==
  \/ Common
  \/ CreateStep
  \/ \E e \in Events : Settled(e) /\ EventHostReset(e)
  \/ \E e \in Events : Unnamed(e) /\ EventDestroy(e)

Spec == Init /\ [][Next]_vars

\* Threads finish the functions they are in, the device what was submitted,
\* and the application synchronizes with the device again and again.
FairSpec ==
  /\ Spec
  /\ \A t \in Threads : WF_vars(CallbackStep(t))
  /\ WF_vars(\E r \in running : Finish(r))
  /\ SF_vars(\E t \in Threads : Synchronize(t))

\* An application that destroys an event recorded commands still name.
EarlyDestroySpec ==
  Init /\ [][Next \/ \E e \in Events : Settled(e) /\ EventDestroy(e)]_vars

-----------------------------------------------------------------------------
(* Correctness.                                                            *)

\* Types of the variables that the cache does not own.
TypeOK ==
  /\ status \in [Events -> {"none", "reset", "signaled"}]
  /\ list \in [Lists -> [context : Contexts, immediate : BOOLEAN, open : BOOLEAN] \cup {None}]
  /\ running \subseteq [command : Commands, call_id : Nat, fence : Fences \cup {None}]
  /\ fence \in [Fences -> {"reset", "busy", "signaled"}]
  /\ enabled \in BOOLEAN
  /\ raced \subseteq Nat \X Nat
  /\ command_list_map_ \in [Lists -> [context : Contexts, immediate : BOOLEAN] \cup {None}]
  /\ command \in [Commands -> CommandType \cup {None}]
  /\ kernel_call_list_ \subseteq CallType
  /\ kernel_id_ \in Nat \ {0}
  /\ kernel_id_map_ \in [Lists -> SUBSET Nat]
  /\ call_id_map_ \in [Lists -> SUBSET (Nat \X Nat)]
  /\ thr \in [Threads ->
       [op : {"idle", "create", "append", "execute", "executed",
              "destroy", "reset", "erase", "clear"},
        lists : SUBSET Lists, todo : SUBSET Lists, command : Commands \cup {None},
        fence : Fences \cup {None}, ok : BOOLEAN, need : BOOLEAN]]

\* FTRACE_ASSERT(call->command != command): when RemoveKernelCommands deletes
\* the commands of a list, none of them has a call pending, which would be
\* left with a dangling pointer.
NoOrphanedCall ==
  \A t \in Threads : thr[t].op \in Removing =>
    \A k \in kernel_call_list_ : command[k.command].list \notin thr[t].lists

\* FTRACE_ASSERT(command_list_map_.count(command_list) == ...): AddCommandList
\* finds no record of the list it adds, any other callback finds one.
ListRecords ==
  \A t \in Threads : \A l \in thr[t].lists :
    thr[t].op = "create" <=> command_list_map_[l] = None

\* ProcessCalls queries the event of every pending call, and asserts that it
\* is ready or not: its command is not deleted nor its event destroyed.
PendingEventsExist ==
  \A k \in kernel_call_list_ : command[k.command] # None /\ status[EventOf(k)] # "none"

\* FTRACE_ASSERT(zeEventQueryStatus(command->event) == ZE_RESULT_SUCCESS): a
\* signaled fence tells that the calls recorded with it have run, even
\* when the fence was reset and used again before they were processed.
FenceImpliesEvent ==
  \A f \in Fences, k \in kernel_call_list_ :
    fence[f] = "signaled" /\ k.fence = f
      /\ (Cache!QueryEvent(EventOf(k)) \/ k.need_to_process)
    => Signaled(k)

\* The submissions of a command that the switch changed during.
Raced(c) == {p[2] : p \in {q \in raced : q[1] = command[c].kernel_id}}

\* Every submission made while collection was enabled is reported or pending, not both,
\* and one made while it was disabled is neither, unless the switch changed before the
\* submission was recorded: an execution counts as made when its exit callback runs.
Accounted ==
  \A c \in Commands : command[c] # None /\ ~InFunction(command[c].list) =>
    LET pending == Shown(kernel_call_list_, c)
    IN  /\ pending \cap command[c].reported = {}
        /\ (pending \cup command[c].reported) \ Raced(c) = command[c].wanted \ Raced(c)

\* FTRACE_ASSERT(kernel_id_list.size() == call_id_list.size()) of the API
\* collector: after an execution the correlator has an id pair per command.
IdListsPaired ==
  \A t \in Threads : thr[t].op = "executed" =>
    \A l \in thr[t].lists : Cardinality(kernel_id_map_[l]) = Cardinality(call_id_map_[l])

\* A call is processed only when the device has run that very submission: the
\* timestamps read are its own (for lists executed once between resets).
ReportedAfterRun ==
  [][\A k \in kernel_call_list_ \ kernel_call_list_' : \A r \in running :
       r.command = k.command => r.call_id # k.call_id]_vars

\* The collector uses the cache as ZeEventCache assumes, so what is proved
\* there (exclusive and ready events, none lost, none dangling) holds here.
ImplementsCache == Cache!Spec

\* Each submission of each command is reported in the end, or its call
\* dropped if collection was disabled: no call stays pending for ever.
EventuallyProcessed ==
  \A c \in Commands, n \in 1..MaxRuns :
    (\E k \in kernel_call_list_ : k.command = c /\ k.call_id = n)
      ~> ~(\E k \in kernel_call_list_ : k.command = c /\ k.call_id = n)
=============================================================================
