---------------------------- MODULE ZeEventCache ----------------------------
(***************************************************************************)
(* The cache of profiling events of the Level Zero kernel collector        *)
(* (ze_event_cache.h).  A command appended without a signal event gets an  *)
(* event of the cache; the event returns to the cache when the command is  *)
(* removed from its list.  Every operation runs under lock_, so each is    *)
(* one step.                                                               *)
(*                                                                         *)
(* The environment is the commands that hold events (Holders), the device  *)
(* that signals them, and the application, which creates, signals, resets  *)
(* and destroys events of its own in the same handle space.                *)
(***************************************************************************)
EXTENDS Naturals, Sequences, FiniteSets

CONSTANTS
  Contexts,         \* ze_context_handle_t values
  Events,           \* ze_event_handle_t values, the cache's and the application's
  Holders,          \* ZeKernelCommand objects
  EVENT_POOL_SIZE,  \* events per pool
  None              \* a null handle

ASSUME PoolSizeAssumption == EVENT_POOL_SIZE \in Nat \ {0}
ASSUME HandleAssumption == None \notin Events \cup Contexts
ASSUME FiniteAssumption == IsFiniteSet(Events)

VARIABLES
  event_map_,       \* event_map_[c]: the free events of context c, a stack
  event_info_map_,  \* event_info_map_[e]: the context of cached event e, or None
  event_pools_,     \* event_pools_[c]: how many pools context c has
  status,           \* driver: "none" (no such event), "reset" or "signaled"
  held,             \* held[h]: the event of command h, or None
  stale,            \* the commands whose event the application has destroyed
  alive             \* the cache has not been destructed

cacheVars == <<event_map_, event_info_map_, event_pools_>>
vars == <<event_map_, event_info_map_, event_pools_, status, held, stale, alive>>

Elements(s) == {s[i] : i \in DOMAIN s}

\* The events of context c that the cache created.
EventsOf(c) == {e \in Events : event_info_map_[e] = c}

QueryEvent(e) == event_info_map_[e] # None

\* Lists of EVENT_POOL_SIZE distinct handles the driver may give to a new pool.
NewPools ==
  {p \in [1..EVENT_POOL_SIZE -> {e \in Events : status[e] = "none"}] :
     \A i, j \in 1..EVENT_POOL_SIZE : p[i] = p[j] => i = j}

CacheInit ==
  /\ event_map_ = [c \in Contexts |-> <<>>]
  /\ event_info_map_ = [e \in Events |-> None]
  /\ event_pools_ = [c \in Contexts |-> 0]

-----------------------------------------------------------------------------
(* The operations, as steps of the cache's variables and of the driver.    *)

\* The last element leaves `stack', which becomes the free list of c.  The
\* driver must report the event as not ready (FTRACE_ASSERT).
PopBack(c, stack, e) ==
  /\ e = stack[Len(stack)]
  /\ event_map_' = [event_map_ EXCEPT ![c] = SubSeq(stack, 1, Len(stack) - 1)]

\* Fault: the event stays on the free list.
TakeFreeKeeping(c, e) ==
  /\ event_map_[c] # <<>>
  /\ e = event_map_[c][Len(event_map_[c])]
  /\ status[e] = "reset"
  /\ UNCHANGED <<event_map_, event_info_map_, event_pools_, status>>

TakeFree(c, e) ==
  /\ event_map_[c] # <<>>
  /\ PopBack(c, event_map_[c], e)
  /\ status[e] = "reset"
  /\ UNCHANGED <<event_info_map_, event_pools_, status>>

GrowPool(c, e) ==
  /\ event_map_[c] = <<>>
  /\ \E pool \in NewPools :
       /\ \A i \in DOMAIN pool : event_info_map_[pool[i]] = None
       /\ PopBack(c, pool, e)
       /\ event_info_map_' =
            [x \in Events |-> IF x \in Elements(pool) THEN c ELSE event_info_map_[x]]
       /\ event_pools_' = [event_pools_ EXCEPT ![c] = @ + 1]
       /\ status' = [x \in Events |-> IF x \in Elements(pool) THEN "reset" ELSE status[x]]

\* An event for a command of context c.
GetEvent(c, e) == TakeFree(c, e) \/ GrowPool(c, e)

\* Fault: the event is not reset.
ReleaseEventUnreset(e) ==
  /\ event_map_' = IF QueryEvent(e)
                   THEN [event_map_ EXCEPT ![event_info_map_[e]] = Append(@, e)]
                   ELSE event_map_
  /\ UNCHANGED <<event_info_map_, event_pools_, status>>

\* An event of the application is left alone; a cached one is reset and is
\* the next to be handed out.
ReleaseEvent(e) ==
  \/ /\ ~QueryEvent(e)
     /\ UNCHANGED <<event_map_, event_info_map_, event_pools_, status>>
  \/ /\ QueryEvent(e)
     /\ status' = [status EXCEPT ![e] = "reset"]
     /\ event_map_' = [event_map_ EXCEPT ![event_info_map_[e]] = Append(@, e)]
     /\ UNCHANGED <<event_info_map_, event_pools_>>

\* Faults: events are compared with pools, or not at all.
AllReleasedByPools(c) == Len(event_map_[c]) = event_pools_[c]
AllReleasedAlways(c) == TRUE

\* All events of c are back: as many are free as its pools have.
AllReleased(c) == Len(event_map_[c]) = EVENT_POOL_SIZE * event_pools_[c]

\* Fault: the count of pools drops by the number of events.
ReleaseContextByEvents(c) ==
  /\ AllReleased(c)
  /\ event_map_' = [event_map_ EXCEPT ![c] = <<>>]
  /\ event_pools_' = [event_pools_ EXCEPT ![c] = @ - Len(event_map_[c])]
  /\ UNCHANGED <<event_info_map_, status>>

\* The events and pools of c are destroyed if all events are back, and are
\* all kept if not.
ReleaseContext(c) ==
  IF AllReleased(c)
  THEN /\ status' = [e \in Events |->
                       IF e \in Elements(event_map_[c]) THEN "none" ELSE status[e]]
       /\ event_info_map_' = [e \in Events |->
                       IF e \in Elements(event_map_[c]) THEN None ELSE event_info_map_[e]]
       /\ event_map_' = [event_map_ EXCEPT ![c] = <<>>]
       /\ event_pools_' = [event_pools_ EXCEPT ![c] = 0]
  ELSE UNCHANGED <<event_map_, event_info_map_, event_pools_, status>>

\* The destructor destroys the free events and every pool.
DestroyFree ==
  /\ status' = [e \in Events |->
       IF \E c \in Contexts : e \in Elements(event_map_[c]) THEN "none" ELSE status[e]]
  /\ UNCHANGED <<event_map_, event_info_map_, event_pools_>>

-----------------------------------------------------------------------------
(* The closed system.                                                      *)

Init ==
  /\ CacheInit
  /\ status = [e \in Events |-> "none"]
  /\ held = [h \in Holders |-> None]
  /\ stale = {}
  /\ alive = TRUE

\* zeCommandListAppend...: command h takes an event of the cache ...
Acquire(h, c) ==
  /\ alive
  /\ held[h] = None
  /\ \E e \in Events : GetEvent(c, e) /\ held' = [held EXCEPT ![h] = e]
  /\ UNCHANGED <<stale, alive>>

\* ... or names the event the application passed.
UseAppEvent(h, e) ==
  /\ alive
  /\ held[h] = None
  /\ status[e] # "none"
  /\ ~QueryEvent(e)
  /\ held' = [held EXCEPT ![h] = e]
  /\ UNCHANGED <<event_map_, event_info_map_, event_pools_, status, stale, alive>>

\* The append failed, or the list of the command is reset or destroyed.
Return(h) ==
  /\ alive
  /\ held[h] # None
  /\ ReleaseEvent(held[h])
  /\ held' = [held EXCEPT ![h] = None]
  /\ stale' = stale \ {h}
  /\ UNCHANGED alive

\* zeContextDestroy.
DestroyContext(c) ==
  /\ alive
  /\ ReleaseContext(c)
  /\ UNCHANGED <<held, stale, alive>>

\* The collector is deleted at the end of the process.
Destruct ==
  /\ alive
  /\ DestroyFree
  /\ alive' = FALSE
  /\ UNCHANGED <<held, stale>>

\* The device runs a command and signals its event.
DeviceSignal(h) ==
  /\ held[h] # None
  /\ h \notin stale
  /\ status[held[h]] = "reset"
  /\ status' = [status EXCEPT ![held[h]] = "signaled"]
  /\ UNCHANGED <<event_map_, event_info_map_, event_pools_, held, stale, alive>>

\* zeEventCreate and zeEventHostReset of the application.
AppCreateEvent(e) ==
  /\ status[e] = "none"
  /\ status' = [status EXCEPT ![e] = "reset"]
  /\ UNCHANGED <<event_map_, event_info_map_, event_pools_, held, stale, alive>>

AppResetEvent(e) ==
  /\ ~QueryEvent(e)
  /\ status[e] = "signaled"
  /\ status' = [status EXCEPT ![e] = "reset"]
  /\ UNCHANGED <<event_map_, event_info_map_, event_pools_, held, stale, alive>>

\* zeEventDestroy of the application: the handle is the driver's to reuse.
AppDestroyEvent(e) ==
  /\ ~QueryEvent(e)
  /\ status[e] # "none"
  /\ status' = [status EXCEPT ![e] = "none"]
  /\ stale' = stale \cup {h \in Holders : held[h] = e}
  /\ UNCHANGED <<event_map_, event_info_map_, event_pools_, held, alive>>

\* The application keeps its event for as long as a command names it.
KeepsNamedEvents(e) == \A h \in Holders : held[h] # e

CacheStep ==
  \/ \E h \in Holders, c \in Contexts : Acquire(h, c)
  \/ \E h \in Holders, e \in Events : UseAppEvent(h, e)
  \/ \E h \in Holders : Return(h)
  \/ \E c \in Contexts : DestroyContext(c)
  \/ Destruct
  \/ \E h \in Holders : DeviceSignal(h)
  \/ \E e \in Events : AppCreateEvent(e)
  \/ \E e \in Events : AppResetEvent(e)

Next ==
  \/ CacheStep
  \/ \E e \in Events : KeepsNamedEvents(e) /\ AppDestroyEvent(e)

Spec == Init /\ [][Next]_vars

\* An application that destroys an event once the device has signaled it,
\* which Level Zero allows, though a recorded command still names it.
EarlyDestroyNext ==
  \/ CacheStep
  \/ \E e \in Events : status[e] = "signaled" /\ AppDestroyEvent(e)

EarlyDestroySpec == Init /\ [][EarlyDestroyNext]_vars

-----------------------------------------------------------------------------
(* Correctness.                                                            *)

\* Types of the variables.
TypeOK ==
  /\ event_map_ \in [Contexts -> Seq(Events)]
  /\ event_info_map_ \in [Events -> Contexts \cup {None}]
  /\ event_pools_ \in [Contexts -> Nat]
  /\ status \in [Events -> {"none", "reset", "signaled"}]
  /\ held \in [Holders -> Events \cup {None}]
  /\ stale \in SUBSET Holders
  /\ alive \in BOOLEAN

\* A cached event is in one place: in one position of the free list of its
\* own context or in the hands of one command (GetEvent, ReleaseEvent).
OnePlace ==
  /\ \A c \in Contexts : \A i, j \in DOMAIN event_map_[c] :
       /\ event_info_map_[event_map_[c][i]] = c
       /\ event_map_[c][i] = event_map_[c][j] => i = j
  /\ \A h \in Holders : held[h] # None /\ QueryEvent(held[h]) =>
       /\ \A c \in Contexts : held[h] \notin Elements(event_map_[c])
       /\ \A g \in Holders : held[g] = held[h] => g = h

\* FTRACE_ASSERT(zeEventQueryStatus(event) == ZE_RESULT_NOT_READY) holds
\* whenever GetEvent can run: no free event was signaled or has been destroyed.
FreeEventsReady ==
  alive => \A c \in Contexts : \A i \in DOMAIN event_map_[c] :
    status[event_map_[c][i]] = "reset"

\* The event of a command exists until the command gives it back, whatever
\* contexts are destroyed meanwhile (the size test of ReleaseContext).
NoDanglingEvent ==
  alive => \A h \in Holders : held[h] # None => status[held[h]] # "none"

\* No event gets lost: those of a context are its pools' events, and each is
\* free or held.  ReleaseContext compares sizes on the strength of this.
Conserved ==
  \A c \in Contexts :
    /\ EventsOf(c) \subseteq Elements(event_map_[c]) \cup {held[h] : h \in Holders}
    /\ Cardinality(EventsOf(c)) = EVENT_POOL_SIZE * event_pools_[c]

\* When no command holds an event of a context, the test of ReleaseContext finds
\* it complete ("all events in the context should already be released"):
\* zeContextDestroy leaks nothing.
ContextReleasable ==
  \A c \in Contexts : (\A h \in Holders : held[h] \notin EventsOf(c)) => AllReleased(c)

\* The cache implements the promise of EventLease.
CachedEventOf(h) ==
  IF held[h] # None /\ QueryEvent(held[h]) THEN held[h] ELSE None
FreeEvents ==
  IF alive THEN UNION {Elements(event_map_[c]) : c \in Contexts} ELSE {}

Abstract == INSTANCE EventLease WITH
  lease <- [h \in Holders |-> CachedEventOf(h)], idle <- FreeEvents
ImplementsLease == Abstract!LeaseSpec
=============================================================================
