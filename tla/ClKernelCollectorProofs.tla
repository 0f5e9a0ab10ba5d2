---------------------- MODULE ClKernelCollectorProofs ----------------------
(***************************************************************************)
(* Proofs about ClKernelCollector for any number of threads, queues,       *)
(* events, kernels and references.                                         *)
(***************************************************************************)
EXTENDS ClKernelCollector, FiniteSetTheorems, TLAPS

-----------------------------------------------------------------------------
(* The inductive invariant.  It adds to the invariants of the runs that    *)
(* the application has the references its threads use, so that an event    *)
(* seen complete before the lock is still the same event afterwards.       *)

\* The application has a reference for every thread that is being given or
\* gives up one, and one more if a thread waits for the event.
ReferencesCovered ==
  \A e \in Events \ internal :
    mine[e] >= InUse(e) /\ (Awaited(e) => mine[e] > InUse(e))

\* It has none to an event of the collector's own.
InternalUnseen == \A e \in internal : mine[e] = 0

\* Kernel ids are given in order, each once.
KernelIds ==
  /\ IsFiniteSet(kernel_instance_list_)
  /\ \A i \in kernel_instance_list_ : i.kernel_id < kernel_id_
  /\ \A i, j \in kernel_instance_list_ : i.kernel_id = j.kernel_id => i = j
  /\ \A n \in wanted \cup raced : n < kernel_id_

\* An event being enqueued has no instance, and one thread enqueues it.
EnqueueNew ==
  \A t \in Threads : thr[t].op = "enqueue" =>
    /\ thr[t].event \in Events
    /\ InstancesOf({thr[t].event}) = {}
    /\ \A u \in Threads : thr[u].op = "enqueue" /\ thr[u].event = thr[t].event => u = t

\* What a thread of each kind is about.
ThreadShape(t) ==
  /\ thr[t].op \in {"idle", "process", "wait"} => thr[t].event = None
  /\ thr[t].op \in {"idle", "enqueue", "process"} => thr[t].todo = {} /\ thr[t].seen = None
  /\ thr[t].op = "release" =>
       /\ thr[t].event \in Events \ internal
       /\ thr[t].todo \subseteq {thr[t].event}
       /\ thr[t].seen \in {thr[t].event, None}
  /\ thr[t].op = "wait" =>
       /\ thr[t].todo \subseteq Events \ internal
       /\ thr[t].seen \in (Events \ internal) \cup {None}
       /\ \A e \in thr[t].todo : exec[e] = "complete"
  /\ thr[t].seen # None => exec[thr[t].seen] = "complete"

\* Of what a synchronization waited for, only what it is going to process.
DueShape(t) ==
  /\ \A n \in thr[t].due : n < kernel_id_
  /\ thr[t].op \in {"idle", "enqueue", "release"} => thr[t].due = {}
  /\ \A i \in kernel_instance_list_ : i.kernel_id \in thr[t].due =>
       /\ thr[t].op = "process" => Complete(i)
       /\ thr[t].op = "wait" => i.event \in thr[t].todo \cup {thr[t].seen}

\* While a thread enqueues and the switch does not change, the switch is what
\* it was when the enqueue began.
SwitchKept ==
  /\ began \cap switched = {}
  /\ \A t \in began \cup switched : thr[t].op = "enqueue"
  /\ \A t \in Threads : thr[t].op = "enqueue" /\ t \notin switched =>
       (t \in began <=> enabled)

Shapes == \A t \in Threads : ThreadShape(t) /\ DueShape(t)

IInv ==
  /\ TypeOK /\ References /\ HandlesIdentify /\ Accounted
  /\ ReferencesCovered /\ InternalUnseen /\ KernelIds /\ EnqueueNew
  /\ Shapes /\ SwitchKept

-----------------------------------------------------------------------------
(* Counting.                                                               *)

\* The counts of References and ReferencesCovered are those of finite sets.
LEMMA Counts ==
  ASSUME IInv, NEW e \in Events
  PROVE  /\ IsFiniteSet(InstancesOf({e})) /\ Cardinality(InstancesOf({e})) \in Nat
         /\ Cardinality(InstancesOf({e})) = 0 <=> InstancesOf({e}) = {}
         /\ IsFiniteSet(Users(e)) /\ InUse(e) \in Nat
         /\ InUse(e) = 0 <=> Users(e) = {}
<1>1. IsFiniteSet(kernel_instance_list_)
  BY DEF IInv, KernelIds
<1>2. InstancesOf({e}) \in SUBSET kernel_instance_list_ /\ Users(e) \in SUBSET Threads
  BY DEF InstancesOf, Users
<1>3. IsFiniteSet(InstancesOf({e})) /\ IsFiniteSet(Users(e))
  BY <1>1, <1>2, FS_Subset, HandleAssumption
<1>. QED  BY <1>3, FS_CardinalityType, FS_EmptySet DEF InUse

\* Nothing concerns an event that is gone.
LEMMA Gone ==
  ASSUME IInv, NEW e \in Events, refs[e] = 0
  PROVE  /\ mine[e] = 0 /\ e \notin internal /\ InstancesOf({e}) = {}
         /\ InUse(e) = 0 /\ ~Awaited(e)
         /\ \A t \in Threads :
              thr[t].event # e /\ e \notin thr[t].todo /\ thr[t].seen # e
<1>1. refs[e] = mine[e] + Cardinality(InstancesOf({e}))
                  + (IF e \in internal THEN 1 ELSE 0)
  BY DEF IInv, References
<1>2. mine[e] \in Nat
  BY DEF IInv, TypeOK
<1>. DEFINE n == Cardinality(InstancesOf({e}))
<1>3. mine[e] = 0 /\ e \notin internal /\ InstancesOf({e}) = {}
  <2>1. n \in Nat /\ (n = 0 <=> InstancesOf({e}) = {})
    BY Counts
  <2>. HIDE DEF n
  <2>2. e \notin internal /\ mine[e] = 0 /\ n = 0
    <3>1. CASE e \in internal
      <4>1. refs[e] = mine[e] + n + 1
        BY <1>1, <3>1 DEF n
      <4>. QED  BY <4>1, <1>2, <2>1
    <3>2. CASE e \notin internal
      <4>1. refs[e] = mine[e] + n + 0
        BY <1>1, <3>2 DEF n
      <4>. QED  BY <4>1, <3>2, <1>2, <2>1
    <3>. QED  BY <3>1, <3>2
  <2>. QED  BY <2>1, <2>2
<1>. HIDE DEF n
<1>4. mine[e] >= InUse(e) /\ (Awaited(e) => mine[e] > InUse(e))
  BY <1>3 DEF IInv, ReferencesCovered
<1>5. InUse(e) = 0 /\ ~Awaited(e) /\ Users(e) = {}
  BY <1>3, <1>4, Counts
<1>6. ASSUME NEW t \in Threads
      PROVE  thr[t].event # e /\ e \notin thr[t].todo /\ thr[t].seen # e
  <2>1. thr[t].event # e
    BY <1>5 DEF Users
  <2>2. thr[t].op \in {"idle", "enqueue", "process", "wait", "release"} /\ ThreadShape(t)
    BY DEF IInv, TypeOK, ThreadType, Shapes
  <2>3. thr[t].op = "wait" => e \notin thr[t].todo /\ thr[t].seen # e
    BY <1>5 DEF Awaited
  <2>. QED  BY <2>1, <2>2, <2>3, HandleAssumption DEF ThreadShape
<1>. QED  BY <1>3, <1>5, <1>6

\* Threads that stop using an event leave its references covered.
LEMMA FewerUsers ==
  ASSUME NEW S \in SUBSET Threads, NEW T \in SUBSET S
  PROVE  Cardinality(S) \in Nat /\ Cardinality(T) \in Nat /\ Cardinality(T) <= Cardinality(S)
<1>1. IsFiniteSet(S) /\ IsFiniteSet(T)
  BY FS_Subset, HandleAssumption
<1>. QED  BY <1>1, FS_Subset, FS_CardinalityType

-----------------------------------------------------------------------------
(* The invariant holds at first ...                                        *)

LEMMA InitInv == Init => IInv
<1>. SUFFICES ASSUME Init PROVE IInv
  OBVIOUS
<1>1. TypeOK
  BY SMTT(30) DEF Init, TypeOK, ThreadType, Idle
<1>2. \A E : InstancesOf(E) = {}
  BY DEF Init, InstancesOf
<1>3. References
  BY <1>2, FS_EmptySet DEF Init, References
<1>4. HandlesIdentify /\ Accounted
  BY DEF Init, HandlesIdentify, Accounted
<1>5. \A e \in Events : Users(e) = {} /\ ~Awaited(e)
  BY HandleAssumption DEF Init, Users, Awaited, Idle
<1>6. ReferencesCovered
  BY <1>5, FS_EmptySet DEF Init, ReferencesCovered, InUse
<1>7. InternalUnseen /\ KernelIds /\ EnqueueNew
  BY FS_EmptySet DEF Init, InternalUnseen, KernelIds, EnqueueNew, Idle
<1>8. Shapes
  BY DEF Init, Shapes, ThreadShape, DueShape, Idle
<1>9. SwitchKept
  BY DEF Init, SwitchKept, Idle
<1>. QED  BY <1>1, <1>3, <1>4, <1>6, <1>7, <1>8, <1>9 DEF IInv

-----------------------------------------------------------------------------
(* ... and is preserved by every step.                                     *)

\* A thread that is not enqueueing has no part in what is known of the switch.
LEMMA NotEnqueueing ==
  ASSUME IInv, NEW t \in Threads, thr[t].op # "enqueue"
  PROVE  began \ {t} = began /\ switched \ {t} = switched
<1>. QED  BY DEF IInv, SwitchKept

\* It may end to enqueue, ...
LEMMA SwitchForgotten ==
  ASSUME IInv, NEW t \in Threads, enabled' = enabled,
         began' = began \ {t}, switched' = switched \ {t},
         thr'[t].op # "enqueue", \A u \in Threads \ {t} : thr'[u] = thr[u]
  PROVE  SwitchKept'
<1>1. /\ began \cap switched = {}
      /\ \A u \in began \cup switched : thr[u].op = "enqueue"
      /\ \A u \in Threads : thr[u].op = "enqueue" /\ u \notin switched =>
           (u \in began <=> enabled)
      /\ began \subseteq Threads /\ switched \subseteq Threads
  BY DEF IInv, SwitchKept, TypeOK
<1>2. began' \cap switched' = {}
  BY <1>1
<1>3. \A u \in began' \cup switched' : thr'[u].op = "enqueue"
  BY <1>1
<1>4. \A u \in Threads : thr'[u].op = "enqueue" /\ u \notin switched' =>
           (u \in began' <=> enabled')
  BY <1>1
<1>. QED  BY <1>2, <1>3, <1>4 DEF SwitchKept

\* A step of one thread that changes nothing but what the thread is about.
LEMMA ThreadStep ==
  ASSUME IInv, NEW t \in Threads, NEW r \in ThreadType,
         thr' = [thr EXCEPT ![t] = r],
         UNCHANGED <<driverVars, enabled, kernel_id_, kernel_instance_list_,
                     flips, wanted, raced, reported, internal>>,
         began' = began \ {t}, switched' = switched \ {t},
         ReferencesCovered', ThreadShape(t)', DueShape(t)', r.op # "enqueue"
  PROVE  IInv'
<1>. USE DEF driverVars
<1>1. TypeOK'
  BY DEF IInv, TypeOK
<1>2. References' /\ HandlesIdentify' /\ Accounted' /\ InternalUnseen' /\ KernelIds'
  BY DEF IInv, References, HandlesIdentify, Accounted, InternalUnseen, KernelIds, InstancesOf
<1>3. thr'[t] = r /\ \A u \in Threads \ {t} : thr'[u] = thr[u]
  BY DEF IInv, TypeOK
<1>4. EnqueueNew'
  BY <1>3 DEF IInv, EnqueueNew, InstancesOf
<1>5. ASSUME NEW u \in Threads \ {t} PROVE ThreadShape(u)' /\ DueShape(u)'
  BY <1>3 DEF IInv, Shapes, ThreadShape, DueShape, Complete
<1>6. Shapes'
  BY <1>5 DEF Shapes
<1>7. SwitchKept'
  BY <1>3, SwitchForgotten
<1>. QED  BY <1>1, <1>2, <1>4, <1>6, <1>7 DEF IInv

\* A change of threads that lets each event have the same users or fewer.
LEMMA CoverageKept ==
  ASSUME IInv, mine' = mine, internal' = internal,
         \A e \in Events : Users(e)' \subseteq Users(e) /\ (Awaited(e)' => Awaited(e))
  PROVE  ReferencesCovered'
<1>. SUFFICES ASSUME NEW e \in Events \ internal
              PROVE  mine[e] >= InUse(e)' /\ (Awaited(e)' => mine[e] > InUse(e)')
  BY DEF ReferencesCovered
<1>1. mine[e] >= InUse(e) /\ (Awaited(e) => mine[e] > InUse(e)) /\ mine[e] \in Nat
  BY DEF IInv, ReferencesCovered, TypeOK
<1>2. InUse(e) \in Nat /\ InUse(e)' \in Nat /\ InUse(e)' <= InUse(e)
  <2>1. Users(e) \in SUBSET Threads /\ Users(e)' \in SUBSET Users(e)
    BY DEF Users
  <2>. QED  BY <2>1, FewerUsers DEF InUse
<1>. QED  BY <1>1, <1>2

\* clWaitForEvents returns, or a blocking transfer with an error.
LEMMA ReturnInv ==
  ASSUME IInv, NEW t \in Threads, EndWait(t) \/ EndEnqueueFailed(t)
  PROVE  IInv'
<1>1. Idle \in ThreadType
  BY DEF Idle, ThreadType
<1>2. /\ thr' = [thr EXCEPT ![t] = Idle]
      /\ UNCHANGED <<driverVars, enabled, kernel_id_, kernel_instance_list_,
                     flips, wanted, raced, reported, internal>>
      /\ mine' = mine /\ internal' = internal
      /\ began' = began \ {t} /\ switched' = switched \ {t}
  BY NotEnqueueing DEF EndWait, EndEnqueueFailed, driverVars, history, switches
<1>3. thr'[t] = Idle /\ \A u \in Threads \ {t} : thr'[u] = thr[u]
  BY <1>2 DEF IInv, TypeOK
<1>4. ReferencesCovered'
  <2>1. \A e \in Events : Users(e)' \subseteq Users(e) /\ (Awaited(e)' => Awaited(e))
    BY <1>3, HandleAssumption DEF Users, Awaited, Idle
  <2>. QED  BY <1>2, <2>1, CoverageKept
<1>5. ThreadShape(t)' /\ DueShape(t)'
  BY <1>3 DEF ThreadShape, DueShape, Idle
<1>. QED  BY <1>1, <1>2, <1>4, <1>5, ThreadStep DEF Idle

\* clFinish: what is due is complete.
LEMMA BeginFinishInv ==
  ASSUME IInv, NEW t \in Threads, NEW q \in Queues, BeginFinish(t, q)
  PROVE  IInv'
<1>. DEFINE ofQueue == {e \in Events : refs[e] > 0 /\ queue[e] = q}
            due == {i.kernel_id : i \in {j \in InstancesOf(ofQueue) : Complete(j)}}
            r == [Idle EXCEPT !.op = "process", !.due = due]
<1>1. /\ thr[t].op = "idle" /\ thr' = [thr EXCEPT ![t] = r]
      /\ UNCHANGED <<driverVars, enabled, kernel_id_, kernel_instance_list_,
                     flips, wanted, raced, reported, internal>>
      /\ began' = began \ {t} /\ switched' = switched \ {t}
      /\ mine' = mine /\ internal' = internal /\ exec' = exec
      /\ kernel_instance_list_' = kernel_instance_list_ /\ kernel_id_' = kernel_id_
  BY NotEnqueueing DEF BeginFinish, driverVars, history, switches
<1>2. \A n \in due : \E i \in kernel_instance_list_ : i.kernel_id = n /\ Complete(i)
  BY DEF InstancesOf
<1>3. due \in SUBSET Nat /\ \A n \in due : n < kernel_id_
  <2>1. \A i \in kernel_instance_list_ : i.kernel_id \in Nat /\ i.kernel_id < kernel_id_
    BY DEF IInv, TypeOK, InstanceType, KernelIds
  <2>. QED  BY <1>2, <2>1
<1>4. \A i \in kernel_instance_list_ : i.kernel_id \in due => Complete(i)
  BY <1>2 DEF IInv, KernelIds
<1>. HIDE DEF due
<1>5. r \in ThreadType
  BY <1>3 DEF Idle, ThreadType
<1>6. /\ thr'[t].op = "process" /\ thr'[t].event = None /\ thr'[t].todo = {}
      /\ thr'[t].seen = None /\ thr'[t].due = due
      /\ \A u \in Threads \ {t} : thr'[u] = thr[u]
  BY <1>1 DEF IInv, TypeOK, Idle
<1>7. ReferencesCovered'
  <2>1. \A e \in Events : Users(e)' \subseteq Users(e) /\ (Awaited(e)' => Awaited(e))
    BY <1>6, HandleAssumption DEF Users, Awaited
  <2>. QED  BY <1>1, <2>1, CoverageKept
<1>8. ThreadShape(t)' /\ DueShape(t)'
  BY <1>1, <1>3, <1>4, <1>6 DEF ThreadShape, DueShape, Complete
<1>. QED  BY <1>1, <1>5, <1>7, <1>8, ThreadStep DEF Idle

LEMMA BeginReleaseQueueInv ==
  ASSUME IInv, NEW t \in Threads, BeginReleaseQueue(t)
  PROVE  IInv'
<1>. DEFINE r == [Idle EXCEPT !.op = "process"]
<1>1. /\ thr[t].op = "idle" /\ thr' = [thr EXCEPT ![t] = r]
      /\ UNCHANGED <<driverVars, enabled, kernel_id_, kernel_instance_list_,
                     flips, wanted, raced, reported, internal>>
      /\ began' = began \ {t} /\ switched' = switched \ {t}
      /\ mine' = mine /\ internal' = internal
  BY NotEnqueueing DEF BeginReleaseQueue, driverVars, history, switches
<1>2. r \in ThreadType
  BY DEF Idle, ThreadType
<1>3. thr'[t] = r /\ \A u \in Threads \ {t} : thr'[u] = thr[u]
  BY <1>1 DEF IInv, TypeOK
<1>4. ReferencesCovered'
  <2>1. \A e \in Events : Users(e)' \subseteq Users(e) /\ (Awaited(e)' => Awaited(e))
    BY <1>3, HandleAssumption DEF Users, Awaited, Idle
  <2>. QED  BY <1>1, <2>1, CoverageKept
<1>5. ThreadShape(t)' /\ DueShape(t)'
  BY <1>3 DEF ThreadShape, DueShape, Idle
<1>. QED  BY <1>1, <1>2, <1>4, <1>5, ThreadStep DEF Idle

\* clWaitForEvents: the application has a reference to what it waits for.
LEMMA BeginWaitInv ==
  ASSUME IInv, NEW t \in Threads, NEW E \in SUBSET Events, BeginWait(t, E)
  PROVE  IInv'
<1>. DEFINE due == {i.kernel_id : i \in InstancesOf(E)}
            r == [Idle EXCEPT !.op = "wait", !.todo = E, !.due = due]
<1>1. /\ thr[t].op = "idle" /\ thr' = [thr EXCEPT ![t] = r]
      /\ \A e \in E : mine[e] > InUse(e) /\ exec[e] = "complete"
      /\ UNCHANGED <<driverVars, enabled, kernel_id_, kernel_instance_list_,
                     flips, wanted, raced, reported, internal>>
      /\ began' = began \ {t} /\ switched' = switched \ {t}
      /\ mine' = mine /\ internal' = internal /\ exec' = exec
      /\ kernel_instance_list_' = kernel_instance_list_ /\ kernel_id_' = kernel_id_
  BY NotEnqueueing DEF BeginWait, driverVars, history, switches
<1>2. \A n \in due : \E i \in kernel_instance_list_ : i.kernel_id = n /\ i.event \in E
  BY DEF InstancesOf
<1>3. due \in SUBSET Nat /\ \A n \in due : n < kernel_id_
  <2>1. \A i \in kernel_instance_list_ : i.kernel_id \in Nat /\ i.kernel_id < kernel_id_
    BY DEF IInv, TypeOK, InstanceType, KernelIds
  <2>. QED  BY <1>2, <2>1
<1>4. \A i \in kernel_instance_list_ : i.kernel_id \in due => i.event \in E
  BY <1>2 DEF IInv, KernelIds
<1>. HIDE DEF due
<1>5. r \in ThreadType
  BY <1>3 DEF Idle, ThreadType
<1>6. /\ thr'[t].op = "wait" /\ thr'[t].event = None /\ thr'[t].todo = E
      /\ thr'[t].seen = None /\ thr'[t].due = due
      /\ \A u \in Threads \ {t} : thr'[u] = thr[u]
  BY <1>1 DEF IInv, TypeOK, Idle
<1>7. E \subseteq Events \ internal
  <2>1. \A e \in E : mine[e] \in Nat /\ InUse(e) \in Nat
    BY Counts DEF IInv, TypeOK
  <2>. QED  BY <1>1, <2>1 DEF IInv, InternalUnseen
<1>8. ReferencesCovered'
  <2>1. ASSUME NEW e \in Events
        PROVE  Users(e)' = Users(e) /\ (Awaited(e)' => Awaited(e) \/ e \in E)
    <3>1. Users(e)' = Users(e)
      BY <1>1, <1>6, HandleAssumption DEF IInv, Shapes, ThreadShape, Users
    <3>2. Awaited(e)' => Awaited(e) \/ e \in E
      BY <1>6, HandleAssumption DEF Awaited
    <3>. QED  BY <3>1, <3>2
  <2>2. \A e \in Events : InUse(e)' = InUse(e)
    BY <2>1 DEF InUse
  <2>. QED  BY <1>1, <2>1, <2>2 DEF IInv, ReferencesCovered
<1>9. ThreadShape(t)'
  BY <1>1, <1>6, <1>7 DEF ThreadShape
<1>10. DueShape(t)'
  BY <1>1, <1>3, <1>4, <1>6 DEF DueShape
<1>. QED  BY <1>1, <1>5, <1>8, <1>9, <1>10, ThreadStep DEF Idle

\* clReleaseEvent: the application gives up a reference no thread uses.
LEMMA BeginReleaseInv ==
  ASSUME IInv, NEW t \in Threads, NEW e \in Events, BeginRelease(t, e)
  PROVE  IInv'
<1>. DEFINE r == [Idle EXCEPT !.op = "release", !.event = e, !.todo = {e}]
<1>1. /\ thr[t].op = "idle" /\ thr' = [thr EXCEPT ![t] = r]
      /\ mine[e] > InUse(e) + (IF Awaited(e) THEN 1 ELSE 0)
      /\ UNCHANGED <<driverVars, enabled, kernel_id_, kernel_instance_list_,
                     flips, wanted, raced, reported, internal>>
      /\ began' = began \ {t} /\ switched' = switched \ {t}
      /\ mine' = mine /\ internal' = internal
  BY NotEnqueueing DEF BeginRelease, driverVars, history, switches
<1>2. r \in ThreadType
  BY DEF Idle, ThreadType
<1>3. /\ thr'[t].op = "release" /\ thr'[t].event = e /\ thr'[t].todo = {e}
      /\ thr'[t].seen = None /\ thr'[t].due = {}
      /\ \A u \in Threads \ {t} : thr'[u] = thr[u]
  BY <1>1 DEF IInv, TypeOK, Idle
<1>4. mine[e] \in Nat /\ InUse(e) \in Nat
  BY Counts DEF IInv, TypeOK
<1>5. mine[e] >= InUse(e) + 1 /\ (Awaited(e) => mine[e] > InUse(e) + 1)
  <2>1. CASE Awaited(e)
    BY <1>1, <1>4, <2>1
  <2>2. CASE ~Awaited(e)
    <3>1. mine[e] > InUse(e) + 0
      BY <1>1, <2>2
    <3>. QED  BY <3>1, <2>2, <1>4
  <2>. QED  BY <2>1, <2>2
<1>6. e \notin internal
  BY <1>4, <1>5 DEF IInv, InternalUnseen
<1>7. InUse(e)' = InUse(e) + 1
  <2>1. Users(e)' = Users(e) \cup {t} /\ t \notin Users(e)
    BY <1>1, <1>3, HandleAssumption DEF IInv, Shapes, ThreadShape, Users
  <2>. QED  BY <2>1, Counts, FS_AddElement DEF InUse
<1>8. \A d \in Events \ {e} : Users(d)' = Users(d)
  BY <1>1, <1>3, HandleAssumption DEF IInv, Shapes, ThreadShape, Users
<1>9. \A d \in Events : Awaited(d)' => Awaited(d)
  BY <1>3, HandleAssumption DEF Awaited
<1>10. ReferencesCovered'
  BY <1>1, <1>4, <1>5, <1>7, <1>8, <1>9 DEF IInv, ReferencesCovered, InUse
<1>11. ThreadShape(t)' /\ DueShape(t)'
  BY <1>1, <1>3, <1>6 DEF ThreadShape, DueShape
<1>. QED  BY <1>1, <1>2, <1>10, <1>11, ThreadStep DEF Idle

\* An event found complete stays among the events of the thread, and one
\* that is waited for is found complete.
LEMMA QueryStatusInv ==
  ASSUME IInv, NEW t \in Threads, NEW e \in Events, QueryStatus(t, e)
  PROVE  IInv'
<1>. DEFINE r == [thr[t] EXCEPT !.todo = @ \ {e}, !.seen = SeenIfComplete(e)]
<1>1. /\ thr[t].op \in {"wait", "release"} /\ thr[t].seen = None /\ e \in thr[t].todo
      /\ thr' = [thr EXCEPT ![t].todo = @ \ {e}, ![t].seen = SeenIfComplete(e)]
      /\ UNCHANGED <<driverVars, enabled, kernel_id_, kernel_instance_list_,
                     flips, wanted, raced, reported, internal>>
      /\ began' = began \ {t} /\ switched' = switched \ {t}
      /\ mine' = mine /\ internal' = internal /\ exec' = exec
      /\ kernel_instance_list_' = kernel_instance_list_ /\ kernel_id_' = kernel_id_
  BY NotEnqueueing DEF QueryStatus, driverVars, history, switches
<1>2. thr' = [thr EXCEPT ![t] = r] /\ thr[t] \in ThreadType
  BY <1>1 DEF IInv, TypeOK
<1>3. r \in ThreadType
  BY <1>2 DEF ThreadType, SeenIfComplete
<1>4. /\ thr'[t].op = thr[t].op /\ thr'[t].event = thr[t].event
      /\ thr'[t].todo = thr[t].todo \ {e} /\ thr'[t].due = thr[t].due
      /\ thr'[t].seen = SeenIfComplete(e)
      /\ \A u \in Threads \ {t} : thr'[u] = thr[u]
  BY <1>2 DEF IInv, TypeOK, ThreadType
<1>5. SeenIfComplete(e) \in {e, None} /\ (SeenIfComplete(e) = e => exec[e] = "complete")
  BY HandleAssumption DEF SeenIfComplete
<1>6. ReferencesCovered'
  <2>1. ASSUME NEW d \in Events
        PROVE  Users(d)' \subseteq Users(d) /\ (Awaited(d)' => Awaited(d))
    <3>1. Users(d)' = Users(d)
      BY <1>4 DEF Users
    <3>2. Awaited(d)' => Awaited(d)
      <4>1. ASSUME NEW u \in Threads, thr'[u].op = "wait",
                   d \in thr'[u].todo \cup {thr'[u].seen}
            PROVE  thr[u].op = "wait" /\ d \in thr[u].todo \cup {thr[u].seen}
        <5>1. CASE u = t
          BY <5>1, <4>1, <1>1, <1>4, <1>5, HandleAssumption, ZenonT(60)
        <5>2. CASE u # t
          BY <5>2, <4>1, <1>4
        <5>. QED  BY <5>1, <5>2
      <4>. QED  BY <4>1 DEF Awaited
    <3>. QED  BY <3>1, <3>2
  <2>. QED  BY <1>1, <2>1, CoverageKept
<1>7. ThreadShape(t) /\ DueShape(t)
  BY DEF IInv, Shapes
<1>8. ThreadShape(t)'
  BY <1>1, <1>4, <1>5, <1>7, HandleAssumption DEF ThreadShape
<1>9. thr[t].op = "wait" => SeenIfComplete(e) = e
  BY <1>1, <1>7 DEF ThreadShape, SeenIfComplete
<1>10. DueShape(t)'
  <2>1. CASE thr[t].op = "release"
    BY <1>1, <1>4, <1>7, <2>1 DEF DueShape
  <2>2. CASE thr[t].op = "wait"
    <3>1. \A i \in kernel_instance_list_ : i.kernel_id \in thr[t].due =>
            i.event \in thr[t].todo \cup {None}
      BY <1>1, <1>7, <2>2 DEF DueShape
    <3>2. \A i \in kernel_instance_list_ : i.event # None
      BY HandleAssumption DEF IInv, TypeOK, InstanceType
    <3>3. thr[t].todo \subseteq thr'[t].todo \cup {thr'[t].seen}
      BY <1>4, <1>9, <2>2
    <3>4. \A n \in thr[t].due : n < kernel_id_
      BY <1>7 DEF DueShape
    <3>. QED  BY <1>1, <1>4, <2>2, <3>1, <3>2, <3>3, <3>4 DEF DueShape
  <2>. QED  BY <1>1, <2>1, <2>2
<1>11. r.op # "enqueue"
  BY <1>1, <1>2 DEF ThreadType
<1>. QED  BY <1>1, <1>2, <1>3, <1>6, <1>8, <1>10, <1>11, ThreadStep

-----------------------------------------------------------------------------
(* Steps that make events.                                                 *)

\* A new event disturbs nothing that is about the others.
LEMMA NewEventKeeps ==
  ASSUME IInv, NEW e \in Events, NEW q \in Queues, NewEvent(e, q), NEW own \in BOOLEAN,
         mine' = [mine EXCEPT ![e] = IF own THEN 1 ELSE 0],
         internal' = IF own THEN internal \ {e} ELSE internal \cup {e},
         UNCHANGED <<enabled, kernel_id_, kernel_instance_list_, wanted, raced, reported>>,
         flips' \in Nat, began' \subseteq Threads, switched' \subseteq Threads,
         thr' \in [Threads -> ThreadType]
  PROVE  /\ TypeOK' /\ References' /\ HandlesIdentify' /\ Accounted'
         /\ InternalUnseen' /\ KernelIds'
         /\ \A u \in Threads : thr'[u] = thr[u] => ThreadShape(u)' /\ DueShape(u)'
<1>1. /\ refs[e] = 0 /\ refs' = [refs EXCEPT ![e] = 1]
      /\ exec' = [exec EXCEPT ![e] = "queued"] /\ queue' = [queue EXCEPT ![e] = q]
  BY DEF NewEvent
<1>2. /\ mine[e] = 0 /\ e \notin internal /\ InstancesOf({e}) = {}
      /\ \A u \in Threads :
           thr[u].event # e /\ e \notin thr[u].todo /\ thr[u].seen # e
  BY <1>1, Gone
<1>3. TypeOK'
  BY <1>1 DEF IInv, TypeOK
<1>4. mine'[e] = (IF own THEN 1 ELSE 0) /\ \A d \in Events \ {e} : mine'[d] = mine[d]
  BY DEF IInv, TypeOK
<1>5. (e \in internal' <=> ~own) /\ \A d \in Events \ {e} : d \in internal' <=> d \in internal
  BY <1>2
<1>6. \A E : InstancesOf(E)' = InstancesOf(E)
  BY DEF InstancesOf
<1>7. References'
  <2>. SUFFICES ASSUME NEW d \in Events
                PROVE  refs'[d] = mine'[d] + Cardinality(InstancesOf({d}))
                                    + (IF d \in internal' THEN 1 ELSE 0)
    BY <1>6 DEF References
  <2>1. CASE d = e
    <3>1. Cardinality(InstancesOf({d})) = 0 /\ refs'[d] = 1
      BY <1>1, <1>2, <2>1, FS_EmptySet DEF IInv, TypeOK
    <3>2. CASE own
      BY <3>1, <3>2, <2>1, <1>4, <1>5
    <3>3. CASE ~own
      BY <3>1, <3>3, <2>1, <1>4, <1>5
    <3>. QED  BY <3>2, <3>3
  <2>2. CASE d # e
    <3>1. refs'[d] = refs[d] /\ mine'[d] = mine[d] /\ (d \in internal' <=> d \in internal)
      BY <1>1, <1>4, <1>5, <2>2 DEF IInv, TypeOK
    <3>. QED  BY <3>1 DEF IInv, References
  <2>. QED  BY <2>1, <2>2
<1>8. HandlesIdentify' /\ Accounted' /\ KernelIds'
  BY DEF IInv, HandlesIdentify, Accounted, KernelIds
<1>9. InternalUnseen'
  BY <1>3, <1>4, <1>5 DEF IInv, InternalUnseen, TypeOK
<1>10. ASSUME NEW u \in Threads, thr'[u] = thr[u]
       PROVE  ThreadShape(u)' /\ DueShape(u)'
  <2>1. \A d \in Events \ {e} : exec'[d] = exec[d]
    BY <1>1 DEF IInv, TypeOK
  <2>2. ThreadShape(u) /\ DueShape(u) /\ thr[u] \in ThreadType
    BY DEF IInv, Shapes, TypeOK
  <2>3. ThreadShape(u)'
    BY <1>2, <1>5, <1>10, <2>1, <2>2 DEF ThreadShape, ThreadType
  <2>4. \A i \in kernel_instance_list_ : i.event \in Events \ {e}
    BY <1>2 DEF IInv, TypeOK, InstanceType, InstancesOf
  <2>5. DueShape(u)'
    BY <1>10, <2>1, <2>2, <2>4 DEF DueShape, Complete
  <2>. QED  BY <2>3, <2>5
<1>. QED  BY <1>3, <1>7, <1>8, <1>9, <1>10

LEMMA BeginEnqueueInv ==
  ASSUME IInv, NEW t \in Threads, NEW q \in Queues, NEW e \in Events,
         NEW own \in BOOLEAN, NEW blocking \in BOOLEAN,
         BeginEnqueue(t, q, e, own, blocking)
  PROVE  IInv'
<1>1. /\ thr[t].op = "idle" /\ NewEvent(e, q) /\ refs[e] = 0
      /\ mine' = [mine EXCEPT ![e] = IF own THEN 1 ELSE 0]
      /\ internal' = IF own THEN internal \ {e} ELSE internal \cup {e}
      /\ thr' = [thr EXCEPT ![t] =
           [Idle EXCEPT !.op = "enqueue", !.event = e, !.blocking = blocking]]
      /\ began' = IF enabled THEN began \cup {t} ELSE began
      /\ UNCHANGED <<enabled, kernel_id_, kernel_instance_list_,
                     flips, switched, wanted, raced, reported>>
  BY DEF BeginEnqueue, NewEvent
<1>0. flips' \in Nat /\ began' \subseteq Threads /\ switched' \subseteq Threads
  BY <1>1 DEF IInv, TypeOK
<1>2. thr' \in [Threads -> ThreadType]
  BY <1>1 DEF IInv, TypeOK, ThreadType, Idle
<1>3. /\ thr'[t].op = "enqueue" /\ thr'[t].event = e /\ thr'[t].todo = {}
      /\ thr'[t].seen = None /\ thr'[t].due = {}
      /\ \A u \in Threads \ {t} : thr'[u] = thr[u]
  BY <1>1 DEF IInv, TypeOK, Idle
<1>4. /\ TypeOK' /\ References' /\ HandlesIdentify' /\ Accounted'
      /\ InternalUnseen' /\ KernelIds'
      /\ \A u \in Threads : thr'[u] = thr[u] => ThreadShape(u)' /\ DueShape(u)'
  BY <1>0, <1>1, <1>2, NewEventKeeps
<1>5. /\ InstancesOf({e}) = {} /\ InUse(e) = 0 /\ ~Awaited(e)
      /\ \A u \in Threads : thr[u].event # e
  BY <1>1, Gone
<1>6. ThreadShape(t)' /\ DueShape(t)'
  BY <1>3 DEF ThreadShape, DueShape
<1>7. Shapes'
  BY <1>3, <1>4, <1>6 DEF Shapes
<1>8. EnqueueNew'
  <2>1. \A E : InstancesOf(E)' = InstancesOf(E)
    BY <1>1 DEF InstancesOf
  <2>. QED  BY <1>3, <1>5, <2>1 DEF IInv, EnqueueNew
<1>9. ReferencesCovered'
  <2>. SUFFICES ASSUME NEW d \in Events \ internal'
                PROVE  mine'[d] >= InUse(d)' /\ (Awaited(d)' => mine'[d] > InUse(d)')
    BY DEF ReferencesCovered
  <2>1. Awaited(d)' => Awaited(d)
    BY <1>3 DEF Awaited
  <2>2. CASE d = e
    <3>1. own
      BY <1>1, <2>2
    <3>2. Users(e)' = {t}
      BY <1>3, <1>5 DEF Users
    <3>3. InUse(e)' = 1
      BY <3>2, FS_Singleton DEF InUse
    <3>4. mine'[e] = 1
      BY <1>1, <3>1 DEF IInv, TypeOK
    <3>. QED  BY <1>5, <2>1, <2>2, <3>3, <3>4
  <2>3. CASE d # e
    <3>1. Users(d)' = Users(d)
      BY <1>1, <1>3, <2>3, HandleAssumption DEF Users, IInv, Shapes, ThreadShape
    <3>2. mine'[d] = mine[d] /\ d \notin internal
      BY <1>1, <2>3 DEF IInv, TypeOK
    <3>. QED  BY <2>1, <3>1, <3>2 DEF IInv, ReferencesCovered, InUse
  <2>. QED  BY <2>2, <2>3
<1>10. SwitchKept'
  <2>1. /\ began \cap switched = {} /\ t \notin began \cup switched
        /\ \A u \in began \cup switched : thr[u].op = "enqueue"
        /\ \A u \in Threads : thr[u].op = "enqueue" /\ u \notin switched =>
             (u \in began <=> enabled)
        /\ began \subseteq Threads /\ switched \subseteq Threads
    BY <1>1 DEF IInv, SwitchKept, TypeOK
  <2>2. /\ t \in began' <=> enabled
        /\ \A u : u # t => (u \in began' <=> u \in began)
    BY <1>1, <2>1
  <2>3. began' \cap switched' = {}
    BY <1>1, <2>1, <2>2
  <2>4. \A u \in began' \cup switched' : thr'[u].op = "enqueue"
    BY <1>1, <1>3, <2>1, <2>2
  <2>5. \A u \in Threads : thr'[u].op = "enqueue" /\ u \notin switched' =>
             (u \in began' <=> enabled')
    BY <1>1, <1>3, <2>1, <2>2
  <2>. QED  BY <2>3, <2>4, <2>5 DEF SwitchKept
<1>. QED  BY <1>4, <1>7, <1>8, <1>9, <1>10 DEF IInv

LEMMA OtherEventInv ==
  ASSUME IInv, NEW e \in Events, NEW q \in Queues, OtherEvent(e, q)
  PROVE  IInv'
<1>1. /\ NewEvent(e, q) /\ refs[e] = 0 /\ thr' = thr
      /\ mine' = [mine EXCEPT ![e] = IF TRUE THEN 1 ELSE 0]
      /\ internal' = IF TRUE THEN internal \ {e} ELSE internal \cup {e}
      /\ UNCHANGED <<enabled, kernel_id_, kernel_instance_list_,
                     flips, began, switched, wanted, raced, reported>>
  BY DEF OtherEvent, NewEvent, switches
<1>2. /\ thr' \in [Threads -> ThreadType]
      /\ flips' \in Nat /\ began' \subseteq Threads /\ switched' \subseteq Threads
  BY <1>1 DEF IInv, TypeOK
<1>3. /\ TypeOK' /\ References' /\ HandlesIdentify' /\ Accounted'
      /\ InternalUnseen' /\ KernelIds'
      /\ \A u \in Threads : thr'[u] = thr[u] => ThreadShape(u)' /\ DueShape(u)'
  BY <1>1, <1>2, NewEventKeeps
<1>4. InUse(e) = 0 /\ ~Awaited(e) /\ e \notin internal
  BY <1>1, Gone
<1>5. Shapes'
  BY <1>1, <1>3 DEF Shapes
<1>6. EnqueueNew'
  BY <1>1 DEF IInv, EnqueueNew, InstancesOf
<1>7. \A d \in Events : InUse(d)' = InUse(d) /\ Awaited(d)' = Awaited(d)
  BY <1>1 DEF InUse, Users, Awaited
<1>8. ReferencesCovered'
  <2>1. mine'[e] = 1 /\ \A d \in Events \ {e} : mine'[d] = mine[d]
    BY <1>1 DEF IInv, TypeOK
  <2>2. internal' = internal \ {e}
    BY <1>1
  <2>. QED  BY <1>4, <1>7, <2>1, <2>2 DEF IInv, ReferencesCovered
<1>9. SwitchKept'
  BY <1>1 DEF IInv, SwitchKept
<1>. QED  BY <1>3, <1>5, <1>6, <1>8, <1>9 DEF IInv

-----------------------------------------------------------------------------
(* Steps that make and process instances.                                  *)

\* The reference that RetainedCount takes is the new instance's.
LEMMA EndEnqueueInv ==
  ASSUME IInv, NEW t \in Threads, EndEnqueue(t)
  PROVE  IInv'
<1>. DEFINE e == thr[t].event
            pending == {i.kernel_id : i \in {j \in kernel_instance_list_ : j.need_to_process}}
<1>2. /\ thr[t].op = "enqueue" /\ e \in Events /\ InstancesOf({e}) = {}
      /\ kernel_id_ \in Nat \ {0} /\ enabled \in BOOLEAN
      /\ \A u \in Threads : thr[u].op = "enqueue" /\ thr[u].event = e => u = t
  BY DEF EndEnqueue, IInv, EnqueueNew, TypeOK
<1>. PICK new \in InstanceType :
       new = [event |-> e, kernel_id |-> kernel_id_, need_to_process |-> enabled]
  BY <1>2 DEF InstanceType
<1>1. /\ thr[t].blocking => exec[e] = "complete"
      /\ refs' = [refs EXCEPT ![e] = refs[e] + 1]
      /\ kernel_id_' = kernel_id_ + 1
      /\ kernel_instance_list_' = kernel_instance_list_ \cup {new}
      /\ wanted' = IF t \in began THEN wanted \cup {kernel_id_} ELSE wanted
      /\ raced' = IF t \in switched THEN raced \cup {kernel_id_} ELSE raced
      /\ began' = began \ {t} /\ switched' = switched \ {t}
      /\ thr' = [thr EXCEPT ![t] =
           IF thr[t].blocking THEN [Idle EXCEPT !.op = "process", !.due = {kernel_id_}]
           ELSE Idle]
      /\ UNCHANGED <<exec, queue, mine, enabled, flips, reported, internal>>
  BY DEF EndEnqueue, RetainedCount
<1>3. new.event = e /\ new.kernel_id = kernel_id_ /\ new.need_to_process = enabled
  OBVIOUS
<1>4. /\ thr'[t].op \in {"idle", "process"} /\ thr'[t].event = None /\ thr'[t].todo = {}
      /\ thr'[t].seen = None
      /\ thr'[t].due = (IF thr'[t].op = "process" THEN {kernel_id_} ELSE {})
      /\ (thr'[t].op = "process" => exec[e] = "complete")
      /\ \A u \in Threads \ {t} : thr'[u] = thr[u]
  BY <1>1 DEF IInv, TypeOK, Idle
<1>5. \A i \in kernel_instance_list_ :
        i.kernel_id < kernel_id_ /\ i.kernel_id \in Nat /\ i.event # e
  BY <1>2 DEF IInv, TypeOK, InstanceType, KernelIds, InstancesOf
<1>6. TypeOK'
  <2>1. thr' \in [Threads -> ThreadType]
    <3>1. Idle \in ThreadType /\ [Idle EXCEPT !.op = "process", !.due = {kernel_id_}] \in ThreadType
      BY <1>2 DEF Idle, ThreadType
    <3>. QED  BY <1>1, <3>1 DEF IInv, TypeOK
  <2>2. /\ refs' \in [Events -> Nat] /\ kernel_id_' \in Nat \ {0}
        /\ wanted' \subseteq Nat /\ raced' \subseteq Nat
        /\ began' \subseteq Threads /\ switched' \subseteq Threads
    BY <1>1, <1>2 DEF IInv, TypeOK
  <2>. QED  BY <1>1, <1>3, <2>1, <2>2 DEF IInv, TypeOK
<1>7. References'
  <2>. SUFFICES ASSUME NEW d \in Events
                PROVE  refs'[d] = mine[d] + Cardinality(InstancesOf({d})')
                                    + (IF d \in internal THEN 1 ELSE 0)
    BY <1>1 DEF References
  <2>1. /\ refs[d] = mine[d] + Cardinality(InstancesOf({d}))
                       + (IF d \in internal THEN 1 ELSE 0)
        /\ refs[d] \in Nat /\ mine[d] \in Nat
    BY DEF IInv, References, TypeOK
  <2>2. CASE d = e
    <3>1. InstancesOf({d})' = {new}
      BY <1>1, <1>3, <1>5, <2>2 DEF InstancesOf
    <3>2. Cardinality(InstancesOf({d})') = 1 /\ Cardinality(InstancesOf({d})) = 0
      BY <1>2, <2>2, <3>1, FS_Singleton, FS_EmptySet
    <3>3. refs'[d] = refs[d] + 1
      BY <1>1, <2>2 DEF IInv, TypeOK
    <3>4. CASE d \in internal
      BY <2>1, <3>2, <3>3, <3>4
    <3>5. CASE d \notin internal
      BY <2>1, <3>2, <3>3, <3>5
    <3>. QED  BY <3>4, <3>5
  <2>3. CASE d # e
    <3>1. InstancesOf({d})' = InstancesOf({d}) /\ refs'[d] = refs[d]
      BY <1>1, <1>3, <2>3 DEF InstancesOf, IInv, TypeOK
    <3>. QED  BY <2>1, <3>1
  <2>. QED  BY <2>2, <2>3
<1>8. HandlesIdentify'
  BY <1>1, <1>3, <1>5 DEF IInv, HandlesIdentify
<1>9. KernelIds'
  <2>1. IsFiniteSet(kernel_instance_list_')
    BY <1>1, FS_AddElement DEF IInv, KernelIds
  <2>2. /\ \A i \in kernel_instance_list_' : i.kernel_id < kernel_id_'
        /\ \A i, j \in kernel_instance_list_' : i.kernel_id = j.kernel_id => i = j
    BY <1>1, <1>2, <1>3, <1>5 DEF IInv, KernelIds
  <2>3. \A n \in wanted' \cup raced' : n < kernel_id_'
    BY <1>1, <1>2 DEF IInv, KernelIds, TypeOK
  <2>. QED  BY <2>1, <2>2, <2>3 DEF KernelIds
<1>10. Accounted'
  <2>1. pending \cap reported = {} /\ (pending \cup reported) \ raced = wanted
    BY DEF IInv, Accounted
  <2>2. kernel_id_ \notin wanted \cup raced
    BY <1>2 DEF IInv, KernelIds
  <2>3. pending' = IF enabled THEN pending \cup {kernel_id_} ELSE pending
    BY <1>1, <1>3
  <2>4. /\ t \in switched => t \notin began
        /\ t \notin switched => (t \in began <=> enabled)
    BY <1>2 DEF IInv, SwitchKept
  <2>. HIDE DEF pending
  <2>5. kernel_id_ \notin pending \cup reported
    BY <2>1, <2>2
  <2>6. pending' \cap reported' = {}
    BY <1>1, <2>1, <2>3, <2>5
  <2>7. (pending' \cup reported') \ raced' = wanted'
    <3>1. CASE t \in switched
      BY <1>1, <2>1, <2>2, <2>3, <2>4, <2>5, <3>1
    <3>2. CASE t \notin switched
      BY <1>1, <2>1, <2>2, <2>3, <2>4, <2>5, <3>2
    <3>. QED  BY <3>1, <3>2
  <2>. QED  BY <2>6, <2>7 DEF Accounted, pending
<1>11. ReferencesCovered'
  <2>1. \A d \in Events : Users(d)' \subseteq Users(d) /\ (Awaited(d)' => Awaited(d))
    BY <1>4, HandleAssumption DEF Users, Awaited
  <2>. QED  BY <1>1, <2>1, CoverageKept
<1>12. InternalUnseen'
  BY <1>1 DEF IInv, InternalUnseen
<1>13. EnqueueNew'
  <2>1. \A u \in Threads : thr'[u].op = "enqueue" => u # t /\ thr'[u] = thr[u]
    BY <1>4
  <2>2. \A u \in Threads \ {t} : thr[u].op = "enqueue" => thr[u].event # e
    BY <1>2
  <2>3. \A d \in Events : d # e => InstancesOf({d})' = InstancesOf({d})
    BY <1>1, <1>3 DEF InstancesOf
  <2>. QED  BY <2>1, <2>2, <2>3 DEF IInv, EnqueueNew
<1>14. Shapes'
  <2>1. ThreadShape(t)'
    BY <1>4 DEF ThreadShape
  <2>2. DueShape(t)'
    <3>1. \A i \in kernel_instance_list_' : i.kernel_id = kernel_id_ => i = new
      BY <1>1, <1>2, <1>5
    <3>2. thr'[t].op = "process" => exec'[new.event] = "complete"
      BY <1>1, <1>3, <1>4
    <3>3. CASE thr'[t].op = "process"
      BY <1>1, <1>2, <1>4, <3>1, <3>2, <3>3 DEF DueShape, Complete
    <3>4. CASE thr'[t].op = "idle"
      BY <1>4, <3>4 DEF DueShape
    <3>. QED  BY <1>4, <3>3, <3>4
  <2>3. ASSUME NEW u \in Threads \ {t} PROVE ThreadShape(u)' /\ DueShape(u)'
    <3>1. ThreadShape(u) /\ DueShape(u) /\ thr'[u] = thr[u] /\ thr[u].due \in SUBSET Nat
      BY <1>4 DEF IInv, Shapes, TypeOK, ThreadType
    <3>2. ThreadShape(u)'
      BY <1>1, <3>1 DEF ThreadShape
    <3>3. new.kernel_id \notin thr[u].due /\ \A n \in thr[u].due : n < kernel_id_'
      BY <1>1, <1>2, <1>3, <3>1 DEF DueShape
    <3>4. DueShape(u)'
      BY <1>1, <3>1, <3>3 DEF DueShape, Complete
    <3>. QED  BY <3>2, <3>4
  <2>. QED  BY <2>1, <2>2, <2>3 DEF Shapes
<1>15. SwitchKept'
  BY <1>1, <1>4, SwitchForgotten
<1>. QED  BY <1>6, <1>7, <1>8, <1>9, <1>10, <1>11, <1>12, <1>13, <1>14, <1>15 DEF IInv

\* The size of a difference.
LEMMA DifferenceSize ==
  ASSUME NEW A, IsFiniteSet(A), NEW B \in SUBSET A
  PROVE  /\ IsFiniteSet(A \ B)
         /\ Cardinality(A) \in Nat /\ Cardinality(B) \in Nat /\ Cardinality(A \ B) \in Nat
         /\ Cardinality(A \ B) = Cardinality(A) - Cardinality(B)
<1>1. IsFiniteSet(B) /\ IsFiniteSet(A \ B)
  BY FS_Subset
<1>2. /\ Cardinality(A) \in Nat /\ Cardinality(B) \in Nat /\ Cardinality(A \ B) \in Nat
      /\ Cardinality({}) = 0
  BY <1>1, FS_CardinalityType, FS_EmptySet
<1>3. Cardinality((A \ B) \cup B) =
        Cardinality(A \ B) + Cardinality(B) - Cardinality((A \ B) \cap B)
  BY <1>1, FS_Union
<1>4. (A \ B) \cup B = A /\ (A \ B) \cap B = {}
  OBVIOUS
<1>5. Cardinality(A) = Cardinality(A \ B) + Cardinality(B) - 0
  BY <1>2, <1>3, <1>4
<1>. QED  BY <1>1, <1>2, <1>5

\* Processing releases one reference for each instance it removes.
LEMMA ProcessKeeps ==
  ASSUME IInv, NEW S \in SUBSET kernel_instance_list_, Process(S),
         UNCHANGED <<exec, queue, mine, enabled, kernel_id_, switches, internal>>,
         thr' \in [Threads -> ThreadType]
  PROVE  /\ TypeOK' /\ References' /\ HandlesIdentify' /\ Accounted'
         /\ InternalUnseen' /\ KernelIds'
<1>. USE DEF switches
<1>1. /\ kernel_instance_list_' = kernel_instance_list_ \ S
      /\ reported' = reported \cup {i.kernel_id : i \in {j \in S : j.need_to_process}}
      /\ refs' = [e \in Events |-> refs[e] - Cardinality({i \in S : i.event = e})]
  BY DEF Process
<1>2. References'
  <2>. SUFFICES ASSUME NEW e \in Events
                PROVE  refs'[e] = mine[e] + Cardinality(InstancesOf({e})')
                                    + (IF e \in internal THEN 1 ELSE 0)
    BY DEF References
  <2>. DEFINE gone == {i \in S : i.event = e}
  <2>1. InstancesOf({e})' = InstancesOf({e}) \ gone /\ gone \in SUBSET InstancesOf({e})
    BY <1>1 DEF InstancesOf
  <2>2. IsFiniteSet(InstancesOf({e}))
    BY Counts
  <2>. DEFINE n == Cardinality(InstancesOf({e}))
              m == Cardinality(gone)
              k == Cardinality(InstancesOf({e})')
  <2>3. n \in Nat /\ m \in Nat /\ k \in Nat /\ k = n - m
    BY <2>1, <2>2, DifferenceSize
  <2>4. /\ refs[e] = mine[e] + n + (IF e \in internal THEN 1 ELSE 0)
        /\ refs[e] \in Nat /\ mine[e] \in Nat /\ refs'[e] = refs[e] - m
    BY <1>1 DEF IInv, References, TypeOK
  <2>. HIDE DEF n, m, k
  <2>5. CASE e \in internal
    <3>1. refs[e] = mine[e] + n + 1
      BY <2>4, <2>5
    <3>2. refs'[e] = mine[e] + k + 1
      BY <2>3, <2>4, <3>1
    <3>. QED  BY <3>2, <2>5 DEF k
  <2>6. CASE e \notin internal
    <3>1. refs[e] = mine[e] + n + 0
      BY <2>4, <2>6
    <3>2. refs'[e] = mine[e] + k + 0
      BY <2>3, <2>4, <3>1
    <3>. QED  BY <3>2, <2>6 DEF k
  <2>. QED  BY <2>5, <2>6
<1>3. KernelIds'
  <2>1. IsFiniteSet(kernel_instance_list_')
    BY <1>1, DifferenceSize DEF IInv, KernelIds
  <2>. QED  BY <1>1, <2>1 DEF IInv, KernelIds
<1>4. TypeOK'
  <2>1. ASSUME NEW e \in Events PROVE refs'[e] \in Nat
    <3>1. InstancesOf({e})' \in SUBSET kernel_instance_list_'
      BY DEF InstancesOf
    <3>2. Cardinality(InstancesOf({e})') \in Nat
      BY <1>3, <3>1, FS_Subset, FS_CardinalityType DEF KernelIds
    <3>3. refs'[e] = mine[e] + Cardinality(InstancesOf({e})')
                       + (IF e \in internal THEN 1 ELSE 0)
      BY <1>2 DEF References
    <3>4. (IF e \in internal THEN 1 ELSE 0) \in Nat /\ mine[e] \in Nat
      BY DEF IInv, TypeOK
    <3>. QED  BY <3>2, <3>3, <3>4
  <2>2. refs' \in [Events -> Nat]
    BY <1>1, <2>1
  <2>3. reported' \subseteq Nat
    BY <1>1 DEF IInv, TypeOK, InstanceType
  <2>. QED  BY <1>1, <2>2, <2>3 DEF IInv, TypeOK
<1>5. HandlesIdentify' /\ InternalUnseen'
  BY <1>1 DEF IInv, HandlesIdentify, InternalUnseen
<1>6. Accounted'
  <2>. DEFINE pending == {i.kernel_id : i \in {j \in kernel_instance_list_ : j.need_to_process}}
              shown == {i.kernel_id : i \in {j \in S : j.need_to_process}}
  <2>1. pending \cap reported = {} /\ (pending \cup reported) \ raced = wanted
    BY DEF IInv, Accounted
  <2>2. reported' = reported \cup shown /\ shown \subseteq pending
    BY <1>1
  <2>3. pending' = pending \ shown
    BY <1>1 DEF IInv, KernelIds
  <2>. HIDE DEF pending, shown
  <2>4. pending' \cap reported' = {} /\ (pending' \cup reported') \ raced' = wanted'
    BY <2>1, <2>2, <2>3
  <2>. QED  BY <2>4 DEF Accounted, pending
<1>. QED  BY <1>2, <1>3, <1>4, <1>5, <1>6

\* Fewer instances leave the shape of threads that do not change.
LEMMA FewerInstances ==
  ASSUME IInv, NEW S \in SUBSET kernel_instance_list_,
         kernel_instance_list_' = kernel_instance_list_ \ S,
         UNCHANGED <<exec, kernel_id_, internal>>
  PROVE  /\ \A d : InstancesOf({d}) = {} => InstancesOf({d})' = {}
         /\ \A u \in Threads : thr'[u] = thr[u] => ThreadShape(u)' /\ DueShape(u)'
<1>1. \A d : InstancesOf({d}) = {} => InstancesOf({d})' = {}
  BY DEF InstancesOf
<1>2. ASSUME NEW u \in Threads, thr'[u] = thr[u]
      PROVE  ThreadShape(u)' /\ DueShape(u)'
  <2>1. ThreadShape(u) /\ DueShape(u)
    BY DEF IInv, Shapes
  <2>2. ThreadShape(u)'
    BY <1>2, <2>1 DEF ThreadShape
  <2>3. DueShape(u)'
    BY <1>2, <2>1 DEF DueShape, Complete
  <2>. QED  BY <2>2, <2>3
<1>. QED  BY <1>1, <1>2

LEMMA ProcessKernelInstancesInv ==
  ASSUME IInv, NEW t \in Threads, ProcessKernelInstances(t)
  PROVE  IInv'
<1>1. /\ thr[t].op = "process" /\ Process(FinishedInstances)
      /\ thr' = [thr EXCEPT ![t] = Idle]
      /\ UNCHANGED <<exec, queue, mine, enabled, kernel_id_, switches, internal>>
      /\ kernel_instance_list_' = kernel_instance_list_ \ FinishedInstances
  BY DEF ProcessKernelInstances, Process
<1>2. FinishedInstances \in SUBSET kernel_instance_list_
  BY DEF FinishedInstances
<1>3. thr' \in [Threads -> ThreadType]
  BY <1>1 DEF IInv, TypeOK, Idle, ThreadType
<1>4. thr'[t] = Idle /\ \A u \in Threads \ {t} : thr'[u] = thr[u]
  BY <1>1 DEF IInv, TypeOK
<1>5. /\ TypeOK' /\ References' /\ HandlesIdentify' /\ Accounted'
      /\ InternalUnseen' /\ KernelIds'
  BY <1>1, <1>2, <1>3, ProcessKeeps
<1>6. /\ \A d : InstancesOf({d}) = {} => InstancesOf({d})' = {}
      /\ \A u \in Threads : thr'[u] = thr[u] => ThreadShape(u)' /\ DueShape(u)'
  BY <1>1, <1>2, FewerInstances
<1>7. ReferencesCovered'
  <2>1. \A d \in Events : Users(d)' \subseteq Users(d) /\ (Awaited(d)' => Awaited(d))
    BY <1>4, HandleAssumption DEF Users, Awaited, Idle
  <2>. QED  BY <1>1, <2>1, CoverageKept
<1>8. EnqueueNew'
  <2>1. \A u \in Threads : thr'[u].op = "enqueue" => u # t /\ thr'[u] = thr[u]
    BY <1>4 DEF Idle
  <2>. QED  BY <1>6, <2>1 DEF IInv, EnqueueNew
<1>9. ThreadShape(t)' /\ DueShape(t)'
  BY <1>4 DEF ThreadShape, DueShape, Idle
<1>10. Shapes'
  BY <1>4, <1>6, <1>9 DEF Shapes
<1>11. SwitchKept'
  BY <1>1, <1>4, NotEnqueueing, SwitchForgotten DEF Idle, switches
<1>. QED  BY <1>5, <1>7, <1>8, <1>10, <1>11 DEF IInv

\* The list has at most one instance of an event: the first is all.
LEMMA FirstIsOnly ==
  ASSUME IInv, NEW e \in Events
  PROVE  FirstOf(e) = InstancesOf({e})
<1>1. \A i, j \in InstancesOf({e}) : i = j
  BY DEF IInv, HandlesIdentify, InstancesOf
<1>2. \A i \in InstancesOf({e}) : i.kernel_id \in Nat
  BY DEF IInv, TypeOK, InstanceType, InstancesOf
<1>3. \A i, j \in InstancesOf({e}) : i.kernel_id <= j.kernel_id
  <2>. SUFFICES ASSUME NEW i \in InstancesOf({e}), NEW j \in InstancesOf({e})
                PROVE  i.kernel_id <= j.kernel_id
    OBVIOUS
  <2>1. i.kernel_id = j.kernel_id
    BY <1>1
  <2>. QED  BY <1>2, <2>1
<1>. QED  BY <1>3 DEF FirstOf

LEMMA ProcessKernelInstanceInv ==
  ASSUME IInv, NEW t \in Threads, ProcessKernelInstance(t)
  PROVE  IInv'
<1>. DEFINE e == thr[t].seen
<1>1. /\ e # None /\ Process(FirstOf(e)) /\ thr' = [thr EXCEPT ![t].seen = None]
      /\ UNCHANGED <<exec, queue, mine, enabled, kernel_id_, switches, internal>>
      /\ kernel_instance_list_' = kernel_instance_list_ \ FirstOf(e)
  BY DEF ProcessKernelInstance, Process
<1>2. thr[t] \in ThreadType /\ e \in Events
  BY <1>1 DEF IInv, TypeOK, ThreadType
<1>3. FirstOf(e) = InstancesOf({e}) /\ InstancesOf({e}) \in SUBSET kernel_instance_list_
  BY <1>2, FirstIsOnly DEF InstancesOf
<1>4. thr' \in [Threads -> ThreadType]
  BY <1>1, <1>2 DEF IInv, TypeOK, ThreadType
<1>5. /\ thr'[t].op = thr[t].op /\ thr'[t].event = thr[t].event
      /\ thr'[t].todo = thr[t].todo /\ thr'[t].due = thr[t].due /\ thr'[t].seen = None
      /\ \A u \in Threads \ {t} : thr'[u] = thr[u]
  BY <1>1, <1>2 DEF IInv, TypeOK, ThreadType
<1>6. /\ TypeOK' /\ References' /\ HandlesIdentify' /\ Accounted'
      /\ InternalUnseen' /\ KernelIds'
  BY <1>1, <1>3, <1>4, ProcessKeeps
<1>7. /\ \A d : InstancesOf({d}) = {} => InstancesOf({d})' = {}
      /\ \A u \in Threads : thr'[u] = thr[u] => ThreadShape(u)' /\ DueShape(u)'
  BY <1>1, <1>3, FewerInstances
<1>8. ThreadShape(t) /\ DueShape(t) /\ thr[t].op \in {"wait", "release"}
  BY <1>1, <1>2 DEF IInv, Shapes, ThreadShape, ThreadType
<1>9. ReferencesCovered'
  <2>1. ASSUME NEW d \in Events
        PROVE  Users(d)' \subseteq Users(d) /\ (Awaited(d)' => Awaited(d))
    <3>1. Users(d)' \subseteq Users(d)
      BY <1>5 DEF Users
    <3>2. Awaited(d)' => Awaited(d)
      BY <1>5, HandleAssumption DEF Awaited
    <3>. QED  BY <3>1, <3>2
  <2>. QED  BY <1>1, <2>1, CoverageKept
<1>10. EnqueueNew'
  <2>1. \A u \in Threads : thr'[u].op = "enqueue" => u # t /\ thr'[u] = thr[u]
    BY <1>5, <1>8
  <2>. QED  BY <1>7, <2>1 DEF IInv, EnqueueNew
<1>11. ThreadShape(t)'
  BY <1>1, <1>5, <1>8 DEF ThreadShape
<1>12. DueShape(t)'
  <2>1. \A i \in kernel_instance_list_' : i \in kernel_instance_list_ /\ i.event # e
    BY <1>1, <1>3 DEF InstancesOf
  <2>2. CASE thr[t].op = "wait"
    BY <1>1, <1>5, <1>8, <2>1, <2>2 DEF DueShape
  <2>3. CASE thr[t].op = "release"
    BY <1>1, <1>5, <1>8, <2>3 DEF DueShape
  <2>. QED  BY <1>8, <2>2, <2>3
<1>13. Shapes'
  BY <1>5, <1>7, <1>11, <1>12 DEF Shapes
<1>14. SwitchKept'
  BY <1>1, <1>5, <1>8, NotEnqueueing, SwitchForgotten DEF switches
<1>. QED  BY <1>6, <1>9, <1>10, <1>13, <1>14 DEF IInv

-----------------------------------------------------------------------------
(* The other steps.                                                        *)

\* The reference given up is the application's.
LEMMA EndReleaseInv ==
  ASSUME IInv, NEW t \in Threads, EndRelease(t)
  PROVE  IInv'
<1>0. PICK e \in Events \ internal : e = thr[t].event
  BY DEF EndRelease, IInv, Shapes, ThreadShape
<1>1. /\ thr[t].op = "release" /\ thr[t].todo = {} /\ thr[t].seen = None
      /\ refs' = [refs EXCEPT ![e] = @ - 1] /\ mine' = [mine EXCEPT ![e] = @ - 1]
      /\ thr' = [thr EXCEPT ![t] = Idle]
      /\ UNCHANGED <<exec, queue, enabled, kernel_id_, kernel_instance_list_,
                     flips, began, switched, wanted, raced, reported, internal>>
  BY <1>0 DEF EndRelease, history, switches
<1>2. e \in Events \ internal /\ t \in Users(e)
  BY <1>0 DEF Users
<1>3. thr'[t] = Idle /\ \A u \in Threads \ {t} : thr'[u] = thr[u]
  BY <1>1 DEF IInv, TypeOK
<1>4. /\ InUse(e) \in Nat /\ InUse(e)' = InUse(e) - 1 /\ InUse(e) > 0
  <2>1. Users(e)' = Users(e) \ {t}
    BY <1>0, <1>2, <1>3, HandleAssumption DEF Users, Idle
  <2>2. IsFiniteSet(Users(e)) /\ InUse(e) \in Nat /\ InUse(e) # 0
    BY <1>2, Counts
  <2>3. Cardinality(Users(e) \ {t}) = Cardinality(Users(e)) - 1
    BY <1>2, <2>2, FS_RemoveElement
  <2>4. InUse(e)' = InUse(e) - 1
    BY <2>1, <2>3 DEF InUse
  <2>. QED  BY <2>2, <2>4
<1>5. /\ mine[e] \in Nat /\ mine[e] >= InUse(e) /\ (Awaited(e) => mine[e] > InUse(e))
  BY <1>2 DEF IInv, TypeOK, ReferencesCovered
<1>6. /\ mine'[e] = mine[e] - 1 /\ mine'[e] \in Nat /\ refs'[e] = refs[e] - 1
      /\ \A d \in Events \ {e} : mine'[d] = mine[d] /\ refs'[d] = refs[d]
  BY <1>1, <1>2, <1>4, <1>5 DEF IInv, TypeOK
<1>7. refs[e] >= mine[e] /\ refs[e] \in Nat
  <2>. DEFINE n == Cardinality(InstancesOf({e}))
  <2>1. refs[e] = mine[e] + n + 0 /\ n \in Nat
    BY <1>2, Counts DEF IInv, References
  <2>. HIDE DEF n
  <2>. QED  BY <1>2, <1>5, <2>1 DEF IInv, TypeOK
<1>8. TypeOK'
  <2>1. refs' \in [Events -> Nat] /\ mine' \in [Events -> Nat]
    BY <1>1, <1>4, <1>5, <1>6, <1>7 DEF IInv, TypeOK
  <2>2. thr' \in [Threads -> ThreadType]
    BY <1>1 DEF IInv, TypeOK, Idle, ThreadType
  <2>. QED  BY <1>1, <2>1, <2>2 DEF IInv, TypeOK
<1>9. References'
  <2>1. \A d \in Events : InstancesOf({d})' = InstancesOf({d})
    BY <1>1 DEF InstancesOf
  <2>. DEFINE n == Cardinality(InstancesOf({e}))
  <2>2. refs[e] = mine[e] + n + 0 /\ n \in Nat /\ n' = n
    BY <1>2, <2>1, Counts DEF IInv, References
  <2>. HIDE DEF n
  <2>3. refs'[e] = mine'[e] + n' + 0
    BY <1>5, <1>6, <1>7, <2>2
  <2>4. \A d \in Events \ {e} :
          refs'[d] = mine'[d] + Cardinality(InstancesOf({d})')
                       + (IF d \in internal' THEN 1 ELSE 0)
    BY <1>1, <1>6, <2>1 DEF IInv, References
  <2>5. (IF e \in internal' THEN 1 ELSE 0) = 0
    BY <1>1, <1>2
  <2>. QED  BY <2>3, <2>4, <2>5 DEF References, n
<1>10. HandlesIdentify' /\ Accounted' /\ KernelIds'
  BY <1>1 DEF IInv, HandlesIdentify, Accounted, KernelIds
<1>11. InternalUnseen'
  BY <1>1, <1>2, <1>6, <1>8 DEF IInv, InternalUnseen, TypeOK
<1>12. ReferencesCovered'
  <2>. SUFFICES ASSUME NEW d \in Events \ internal
                PROVE  mine'[d] >= InUse(d)' /\ (Awaited(d)' => mine'[d] > InUse(d)')
    BY <1>1 DEF ReferencesCovered
  <2>1. Awaited(d)' => Awaited(d)
    BY <1>3 DEF Awaited, Idle
  <2>2. CASE d = e
    BY <1>4, <1>5, <1>6, <2>1, <2>2
  <2>3. CASE d # e
    <3>1. Users(d)' = Users(d)
      BY <1>0, <1>3, <2>3, HandleAssumption DEF Users, Idle
    <3>. QED  BY <1>6, <2>1, <2>3, <3>1 DEF IInv, ReferencesCovered, InUse
  <2>. QED  BY <2>2, <2>3
<1>13. EnqueueNew'
  <2>1. \A u \in Threads : thr'[u].op = "enqueue" => u # t /\ thr'[u] = thr[u]
    BY <1>3 DEF Idle
  <2>2. \A d : InstancesOf({d})' = InstancesOf({d})
    BY <1>1 DEF InstancesOf
  <2>. QED  BY <2>1, <2>2 DEF IInv, EnqueueNew
<1>14. Shapes'
  <2>1. ThreadShape(t)' /\ DueShape(t)'
    BY <1>3 DEF ThreadShape, DueShape, Idle
  <2>2. \A u \in Threads \ {t} : ThreadShape(u)' /\ DueShape(u)'
    BY <1>1, <1>3 DEF IInv, Shapes, ThreadShape, DueShape, Complete
  <2>. QED  BY <2>1, <2>2 DEF Shapes
<1>15. SwitchKept'
  BY <1>1, <1>3, NotEnqueueing, SwitchForgotten DEF Idle
<1>. QED  BY <1>8, <1>9, <1>10, <1>11, <1>12, <1>13, <1>14, <1>15 DEF IInv

LEMMA RetainInv ==
  ASSUME IInv, NEW e \in Events, Retain(e)
  PROVE  IInv'
<1>1. /\ mine[e] > InUse(e) /\ mine[e] \in Nat /\ mine[e] # 0 /\ refs[e] \in Nat
      /\ refs' = [refs EXCEPT ![e] = @ + 1] /\ mine' = [mine EXCEPT ![e] = @ + 1]
      /\ UNCHANGED <<exec, queue, enabled, kernel_id_, kernel_instance_list_, thr,
                     flips, began, switched, wanted, raced, reported, internal>>
  BY BoundAssumption DEF Retain, history, switches, IInv, TypeOK
<1>2. /\ mine'[e] = mine[e] + 1 /\ refs'[e] = refs[e] + 1
      /\ \A d \in Events \ {e} : mine'[d] = mine[d] /\ refs'[d] = refs[d]
  BY <1>1 DEF IInv, TypeOK
<1>3. e \notin internal
  BY <1>1 DEF IInv, InternalUnseen
<1>4. TypeOK'
  BY <1>1 DEF IInv, TypeOK
<1>5. \A d : InstancesOf({d})' = InstancesOf({d})
  BY <1>1 DEF InstancesOf
<1>6. References'
  <2>. DEFINE n == Cardinality(InstancesOf({e}))
  <2>1. refs[e] = mine[e] + n + 0 /\ n \in Nat /\ n' = n
    BY <1>3, <1>5, Counts DEF IInv, References
  <2>. HIDE DEF n
  <2>2. refs'[e] = mine'[e] + n' + 0
    BY <1>1, <1>2, <2>1
  <2>3. \A d \in Events \ {e} :
          refs'[d] = mine'[d] + Cardinality(InstancesOf({d})')
                       + (IF d \in internal' THEN 1 ELSE 0)
    BY <1>1, <1>2, <1>5 DEF IInv, References
  <2>4. (IF e \in internal' THEN 1 ELSE 0) = 0
    BY <1>1, <1>3
  <2>. QED  BY <2>2, <2>3, <2>4 DEF References, n
<1>7. HandlesIdentify' /\ Accounted' /\ KernelIds' /\ EnqueueNew'
  BY <1>1, <1>5 DEF IInv, HandlesIdentify, Accounted, KernelIds, EnqueueNew
<1>8. InternalUnseen'
  BY <1>1, <1>2, <1>3, <1>4 DEF IInv, InternalUnseen, TypeOK
<1>9. ReferencesCovered'
  <2>1. \A d \in Events : InUse(d)' = InUse(d) /\ Awaited(d)' = Awaited(d) /\ InUse(d) \in Nat
    BY <1>1, Counts DEF InUse, Users, Awaited
  <2>. QED  BY <1>1, <1>2, <2>1 DEF IInv, ReferencesCovered
<1>10. Shapes'
  BY <1>1 DEF IInv, Shapes, ThreadShape, DueShape, Complete
<1>11. SwitchKept'
  BY <1>1 DEF IInv, SwitchKept
<1>. QED  BY <1>4, <1>6, <1>7, <1>8, <1>9, <1>10, <1>11 DEF IInv

\* What is complete stays complete.
LEMMA ExecuteInv ==
  ASSUME IInv, NEW e \in Events, Execute(e)
  PROVE  IInv'
<1>1. /\ exec[e] = "queued"
      /\ UNCHANGED <<refs, queue, mine, enabled, kernel_id_, kernel_instance_list_, thr,
                     flips, began, switched, wanted, raced, reported, internal>>
      /\ exec' \in [Events -> {"queued", "complete", "error"}]
      /\ \A d \in Events : exec[d] = "complete" => exec'[d] = "complete"
  BY DEF Execute, history, switches, IInv, TypeOK
<1>2. TypeOK'
  BY <1>1 DEF IInv, TypeOK
<1>3. References' /\ HandlesIdentify' /\ Accounted' /\ KernelIds' /\ InternalUnseen' /\ EnqueueNew'
  BY <1>1 DEF IInv, References, HandlesIdentify, Accounted, KernelIds, InternalUnseen,
              EnqueueNew, InstancesOf
<1>4. ReferencesCovered'
  BY <1>1 DEF IInv, ReferencesCovered, InUse, Users, Awaited
<1>5. ASSUME NEW u \in Threads PROVE ThreadShape(u)' /\ DueShape(u)'
  <2>1. ThreadShape(u) /\ DueShape(u) /\ thr[u] \in ThreadType
    BY DEF IInv, Shapes, TypeOK
  <2>2. ThreadShape(u)'
    BY <1>1, <2>1 DEF ThreadShape, ThreadType
  <2>3. \A i \in kernel_instance_list_ : i.event \in Events
    BY DEF IInv, TypeOK, InstanceType
  <2>4. DueShape(u)'
    BY <1>1, <2>1, <2>3 DEF DueShape, Complete
  <2>. QED  BY <2>2, <2>4
<1>6. SwitchKept'
  BY <1>1 DEF IInv, SwitchKept
<1>. QED  BY <1>2, <1>3, <1>4, <1>5, <1>6 DEF IInv, Shapes

\* The switch of collection, and steps that change nothing.
LEMMA ToggleInv ==
  ASSUME IInv, Toggle \/ UNCHANGED vars
  PROVE  IInv'
<1>1. /\ UNCHANGED <<refs, exec, queue, mine, kernel_id_, kernel_instance_list_, thr,
                     wanted, raced, reported, internal>>
      /\ enabled' \in BOOLEAN /\ flips' \in Nat
      /\ began' \subseteq Threads /\ switched' \subseteq Threads
  <2>1. CASE Toggle
    <3>1. flips \in Nat /\ enabled \in BOOLEAN
      BY DEF IInv, TypeOK
    <3>2. switched' \subseteq Threads /\ began' = {} /\ flips' = flips + 1 /\ enabled' = ~enabled
      BY <2>1 DEF Toggle
    <3>3. UNCHANGED <<refs, exec, queue, mine, kernel_id_, kernel_instance_list_, thr,
                      wanted, raced, reported, internal>>
      BY <2>1 DEF Toggle, driverVars
    <3>4. flips' \in Nat
      BY <3>1, <3>2
    <3>5. enabled' \in BOOLEAN
      BY <3>2
    <3>6. began' \subseteq Threads
      BY <3>2
    <3>. QED  BY <3>2, <3>3, <3>4, <3>5, <3>6
  <2>2. CASE UNCHANGED vars
    BY <2>2 DEF vars, driverVars, history, switches, IInv, TypeOK
  <2>. QED  BY <2>1, <2>2
<1>2. TypeOK' /\ References' /\ HandlesIdentify' /\ Accounted' /\ KernelIds'
  BY <1>1 DEF IInv, TypeOK, References, HandlesIdentify, Accounted, KernelIds, InstancesOf
<1>3. InternalUnseen' /\ EnqueueNew' /\ ReferencesCovered'
  BY <1>1 DEF IInv, InternalUnseen, EnqueueNew, InstancesOf, ReferencesCovered, InUse,
              Users, Awaited
<1>4. Shapes'
  BY <1>1 DEF IInv, Shapes, ThreadShape, DueShape, Complete
<1>5. SwitchKept'
  <2>1. CASE Toggle
    <3>1. began' = {} /\ switched' = {t \in Threads : thr'[t].op = "enqueue"}
      BY <1>1, <2>1 DEF Toggle
    <3>. QED  BY <3>1 DEF SwitchKept
  <2>2. CASE UNCHANGED vars
    BY <2>2 DEF vars, history, switches, IInv, SwitchKept
  <2>. QED  BY <2>1, <2>2
<1>. QED  BY <1>2, <1>3, <1>4, <1>5 DEF IInv

LEMMA StepInv == IInv /\ [Next]_vars => IInv'
<1>. SUFFICES ASSUME IInv, [Next]_vars PROVE IInv'
  OBVIOUS
<1>1. CASE \E t \in Threads : CallStep(t)
  <2>1. PICK t \in Threads : CallStep(t)
    BY <1>1
  <2>. QED  BY <2>1, BeginEnqueueInv, BeginFinishInv, BeginReleaseQueueInv,
               BeginWaitInv, BeginReleaseInv DEF CallStep
<1>2. CASE \E t \in Threads : CallbackStep(t)
  <2>1. PICK t \in Threads : CallbackStep(t)
    BY <1>2
  <2>. QED  BY <2>1, EndEnqueueInv, ReturnInv, ProcessKernelInstancesInv, QueryStatusInv,
               ProcessKernelInstanceInv, EndReleaseInv DEF CallbackStep
<1>3. CASE OutsideStep
  BY <1>3, RetainInv, OtherEventInv, ExecuteInv, ToggleInv DEF OutsideStep
<1>4. CASE UNCHANGED vars
  BY <1>4, ToggleInv
<1>. QED  BY <1>1, <1>2, <1>3, <1>4 DEF Next

LEMMA Invariance == Spec => []IInv
<1>. QED  BY InitInv, StepInv, PTL DEF Spec

-----------------------------------------------------------------------------
(* What the invariant says of every step.                                  *)

\* Kernels leave the list by being processed, and are complete then.
LEMMA StepProcessesComplete ==
  IInv /\ [Next]_vars => \A i \in kernel_instance_list_ \ kernel_instance_list_' : Complete(i)
<1>. SUFFICES ASSUME IInv, [Next]_vars, NEW i \in kernel_instance_list_ \ kernel_instance_list_'
              PROVE  Complete(i)
  OBVIOUS
<1>1. CASE \E t \in Threads : ProcessKernelInstances(t)
  BY <1>1 DEF ProcessKernelInstances, Process, FinishedInstances
<1>2. CASE \E t \in Threads : ProcessKernelInstance(t)
  <2>1. PICK t \in Threads : ProcessKernelInstance(t)
    BY <1>2
  <2>2. exec[thr[t].seen] = "complete"
    BY <2>1 DEF ProcessKernelInstance, IInv, Shapes, ThreadShape
  <2>3. i.event = thr[t].seen
    BY <2>1 DEF ProcessKernelInstance, Process, FirstOf, InstancesOf
  <2>. QED  BY <2>2, <2>3 DEF Complete
<1>3. CASE OutsideStep
  BY <1>3 DEF OutsideStep, Retain, OtherEvent, Execute, Toggle
<1>4. CASE \E t \in Threads : CallStep(t)
  BY <1>4 DEF CallStep, BeginEnqueue, BeginFinish, BeginReleaseQueue, BeginWait, BeginRelease
<1>5. CASE \E t \in Threads : EndEnqueue(t)
  BY <1>5 DEF EndEnqueue
<1>6. CASE \E t \in Threads : EndEnqueueFailed(t) \/ EndWait(t) \/ EndRelease(t)
                                \/ \E e \in Events : QueryStatus(t, e)
  BY <1>6 DEF EndEnqueueFailed, EndWait, EndRelease, QueryStatus
<1>7. CASE UNCHANGED vars
  BY <1>7 DEF vars
<1>. QED  BY <1>1, <1>2, <1>3, <1>4, <1>5, <1>6, <1>7 DEF Next, CallbackStep

\* A function returns when nothing of what it waited for is left.
LEMMA StepReturnsProcessed ==
  ASSUME IInv, Next, NEW t \in Threads, thr[t].op # "idle", thr'[t].op = "idle",
         NEW i \in kernel_instance_list_'
  PROVE  i.kernel_id \notin thr[t].due
<1>1. ThreadShape(t) /\ DueShape(t) /\ thr[t] \in ThreadType
  BY DEF IInv, Shapes, TypeOK
<1>2. PICK u \in Threads : CallbackStep(u) \/ CallStep(u)
  <2>1. ~ OutsideStep
    BY DEF OutsideStep, Retain, OtherEvent, Execute, Toggle
  <2>. QED  BY <2>1 DEF Next
<1>3. u = t
  <2>1. \E r : thr' = [thr EXCEPT ![u] = r]
    BY <1>2 DEF CallStep, CallbackStep, BeginEnqueue, BeginFinish, BeginReleaseQueue,
                BeginWait, BeginRelease, EndEnqueue, EndEnqueueFailed,
                ProcessKernelInstances, QueryStatus, ProcessKernelInstance, EndWait, EndRelease
  <2>. QED  BY <2>1 DEF IInv, TypeOK
<1>4. ~ CallStep(t)
  BY DEF CallStep, BeginEnqueue, BeginFinish, BeginReleaseQueue, BeginWait, BeginRelease
<1>5. CASE EndEnqueue(t) \/ EndEnqueueFailed(t) \/ EndRelease(t)
  BY <1>1, <1>5 DEF EndEnqueue, EndEnqueueFailed, EndRelease, DueShape
<1>6. CASE EndWait(t)
  <2>1. i \in kernel_instance_list_ /\ i.event \in Events
    BY <1>6 DEF EndWait, IInv, TypeOK, InstanceType
  <2>. QED  BY <1>1, <1>6, <2>1, HandleAssumption DEF EndWait, DueShape
<1>7. CASE ProcessKernelInstances(t)
  <2>1. i \in kernel_instance_list_ /\ ~ Complete(i)
    BY <1>7 DEF ProcessKernelInstances, Process, FinishedInstances
  <2>. QED  BY <1>1, <1>7, <2>1 DEF ProcessKernelInstances, DueShape
<1>8. ~ ProcessKernelInstance(t) /\ \A e \in Events : ~ QueryStatus(t, e)
  <2>1. ASSUME ProcessKernelInstance(t) \/ \E e \in Events : QueryStatus(t, e) PROVE FALSE
    <3>1. \/ thr' = [thr EXCEPT ![t].seen = None]
          \/ \E e \in Events : thr' = [thr EXCEPT ![t].todo = @ \ {e},
                                                  ![t].seen = SeenIfComplete(e)]
      BY <2>1 DEF ProcessKernelInstance, QueryStatus
    <3>2. t \in DOMAIN thr /\ "op" \in DOMAIN thr[t]
      BY <1>1 DEF IInv, TypeOK, ThreadType
    <3>3. CASE thr' = [thr EXCEPT ![t].seen = None]
      BY <3>2, <3>3
    <3>4. CASE \E e \in Events : thr' = [thr EXCEPT ![t].todo = @ \ {e},
                                                    ![t].seen = SeenIfComplete(e)]
      BY <3>2, <3>4
    <3>5. thr'[t].op = thr[t].op
      BY <3>1, <3>3, <3>4
    <3>. QED  BY <3>5
  <2>. QED  BY <2>1
<1>. QED  BY <1>2, <1>3, <1>4, <1>5, <1>6, <1>7, <1>8 DEF CallbackStep

-----------------------------------------------------------------------------
(* The theorems.                                                           *)

\* Every variable of the collector keeps its type; no reference count of an
\* event becomes negative.
THEOREM TypeCorrect == Spec => []TypeOK
<1>1. IInv => TypeOK
  BY DEF IInv
<1>. QED  BY Invariance, <1>1, PTL

\* clRetainEvent and clReleaseEvent of the collector balance: each reference
\* to an event is the application's, an instance's, or that of an event the
\* collector made for itself.
THEOREM ReferencesBalance == Spec => []References
<1>1. IInv => References
  BY DEF IInv
<1>. QED  BY Invariance, <1>1, PTL

\* ProcessKernelInstance(event) finds by the handle of an event the instance
\* of that event, for there is no other with the handle.
THEOREM InstancesFound == Spec => []HandlesIdentify
<1>1. IInv => HandlesIdentify
  BY DEF IInv
<1>. QED  BY Invariance, <1>1, PTL

\* Each kernel enqueued with collection enabled all the while waits in the
\* list or was reported, and none enqueued with it disabled all the while is.
\* Nothing is said of kernels during whose enqueue the switch changed.
THEOREM KernelsAccounted == Spec => []Accounted
<1>1. IInv => Accounted
  BY DEF IInv
<1>. QED  BY Invariance, <1>1, PTL

\* The assertion of ProcessKernelInstance(instance) holds: the event whose
\* status was asked before the lock is the one found under it.
THEOREM ProcessedWhenComplete == Spec => ProcessedComplete
<1>1. IInv /\ [Next]_vars =>
        [\A i \in kernel_instance_list_ \ kernel_instance_list_' : Complete(i)]_vars
  BY StepProcessesComplete
<1>. QED  BY Invariance, <1>1, PTL DEF Spec, ProcessedComplete

\* clFinish, clWaitForEvents and blocking transfers return to the application
\* when the kernels they waited for have been processed.
THEOREM WaitsProcess == Spec => SynchronizedProcessed
<1>. DEFINE Returned ==
       \A t \in Threads : thr[t].op # "idle" /\ thr'[t].op = "idle" =>
         \A i \in kernel_instance_list_' : i.kernel_id \notin thr[t].due
<1>1. IInv /\ [Next]_vars => [Returned]_vars
  BY StepReturnsProcessed
<1>. QED  BY Invariance, <1>1, PTL DEF Spec, SynchronizedProcessed
=============================================================================
