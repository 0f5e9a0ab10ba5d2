------------------------ MODULE ClApiCollectorProofs ------------------------
(***************************************************************************)
(* Proofs about ClApiCollector for any number of threads, functions, calls *)
(* and any clock.                                                          *)
(***************************************************************************)
EXTENDS ClApiCollector, FiniteSetTheorems, SequenceTheorems, WellFoundedInduction, TLAPS

-----------------------------------------------------------------------------
(* The inductive invariant: what thread-local state says of the call a     *)
(* thread is in.  It is the thread's own, so that no other one disturbs it.*)

\* A thread is guarded while it is in a wrapper, and in nothing else.
GuardHeld ==
  \A t \in Threads :
    inactive_count_[t] = IF thr[t].site \in {"resolve", "end"} THEN 1 ELSE 0

\* Only enqueues are given a kernel, and the correlator still has its id when
\* the call is reported.
KernelIdKept ==
  \A t \in Threads :
    /\ thr[t].site # "exit" => thr[t].own = 0
    /\ thr[t].site = "enqueue" => thr[t].fn \in Enqueues
    /\ thr[t].own # 0 => thr[t].fn \in Enqueues /\ thr[t].own = kernel_id_[t]

\* A call has a start time if it began while collection was enabled, unless its
\* enter callback is busy with a name; who asks for an address asks for that of
\* an extension function.
CallKept ==
  \A t \in Threads :
    /\ thr[t].site \in {"name", "named"} =>
         thr[t].fn \in Naming /\ thr[t].wanted /\ thr[t].start = 0
    /\ thr[t].site \in {"enqueue", "exit"} => (thr[t].start # 0 <=> thr[t].wanted)
    /\ thr[t].start <= clock /\ thr[t].entered <= clock
    /\ thr[t].site \in {"resolve", "end"} => thr[t].caller = None
    /\ ~Idle(t) => thr[t].fn \in Names /\ (thr[t].fn = GetAddress => thr[t].of \in Extensions)

IInv ==
  /\ TypeOK /\ GuardHeld /\ KernelIdKept /\ CallKept
  /\ OwnKernelId /\ WrappersCallDriver

-----------------------------------------------------------------------------
(* The parts of a step.                                                    *)

LEMMA MinMax ==
  ASSUME NEW m \in Nat, NEW n \in Nat
  PROVE  Min({m, n}) \in Nat /\ Max({m, n}) \in Nat
<1>1. \E x \in {m, n} : \A y \in {m, n} : x <= y
  OBVIOUS
<1>2. \E x \in {m, n} : \A y \in {m, n} : x >= y
  OBVIOUS
<1>3. Min({m, n}) \in {m, n}
  BY <1>1 DEF Min
<1>4. Max({m, n}) \in {m, n}
  BY <1>2 DEF Max
<1>. QED  BY <1>3, <1>4

\* AddFunctionTime keeps the table a table.
LEMMA TableType ==
  ASSUME TypeOK, NEW f \in Names, NEW time \in Nat
  PROVE  AddFunctionTime(f, time) \in
           [Names -> [total_time : Nat, min_time : Nat, max_time : Nat, call_count : Nat]]
<1>. DEFINE Info == [total_time : Nat, min_time : Nat, max_time : Nat, call_count : Nat]
            old == function_info_map_[f]
            new == IF old.call_count = 0
                     THEN [total_time |-> time, min_time |-> time, max_time |-> time,
                           call_count |-> 1]
                     ELSE [total_time |-> old.total_time + time,
                           min_time |-> Min({old.min_time, time}),
                           max_time |-> Max({old.max_time, time}),
                           call_count |-> old.call_count + 1]
<1>1. function_info_map_ \in [Names -> Info] /\ old \in Info
  BY DEF TypeOK
<1>2. Min({old.min_time, time}) \in Nat /\ Max({old.max_time, time}) \in Nat
  BY <1>1, MinMax
<1>3. new \in Info
  BY <1>1, <1>2
<1>4. AddFunctionTime(f, time) = [function_info_map_ EXCEPT ![f] = new]
  BY DEF AddFunctionTime
<1>. HIDE DEF new, old
<1>. QED  BY <1>1, <1>3, <1>4

\* A finished call is appended.
LEMMA FinishedType ==
  ASSUME TypeOK, CallKept, NEW t \in Threads, ~Idle(t), NEW id \in Nat
  PROVE  /\ Finished(t, id) \in [fn : Names, wanted : BOOLEAN, time : Nat, own : Nat, id : Nat]
         /\ Elapsed(t) \in Nat /\ thr[t].fn \in Names
         /\ \A site \in {"enter", "exit"} :
              Line(t, thr[t].fn, site) \in [thread : Threads, fn : Names, site : {"enter", "exit"}]
<1>1. /\ thr[t] \in CallType /\ thr[t].start <= clock /\ thr[t].entered <= clock
      /\ thr[t].fn \in Names /\ clock \in Nat
  BY DEF TypeOK, CallKept
<1>2. clock - thr[t].start \in Nat /\ clock - thr[t].entered \in Nat
  BY <1>1 DEF CallType
<1>. QED  BY <1>1, <1>2 DEF CallType, Finished, Elapsed, Line

\* So is a line of the log.
LEMMA Appended ==
  ASSUME NEW S, NEW s \in Seq(S), NEW e \in S
  PROVE  Append(s, e) \in Seq(S)
  BY AppendProperties

LEMMA NoCallType == NoCall \in CallType
  BY DEF NoCall, CallType, Target

\* The call a thread returns to.
LEMMA ReturnType ==
  ASSUME TypeOK, NEW t \in Threads
  PROVE  /\ Return(t) \in CallType
         /\ Return(t).site \in {"idle", "named"} /\ Return(t).own = 0
         /\ Return(t).start = 0 /\ Return(t).entered = 0 /\ Return(t).target = "driver"
         /\ Return(t).site = "named" => Return(t).fn \in Naming /\ Return(t).wanted
<1>1. thr[t].caller \in Naming \cup {None}
  BY DEF TypeOK, CallType
<1>2. CASE thr[t].caller = None
  BY <1>2, NoCallType DEF Return, NoCall
<1>3. CASE thr[t].caller # None
  <2>. PICK f \in Naming : f = thr[t].caller
    BY <1>1, <1>3
  <2>1. Return(t) = Entering(f, "named")
    BY <1>3 DEF Return
  <2>2. f \in Names
    BY FunctionAssumption DEF Names
  <2>3. Entering(f, "named") \in CallType
    BY <2>2, FunctionAssumption DEF Entering, NoCall, CallType, Target
  <2>. QED  BY <2>1, <2>3 DEF Entering, NoCall
<1>. QED  BY <1>2, <1>3

-----------------------------------------------------------------------------
(* The invariant holds at first and is preserved by every step.            *)

LEMMA InitInv == Init => IInv
<1>. SUFFICES ASSUME Init PROVE IInv
  OBVIOUS
<1>1. TypeOK
  <2>1. NoInfo \in [total_time : Nat, min_time : Nat, max_time : Nat, call_count : Nat]
    BY DEF NoInfo
  <2>. QED  BY <2>1, NoCallType DEF Init, TypeOK
<1>2. GuardHeld /\ KernelIdKept /\ CallKept /\ OwnKernelId /\ WrappersCallDriver
  BY DEF Init, GuardHeld, KernelIdKept, CallKept, OwnKernelId, WrappersCallDriver, Idle, NoCall
<1>. QED  BY <1>1, <1>2 DEF IInv

\* A step of thread t changes no other thread's call, guard and kernel id.
LEMMA OwnStep ==
  ASSUME IInv, NEW t \in Threads, NEW r \in CallType, thr' = [thr EXCEPT ![t] = r],
         \A u \in Threads \ {t} :
           inactive_count_'[u] = inactive_count_[u] /\ kernel_id_'[u] = kernel_id_[u],
         clock' = clock,
         inactive_count_'[t] = IF r.site \in {"resolve", "end"} THEN 1 ELSE 0,
         r.site = "end" => r.target = "driver",
         r.site \in {"resolve", "end"} => r.caller = None,
         r.site # "exit" => r.own = 0,
         r.site = "enqueue" => r.fn \in Enqueues,
         r.own # 0 => r.fn \in Enqueues /\ r.own = kernel_id_'[t],
         r.site \in {"enqueue", "exit"} => (r.start # 0 <=> r.wanted),
         r.site \in {"name", "named"} => r.fn \in Naming /\ r.wanted /\ r.start = 0,
         r.start <= clock /\ r.entered <= clock,
         r.site # "idle" => r.fn \in Names /\ (r.fn = GetAddress => r.of \in Extensions)
  PROVE  GuardHeld' /\ WrappersCallDriver' /\ KernelIdKept' /\ CallKept'
<1>1. thr'[t] = r /\ \A u \in Threads \ {t} : thr'[u] = thr[u]
  BY DEF IInv, TypeOK
<1>2. GuardHeld'
  BY <1>1 DEF IInv, GuardHeld
<1>3. WrappersCallDriver'
  BY <1>1 DEF IInv, WrappersCallDriver
<1>4. KernelIdKept'
  BY <1>1 DEF IInv, KernelIdKept
<1>5. CallKept'
  BY <1>1 DEF IInv, CallKept, Idle
<1>. QED  BY <1>2, <1>3, <1>4, <1>5

\* A call that begins, of the application or of an enter callback.
LEMMA EnterInv ==
  ASSUME IInv, NEW t \in Threads, NEW f \in Functions, NEW of \in Extensions \cup {None},
         NEW caller \in Naming \cup {None}, thr[t].site \in {"idle", "name"},
         of # None <=> f = GetAddress, Enter(t, f, of, caller)
  PROVE  IInv'
<1>. DEFINE r == [NoCall EXCEPT !.fn = f, !.of = of, !.caller = caller,
                    !.site = IF f \in Enqueues THEN "enqueue" ELSE "exit",
                    !.start = IF enabled /\ ~Inactive(t) THEN clock ELSE 0,
                    !.entered = clock, !.wanted = enabled]
<1>1. /\ thr' = [thr EXCEPT ![t] = r] /\ (of # None <=> f = GetAddress)
      /\ log' \in {log, Append(log, Line(t, f, "enter"))}
      /\ UNCHANGED <<clock, enabled, addresses, inactive_count_, kernel_id_, next_kernel_id,
                     function_info_map_, calls>>
  BY DEF Enter
<1>2. inactive_count_[t] = 0 /\ ~Inactive(t) /\ clock \in Nat \ {0} /\ enabled \in BOOLEAN
  <2>1. inactive_count_[t] = 0
    BY DEF IInv, GuardHeld
  <2>2. ~Inactive(t)
    BY <2>1 DEF Inactive
  <2>. QED  BY <2>1, <2>2 DEF IInv, TypeOK
<1>3. r \in CallType
  BY <1>2 DEF CallType, NoCall, Names, Target
<1>4. Line(t, f, "enter") \in [thread : Threads, fn : Names, site : {"enter", "exit"}]
  BY DEF Line, Names
<1>5. TypeOK'
  <2>1. log' \in Seq([thread : Threads, fn : Names, site : {"enter", "exit"}])
    <3>. DEFINE L == [thread : Threads, fn : Names, site : {"enter", "exit"}]
    <3>1. log \in Seq(L)
      BY DEF IInv, TypeOK
    <3>2. Append(log, Line(t, f, "enter")) \in Seq(L)
      <4>. HIDE DEF L
      <4>. QED  BY <3>1, <1>4, Appended DEF L
    <3>. QED  BY <1>1, <3>1, <3>2
  <2>2. thr' \in [Threads -> CallType]
    BY <1>1, <1>3 DEF IInv, TypeOK
  <2>. HIDE DEF r
  <2>. QED  BY <1>1, <2>1, <2>2 DEF IInv, TypeOK
<1>6. /\ r.site \in {"enqueue", "exit"} /\ (r.site = "enqueue" => f \in Enqueues)
      /\ r.fn = f /\ r.of = of /\ r.own = 0 /\ r.entered = clock
      /\ r.start \in {0, clock} /\ (r.start # 0 <=> enabled) /\ r.wanted = enabled
  BY <1>2 DEF NoCall
<1>. HIDE DEF r
<1>7. GuardHeld' /\ WrappersCallDriver' /\ KernelIdKept' /\ CallKept'
  <2>1. r.fn \in Names /\ (r.fn = GetAddress => r.of \in Extensions)
    BY <1>1, <1>6 DEF Names
  <2>2. r.start <= clock /\ r.entered <= clock
    BY <1>2, <1>6
  <2>3. r.site # "end" /\ r.site \notin {"resolve", "end"}
    BY <1>6
  <2>4. /\ kernel_id_' = kernel_id_ /\ inactive_count_' = inactive_count_ /\ clock' = clock
        /\ inactive_count_'[t] = 0
    BY <1>1, <1>2
  <2>. QED  BY <1>1, <1>3, <1>6, <2>1, <2>2, <2>3, <2>4, OwnStep
<1>8. OwnKernelId'
  BY <1>1 DEF IInv, OwnKernelId
<1>. QED  BY <1>5, <1>7, <1>8 DEF IInv

\* What is common to the steps of an enter callback that log a line or none and
\* leave the rest to the call: nothing but the call of the thread changes.
LEMMA NamingStep ==
  ASSUME IInv, NEW t \in Threads, NEW f \in Naming, thr[t].site \in {"idle", "named"},
         NEW r \in CallType, thr' = [thr EXCEPT ![t] = r],
         r.fn = f, r.own = 0, r.target = "driver", r.entered <= clock, r.start <= clock,
         \/ r.site = "name" /\ r.wanted /\ r.start = 0
         \/ /\ r.site \in {"enqueue", "exit"} /\ (r.site = "enqueue" => f \in Enqueues)
            /\ r.start # 0 <=> r.wanted,
         log' \in {log, Append(log, Line(t, f, "enter"))},
         UNCHANGED <<clock, enabled, addresses, inactive_count_, kernel_id_, next_kernel_id,
                     function_info_map_, calls>>
  PROVE  IInv'
<1>1. f \in Names /\ f # GetAddress
  BY FunctionAssumption DEF Names
<1>2. TypeOK'
  <2>. DEFINE L == [thread : Threads, fn : Names, site : {"enter", "exit"}]
  <2>1. Line(t, f, "enter") \in L /\ log \in Seq(L)
    BY <1>1 DEF Line, IInv, TypeOK
  <2>2. log' \in Seq(L)
    <3>. HIDE DEF L
    <3>. QED  BY <2>1, Appended
  <2>3. thr' \in [Threads -> CallType]
    BY DEF IInv, TypeOK
  <2>. QED  BY <2>2, <2>3 DEF IInv, TypeOK
<1>3. GuardHeld' /\ WrappersCallDriver' /\ KernelIdKept' /\ CallKept'
  <2>1. inactive_count_'[t] = 0 /\ r.site \notin {"resolve", "end"}
    BY DEF IInv, GuardHeld
  <2>. QED  BY <1>1, <2>1, OwnStep
<1>4. OwnKernelId'
  BY DEF IInv, OwnKernelId
<1>. QED  BY <1>2, <1>3, <1>4 DEF IInv

LEMMA EnterNamingInv ==
  ASSUME IInv, NEW t \in Threads, NEW f \in Naming, EnterNaming(t, f)
  PROVE  IInv'
<1>. DEFINE r == Entering(f, "name")
<1>1. r \in CallType
  BY FunctionAssumption DEF Entering, NoCall, CallType, Target, Names
<1>2. /\ r.fn = f /\ r.own = 0 /\ r.target = "driver" /\ r.entered = 0 /\ r.start = 0
      /\ r.site = "name" /\ r.wanted
  BY DEF Entering, NoCall
<1>3. 0 <= clock
  BY DEF IInv, TypeOK
<1>. HIDE DEF r
<1>4. thr' = [thr EXCEPT ![t] = r] /\ thr[t].site = "idle" /\ log' = log
  BY DEF EnterNaming, Idle, r
<1>5. UNCHANGED <<clock, enabled, addresses, inactive_count_, kernel_id_, next_kernel_id,
                  function_info_map_, calls>>
  BY DEF EnterNaming
<1>. QED  BY <1>1, <1>2, <1>3, <1>4, <1>5, NamingStep

LEMMA EndNamingInv ==
  ASSUME IInv, NEW t \in Threads, EndNaming(t)
  PROVE  IInv'
<1>. PICK f \in Naming : f = thr[t].fn
  BY DEF EndNaming, IInv, CallKept
<1>. DEFINE r == [NoCall EXCEPT !.fn = f, !.site = IF f \in Enqueues THEN "enqueue" ELSE "exit",
                                !.start = clock, !.entered = clock, !.wanted = TRUE]
<1>1. clock \in Nat \ {0}
  BY DEF IInv, TypeOK
<1>2. r \in CallType
  BY <1>1, FunctionAssumption DEF NoCall, CallType, Target, Names
<1>3. /\ r.fn = f /\ r.own = 0 /\ r.target = "driver" /\ r.entered = clock /\ r.start = clock
      /\ r.site \in {"enqueue", "exit"} /\ (r.site = "enqueue" => f \in Enqueues) /\ r.wanted
  BY DEF NoCall
<1>4. /\ thr' = [thr EXCEPT ![t] = r] /\ thr[t].site = "named"
      /\ log' = Append(log, Line(t, f, "enter"))
      /\ UNCHANGED <<clock, enabled, addresses, inactive_count_, kernel_id_, next_kernel_id,
                     function_info_map_, calls>>
  BY DEF EndNaming
<1>. HIDE DEF r
<1>5. clock <= clock
  BY <1>1
<1>. QED  BY <1>1, <1>2, <1>3, <1>4, <1>5, NamingStep

LEMMA ExitEnqueueInv ==
  ASSUME IInv, NEW t \in Threads, ExitEnqueue(t)
  PROVE  IInv'
<1>1. /\ thr[t].site = "enqueue"
      /\ UNCHANGED <<clock, enabled, addresses, inactive_count_, function_info_map_, calls, log>>
  BY DEF ExitEnqueue
<1>2. PICK own \in Nat :
        /\ thr' = [thr EXCEPT ![t] = [thr[t] EXCEPT !.site = "exit", !.own = own]]
        /\ \/ /\ own = next_kernel_id /\ own # 0
              /\ kernel_id_' = [kernel_id_ EXCEPT ![t] = own]
              /\ next_kernel_id' = own + 1
           \/ own = 0 /\ UNCHANGED <<kernel_id_, next_kernel_id>>
  <2>1. /\ thr \in [Threads -> CallType] /\ thr[t].own = 0 /\ next_kernel_id \in Nat \ {0}
    BY <1>1 DEF IInv, TypeOK, KernelIdKept
  <2>2. CASE /\ thr' = [thr EXCEPT ![t].site = "exit", ![t].own = next_kernel_id]
             /\ kernel_id_' = SetKernelId(t, next_kernel_id)
             /\ next_kernel_id' = next_kernel_id + 1
    <3>1. thr' = [thr EXCEPT ![t] = [thr[t] EXCEPT !.site = "exit", !.own = next_kernel_id]]
      BY <2>1, <2>2
    <3>. QED  BY <2>1, <2>2, <3>1 DEF SetKernelId
  <2>3. CASE /\ thr' = [thr EXCEPT ![t].site = "exit"]
             /\ UNCHANGED <<kernel_id_, next_kernel_id>>
    <3>1. [thr[t] EXCEPT !.site = "exit"] = [thr[t] EXCEPT !.site = "exit", !.own = 0]
      BY <2>1 DEF CallType
    <3>2. thr' = [thr EXCEPT ![t] = [thr[t] EXCEPT !.site = "exit", !.own = 0]]
      BY <2>1, <2>3, <3>1
    <3>. QED  BY <2>3, <3>2
  <2>. QED  BY <2>2, <2>3 DEF ExitEnqueue
<1>. DEFINE r == [thr[t] EXCEPT !.site = "exit", !.own = own]
<1>3. /\ r \in CallType /\ r.site = "exit" /\ r.own = own /\ r.fn = thr[t].fn /\ r.of = thr[t].of
      /\ r.start = thr[t].start /\ r.entered = thr[t].entered /\ r.wanted = thr[t].wanted
  BY ZenonT(60) DEF IInv, TypeOK, CallType
<1>4. thr' = [thr EXCEPT ![t] = r]
  BY <1>2
<1>. HIDE DEF r
<1>5. /\ kernel_id_' \in [Threads -> Nat] /\ next_kernel_id' \in Nat \ {0}
      /\ \A u \in Threads \ {t} : kernel_id_'[u] = kernel_id_[u]
      /\ own # 0 => kernel_id_'[t] = own
  <2>1. kernel_id_ \in [Threads -> Nat] /\ next_kernel_id \in Nat \ {0}
    BY DEF IInv, TypeOK
  <2>2. CASE own = 0
    BY <1>2, <2>1, <2>2
  <2>3. CASE own # 0
    BY <1>2, <2>1, <2>3
  <2>. QED  BY <2>2, <2>3
<1>6. TypeOK'
  <2>1. thr' \in [Threads -> CallType]
    BY <1>3, <1>4 DEF IInv, TypeOK
  <2>. QED  BY <1>1, <1>5, <2>1 DEF IInv, TypeOK
<1>7. GuardHeld' /\ WrappersCallDriver' /\ KernelIdKept' /\ CallKept'
  <2>1. r.fn \in Enqueues /\ r.fn \in Names /\ (r.fn = GetAddress => r.of \in Extensions)
    BY <1>1, <1>3 DEF IInv, KernelIdKept, CallKept, Idle
  <2>2. r.start <= clock /\ r.entered <= clock /\ (r.start # 0 <=> r.wanted)
    BY <1>1, <1>3 DEF IInv, CallKept
  <2>3. inactive_count_'[t] = 0 /\ inactive_count_' = inactive_count_ /\ clock' = clock
    BY <1>1 DEF IInv, GuardHeld
  <2>4. r.own # 0 => r.own = kernel_id_'[t]
    BY <1>3, <1>5
  <2>. QED  BY <1>3, <1>4, <1>5, <2>1, <2>2, <2>3, <2>4, OwnStep
<1>8. OwnKernelId'
  BY <1>1 DEF IInv, OwnKernelId
<1>. QED  BY <1>6, <1>7, <1>8 DEF IInv

\* A call that ends: what is common to ExitFunction and EndExtension.
LEMMA EndStep ==
  ASSUME IInv, NEW t \in Threads, ~Idle(t), NEW id \in Nat,
         thr[t].fn \in Reported /\ thr[t].own # 0 /\ thr[t].wanted => id = thr[t].own,
         function_info_map_' \in {function_info_map_, AddFunctionTime(thr[t].fn, Elapsed(t))},
         log' \in {log, Append(log, Line(t, thr[t].fn, "exit"))},
         calls' = Append(calls, Finished(t, id)),
         thr' = [thr EXCEPT ![t] = Return(t)],
         addresses' \subseteq Extensions \X Target,
         inactive_count_' \in [Threads -> Nat], inactive_count_'[t] = 0,
         \A u \in Threads \ {t} : inactive_count_'[u] = inactive_count_[u],
         UNCHANGED <<clock, enabled, kernel_id_, next_kernel_id>>
  PROVE  IInv'
<1>. DEFINE L == [thread : Threads, fn : Names, site : {"enter", "exit"}]
            C == [fn : Names, wanted : BOOLEAN, time : Nat, own : Nat, id : Nat]
            M == [Names -> [total_time : Nat, min_time : Nat, max_time : Nat, call_count : Nat]]
<1>1. /\ Finished(t, id) \in C /\ Elapsed(t) \in Nat /\ thr[t].fn \in Names
      /\ Line(t, thr[t].fn, "exit") \in L
  BY FinishedType DEF IInv
<1>2. log \in Seq(L) /\ calls \in Seq(C) /\ function_info_map_ \in M
  BY DEF IInv, TypeOK
<1>3. AddFunctionTime(thr[t].fn, Elapsed(t)) \in M
  BY <1>1, TableType DEF IInv
<1>4. log' \in Seq(L) /\ calls' \in Seq(C)
  <2>. HIDE DEF L, C
  <2>1. Append(log, Line(t, thr[t].fn, "exit")) \in Seq(L)
    BY <1>1, <1>2, Appended
  <2>2. Append(calls, Finished(t, id)) \in Seq(C)
    BY <1>1, <1>2, Appended
  <2>. QED  BY <1>2, <2>1, <2>2
<1>5. TypeOK'
  <2>1. thr' \in [Threads -> CallType]
    BY ReturnType DEF IInv, TypeOK
  <2>. QED  BY <1>2, <1>3, <1>4, <2>1 DEF IInv, TypeOK
<1>6. GuardHeld' /\ WrappersCallDriver' /\ KernelIdKept' /\ CallKept'
  <2>. DEFINE r == Return(t)
  <2>1. /\ r \in CallType /\ r.site \in {"idle", "named"} /\ r.own = 0
        /\ r.start = 0 /\ r.entered = 0 /\ r.target = "driver"
        /\ r.site = "named" => r.fn \in Naming /\ r.wanted
    BY ReturnType DEF IInv
  <2>. HIDE DEF r
  <2>2. r.start <= clock /\ r.entered <= clock
    BY <2>1 DEF IInv, TypeOK
  <2>4. thr' = [thr EXCEPT ![t] = r]
    BY DEF r
  <2>5. r.site # "idle" => r.fn \in Names /\ (r.fn = GetAddress => r.of \in Extensions)
    BY <2>1, FunctionAssumption DEF Names
  <2>3. kernel_id_' = kernel_id_ /\ clock' = clock
    OBVIOUS
  <2>. QED  BY <2>1, <2>2, <2>3, <2>4, <2>5, OwnStep
<1>7. OwnKernelId'
  <2>1. Finished(t, id).fn \in Reported /\ Finished(t, id).own # 0 /\ Finished(t, id).wanted =>
          Finished(t, id).id = Finished(t, id).own
    BY DEF Finished
  <2>2. /\ DOMAIN calls' = 1 .. Len(calls) + 1 /\ Len(calls) \in Nat /\ DOMAIN calls = 1 .. Len(calls)
        /\ calls'[Len(calls) + 1] = Finished(t, id)
        /\ \A i \in 1 .. Len(calls) : calls'[i] = calls[i]
    <3>. HIDE DEF C
    <3>. QED  BY <1>1, <1>2, AppendProperties, LenProperties
  <2>. QED  BY <2>1, <2>2 DEF IInv, OwnKernelId
<1>. QED  BY <1>5, <1>6, <1>7 DEF IInv

LEMMA ExitFunctionInv ==
  ASSUME IInv, NEW t \in Threads, ExitFunction(t)
  PROVE  IInv'
<1>. DEFINE id == IF Collected(t) THEN ReportedId(t) ELSE 0
<1>1. /\ thr[t].site = "exit" /\ ~Idle(t) /\ thr' = [thr EXCEPT ![t] = Return(t)]
      /\ UNCHANGED <<clock, enabled, inactive_count_, kernel_id_, next_kernel_id>>
      /\ function_info_map_' \in {function_info_map_, AddFunctionTime(thr[t].fn, Elapsed(t))}
      /\ log' \in {log, Append(log, Line(t, thr[t].fn, "exit"))}
      /\ calls' = Append(calls, Finished(t, id))
  BY DEF ExitFunction, Idle
<1>2. id \in Nat
  BY DEF IInv, TypeOK, ReportedId
<1>3. thr[t].fn \in Reported /\ thr[t].own # 0 /\ thr[t].wanted => id = thr[t].own
  BY <1>1 DEF IInv, KernelIdKept, CallKept, Collected, ReportedId
<1>4. addresses' \subseteq Extensions \X Target
  BY <1>1 DEF ExitFunction, IInv, TypeOK, CallKept, Target
<1>5. /\ inactive_count_'[t] = 0 /\ inactive_count_' = inactive_count_
      /\ inactive_count_' \in [Threads -> Nat]
  BY <1>1 DEF IInv, GuardHeld, TypeOK
<1>. HIDE DEF id
<1>. QED  BY <1>1, <1>2, <1>3, <1>4, <1>5, EndStep

LEMMA BeginExtensionInv ==
  ASSUME IInv, NEW t \in Threads, NEW f \in Extensions, BeginExtension(t, f)
  PROVE  IInv'
<1>. DEFINE r == [NoCall EXCEPT !.fn = f, !.site = "resolve", !.start = clock,
                                !.entered = clock, !.wanted = enabled]
<1>1. /\ Idle(t) /\ thr' = [thr EXCEPT ![t] = r]
      /\ inactive_count_' = [inactive_count_ EXCEPT ![t] = @ + 1]
      /\ log' = Append(log, Line(t, f, "enter"))
      /\ UNCHANGED <<clock, enabled, addresses, kernel_id_, next_kernel_id, function_info_map_,
                     calls>>
  BY DEF BeginExtension
<1>2. clock \in Nat /\ enabled \in BOOLEAN /\ f \in Names /\ f # GetAddress
  BY FunctionAssumption DEF IInv, TypeOK, Names
<1>3. r \in CallType
  BY <1>2 DEF CallType, NoCall, Target
<1>4. /\ r.site = "resolve" /\ r.fn = f /\ r.own = 0 /\ r.start = clock /\ r.entered = clock
      /\ r.caller = None
  BY DEF NoCall
<1>. HIDE DEF r
<1>5. /\ inactive_count_' \in [Threads -> Nat] /\ inactive_count_'[t] = 1
      /\ \A u \in Threads \ {t} : inactive_count_'[u] = inactive_count_[u]
  <2>1. inactive_count_ \in [Threads -> Nat] /\ inactive_count_[t] = 0
    BY <1>1 DEF IInv, GuardHeld, TypeOK, Idle
  <2>. QED  BY <1>1, <2>1
<1>6. TypeOK'
  <2>. DEFINE L == [thread : Threads, fn : Names, site : {"enter", "exit"}]
  <2>1. Line(t, f, "enter") \in L /\ log \in Seq(L)
    BY <1>2 DEF Line, IInv, TypeOK
  <2>2. log' \in Seq(L)
    <3>. HIDE DEF L
    <3>. QED  BY <1>1, <2>1, Appended
  <2>3. thr' \in [Threads -> CallType]
    BY <1>1, <1>3 DEF IInv, TypeOK
  <2>. QED  BY <1>1, <1>5, <2>2, <2>3 DEF IInv, TypeOK
<1>7. GuardHeld' /\ WrappersCallDriver' /\ KernelIdKept' /\ CallKept'
  <2>1. kernel_id_' = kernel_id_ /\ clock' = clock /\ clock <= clock
    BY <1>1, <1>2
  <2>. QED  BY <1>1, <1>2, <1>3, <1>4, <1>5, <2>1, OwnStep
<1>8. OwnKernelId'
  BY <1>1 DEF IInv, OwnKernelId
<1>. QED  BY <1>6, <1>7, <1>8 DEF IInv

LEMMA GetFunctionAddressInv ==
  ASSUME IInv, NEW t \in Threads, GetFunctionAddress(t)
  PROVE  IInv'
<1>. DEFINE r == [thr[t] EXCEPT !.site = "end", !.target = "driver"]
<1>1. inactive_count_[t] = 1 /\ Inactive(t) /\ thr[t].site = "resolve"
  BY DEF GetFunctionAddress, IInv, GuardHeld, Inactive
<1>2. /\ thr' = [thr EXCEPT ![t].site = "end", ![t].target = "driver"]
      /\ UNCHANGED <<clock, enabled, addresses, inactive_count_, kernel_id_, next_kernel_id,
                     function_info_map_, calls, log>>
  BY <1>1 DEF GetFunctionAddress
<1>3. thr \in [Threads -> CallType] /\ r \in CallType
  BY DEF IInv, TypeOK, CallType, Target
<1>4. thr' = [thr EXCEPT ![t] = r]
  BY <1>2, <1>3
<1>5. /\ r.site = "end" /\ r.target = "driver" /\ r.fn = thr[t].fn /\ r.of = thr[t].of
      /\ r.own = thr[t].own /\ r.start = thr[t].start /\ r.entered = thr[t].entered
      /\ r.caller = thr[t].caller
  BY <1>3 DEF CallType
<1>. HIDE DEF r
<1>6. TypeOK'
  <2>1. thr' \in [Threads -> CallType]
    BY <1>3, <1>4
  <2>. QED  BY <1>2, <2>1 DEF IInv, TypeOK
<1>7. GuardHeld' /\ WrappersCallDriver' /\ KernelIdKept' /\ CallKept'
  <2>1. /\ r.own = 0 /\ r.start <= clock /\ r.entered <= clock /\ r.fn \in Names
        /\ r.caller = None
        /\ (r.fn = GetAddress => r.of \in Extensions)
    BY <1>1, <1>5 DEF IInv, KernelIdKept, CallKept, Idle
  <2>2. /\ kernel_id_' = kernel_id_ /\ inactive_count_' = inactive_count_ /\ clock' = clock
        /\ inactive_count_'[t] = 1
    BY <1>1, <1>2
  <2>. QED  BY <1>3, <1>4, <1>5, <2>1, <2>2, OwnStep
<1>8. OwnKernelId'
  BY <1>2 DEF IInv, OwnKernelId
<1>. QED  BY <1>6, <1>7, <1>8 DEF IInv

LEMMA EndExtensionInv ==
  ASSUME IInv, NEW t \in Threads, EndExtension(t)
  PROVE  IInv'
<1>1. /\ thr[t].site = "end" /\ ~Idle(t) /\ thr' = [thr EXCEPT ![t] = NoCall]
      /\ UNCHANGED <<clock, enabled, addresses, kernel_id_, next_kernel_id>>
      /\ function_info_map_' = AddFunctionTime(thr[t].fn, Elapsed(t))
      /\ log' = Append(log, Line(t, thr[t].fn, "exit"))
      /\ calls' = Append(calls, Finished(t, 0))
  BY DEF EndExtension, Idle
<1>2. thr[t].own = 0 /\ addresses' \subseteq Extensions \X Target
  BY <1>1 DEF IInv, KernelIdKept, TypeOK
<1>3. /\ inactive_count_' \in [Threads -> Nat] /\ inactive_count_'[t] = 0
      /\ \A u \in Threads \ {t} : inactive_count_'[u] = inactive_count_[u]
  <2>1. inactive_count_ \in [Threads -> Nat] /\ inactive_count_[t] = 1
    BY <1>1 DEF IInv, GuardHeld, TypeOK
  <2>2. inactive_count_' = [inactive_count_ EXCEPT ![t] = @ - 1]
    BY DEF EndExtension
  <2>. QED  BY <2>1, <2>2
<1>4. Return(t) = NoCall
  BY <1>1 DEF IInv, CallKept, Return
<1>. QED  BY <1>1, <1>2, <1>3, <1>4, EndStep

LEMMA StepInv == IInv /\ [Next]_vars => IInv'
<1>. SUFFICES ASSUME IInv, [Next]_vars PROVE IInv'
  OBVIOUS
<1>1. CASE \E t \in Threads, f \in Functions, of \in Extensions \cup {None} : EnterFunction(t, f, of)
  BY <1>1, EnterInv DEF EnterFunction, Idle
<1>a. CASE \E t \in Threads, f \in Naming : EnterNaming(t, f)
  BY <1>a, EnterNamingInv
<1>b. CASE \E t \in Threads : QueryName(t)
  <2>. PICK t \in Threads : QueryName(t)
    BY <1>b
  <2>1. thr[t].site = "name" /\ thr[t].fn \in Naming /\ Enter(t, KernelInfo, None, thr[t].fn)
    BY DEF QueryName, IInv, CallKept
  <2>. QED  BY <2>1, EnterInv, FunctionAssumption
<1>c. CASE \E t \in Threads : EndNaming(t)
  BY <1>c, EndNamingInv
<1>2. CASE \E t \in Threads : ExitEnqueue(t)
  BY <1>2, ExitEnqueueInv
<1>3. CASE \E t \in Threads : ExitFunction(t)
  BY <1>3, ExitFunctionInv
<1>4. CASE \E t \in Threads, f \in Extensions : BeginExtension(t, f)
  BY <1>4, BeginExtensionInv
<1>5. CASE \E t \in Threads : GetFunctionAddress(t)
  BY <1>5, GetFunctionAddressInv
<1>6. CASE \E t \in Threads : EndExtension(t)
  BY <1>6, EndExtensionInv
<1>7. CASE Tick
  <2>1. clock' \in Nat \ {0} /\ \A n \in Nat : n <= clock => n <= clock'
    BY <1>7 DEF Tick, IInv, TypeOK
  <2>2. TypeOK' /\ GuardHeld' /\ KernelIdKept' /\ OwnKernelId' /\ WrappersCallDriver'
    BY <1>7, <2>1 DEF Tick, IInv, TypeOK, GuardHeld, KernelIdKept, OwnKernelId, WrappersCallDriver
  <2>3. \A t \in Threads : thr[t].start \in Nat /\ thr[t].entered \in Nat
    BY DEF IInv, TypeOK, CallType
  <2>4. CallKept'
    BY <1>7, <2>1, <2>3 DEF Tick, IInv, CallKept, Idle
  <2>. QED  BY <2>2, <2>4 DEF IInv
<1>8. CASE Toggle
  <2>1. enabled' \in BOOLEAN
    BY <1>8 DEF Toggle
  <2>. QED  BY <1>8, <2>1 DEF Toggle, IInv, TypeOK, GuardHeld, KernelIdKept, CallKept, OwnKernelId,
                             WrappersCallDriver, Idle
<1>9. CASE UNCHANGED vars
  BY <1>9 DEF vars, IInv, TypeOK, GuardHeld, KernelIdKept, CallKept, OwnKernelId,
              WrappersCallDriver, Idle
<1>. QED  BY <1>1, <1>a, <1>b, <1>c, <1>2, <1>3, <1>4, <1>5, <1>6, <1>7, <1>8, <1>9 DEF Next

LEMMA Invariance == Spec => []IInv
  BY InitInv, StepInv, PTL DEF Spec

-----------------------------------------------------------------------------
(* The theorems.                                                           *)

\* Every state of the collector is well typed: no time in the table or of a
\* call is negative, so the assertion start <= end of the callbacks holds.
THEOREM TypeCorrect == Spec => []TypeOK
<1>1. IInv => TypeOK
  BY DEF IInv
<1>. QED  BY <1>1, Invariance, PTL

\* A collected call of one of the functions Callback reports with an id (three of
\* those whose commands get one), if it enqueued a kernel, is reported with the id
\* of this kernel, whatever the other threads enqueue meanwhile.
THEOREM KernelIdsReported == Spec => []OwnKernelId
<1>1. IInv => OwnKernelId
  BY DEF IInv
<1>. QED  BY <1>1, Invariance, PTL

\* No wrapper of an extension function is given the address of itself: the
\* guard keeps the tracer out of the wrapper's own query for the address.
THEOREM WrappersSound == Spec => []WrappersCallDriver
<1>1. IInv => WrappersCallDriver
  BY DEF IInv
<1>. QED  BY <1>1, Invariance, PTL

-----------------------------------------------------------------------------
(* The lines of the log.                                                   *)

\* The threads in calls that have an enter line: those collected.
Logged(call) == call.site # "idle" /\ call.start # 0

LinesInv ==
  /\ \A i, j \in DOMAIN log : Before(log, i, j) => log[i].site # log[j].site
  /\ \A i \in DOMAIN log : log[i].site = "exit" =>
       \E j \in DOMAIN log : Before(log, i, j) /\ log[i].fn = log[j].fn
  /\ \A i \in DOMAIN log : log[i].site = "enter" /\ LastLine(log, i) =>
       Logged(thr[log[i].thread]) /\ log[i].fn = thr[log[i].thread].fn
  /\ \A t \in Threads : Logged(thr[t]) =>
       \E i \in DOMAIN log : LastLine(log, i) /\ log[i] = Line(t, thr[t].fn, "enter")

LEMMA LineTypes ==
  ASSUME TypeOK
  PROVE  /\ Len(log) \in Nat /\ DOMAIN log = 1..Len(log)
         /\ \A i \in 1..Len(log) : log[i].thread \in Threads
<1>. DEFINE L == [thread : Threads, fn : Names, site : {"enter", "exit"}]
<1>1. log \in Seq(L)
  BY DEF TypeOK
<1>2. Len(log) \in Nat /\ DOMAIN log = 1..Len(log) /\ \A i \in 1..Len(log) : log[i] \in L
  <2>. HIDE DEF L
  <2>. QED  BY <1>1, ElementOfSeq, LenProperties
<1>. QED  BY <1>2

\* A line is appended.
LEMMA LineAdded ==
  ASSUME TypeOK, NEW t \in Threads, NEW f \in Names, NEW site \in {"enter", "exit"},
         log' = Append(log, Line(t, f, site))
  PROVE  /\ Len(log) \in Nat /\ DOMAIN log = 1..Len(log) /\ DOMAIN log' = 1..(Len(log) + 1)
         /\ log'[Len(log) + 1] = Line(t, f, site) /\ \A i \in 1..Len(log) : log'[i] = log[i]
         /\ \A i, j \in 1..Len(log) : Before(log', i, j) <=> Before(log, i, j)
         /\ \A n, j : n = Len(log) + 1 /\ j \in 1..Len(log) =>
              (Before(log', n, j) <=> log[j].thread = t /\ LastLine(log, j))
         /\ \A i \in 1..Len(log) : LastLine(log', i) <=> LastLine(log, i) /\ log[i].thread # t
         /\ \A i \in 1..Len(log) : log[i].thread \in Threads
<1>. DEFINE L == [thread : Threads, fn : Names, site : {"enter", "exit"}]
<1>1. log \in Seq(L) /\ Line(t, f, site) \in L
  BY DEF TypeOK, Line
<1>2. \A i \in 1..Len(log) : log[i].thread \in Threads
  BY LineTypes
<1>3. Line(t, f, site).thread = t
  BY DEF Line
<1>4. /\ Len(log) \in Nat /\ DOMAIN log = 1..Len(log) /\ DOMAIN log' = 1..(Len(log) + 1)
      /\ log'[Len(log) + 1] = Line(t, f, site) /\ \A i \in 1..Len(log) : log'[i] = log[i]
  <2>. HIDE DEF L
  <2>. QED  BY <1>1, AppendProperties, LenProperties
<1>5. \A i, j \in 1..Len(log) : Before(log', i, j) <=> Before(log, i, j)
  BY <1>4 DEF Before
<1>6. \A n, j : n = Len(log) + 1 /\ j \in 1..Len(log) =>
        (Before(log', n, j) <=> log[j].thread = t /\ LastLine(log, j))
  BY <1>3, <1>4 DEF Before, LastLine
<1>7. \A i \in 1..Len(log) : LastLine(log', i) <=> LastLine(log, i) /\ log[i].thread # t
  BY <1>3, <1>4 DEF LastLine
<1>. QED  BY <1>2, <1>4, <1>5, <1>6, <1>7

\* A thread enters a collected call.
LEMMA EnterLines ==
  ASSUME TypeOK, LinesInv, NEW t \in Threads, NEW f \in Names, ~Logged(thr[t]),
         log' = Append(log, Line(t, f, "enter")),
         Logged(thr'[t]), thr'[t].fn = f, \A u \in Threads \ {t} : thr'[u] = thr[u]
  PROVE  LinesInv'
<1>. DEFINE n == Len(log) + 1
<1>1. /\ n \in Nat \ {0} /\ n - 1 \in Nat /\ DOMAIN log = 1..(n - 1) /\ DOMAIN log' = 1..n
      /\ log'[n] = Line(t, f, "enter") /\ \A i \in 1..(n - 1) : log'[i] = log[i]
      /\ \A i, j \in 1..(n - 1) : Before(log', i, j) <=> Before(log, i, j)
      /\ \A m, j : m = n /\ j \in 1..(n - 1) =>
           (Before(log', m, j) <=> log[j].thread = t /\ LastLine(log, j))
      /\ \A i \in 1..(n - 1) : LastLine(log', i) <=> LastLine(log, i) /\ log[i].thread # t
      /\ \A i \in 1..(n - 1) : log[i].thread \in Threads
  BY LineAdded
<1>2. Line(t, f, "enter").site = "enter" /\ Line(t, f, "enter").fn = f /\ Line(t, f, "enter").thread = t
  BY DEF Line
<1>. HIDE DEF n
<1>3. \A i, j \in 1..n : Before(log', i, j) => j < i
  BY DEF Before
<1>4. \A m : m = n => LastLine(log', m)
  BY <1>1 DEF LastLine
<1>5. \A i, j \in DOMAIN log' : Before(log', i, j) => log'[i].site # log'[j].site
  <2>. SUFFICES ASSUME NEW i \in 1..n, NEW j \in 1..n, Before(log', i, j)
                PROVE  log'[i].site # log'[j].site
    BY <1>1
  <2>1. j \in 1..(n - 1)
    BY <1>1, <1>3
  <2>2. CASE i = n
    <3>1. log[j].thread = t /\ LastLine(log, j) /\ log'[j] = log[j]
      BY <1>1, <2>1, <2>2
    <3>2. log[j].site # "enter"
      BY <1>1, <2>1, <3>1 DEF LinesInv, Logged, Idle
    <3>. QED  BY <1>1, <1>2, <2>2, <3>1, <3>2
  <2>3. CASE i \in 1..(n - 1)
    BY <1>1, <2>1, <2>3 DEF LinesInv
  <2>. QED  BY <1>1, <2>2, <2>3
<1>6. \A i \in DOMAIN log' : log'[i].site = "exit" =>
        \E j \in DOMAIN log' : Before(log', i, j) /\ log'[i].fn = log'[j].fn
  <2>. SUFFICES ASSUME NEW i \in 1..(n - 1), log[i].site = "exit"
                PROVE  \E j \in 1..(n - 1) : Before(log', i, j) /\ log'[i].fn = log'[j].fn
    BY <1>1, <1>2
  <2>1. PICK j \in 1..(n - 1) : Before(log, i, j) /\ log[i].fn = log[j].fn
    BY <1>1 DEF LinesInv
  <2>. QED  BY <1>1, <2>1
<1>7. \A i \in DOMAIN log' : log'[i].site = "enter" /\ LastLine(log', i) =>
        Logged(thr'[log'[i].thread]) /\ log'[i].fn = thr'[log'[i].thread].fn
  <2>. SUFFICES ASSUME NEW i \in 1..n, log'[i].site = "enter", LastLine(log', i)
                PROVE  /\ ~(thr'[log'[i].thread].site = "idle") /\ thr'[log'[i].thread].start # 0
                       /\ log'[i].fn = thr'[log'[i].thread].fn
    BY <1>1 DEF Logged, Idle
  <2>1. CASE i = n
    BY <1>1, <1>2, <2>1 DEF Logged, Idle
  <2>2. CASE i \in 1..(n - 1)
    <3>1. LastLine(log, i) /\ log[i].thread \in Threads \ {t} /\ log'[i] = log[i]
      BY <1>1, <2>2
    <3>. QED  BY <1>1, <2>2, <3>1 DEF LinesInv, Logged, Idle
  <2>. QED  BY <1>1, <2>1, <2>2
<1>8. \A u \in Threads : Logged(thr'[u]) =>
        \E i \in DOMAIN log' : LastLine(log', i) /\ log'[i] = Line(u, thr'[u].fn, "enter")
  <2>. SUFFICES ASSUME NEW u \in Threads, Logged(thr'[u])
                PROVE  \E i \in 1..n : LastLine(log', i) /\ log'[i] = Line(u, thr'[u].fn, "enter")
    BY <1>1
  <2>1. CASE u = t
    BY <1>1, <1>4, <2>1
  <2>2. CASE u # t
    <3>1. Logged(thr[u]) /\ thr'[u] = thr[u]
      BY <2>2 DEF Logged, Idle
    <3>2. PICK i \in 1..(n - 1) : LastLine(log, i) /\ log[i] = Line(u, thr[u].fn, "enter")
      BY <1>1, <3>1 DEF LinesInv
    <3>3. log[i].thread = u
      BY <3>2 DEF Line
    <3>. QED  BY <1>1, <2>2, <3>1, <3>2, <3>3
  <2>. QED  BY <2>1, <2>2
<1>. QED  BY <1>5, <1>6, <1>7, <1>8 DEF LinesInv

\* A thread leaves one.
LEMMA ExitLines ==
  ASSUME TypeOK, LinesInv, NEW t \in Threads, thr[t].fn \in Names, Logged(thr[t]),
         log' = Append(log, Line(t, thr[t].fn, "exit")),
         ~Logged(thr'[t]), \A u \in Threads \ {t} : thr'[u] = thr[u]
  PROVE  LinesInv'
<1>. DEFINE n == Len(log) + 1
<1>1. /\ n \in Nat \ {0} /\ n - 1 \in Nat /\ DOMAIN log = 1..(n - 1) /\ DOMAIN log' = 1..n
      /\ log'[n] = Line(t, thr[t].fn, "exit") /\ \A i \in 1..(n - 1) : log'[i] = log[i]
      /\ \A i, j \in 1..(n - 1) : Before(log', i, j) <=> Before(log, i, j)
      /\ \A m, j : m = n /\ j \in 1..(n - 1) =>
           (Before(log', m, j) <=> log[j].thread = t /\ LastLine(log, j))
      /\ \A i \in 1..(n - 1) : LastLine(log', i) <=> LastLine(log, i) /\ log[i].thread # t
      /\ \A i \in 1..(n - 1) : log[i].thread \in Threads
  BY LineAdded
<1>2. \A site : /\ Line(t, thr[t].fn, site).site = site /\ Line(t, thr[t].fn, site).fn = thr[t].fn
                /\ Line(t, thr[t].fn, site).thread = t
  BY DEF Line
<1>. HIDE DEF n
<1>3. \A i, j \in 1..n : Before(log', i, j) => j < i
  BY DEF Before
\* The call's enter line is the thread's last one.
<1>4. PICK k \in 1..(n - 1) : LastLine(log, k) /\ log[k] = Line(t, thr[t].fn, "enter")
  BY <1>1 DEF LinesInv
<1>5. \A j \in 1..(n - 1) : LastLine(log, j) /\ log[j].thread = t => j = k
  <2>. SUFFICES ASSUME NEW j \in 1..(n - 1), LastLine(log, j), log[j].thread = t, j # k PROVE FALSE
    OBVIOUS
  <2>1. log[k].thread = t
    BY <1>2, <1>4
  <2>2. j \in DOMAIN log /\ k \in DOMAIN log /\ log[j].thread = log[k].thread
    BY <1>1, <1>4, <2>1
  <2>3. ~(k < j)
    BY <1>4, <2>2 DEF LastLine
  <2>4. ~(j < k)
    BY <2>2 DEF LastLine
  <2>. QED  BY <1>1, <1>4, <2>3, <2>4
<1>6. \A i, j \in DOMAIN log' : Before(log', i, j) => log'[i].site # log'[j].site
  <2>. SUFFICES ASSUME NEW i \in 1..n, NEW j \in 1..n, Before(log', i, j)
                PROVE  log'[i].site # log'[j].site
    BY <1>1
  <2>1. j \in 1..(n - 1)
    BY <1>1, <1>3
  <2>2. CASE i = n
    <3>1. j = k
      BY <1>1, <1>5, <2>1, <2>2
    <3>. QED  BY <1>1, <1>2, <1>4, <2>2, <3>1
  <2>3. CASE i \in 1..(n - 1)
    BY <1>1, <2>1, <2>3 DEF LinesInv
  <2>. QED  BY <1>1, <2>2, <2>3
<1>7. \A i \in DOMAIN log' : log'[i].site = "exit" =>
        \E j \in DOMAIN log' : Before(log', i, j) /\ log'[i].fn = log'[j].fn
  <2>. SUFFICES ASSUME NEW i \in 1..n, log'[i].site = "exit"
                PROVE  \E j \in 1..(n - 1) : Before(log', i, j) /\ log'[i].fn = log'[j].fn
    BY <1>1
  <2>1. CASE i = n
    BY <1>1, <1>2, <1>4, <2>1
  <2>2. CASE i \in 1..(n - 1)
    <3>1. PICK j \in 1..(n - 1) : Before(log, i, j) /\ log[i].fn = log[j].fn
      BY <1>1, <2>2 DEF LinesInv
    <3>. QED  BY <1>1, <2>2, <3>1
  <2>. QED  BY <1>1, <2>1, <2>2
<1>8. \A i \in DOMAIN log' : log'[i].site = "enter" /\ LastLine(log', i) =>
        Logged(thr'[log'[i].thread]) /\ log'[i].fn = thr'[log'[i].thread].fn
  <2>. SUFFICES ASSUME NEW i \in 1..n, log'[i].site = "enter", LastLine(log', i)
                PROVE  /\ ~(thr'[log'[i].thread].site = "idle") /\ thr'[log'[i].thread].start # 0
                       /\ log'[i].fn = thr'[log'[i].thread].fn
    BY <1>1 DEF Logged, Idle
  <2>1. i \in 1..(n - 1)
    BY <1>1, <1>2
  <2>2. LastLine(log, i) /\ log[i].thread \in Threads \ {t} /\ log'[i] = log[i]
    BY <1>1, <2>1
  <2>. QED  BY <1>1, <2>1, <2>2 DEF LinesInv, Logged, Idle
<1>9. \A u \in Threads : Logged(thr'[u]) =>
        \E i \in DOMAIN log' : LastLine(log', i) /\ log'[i] = Line(u, thr'[u].fn, "enter")
  <2>. SUFFICES ASSUME NEW u \in Threads, Logged(thr'[u])
                PROVE  \E i \in 1..n : LastLine(log', i) /\ log'[i] = Line(u, thr'[u].fn, "enter")
    BY <1>1
  <2>1. u # t
    BY DEF Logged, Idle
  <2>2. Logged(thr[u]) /\ thr'[u] = thr[u]
    BY <2>1 DEF Logged, Idle
  <2>3. PICK i \in 1..(n - 1) : LastLine(log, i) /\ log[i] = Line(u, thr[u].fn, "enter")
    BY <1>1, <2>2 DEF LinesInv
  <2>4. log[i].thread = u
    BY <2>3 DEF Line
  <2>. QED  BY <1>1, <2>1, <2>2, <2>3, <2>4
<1>. QED  BY <1>6, <1>7, <1>8, <1>9 DEF LinesInv

\* Steps that log nothing, and no thread's call but one that is not collected comes or goes.
LEMMA SameLines ==
  ASSUME LinesInv, log' = log,
         \A t \in Threads : (Logged(thr'[t]) <=> Logged(thr[t])) /\ (Logged(thr[t]) => thr'[t].fn = thr[t].fn),
         \A i \in DOMAIN log : log[i].thread \in Threads
  PROVE  LinesInv'
<1>1. \A i, j : (Before(log', i, j) <=> Before(log, i, j)) /\ (LastLine(log', i) <=> LastLine(log, i))
  BY DEF Before, LastLine
<1>2. \A i \in DOMAIN log' : log'[i].site = "enter" /\ LastLine(log', i) =>
        Logged(thr'[log'[i].thread]) /\ log'[i].fn = thr'[log'[i].thread].fn
  <2>. SUFFICES ASSUME NEW i \in DOMAIN log, log[i].site = "enter", LastLine(log, i)
                PROVE  /\ ~(thr'[log[i].thread].site = "idle") /\ thr'[log[i].thread].start # 0
                       /\ log[i].fn = thr'[log[i].thread].fn
    BY <1>1 DEF Logged, Idle
  <2>1. PICK t \in Threads : t = log[i].thread
    OBVIOUS
  <2>2. Logged(thr[t]) /\ log[i].fn = thr[t].fn
    BY <2>1 DEF LinesInv
  <2>. QED  BY <2>1, <2>2 DEF Logged, Idle
<1>. QED  BY <1>1, <1>2 DEF LinesInv

-----------------------------------------------------------------------------
(* What a step does to the calls, seen from the log and the table.         *)

\* The start time of a call is that of its entry, if it has one, and one in a
\* wrapper has.
CallTimed ==
  \A t \in Threads :
    /\ thr[t].start \in {0, thr[t].entered}
    /\ thr[t].site \in {"resolve", "end"} => thr[t].start # 0 /\ thr[t].fn \in Extensions
    /\ thr[t].site \in {"enqueue", "exit"} => thr[t].fn \in Functions

\* A call that is logged begins, ...
Begins(t, f) ==
  /\ ~Logged(thr[t]) /\ Logged(thr'[t]) /\ thr'[t].fn = f /\ \A u \in Threads \ {t} : thr'[u] = thr[u]
  /\ log' = Append(log, Line(t, f, "enter"))
  /\ UNCHANGED <<function_info_map_, calls>>

\* ... one that is not begins, or a call goes on, ...
GoesOn ==
  /\ \A t \in Threads : (Logged(thr'[t]) <=> Logged(thr[t])) /\ (Logged(thr[t]) => thr'[t].fn = thr[t].fn)
  /\ UNCHANGED <<function_info_map_, calls, log>>

\* ... a logged one ends ...
Ends(t, id) ==
  /\ Logged(thr[t]) /\ thr[t].fn \in Names /\ ~Logged(thr'[t]) /\ \A u \in Threads \ {t} : thr'[u] = thr[u]
  /\ log' = Append(log, Line(t, thr[t].fn, "exit"))
  /\ calls' = Append(calls, Finished(t, id))
  /\ function_info_map_' = AddFunctionTime(thr[t].fn, Elapsed(t))
  /\ thr[t].start = thr[t].entered /\ (thr[t].wanted \/ thr[t].fn \in Extensions)

\* ... and one that is not.
EndsUnseen(t, id) ==
  /\ ~Idle(t) /\ thr[t].start = 0 /\ ~Logged(thr'[t]) /\ \A u \in Threads \ {t} : thr'[u] = thr[u]
  /\ calls' = Append(calls, Finished(t, id))
  /\ UNCHANGED <<function_info_map_, log>>
  /\ ~thr[t].wanted /\ thr[t].fn \in Functions

LEMMA StepKinds ==
  ASSUME IInv, CallTimed, [Next]_vars
  PROVE  \/ \E t \in Threads, f \in Names : Begins(t, f)
         \/ GoesOn
         \/ \E t \in Threads, id \in Nat : Ends(t, id)
         \/ \E t \in Threads, id \in Nat : EndsUnseen(t, id)
<1>0. thr \in [Threads -> CallType] /\ clock # 0
  BY DEF IInv, TypeOK
<1>1. ASSUME NEW t \in Threads, NEW f \in Functions, NEW of, NEW caller,
             thr[t].site \in {"idle", "name"}, Enter(t, f, of, caller)
      PROVE  Begins(t, f) \/ GoesOn
  <2>0. ~Logged(thr[t])
    BY <1>1 DEF IInv, CallKept, Logged
  <2>1. /\ UNCHANGED <<function_info_map_, calls>> /\ ~Inactive(t)
        /\ \A u \in Threads \ {t} : thr'[u] = thr[u]
        /\ ~(thr'[t].site = "idle") /\ thr'[t].fn = f
        /\ thr'[t].start = IF enabled /\ ~Inactive(t) THEN clock ELSE 0
        /\ log' = IF enabled /\ ~Inactive(t) THEN Append(log, Line(t, f, "enter")) ELSE log
    BY <1>0, <1>1 DEF Enter, NoCall, IInv, GuardHeld, Inactive
  <2>2. CASE enabled
    BY <1>0, <2>0, <2>1, <2>2 DEF Begins, Logged
  <2>3. CASE ~enabled
    BY <2>0, <2>1, <2>3 DEF GoesOn, Logged
  <2>. QED  BY <2>2, <2>3
<1>a. ASSUME NEW t \in Threads, NEW f \in Naming, EnterNaming(t, f) PROVE GoesOn
  <2>1. /\ thr'[t].start = 0 /\ \A u \in Threads \ {t} : thr'[u] = thr[u]
        /\ UNCHANGED <<function_info_map_, calls, log>> /\ thr[t].site = "idle"
    BY <1>0, <1>a DEF EnterNaming, Entering, NoCall, Idle
  <2>. QED  BY <2>1 DEF GoesOn, Logged
<1>b. ASSUME NEW t \in Threads, EndNaming(t)
      PROVE  thr[t].fn \in Functions /\ Begins(t, thr[t].fn)
  <2>1. /\ thr'[t].start = clock /\ thr'[t].fn = thr[t].fn
        /\ thr'[t].site \in {"enqueue", "exit"}
        /\ \A u \in Threads \ {t} : thr'[u] = thr[u]
        /\ log' = Append(log, Line(t, thr[t].fn, "enter"))
        /\ UNCHANGED <<function_info_map_, calls>> /\ thr[t].site = "named"
    BY <1>0, <1>b DEF EndNaming, NoCall
  <2>2. thr[t].start = 0 /\ thr[t].fn \in Functions
    BY <2>1, FunctionAssumption DEF IInv, CallKept
  <2>. QED  BY <1>0, <2>1, <2>2 DEF Begins, Logged
<1>2. ASSUME NEW t \in Threads, ExitEnqueue(t) PROVE GoesOn
  <2>1. /\ UNCHANGED <<function_info_map_, calls, log>> /\ thr[t].site = "enqueue"
        /\ \A u \in Threads \ {t} : thr'[u] = thr[u]
        /\ thr'[t].site = "exit" /\ thr'[t].start = thr[t].start /\ thr'[t].fn = thr[t].fn
    BY <1>0, <1>2 DEF ExitEnqueue, CallType
  <2>. QED  BY <2>1 DEF GoesOn, Logged, Idle
<1>3. ASSUME NEW t \in Threads, ExitFunction(t)
      PROVE  \E id \in Nat : Ends(t, id) \/ EndsUnseen(t, id)
  <2>1. /\ thr[t].site = "exit" /\ thr' = [thr EXCEPT ![t] = Return(t)] /\ ReportedId(t) \in Nat
        /\ thr[t].fn \in Functions /\ thr[t].start \in {0, thr[t].entered}
        /\ thr[t].start # 0 <=> thr[t].wanted
    BY <1>3 DEF ExitFunction, ReportedId, IInv, TypeOK, CallTimed, CallKept
  <2>2. ~Logged(thr'[t]) /\ ~Idle(t) /\ \A u \in Threads \ {t} : thr'[u] = thr[u]
    BY <1>0, <2>1, ReturnType DEF Idle, Logged, IInv
  <2>3. CASE Collected(t)
    BY <1>3, <2>1, <2>2, <2>3 DEF ExitFunction, Ends, Collected, Logged, Names
  <2>4. CASE ~Collected(t)
    <3>1. EndsUnseen(t, 0)
      BY <1>3, <2>1, <2>2, <2>4 DEF ExitFunction, EndsUnseen, Collected
    <3>. QED  BY <3>1
  <2>. QED  BY <2>3, <2>4
<1>4. ASSUME NEW t \in Threads, NEW f \in Extensions, BeginExtension(t, f) PROVE Begins(t, f)
  <2>1. /\ \A u \in Threads \ {t} : thr'[u] = thr[u]
        /\ ~(thr'[t].site = "idle") /\ thr'[t].fn = f /\ thr'[t].start = clock
    BY <1>0, <1>4 DEF BeginExtension, NoCall
  <2>. QED  BY <1>0, <1>4, <2>1 DEF BeginExtension, Begins, Logged, Idle
<1>5. ASSUME NEW t \in Threads, GetFunctionAddress(t) PROVE GoesOn
  <2>1. Inactive(t)
    BY <1>5 DEF GetFunctionAddress, Inactive, IInv, GuardHeld
  <2>2. /\ UNCHANGED <<function_info_map_, calls, log>> /\ thr[t].site = "resolve"
        /\ \A u \in Threads \ {t} : thr'[u] = thr[u]
        /\ thr'[t].site = "end" /\ thr'[t].start = thr[t].start /\ thr'[t].fn = thr[t].fn
    BY <1>0, <1>5, <2>1 DEF GetFunctionAddress, CallType
  <2>. QED  BY <2>2 DEF GoesOn, Logged, Idle
<1>6. ASSUME NEW t \in Threads, EndExtension(t) PROVE Ends(t, 0)
  <2>1. ~Logged(thr'[t]) /\ ~Idle(t) /\ \A u \in Threads \ {t} : thr'[u] = thr[u]
    BY <1>0, <1>6 DEF EndExtension, Idle, Logged, NoCall
  <2>2. /\ thr[t].start # 0 /\ thr[t].fn \in Extensions /\ thr[t].start = thr[t].entered
    BY <1>6 DEF EndExtension, CallTimed
  <2>. QED  BY <1>6, <2>1, <2>2 DEF EndExtension, Ends, Logged, Names
<1>7. CASE Tick \/ Toggle \/ UNCHANGED vars
  BY <1>7 DEF Tick, Toggle, vars, GoesOn, Logged, Idle
<1>8. Functions \subseteq Names /\ Extensions \subseteq Names /\ 0 \in Nat
  BY DEF Names
<1>9. ASSUME NEW t \in Threads, NEW f \in Functions, NEW of, EnterFunction(t, f, of)
      PROVE  Begins(t, f) \/ GoesOn
  BY <1>1, <1>9 DEF EnterFunction, Idle
<1>10. ASSUME NEW t \in Threads, QueryName(t)
       PROVE  Begins(t, KernelInfo) \/ GoesOn
  BY <1>1, <1>10, FunctionAssumption DEF QueryName
<1>11. KernelInfo \in Names
  BY <1>8, FunctionAssumption
<1>. QED  BY <1>9, <1>a, <1>10, <1>b, <1>2, <1>3, <1>4, <1>5, <1>6, <1>7, <1>8, <1>11 DEF Next

LEMMA NextTimed == IInv /\ CallTimed /\ [Next]_vars => CallTimed'
<1>. SUFFICES ASSUME IInv, CallTimed, [Next]_vars PROVE CallTimed'
  OBVIOUS
<1>0. thr \in [Threads -> CallType] /\ clock # 0
  BY DEF IInv, TypeOK
<1>1. ASSUME NEW t \in Threads, NEW f \in Functions, NEW of, NEW caller, Enter(t, f, of, caller)
      PROVE  CallTimed'
  BY <1>0, <1>1 DEF Enter, NoCall, CallTimed
<1>a. ASSUME NEW t \in Threads, NEW f \in Naming, EnterNaming(t, f) PROVE CallTimed'
  BY <1>0, <1>a DEF EnterNaming, Entering, NoCall, CallTimed
<1>b. ASSUME NEW t \in Threads, EndNaming(t) PROVE CallTimed'
  <2>1. thr[t].fn \in Functions
    BY <1>b, FunctionAssumption DEF EndNaming, IInv, CallKept
  <2>. QED  BY <1>0, <1>b, <2>1 DEF EndNaming, NoCall, CallTimed
<1>2. ASSUME NEW t \in Threads, ExitEnqueue(t) PROVE CallTimed'
  BY <1>0, <1>2 DEF ExitEnqueue, CallType, CallTimed
<1>3. ASSUME NEW t \in Threads, ExitFunction(t) PROVE CallTimed'
  <2>1. /\ thr' = [thr EXCEPT ![t] = Return(t)] /\ Return(t).start = 0
        /\ Return(t).site \in {"idle", "named"}
    BY <1>3, ReturnType DEF ExitFunction, IInv
  <2>. HIDE DEF Return
  <2>. QED  BY <1>0, <2>1 DEF CallTimed
<1>4. ASSUME NEW t \in Threads, NEW f \in Extensions, BeginExtension(t, f) PROVE CallTimed'
  BY <1>0, <1>4 DEF BeginExtension, NoCall, CallTimed
<1>5. ASSUME NEW t \in Threads, GetFunctionAddress(t) PROVE CallTimed'
  BY <1>0, <1>5 DEF GetFunctionAddress, CallType, CallTimed
<1>6. ASSUME NEW t \in Threads, EndExtension(t) PROVE CallTimed'
  BY <1>0, <1>6 DEF EndExtension, NoCall, CallTimed
<1>7. CASE Tick \/ Toggle \/ UNCHANGED vars
  BY <1>7 DEF Tick, Toggle, vars, CallTimed
<1>8. ASSUME NEW t \in Threads, NEW f \in Functions, NEW of, EnterFunction(t, f, of)
      PROVE  CallTimed'
  BY <1>1, <1>8 DEF EnterFunction
<1>9. ASSUME NEW t \in Threads, QueryName(t) PROVE CallTimed'
  BY <1>1, <1>9, FunctionAssumption DEF QueryName
<1>. QED  BY <1>8, <1>a, <1>9, <1>b, <1>2, <1>3, <1>4, <1>5, <1>6, <1>7 DEF Next

LEMMA NextLines == IInv /\ CallTimed /\ LinesInv /\ [Next]_vars => LinesInv'
<1>. SUFFICES ASSUME IInv, CallTimed, LinesInv, [Next]_vars PROVE LinesInv'
  OBVIOUS
<1>0. TypeOK /\ \A i \in DOMAIN log : log[i].thread \in Threads
  BY LineTypes DEF IInv
<1>1. ASSUME NEW t \in Threads, NEW f \in Names, Begins(t, f) PROVE LinesInv'
  BY <1>0, <1>1, EnterLines DEF Begins
<1>2. CASE GoesOn
  BY <1>0, <1>2, SameLines DEF GoesOn
<1>3. ASSUME NEW t \in Threads, NEW id \in Nat, Ends(t, id) PROVE LinesInv'
  BY <1>0, <1>3, ExitLines DEF Ends
<1>4. ASSUME NEW t \in Threads, NEW id \in Nat, EndsUnseen(t, id) PROVE LinesInv'
  <2>1. \A u \in Threads : (Logged(thr'[u]) <=> Logged(thr[u])) /\ (Logged(thr[u]) => thr'[u].fn = thr[u].fn)
    BY <1>4 DEF EndsUnseen, Logged
  <2>. QED  BY <1>0, <1>4, <2>1, SameLines DEF EndsUnseen
<1>. QED  BY <1>1, <1>2, <1>3, <1>4, StepKinds

LEMMA InitTimed == Init => CallTimed /\ LinesInv
  BY DEF Init, NoCall, CallTimed, LinesInv, Logged, Idle

LEMMA TimedInvariance == Spec => [](IInv /\ CallTimed)
  BY InitInv, StepInv, InitTimed, NextTimed, PTL DEF Spec

\* In the log every enter line is followed by the exit line of the same call, or
\* it is the last line of its thread, which is still in the call; every exit line
\* follows the enter line of its call.
THEOREM LinesPaired == Spec => []LogPaired
<1>1. LinesInv => LogPaired
  BY DEF LinesInv, LogPaired, Logged, Idle
<1>2. Init => LinesInv
  BY InitTimed
<1>. QED  BY <1>1, <1>2, NextLines, TimedInvariance, PTL DEF Spec

-----------------------------------------------------------------------------
(* The table of function times.                                            *)

NatOrder == {pair \in Nat \X Nat : pair[1] < pair[2]}

LEMMA LeastNat ==
  ASSUME NEW S, S \subseteq Nat, S # {}
  PROVE  \E m \in S : \A n \in S : m <= n
<1>1. IsWellFoundedOn(NatOrder, Nat)
  BY NatLessThanWellFounded DEF OpToRel, NatOrder
<1>2. PICK m \in S : \A n \in S : ~(<<n, m>> \in NatOrder)
  BY <1>1, WFMin, Zenon
<1>3. \A n \in S : ~(n < m)
  BY <1>2 DEF NatOrder
<1>. QED  BY <1>3

\* sums[n] is what the first n calls add to the total time of f.
Sums(f, sums) ==
  /\ sums \in [0..Len(calls) -> Nat]
  /\ \A n \in 0..Len(calls) :
       sums[n] = IF n = 0 THEN 0
                 ELSE sums[n - 1] + (IF n \in Timed(f) THEN calls[n].time ELSE 0)

\* There is one such function: the calls of which another says something else have a first.
LEMMA TotalIsSum ==
  ASSUME TypeOK, NEW f, NEW sums, Sums(f, sums)
  PROVE  TotalTime(f) = sums[Len(calls)]
<1>. DEFINE Added(n) == IF n \in Timed(f) THEN calls[n].time ELSE 0
            total == CHOOSE g : g = [n \in 0..Len(calls) |->
                                       IF n = 0 THEN 0 ELSE g[n - 1] + Added(n)]
            wrong == {n \in 0..Len(calls) : total[n] # sums[n]}
<1>1. TotalTime(f) = total[Len(calls)]
  BY DEF TotalTime
<1>2. /\ sums \in [0..Len(calls) -> Nat]
      /\ \A n \in 0..Len(calls) : sums[n] = IF n = 0 THEN 0 ELSE sums[n - 1] + Added(n)
  BY DEF Sums
<1>3. Len(calls) \in Nat
  BY DEF TypeOK
<1>. HIDE DEF Added
<1>4. sums = [n \in 0..Len(calls) |-> IF n = 0 THEN 0 ELSE sums[n - 1] + Added(n)]
  BY <1>2
<1>5. total = [n \in 0..Len(calls) |-> IF n = 0 THEN 0 ELSE total[n - 1] + Added(n)]
  BY <1>4, Zenon
<1>. HIDE DEF total
<1>6. wrong = {}
  <2>. SUFFICES ASSUME wrong # {} PROVE FALSE
    OBVIOUS
  <2>0. wrong \subseteq Nat
    BY <1>3
  <2>. HIDE DEF wrong
  <2>1. PICK m \in wrong : \A n \in wrong : m <= n
    BY <2>0, LeastNat
  <2>2. m \in 0..Len(calls) /\ total[m] # sums[m]
    BY DEF wrong
  <2>3. m # 0
    BY <1>2, <1>5, <2>2
  <2>4. m - 1 \in 0..Len(calls) /\ m - 1 \notin wrong
    BY <1>3, <2>1, <2>2, <2>3
  <2>5. total[m - 1] = sums[m - 1]
    BY <2>4 DEF wrong
  <2>. QED  BY <1>2, <1>5, <2>2, <2>3, <2>5
<1>. QED  BY <1>1, <1>3, <1>6

\* What the table has of f is what its calls say.
Summed(f) ==
  LET info == function_info_map_[f]
  IN  /\ IsFiniteSet(Timed(f)) /\ info.call_count = Cardinality(Timed(f))
      /\ Timed(f) = {} => info = NoInfo
      /\ \A i \in Timed(f) :
           info.min_time <= calls[i].time /\ calls[i].time <= info.max_time
      /\ Timed(f) # {} => \E i, j \in Timed(f) :
           calls[i].time = info.min_time /\ calls[j].time = info.max_time
      /\ \E sums : Sums(f, sums) /\ sums[Len(calls)] = info.total_time

TableInv == \A f \in Names : Summed(f)

\* Minimum and maximum of a set, where there are any.
LEMMA MinMaxOf ==
  ASSUME NEW S \in SUBSET Nat, NEW m \in S, NEW n \in S, \A k \in S : m <= k /\ k <= n
  PROVE  Min(S) = m /\ Max(S) = n
<1>1. Min(S) \in S /\ \A k \in S : Min(S) <= k
  BY DEF Min
<1>2. Max(S) \in S /\ \A k \in S : Max(S) >= k
  BY DEF Max
<1>3. Min(S) \in Nat /\ Min(S) <= m /\ m <= Min(S)
  BY <1>1
<1>4. Max(S) \in Nat /\ Max(S) <= n /\ n <= Max(S)
  BY <1>2
<1>. QED  BY <1>3, <1>4

\* The time of a call.
LEMMA CallTimes ==
  ASSUME TypeOK, NEW f
  PROVE  /\ Len(calls) \in Nat /\ DOMAIN calls = 1..Len(calls)
         /\ \A i \in 1..Len(calls) : calls[i].time \in Nat
         /\ Timed(f) \subseteq 1..Len(calls)
<1>. DEFINE C == [fn : Names, wanted : BOOLEAN, time : Nat, own : Nat, id : Nat]
<1>1. calls \in Seq(C)
  BY DEF TypeOK
<1>2. Len(calls) \in Nat /\ DOMAIN calls = 1..Len(calls) /\ \A i \in 1..Len(calls) : calls[i] \in C
  <2>. HIDE DEF C
  <2>. QED  BY <1>1, ElementOfSeq, LenProperties
<1>. QED  BY <1>2 DEF Timed

LEMMA TableSums == TypeOK /\ TableInv => Summarized
<1>. SUFFICES ASSUME TypeOK, TableInv, NEW f \in Names
              PROVE  LET times == {calls[i].time : i \in Timed(f)}
                     IN  function_info_map_[f] =
                           IF times = {} THEN NoInfo
                           ELSE [total_time |-> TotalTime(f), min_time |-> Min(times),
                                 max_time |-> Max(times), call_count |-> Cardinality(Timed(f))]
  BY DEF Summarized
<1>. DEFINE times == {calls[i].time : i \in Timed(f)}
            info == function_info_map_[f]
<1>1. /\ info.call_count = Cardinality(Timed(f))
      /\ Timed(f) = {} => info = NoInfo
      /\ \A i \in Timed(f) : info.min_time <= calls[i].time /\ calls[i].time <= info.max_time
      /\ Timed(f) # {} => \E i, j \in Timed(f) :
           calls[i].time = info.min_time /\ calls[j].time = info.max_time
  BY DEF TableInv, Summed
<1>2. info \in [total_time : Nat, min_time : Nat, max_time : Nat, call_count : Nat]
  BY DEF TypeOK
<1>3. TotalTime(f) = info.total_time
  <2>1. PICK sums : Sums(f, sums) /\ sums[Len(calls)] = info.total_time
    BY DEF TableInv, Summed
  <2>. QED  BY <2>1, TotalIsSum
<1>4. CASE Timed(f) = {}
  BY <1>1, <1>4
<1>5. CASE Timed(f) # {}
  <2>1. times \subseteq Nat
    BY CallTimes
  <2>2. info.min_time \in times /\ info.max_time \in times
    BY <1>1, <1>5
  <2>3. \A k \in times : info.min_time <= k /\ k <= info.max_time
    BY <1>1
  <2>. HIDE DEF times, info
  <2>4. Min(times) = info.min_time /\ Max(times) = info.max_time
    BY <2>1, <2>2, <2>3, MinMaxOf
  <2>5. info = [total_time |-> TotalTime(f), min_time |-> Min(times),
                max_time |-> Max(times), call_count |-> Cardinality(Timed(f))]
    BY <1>1, <1>2, <1>3, <2>4
  <2>6. times # {}
    BY <2>2
  <2>. QED  BY <2>5, <2>6 DEF times, info
<1>. QED  BY <1>4, <1>5

\* A finished call of c is appended.
LEMMA CallAdded ==
  ASSUME TypeOK, NEW c \in [fn : Names, wanted : BOOLEAN, time : Nat, own : Nat, id : Nat],
         calls' = Append(calls, c), NEW f \in Names
  PROVE  /\ Len(calls) \in Nat /\ DOMAIN calls = 1..Len(calls) /\ Len(calls') = Len(calls) + 1
         /\ calls'[Len(calls) + 1] = c /\ \A i \in 1..Len(calls) : calls'[i] = calls[i]
         /\ Timed(f) \subseteq 1..Len(calls)
         /\ Timed(f)' = Timed(f) \cup
              (IF c.fn = f /\ (c.wanted \/ f \in Extensions) THEN {Len(calls) + 1} ELSE {})
<1>. DEFINE C == [fn : Names, wanted : BOOLEAN, time : Nat, own : Nat, id : Nat]
<1>1. calls \in Seq(C) /\ c \in C
  BY DEF TypeOK
<1>2. /\ Len(calls) \in Nat /\ DOMAIN calls = 1..Len(calls) /\ Len(calls') = Len(calls) + 1
      /\ DOMAIN calls' = 1..Len(calls) + 1
      /\ calls'[Len(calls) + 1] = c /\ \A i \in 1..Len(calls) : calls'[i] = calls[i]
  <2>. HIDE DEF C
  <2>. QED  BY <1>1, AppendProperties, LenProperties
<1>3. Timed(f) \subseteq 1..Len(calls)
  BY <1>2 DEF Timed
<1>4. Timed(f)' = Timed(f) \cup
        (IF c.fn = f /\ (c.wanted \/ f \in Extensions) THEN {Len(calls) + 1} ELSE {})
  <2>1. \A i \in 1..Len(calls) : i \in Timed(f)' <=> i \in Timed(f)
    BY <1>2 DEF Timed
  <2>2. \A i : i = Len(calls) + 1 =>
          (i \in Timed(f)' <=> c.fn = f /\ (c.wanted \/ f \in Extensions))
    BY <1>2 DEF Timed
  <2>3. Timed(f)' \subseteq 1..Len(calls) + 1
    BY <1>2 DEF Timed
  <2>. QED  BY <1>2, <1>3, <2>1, <2>2, <2>3
<1>. QED  BY <1>2, <1>3, <1>4

LEMMA SumsAdded ==
  ASSUME TypeOK, NEW c \in [fn : Names, wanted : BOOLEAN, time : Nat, own : Nat, id : Nat],
         calls' = Append(calls, c), NEW f \in Names, NEW sums, Sums(f, sums)
  PROVE  \E more : /\ Sums(f, more)'
                   /\ more[Len(calls')] = sums[Len(calls)]
                        + (IF c.fn = f /\ (c.wanted \/ f \in Extensions) THEN c.time ELSE 0)
<1>. DEFINE k == Len(calls)
            add == IF c.fn = f /\ (c.wanted \/ f \in Extensions) THEN c.time ELSE 0
<1>1. /\ k \in Nat /\ Len(calls') = k + 1 /\ Timed(f) \subseteq 1..k
      /\ calls'[k + 1] = c /\ \A i \in 1..k : calls'[i] = calls[i]
      /\ Timed(f)' = Timed(f) \cup
           (IF c.fn = f /\ (c.wanted \/ f \in Extensions) THEN {k + 1} ELSE {})
  BY CallAdded
<1>2. /\ sums \in [0..k -> Nat]
      /\ \A n \in 0..k : sums[n] = IF n = 0 THEN 0
           ELSE sums[n - 1] + (IF n \in Timed(f) THEN calls[n].time ELSE 0)
  BY DEF Sums
<1>3. add \in Nat
  OBVIOUS
<1>4. add = IF k + 1 \in Timed(f)' THEN calls'[k + 1].time ELSE 0
  BY <1>1
<1>5. \A n \in 1..k : n \in Timed(f)' <=> n \in Timed(f)
  BY <1>1
<1>. HIDE DEF add, k
<1>6. PICK more : /\ more \in [0..k + 1 -> Nat] /\ more[k + 1] = sums[k] + add
                  /\ \A n \in 0..k : more[n] = sums[n]
  <2>. DEFINE g == [n \in 0..k + 1 |-> IF n = k + 1 THEN sums[k] + add ELSE sums[n]]
  <2>1. g \in [0..k + 1 -> Nat] /\ g[k + 1] = sums[k] + add /\ \A n \in 0..k : g[n] = sums[n]
    BY <1>1, <1>2, <1>3
  <2>. HIDE DEF g
  <2>. QED  BY <2>1
<1>7. \A n \in 0..k + 1 : more[n] = IF n = 0 THEN 0
        ELSE more[n - 1] + (IF n \in Timed(f)' THEN calls'[n].time ELSE 0)
  <2>. SUFFICES ASSUME NEW n \in 0..k + 1
                PROVE  more[n] = IF n = 0 THEN 0
                         ELSE more[n - 1] + (IF n \in Timed(f)' THEN calls'[n].time ELSE 0)
    OBVIOUS
  <2>1. CASE n = 0
    <3>1. 0 \in 0..k
      BY <1>1
    <3>2. sums[0] = IF 0 = 0 THEN 0 ELSE sums[0 - 1] + (IF 0 \in Timed(f) THEN calls[0].time ELSE 0)
      BY <1>2, <3>1
    <3>3. more[0] = sums[0]
      BY <1>6, <3>1
    <3>. QED  BY <2>1, <3>2, <3>3
  <2>2. CASE n \in 1..k
    <3>1. more[n] = sums[n] /\ more[n - 1] = sums[n - 1] /\ calls'[n] = calls[n]
      BY <1>1, <1>6, <2>2
    <3>2. n # 0 /\ n \in 0..k
      BY <2>2
    <3>3. sums[n] = sums[n - 1] + (IF n \in Timed(f) THEN calls[n].time ELSE 0)
      BY <1>2, <3>2
    <3>4. n \in Timed(f)' <=> n \in Timed(f)
      BY <1>5, <2>2
    <3>. QED  BY <3>1, <3>2, <3>3, <3>4
  <2>3. CASE n = k + 1
    <3>1. more[n - 1] = sums[k] /\ n # 0
      BY <1>1, <1>6, <2>3
    <3>. QED  BY <1>4, <1>6, <2>3, <3>1
  <2>. QED  BY <1>1, <2>1, <2>2, <2>3
<1>8. Sums(f, more)'
  BY <1>1, <1>6, <1>7 DEF Sums
<1>. QED  BY <1>1, <1>6, <1>8 DEF add, k

\* A call that is not one of f, or not timed, leaves what there is of f, ...
LEMMA NotCounted ==
  ASSUME TypeOK, NEW c \in [fn : Names, wanted : BOOLEAN, time : Nat, own : Nat, id : Nat],
         calls' = Append(calls, c), NEW f \in Names, Summed(f),
         ~(c.fn = f /\ (c.wanted \/ f \in Extensions)),
         function_info_map_'[f] = function_info_map_[f]
  PROVE  Summed(f)'
<1>1. /\ Timed(f)' = Timed(f) /\ Timed(f) \subseteq 1..Len(calls)
      /\ \A i \in 1..Len(calls) : calls'[i] = calls[i]
  BY CallAdded
<1>2. \E sums : Sums(f, sums)' /\ sums[Len(calls')] = function_info_map_'[f].total_time
  <2>1. PICK sums : Sums(f, sums) /\ sums[Len(calls)] = function_info_map_[f].total_time
    BY DEF Summed
  <2>2. sums[Len(calls)] \in Nat /\ Len(calls) \in Nat
    BY <2>1 DEF Sums, TypeOK
  <2>. QED  BY <2>1, <2>2, SumsAdded
<1>. QED  BY <1>1, <1>2 DEF Summed

LEMMA MinMaxPair ==
  ASSUME NEW m \in Nat, NEW n \in Nat
  PROVE  /\ Min({m, n}) = IF m <= n THEN m ELSE n
         /\ Max({m, n}) = IF m <= n THEN n ELSE m
<1>. DEFINE S == {m, n}
<1>1. S \in SUBSET Nat /\ m \in S /\ n \in S /\ \A k \in S : k \in {m, n}
  OBVIOUS
<1>. HIDE DEF S
<1>2. CASE m <= n
  <2>1. \A k \in S : m <= k /\ k <= n
    BY <1>1, <1>2
  <2>2. Min(S) = m /\ Max(S) = n
    BY <1>1, <2>1, MinMaxOf
  <2>. QED  BY <1>2, <2>2 DEF S
<1>3. CASE ~(m <= n)
  <2>1. \A k \in S : n <= k /\ k <= m
    BY <1>1, <1>3
  <2>2. Min(S) = n /\ Max(S) = m
    BY <1>1, <2>1, MinMaxOf
  <2>. QED  BY <1>3, <2>2 DEF S
<1>. QED  BY <1>2, <1>3

\* ... and AddFunctionTime counts one that is.
LEMMA Counted ==
  ASSUME TypeOK, NEW c \in [fn : Names, wanted : BOOLEAN, time : Nat, own : Nat, id : Nat],
         calls' = Append(calls, c), NEW f \in Names, Summed(f),
         c.fn = f /\ (c.wanted \/ f \in Extensions),
         function_info_map_' = AddFunctionTime(f, c.time)
  PROVE  Summed(f)'
<1>. DEFINE k == Len(calls) + 1
            old == function_info_map_[f]
            new == function_info_map_'[f]
<1>1. /\ Timed(f)' = Timed(f) \cup {k} /\ Timed(f) \subseteq 1..(k - 1) /\ k - 1 \in Nat
      /\ calls'[k] = c /\ \A i \in 1..(k - 1) : calls'[i] = calls[i]
  BY CallAdded
<1>2. old \in [total_time : Nat, min_time : Nat, max_time : Nat, call_count : Nat] /\ c.time \in Nat
  BY DEF TypeOK
<1>3. /\ IsFiniteSet(Timed(f)) /\ old.call_count = Cardinality(Timed(f))
      /\ Timed(f) = {} => old = NoInfo
      /\ \A i \in Timed(f) : old.min_time <= calls[i].time /\ calls[i].time <= old.max_time
      /\ Timed(f) # {} => \E i, j \in Timed(f) :
           calls[i].time = old.min_time /\ calls[j].time = old.max_time
  BY DEF Summed
<1>4. old.call_count = 0 <=> Timed(f) = {}
  BY <1>3, FS_EmptySet
<1>5. /\ Timed(f) = {} => new = [total_time |-> c.time, min_time |-> c.time, max_time |-> c.time,
                                 call_count |-> 1]
      /\ Timed(f) # {} => new = [total_time |-> old.total_time + c.time,
                                 min_time |-> Min({old.min_time, c.time}),
                                 max_time |-> Max({old.max_time, c.time}),
                                 call_count |-> old.call_count + 1]
  <2>1. f \in DOMAIN function_info_map_
    BY DEF TypeOK
  <2>. QED  BY <1>4, <2>1 DEF AddFunctionTime
<1>6. \A i \in Timed(f) : calls[i].time \in Nat
  BY CallTimes
<1>7. /\ Min({old.min_time, c.time}) = IF old.min_time <= c.time THEN old.min_time ELSE c.time
      /\ Max({old.max_time, c.time}) = IF old.max_time <= c.time THEN c.time ELSE old.max_time
  BY <1>2, MinMaxPair
<1>8. /\ new.call_count = old.call_count + 1 /\ new.total_time = old.total_time + c.time
      /\ Timed(f) = {} => new.min_time = c.time /\ new.max_time = c.time
      /\ Timed(f) # {} =>
           /\ new.min_time = IF old.min_time <= c.time THEN old.min_time ELSE c.time
           /\ new.max_time = IF old.max_time <= c.time THEN c.time ELSE old.max_time
  BY <1>2, <1>3, <1>5, <1>7 DEF NoInfo
<1>9. IsFiniteSet(Timed(f)') /\ new.call_count = Cardinality(Timed(f)')
  BY <1>1, <1>3, <1>8, FS_AddElement
<1>10. \E sums : Sums(f, sums)' /\ sums[Len(calls')] = new.total_time
  <2>1. PICK sums : Sums(f, sums) /\ sums[Len(calls)] = old.total_time
    BY DEF Summed
  <2>. QED  BY <1>8, <2>1, SumsAdded
<1>. HIDE DEF k, old, new
<1>11. \A i \in Timed(f) : calls'[i] = calls[i]
  BY <1>1
<1>12. \A i \in Timed(f)' : new.min_time <= calls'[i].time /\ calls'[i].time <= new.max_time
  <2>. SUFFICES ASSUME NEW i \in Timed(f) \cup {k}
                PROVE  new.min_time <= calls'[i].time /\ calls'[i].time <= new.max_time
    BY <1>1
  <2>0. c.time \in Nat /\ old.min_time \in Nat /\ old.max_time \in Nat
    BY <1>2
  <2>1. CASE i = k
    <3>1. calls'[i].time = c.time
      BY <1>1, <2>1
    <3>2. CASE Timed(f) = {}
      BY <1>8, <2>0, <3>1, <3>2
    <3>3. CASE Timed(f) # {}
      BY <1>8, <2>0, <3>1, <3>3
    <3>. QED  BY <3>2, <3>3
  <2>2. CASE i \in Timed(f)
    <3>1. /\ calls'[i].time = calls[i].time /\ calls[i].time \in Nat
          /\ old.min_time <= calls[i].time /\ calls[i].time <= old.max_time
      BY <1>3, <1>6, <1>11, <2>2
    <3>2. /\ new.min_time = IF old.min_time <= c.time THEN old.min_time ELSE c.time
          /\ new.max_time = IF old.max_time <= c.time THEN c.time ELSE old.max_time
      BY <1>8, <2>2
    <3>. QED  BY <2>0, <3>1, <3>2
  <2>. QED  BY <2>1, <2>2
<1>13. \E i, j \in Timed(f)' : calls'[i].time = new.min_time /\ calls'[j].time = new.max_time
  <2>1. CASE Timed(f) = {}
    <3>1. k \in Timed(f)' /\ calls'[k].time = c.time
      BY <1>1
    <3>2. new.min_time = c.time /\ new.max_time = c.time
      BY <1>8, <2>1
    <3>. QED  BY <3>1, <3>2
  <2>2. CASE Timed(f) # {}
    <3>1. PICK i \in Timed(f), j \in Timed(f) :
            calls[i].time = old.min_time /\ calls[j].time = old.max_time
      BY <1>3, <2>2
    <3>2. /\ i \in Timed(f)' /\ j \in Timed(f)' /\ k \in Timed(f)'
          /\ calls'[i].time = old.min_time /\ calls'[j].time = old.max_time /\ calls'[k].time = c.time
      BY <1>1, <1>11, <3>1
    <3>3. new.min_time \in {old.min_time, c.time} /\ new.max_time \in {old.max_time, c.time}
      BY <1>8, <2>2
    <3>. QED  BY <3>2, <3>3
  <2>. QED  BY <2>1, <2>2
<1>14. Timed(f)' # {}
  BY <1>1
<1>. QED  BY <1>9, <1>10, <1>12, <1>13, <1>14 DEF Summed, new

LEMMA NextTable == IInv /\ CallTimed /\ TableInv /\ [Next]_vars => TableInv'
<1>. SUFFICES ASSUME IInv, CallTimed, TableInv, [Next]_vars, NEW f \in Names PROVE Summed(f)'
  BY DEF TableInv
<1>0. TypeOK /\ CallKept /\ Summed(f) /\ f \in DOMAIN function_info_map_
  BY DEF IInv, TypeOK, TableInv
<1>1. CASE UNCHANGED <<function_info_map_, calls>>
  <2>1. Timed(f)' = Timed(f) /\ \A sums : Sums(f, sums)' <=> Sums(f, sums)
    BY <1>1 DEF Timed, Sums
  <2>. QED  BY <1>0, <1>1, <2>1 DEF Summed
<1>2. ASSUME NEW t \in Threads, NEW id \in Nat, Ends(t, id) PROVE Summed(f)'
  <2>1. /\ Finished(t, id) \in [fn : Names, wanted : BOOLEAN, time : Nat, own : Nat, id : Nat]
        /\ Finished(t, id).fn = thr[t].fn /\ Finished(t, id).wanted = thr[t].wanted
        /\ Finished(t, id).time = Elapsed(t) /\ calls' = Append(calls, Finished(t, id))
    <3>1. ~Idle(t) /\ thr[t].start = thr[t].entered /\ calls' = Append(calls, Finished(t, id))
      BY <1>2 DEF Ends, Logged, Idle
    <3>2. Finished(t, id) \in [fn : Names, wanted : BOOLEAN, time : Nat, own : Nat, id : Nat]
      BY <1>0, <3>1, FinishedType
    <3>3. /\ Finished(t, id).fn = thr[t].fn /\ Finished(t, id).wanted = thr[t].wanted
          /\ Finished(t, id).time = Elapsed(t)
      BY <3>1 DEF Finished, Elapsed
    <3>. QED  BY <3>1, <3>2, <3>3
  <2>2. CASE thr[t].fn = f
    BY <1>0, <1>2, <2>1, <2>2, Counted DEF Ends
  <2>3. CASE thr[t].fn # f
    <3>1. function_info_map_'[f] = function_info_map_[f]
      BY <1>0, <1>2, <2>3 DEF Ends, AddFunctionTime
    <3>. QED  BY <1>0, <2>1, <2>3, <3>1, NotCounted
  <2>. QED  BY <2>2, <2>3
<1>3. ASSUME NEW t \in Threads, NEW id \in Nat, EndsUnseen(t, id) PROVE Summed(f)'
  <2>1. /\ Finished(t, id) \in [fn : Names, wanted : BOOLEAN, time : Nat, own : Nat, id : Nat]
        /\ Finished(t, id).fn = thr[t].fn /\ Finished(t, id).wanted = thr[t].wanted
        /\ calls' = Append(calls, Finished(t, id))
    BY <1>0, <1>3, FinishedType DEF EndsUnseen, Finished
  <2>2. ~(thr[t].fn = f /\ (thr[t].wanted \/ f \in Extensions))
    BY <1>3, FunctionAssumption DEF EndsUnseen
  <2>3. function_info_map_'[f] = function_info_map_[f]
    BY <1>3 DEF EndsUnseen
  <2>. QED  BY <1>0, <2>1, <2>2, <2>3, NotCounted
<1>. QED  BY <1>1, <1>2, <1>3, StepKinds DEF Begins, GoesOn

LEMMA InitTable == Init => TableInv
<1>. SUFFICES ASSUME Init, NEW f \in Names PROVE Summed(f)
  BY DEF TableInv
<1>1. Timed(f) = {} /\ function_info_map_[f] = NoInfo /\ Len(calls) = 0
  BY DEF Init, Timed
<1>2. Sums(f, [n \in 0..0 |-> 0])
  BY <1>1 DEF Sums
<1>3. NoInfo.total_time = 0 /\ NoInfo.call_count = 0
  BY DEF NoInfo
<1>4. \E sums : Sums(f, sums) /\ sums[Len(calls)] = NoInfo.total_time
  BY <1>1, <1>2, <1>3
<1>. QED  BY <1>1, <1>3, <1>4, FS_EmptySet DEF Summed

\* The table sums up the calls: of each function the runtime traces, the number,
\* the total, the least and the greatest time of those that began while collection
\* was enabled, and of each extension function those of all calls of its wrapper;
\* each once and with its own time, whatever happened to the environment meanwhile.
\* The queries of a kernel's name that enter callbacks make are among them.
THEOREM TableFaithful == Spec => []Summarized
<1>1. Init => TableInv
  BY InitTable
<1>2. IInv /\ TableInv => Summarized
  BY TableSums DEF IInv
<1>. QED  BY <1>1, <1>2, NextTable, TimedInvariance, PTL DEF Spec
=============================================================================
