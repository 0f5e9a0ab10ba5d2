----------------------- MODULE ZeKernelCollectorProofs -----------------------
(***************************************************************************)
(* Proofs about ZeKernelCollector for any number of threads, lists,        *)
(* commands, events and fences.                                            *)
(***************************************************************************)
EXTENDS ZeKernelCollector, Sequences, FiniteSetTheorems, TLAPS

-----------------------------------------------------------------------------
(* The inductive invariant of the events, the lists, the commands, the     *)
(* device and the pending calls.                                           *)

CacheTypeOK ==
  /\ event_map_ \in [Contexts -> Seq(Events)]
  /\ event_info_map_ \in [Events -> Contexts \cup {None}]
  /\ event_pools_ \in [Contexts -> Nat]

\* Every event is in one place, free or held, and one of the cache exists.
EventsInv ==
  /\ \A x \in Contexts : \A i, j \in DOMAIN event_map_[x] :
       /\ event_info_map_[event_map_[x][i]] = x
       /\ event_map_[x][i] = event_map_[x][j] => i = j
  /\ \A x \in Contexts : \A i \in DOMAIN event_map_[x], c \in Commands :
       event_map_[x][i] # Held[c]
  /\ \A c, d \in Commands : Held[c] # None /\ Held[c] = Held[d] => c = d
  /\ \A c \in Commands : Held[c] # None /\ Cache!QueryEvent(Held[c]) => status[Held[c]] # "none"

\* Threads are in functions of different lists, and the collector knows a list that
\* exists, except while it is created.
ListsInv ==
  /\ \A t \in Threads :
       /\ thr[t].op = "idle" => thr[t].lists = {}
       /\ thr[t].op \in {"create", "append", "destroy", "reset", "erase", "clear"} =>
            \E l \in Lists : thr[t].lists = {l}
       /\ thr[t].op = "execute" => thr[t].todo \subseteq thr[t].lists
       /\ thr[t].op = "executed" => thr[t].todo = {}
       /\ thr[t].op = "create" => \A l \in thr[t].lists : list[l] # None
       /\ thr[t].op \in {"destroy", "erase"} => \A l \in thr[t].lists : list[l] = None
       /\ \A u \in Threads \ {t} : thr[t].lists \cap thr[u].lists = {}
  /\ \A l \in Lists : list[l] # None /\ ~InFunction(l) => command_list_map_[l] # None
  /\ ListRecords

\* The device has got a call of command c that t is about to record.
Upcoming(t, c) ==
  /\ command[c] # None
  /\ \/ /\ thr[t].op = "append" /\ thr[t].command = c /\ thr[t].ok
        /\ command_list_map_[command[c].list].immediate
     \/ thr[t].op = "execute" /\ command[c].list \in thr[t].todo /\ command[c].kernel_id > 0
Awaited(c) == \E t \in Threads : Upcoming(t, c)

\* A command without an id is being appended; the calls of a command are counted.
CommandsInv ==
  /\ \A c \in Commands : command[c] # None =>
       /\ command_list_map_[command[c].list] # None
       /\ command[c].kernel_id = 0 => \E t \in Threads : thr[t].op = "append" /\ thr[t].command = c
       /\ command[c].call_count <= MaxRuns
       /\ Awaited(c) => command[c].call_count < MaxRuns
  /\ \A t \in Threads : thr[t].op = "append" =>
       /\ thr[t].command \in Commands /\ command[thr[t].command] # None
       /\ thr[t].lists = {command[thr[t].command].list}
       /\ command[thr[t].command].kernel_id = 0 /\ command[thr[t].command].call_count = 0
       /\ thr[t].fence = None

\* The device runs a command once at a time, and none of a list that is taken down.
RunsInv ==
  /\ \A r, s \in running : r.command = s.command => r = s
  /\ \A r \in running :
       /\ command[r.command] # None
       /\ r.call_id > 0
       /\ \/ r.call_id <= command[r.command].call_count
          \/ r.call_id = command[r.command].call_count + 1 /\ Awaited(r.command)
       /\ r.fence # None => fence[r.fence] = "busy"
  /\ \A t \in Threads : thr[t].op \in {"destroy", "reset", "erase", "clear"} =>
       \A r \in running : command[r.command].list \notin thr[t].lists

\* A pending call is one of its command's, and recorded once.
CallsInv ==
  /\ \A k \in kernel_call_list_ :
       /\ command[k.command] # None
       /\ k.call_id > 0 /\ k.call_id <= command[k.command].call_count
  /\ \A j, k \in kernel_call_list_ : j.command = k.command /\ j.call_id = k.call_id => j = k

Base ==
  /\ TypeOK /\ CacheTypeOK /\ EventsInv /\ ListsInv /\ CommandsInv /\ RunsInv /\ CallsInv

CareNext == Next \/ \E e \in Events : Settled(e) /\ EventDestroy(e)

-----------------------------------------------------------------------------
(* The cache, as its callers see it.                                       *)

\* What the events are that commands hold.
LEMMA HeldEvents ==
  ASSUME TypeOK, NEW c \in Commands
  PROVE  /\ Held[c] \in Events \cup {None} /\ None \notin Events
         /\ Held[c] = None <=> command[c] = None
         /\ command[c] # None => Held[c] = command[c].event /\ command[c] \in CommandType
  BY NoneAssumption DEF TypeOK, Held, CommandType

\* Steps that leave the cache and what is held alone, and destroy no event of the cache.
LEMMA EventsKept ==
  ASSUME EventsInv, CacheTypeOK, Held' = Held,
         UNCHANGED <<event_map_, event_info_map_, event_pools_>>,
         \A e \in Events : Cache!QueryEvent(e) /\ status[e] # "none" => status'[e] # "none",
         TypeOK
  PROVE  EventsInv' /\ CacheTypeOK'
<1>1. CacheTypeOK'
  BY DEF CacheTypeOK
<1>2. \A c \in Commands : Held[c] # None => Held[c] \in Events
  BY HeldEvents
<1>. QED  BY <1>1, <1>2 DEF EventsInv, Cache!QueryEvent

\* An event comes from the free list or from a new pool.
LEMMA EventsAcquired ==
  ASSUME TypeOK, EventsInv, CacheTypeOK, NEW x \in Contexts, NEW e \in Events,
         Cache!GetEvent(x, e), NEW c \in Commands, Held[c] = None,
         Held' = [Held EXCEPT ![c] = e],
         \A f \in Events : status[f] = "none" /\ ~Unnamed(f) => status'[f] = "none"
  PROVE  /\ EventsInv' /\ CacheTypeOK'
         /\ status' \in [Events -> {"none", "reset", "signaled"}]
         /\ status'[e] = "reset" /\ Cache!QueryEvent(e)'
         /\ \A d \in Commands : Held[d] # None => Held[d] # e /\ status'[Held[d]] = status[Held[d]]
         /\ \A f \in Events : /\ Cache!QueryEvent(f) => Cache!QueryEvent(f)'
                              /\ status'[f] # status[f] => Cache!QueryEvent(f)'
<1>1. CASE Cache!TakeFree(x, e)
  <2>. DEFINE s == event_map_[x]
              n == Len(s)
              rest == SubSeq(s, 1, n - 1)
  <2>1. /\ s # <<>> /\ e = s[n] /\ status[e] = "reset"
        /\ event_map_' = [event_map_ EXCEPT ![x] = rest]
        /\ UNCHANGED <<event_info_map_, event_pools_, status>>
    BY <1>1 DEF Cache!TakeFree, Cache!PopBack
  <2>2. s \in Seq(Events)
    BY DEF CacheTypeOK
  <2>3. /\ n \in Nat \ {0} /\ DOMAIN s = 1..n /\ rest \in Seq(Events)
        /\ DOMAIN rest = 1..(n - 1) /\ \A i \in 1..(n - 1) : rest[i] = s[i]
    BY <2>1, <2>2
  <2>. HIDE DEF rest
  <2>4. CacheTypeOK'
    BY <2>1, <2>3 DEF CacheTypeOK
  <2>5. /\ e = s[n] /\ n \in DOMAIN s
        /\ \A y \in Contexts : \A i \in DOMAIN event_map_'[y] :
             /\ i \in DOMAIN event_map_[y] /\ event_map_'[y][i] = event_map_[y][i]
             /\ event_map_[y][i] # e
    <3>1. \A i \in 1..(n - 1) : s[i] # e
      BY <2>1, <2>3 DEF EventsInv
    <3>2. ASSUME NEW y \in Contexts, NEW i \in DOMAIN event_map_[y], y # x
          PROVE  event_map_[y][i] # e
      <4>1. event_info_map_[event_map_[y][i]] = y
        BY DEF EventsInv
      <4>2. event_info_map_[e] = x
        BY <2>1, <2>3 DEF EventsInv
      <4>. QED  BY <3>2, <4>1, <4>2
    <3>3. \A y \in Contexts : event_map_'[y] = IF y = x THEN rest ELSE event_map_[y]
      BY <2>1 DEF CacheTypeOK
    <3>. HIDE DEF s, n
    <3>4. s = event_map_[x]
      BY DEF s
    <3>. QED  BY <2>1, <2>3, <3>1, <3>2, <3>3, <3>4
  <2>6. \A d \in Commands : Held[d] # e
    BY <2>5 DEF EventsInv
  <2>7. \A d \in Commands : Held'[d] = IF d = c THEN e ELSE Held[d]
    BY DEF Held
  <2>8. event_info_map_[e] = x /\ None \notin Contexts
    BY <2>5, NoneAssumption DEF EventsInv
  <2>. HIDE DEF s, n
  <2>9. EventsInv'
    <3>1. \A y \in Contexts : \A i, j \in DOMAIN event_map_'[y] :
            /\ event_info_map_'[event_map_'[y][i]] = y
            /\ event_map_'[y][i] = event_map_'[y][j] => i = j
      BY <2>1, <2>5 DEF EventsInv
    <3>2. \A y \in Contexts : \A i \in DOMAIN event_map_'[y], d \in Commands :
            event_map_'[y][i] # Held'[d]
      BY <2>5, <2>7 DEF EventsInv
    <3>3. \A d, g \in Commands : Held'[d] # None /\ Held'[d] = Held'[g] => d = g
      BY <2>6, <2>7 DEF EventsInv
    <3>4. \A d \in Commands : Held'[d] # None /\ Cache!QueryEvent(Held[d])' => status'[Held'[d]] # "none"
      BY <2>1, <2>7 DEF EventsInv, Cache!QueryEvent
    <3>. QED  BY <3>1, <3>2, <3>3, <3>4 DEF EventsInv
  <2>. QED  BY <2>1, <2>4, <2>6, <2>8, <2>9 DEF Cache!QueryEvent, TypeOK
<1>2. CASE Cache!GrowPool(x, e)
  <2>. DEFINE N == EVENT_POOL_SIZE
  <2>1. PICK pool \in Cache!NewPools :
          /\ \A i \in DOMAIN pool : event_info_map_[pool[i]] = None
          /\ e = pool[Len(pool)]
          /\ event_map_' = [event_map_ EXCEPT ![x] = SubSeq(pool, 1, Len(pool) - 1)]
          /\ event_info_map_' =
               [y \in Events |-> IF y \in Cache!Elements(pool) THEN x ELSE event_info_map_[y]]
          /\ event_pools_' = [event_pools_ EXCEPT ![x] = @ + 1]
          /\ status' = [y \in Events |-> IF y \in Cache!Elements(pool) THEN "reset" ELSE status[y]]
    BY <1>2 DEF Cache!GrowPool, Cache!PopBack
  <2>2. /\ pool \in [1..N -> {f \in Events : status[f] = "none"}]
        /\ \A i, j \in 1..N : pool[i] = pool[j] => i = j
    BY <2>1 DEF Cache!NewPools
  <2>3. N \in Nat \ {0}
    BY PoolSizeAssumption
  <2>. HIDE DEF N
  <2>4. pool \in Seq(Events) /\ Len(pool) = N /\ DOMAIN pool = 1..N
    BY <2>2, <2>3
  <2>. DEFINE rest == SubSeq(pool, 1, N - 1)
  <2>5. /\ rest \in Seq(Events) /\ DOMAIN rest = 1..(N - 1)
        /\ \A i \in 1..(N - 1) : rest[i] = pool[i]
    BY <2>3, <2>4
  <2>51. event_map_' = [event_map_ EXCEPT ![x] = rest]
    BY <2>1, <2>4
  <2>. HIDE DEF rest
  <2>6. /\ \A i \in 1..N : /\ pool[i] \in Events /\ status[pool[i]] = "none"
                           /\ event_info_map_[pool[i]] = None
                           /\ pool[i] \in Cache!Elements(pool)
        /\ \A f \in Cache!Elements(pool) : \E i \in 1..N : f = pool[i]
    BY <2>1, <2>2, <2>4 DEF Cache!Elements
  <2>7. CacheTypeOK'
    BY <2>1, <2>51, <2>5 DEF CacheTypeOK
  <2>8. \A y \in Contexts :
          event_map_'[y] = IF y = x THEN rest ELSE event_map_[y]
    BY <2>51 DEF CacheTypeOK
  \* No command holds a new handle: one that named a destroyed event would see it exist.
  <2>9. \A i \in 1..N, d \in Commands : pool[i] # Held[d]
    <3>. SUFFICES ASSUME NEW i \in 1..N, NEW d \in Commands, pool[i] = Held[d]
                  PROVE  FALSE
      OBVIOUS
    <3>1. status'[pool[i]] = "reset" /\ status[pool[i]] = "none"
      BY <2>1, <2>6
    <3>2. ~Unnamed(pool[i])
      BY DEF Unnamed
    <3>. QED  BY <2>6, <3>1, <3>2
  <2>10. \A d \in Commands : Held'[d] = IF d = c THEN e ELSE Held[d]
    BY DEF Held
  <2>11. e = pool[N] /\ N \in 1..N
    BY <2>1, <2>3, <2>4
  <2>12. None \notin Contexts /\ None \notin Events
    BY NoneAssumption
  <2>13. \A y \in Contexts : \A i \in DOMAIN event_map_[y] :
           event_map_[y][i] \in Events /\ event_info_map_[event_map_[y][i]] # None
    BY <2>12 DEF CacheTypeOK, EventsInv
  <2>14. \A d \in Commands : Held[d] # None =>
           Held[d] \in Events /\ Held[d] \notin Cache!Elements(pool) /\ Held[d] # e
    BY <2>6, <2>9, <2>11, HeldEvents
  <2>15. EventsInv'
    <3>1. \A y \in Contexts : \A i, j \in DOMAIN event_map_'[y] :
            /\ event_info_map_'[event_map_'[y][i]] = y
            /\ event_map_'[y][i] = event_map_'[y][j] => i = j
      <4>. SUFFICES ASSUME NEW y \in Contexts, NEW i \in DOMAIN event_map_'[y],
                           NEW j \in DOMAIN event_map_'[y]
                    PROVE  /\ event_info_map_'[event_map_'[y][i]] = y
                           /\ event_map_'[y][i] = event_map_'[y][j] => i = j
        OBVIOUS
      <4>1. CASE y = x
        <5>1. /\ i \in 1..N /\ j \in 1..N
              /\ event_map_'[y][i] = pool[i] /\ event_map_'[y][j] = pool[j]
          BY <2>3, <2>5, <2>8, <4>1
        <5>2. event_info_map_'[pool[i]] = x
          BY <2>1, <2>6, <5>1
        <5>3. pool[i] = pool[j] => i = j
          BY <2>2, <5>1
        <5>. QED  BY <4>1, <5>1, <5>2, <5>3
      <4>2. CASE y # x
        <5>1. event_map_'[y] = event_map_[y]
          BY <2>8, <4>2
        <5>2. event_map_[y][i] \notin Cache!Elements(pool)
          BY <2>6, <2>13, <5>1
        <5>3. event_info_map_'[event_map_[y][i]] = event_info_map_[event_map_[y][i]]
          BY <2>1, <2>13, <5>1, <5>2
        <5>. QED  BY <5>1, <5>3 DEF EventsInv
      <4>. QED  BY <4>1, <4>2
    <3>2. \A y \in Contexts : \A i \in DOMAIN event_map_'[y], d \in Commands :
            event_map_'[y][i] # Held'[d]
      <4>. SUFFICES ASSUME NEW y \in Contexts, NEW i \in DOMAIN event_map_'[y], NEW d \in Commands
                    PROVE  event_map_'[y][i] # Held'[d]
        OBVIOUS
      <4>1. CASE y = x
        <5>1. i \in 1..N /\ i # N /\ event_map_'[y][i] = pool[i]
          BY <2>3, <2>5, <2>8, <4>1
        <5>. QED  BY <2>2, <2>9, <2>10, <2>11, <5>1
      <4>2. CASE y # x
        <5>1. event_map_'[y] = event_map_[y]
          BY <2>8, <4>2
        <5>. QED  BY <2>6, <2>10, <2>11, <2>13, <5>1 DEF EventsInv
      <4>. QED  BY <4>1, <4>2
    <3>3. \A d, g \in Commands : Held'[d] # None /\ Held'[d] = Held'[g] => d = g
      BY <2>9, <2>10, <2>11 DEF EventsInv
    <3>4. \A d \in Commands : Held'[d] # None /\ Cache!QueryEvent(Held[d])' => status'[Held'[d]] # "none"
      <4>. SUFFICES ASSUME NEW d \in Commands, Held'[d] # None, event_info_map_'[Held'[d]] # None
                    PROVE  status'[Held'[d]] # "none"
        BY DEF Cache!QueryEvent
      <4>1. CASE d = c
        BY <2>1, <2>6, <2>10, <2>11, <4>1
      <4>2. CASE d # c
        BY <2>1, <2>10, <2>14, <4>2 DEF EventsInv, Cache!QueryEvent
      <4>. QED  BY <4>1, <4>2
    <3>. QED  BY <3>1, <3>2, <3>3, <3>4 DEF EventsInv
  <2>16. status' \in [Events -> {"none", "reset", "signaled"}] /\ status'[e] = "reset"
    BY <2>1, <2>6, <2>11 DEF TypeOK
  <2>17. \A f \in Events : /\ Cache!QueryEvent(f) => Cache!QueryEvent(f)'
                           /\ status'[f] # status[f] => Cache!QueryEvent(f)'
    BY <2>1, <2>12 DEF Cache!QueryEvent
  <2>18. Cache!QueryEvent(e)'
    BY <2>1, <2>6, <2>11, <2>12 DEF Cache!QueryEvent
  <2>19. \A d \in Commands : Held[d] # None => status'[Held[d]] = status[Held[d]]
    BY <2>1, <2>14
  <2>. QED  BY <2>7, <2>14, <2>15, <2>16, <2>17, <2>18, <2>19
<1>. QED  BY <1>1, <1>2 DEF Cache!GetEvent

\* The event of a command that is deleted goes back to the cache.
LEMMA EventsReturned ==
  ASSUME TypeOK, EventsInv, CacheTypeOK, NEW c \in Commands, Held[c] # None,
         Cache!ReleaseEvent(Held[c]), Held' = [Held EXCEPT ![c] = None]
  PROVE  /\ EventsInv' /\ CacheTypeOK'
         /\ status' \in [Events -> {"none", "reset", "signaled"}]
         /\ UNCHANGED <<event_info_map_, event_pools_>>
         /\ \A d \in Commands \ {c} : Held[d] # None => status'[Held[d]] = status[Held[d]]
         /\ \A f \in Events : status'[f] # "none" => status[f] # "none" \/ Cache!QueryEvent(f)
<1>. DEFINE e == Held[c]
<1>1. e \in Events /\ \A d \in Commands \ {c} : Held[d] # e
  BY HeldEvents DEF EventsInv
<1>2. \A d \in Commands : Held'[d] = IF d = c THEN None ELSE Held[d]
  BY DEF Held
<1>3. \A d \in Commands : Held[d] # None => Held[d] \in Events
  BY HeldEvents
<1>. HIDE DEF e
<1>4. CASE ~Cache!QueryEvent(e)
  <2>1. UNCHANGED <<event_map_, event_info_map_, event_pools_, status>>
    BY <1>4 DEF Cache!ReleaseEvent, e
  <2>2. \A y \in Contexts : \A i \in DOMAIN event_map_[y], d \in Commands :
          event_map_[y][i] # Held'[d]
    BY <1>2, NoneAssumption DEF EventsInv, CacheTypeOK
  <2>3. EventsInv'
    BY <1>2, <2>1, <2>2 DEF EventsInv, Cache!QueryEvent
  <2>. QED  BY <2>1, <2>3 DEF CacheTypeOK, TypeOK
<1>5. CASE Cache!QueryEvent(e)
  <2>. DEFINE x == event_info_map_[e]
              s == event_map_[x]
              more == Append(s, e)
  <2>1. /\ status' = [status EXCEPT ![e] = "reset"]
        /\ event_map_' = [event_map_ EXCEPT ![x] = more]
        /\ UNCHANGED <<event_info_map_, event_pools_>>
    BY <1>5 DEF Cache!ReleaseEvent, e
  <2>2. x \in Contexts
    BY <1>1, <1>5 DEF Cache!QueryEvent, CacheTypeOK
  <2>3. s \in Seq(Events)
    BY <2>2 DEF CacheTypeOK
  <2>4. /\ more \in Seq(Events) /\ Len(s) \in Nat /\ DOMAIN s = 1..Len(s)
        /\ DOMAIN more = 1..(Len(s) + 1) /\ more[Len(s) + 1] = e
        /\ \A i \in 1..Len(s) : more[i] = s[i]
    BY <1>1, <2>3
  <2>. HIDE DEF more
  <2>5. CacheTypeOK'
    BY <2>1, <2>2, <2>4 DEF CacheTypeOK
  <2>6. \A y \in Contexts : event_map_'[y] = IF y = x THEN more ELSE event_map_[y]
    BY <2>1 DEF CacheTypeOK
  <2>7. \A y \in Contexts : \A i \in DOMAIN event_map_[y] : event_map_[y][i] # e
    BY DEF EventsInv, e
  <2>8. event_info_map_[e] = x
    OBVIOUS
  <2>9. s = event_map_[x]
    OBVIOUS
  <2>. HIDE DEF s, x
  <2>10. \A y \in Contexts : \A i \in DOMAIN event_map_'[y] :
           \/ i \in DOMAIN event_map_[y] /\ event_map_'[y][i] = event_map_[y][i]
           \/ y = x /\ i = Len(s) + 1 /\ event_map_'[y][i] = e
    BY <2>4, <2>6, <2>9
  <2>11. EventsInv'
    <3>1. \A y \in Contexts : \A i, j \in DOMAIN event_map_'[y] :
            /\ event_info_map_'[event_map_'[y][i]] = y
            /\ event_map_'[y][i] = event_map_'[y][j] => i = j
      BY <2>1, <2>7, <2>8, <2>10 DEF EventsInv
    <3>2. \A y \in Contexts : \A i \in DOMAIN event_map_'[y], d \in Commands :
            event_map_'[y][i] # Held'[d]
      BY <1>1, <1>2, <2>10, NoneAssumption, <2>5 DEF EventsInv, CacheTypeOK
    <3>3. \A d, g \in Commands : Held'[d] # None /\ Held'[d] = Held'[g] => d = g
      BY <1>2 DEF EventsInv
    <3>4. \A d \in Commands : Held'[d] # None /\ Cache!QueryEvent(Held[d])' => status'[Held'[d]] # "none"
      BY <1>1, <1>2, <1>3, <2>1 DEF EventsInv, Cache!QueryEvent, TypeOK
    <3>. QED  BY <3>1, <3>2, <3>3, <3>4 DEF EventsInv
  <2>12. \A f \in Events : status'[f] = IF f = e THEN "reset" ELSE status[f]
    BY <2>1 DEF TypeOK
  <2>13. status' \in [Events -> {"none", "reset", "signaled"}]
    BY <2>1 DEF TypeOK
  <2>. QED  BY <1>1, <1>3, <1>5, <2>1, <2>5, <2>11, <2>12, <2>13
<1>. QED  BY <1>4, <1>5

\* The events of a context that is destroyed are in no command's hands.
LEMMA EventsReleased ==
  ASSUME TypeOK, EventsInv, CacheTypeOK, NEW x \in Contexts, Cache!ReleaseContext(x), Held' = Held
  PROVE  /\ EventsInv' /\ CacheTypeOK'
         /\ status' \in [Events -> {"none", "reset", "signaled"}]
         /\ \A c \in Commands : Held[c] # None =>
              /\ status'[Held[c]] = status[Held[c]]
              /\ event_info_map_'[Held[c]] = event_info_map_[Held[c]]
         /\ \A f \in Events : status'[f] # "none" =>
              status'[f] = status[f] /\ event_info_map_'[f] = event_info_map_[f]
<1>1. CASE ~Cache!AllReleased(x)
  <2>1. UNCHANGED <<event_map_, event_info_map_, event_pools_, status>>
    BY <1>1 DEF Cache!ReleaseContext
  <2>. QED  BY <2>1 DEF EventsInv, CacheTypeOK, Cache!QueryEvent, TypeOK
<1>2. CASE Cache!AllReleased(x)
  <2>. DEFINE gone == Cache!Elements(event_map_[x])
  <2>1. /\ status' = [e \in Events |-> IF e \in gone THEN "none" ELSE status[e]]
        /\ event_info_map_' = [e \in Events |-> IF e \in gone THEN None ELSE event_info_map_[e]]
        /\ event_map_' = [event_map_ EXCEPT ![x] = <<>>]
        /\ event_pools_' = [event_pools_ EXCEPT ![x] = 0]
    BY <1>2 DEF Cache!ReleaseContext
  <2>2. \A f \in gone : event_info_map_[f] = x /\ \A c \in Commands : Held[c] # f
    BY DEF Cache!Elements, EventsInv
  <2>. HIDE DEF gone
  <2>3. CacheTypeOK'
    BY <2>1 DEF CacheTypeOK
  <2>4. status' \in [Events -> {"none", "reset", "signaled"}]
    BY <2>1 DEF TypeOK
  <2>5. \A c \in Commands : Held[c] # None => Held[c] \in Events /\ Held[c] \notin gone
    BY <2>2, HeldEvents
  <2>6. \A y \in Contexts : \A i \in DOMAIN event_map_'[y] :
          /\ y # x /\ i \in DOMAIN event_map_[y] /\ event_map_'[y] = event_map_[y]
          /\ event_map_[y][i] \in Events
    BY <2>1 DEF CacheTypeOK
  <2>7. EventsInv'
    <3>1. \A y \in Contexts : \A i, j \in DOMAIN event_map_'[y] :
            /\ event_info_map_'[event_map_'[y][i]] = y
            /\ event_map_'[y][i] = event_map_'[y][j] => i = j
      BY <2>1, <2>2, <2>6 DEF EventsInv
    <3>2. \A y \in Contexts : \A i \in DOMAIN event_map_'[y], d \in Commands :
            event_map_'[y][i] # Held'[d]
      BY <2>6 DEF EventsInv
    <3>3. \A d \in Commands : Held'[d] # None /\ Cache!QueryEvent(Held[d])' => status'[Held'[d]] # "none"
      BY <2>1, <2>5 DEF EventsInv, Cache!QueryEvent
    <3>. QED  BY <3>1, <3>2, <3>3 DEF EventsInv
  <2>. QED  BY <2>1, <2>3, <2>4, <2>5, <2>7
<1>. QED  BY <1>1, <1>2

-----------------------------------------------------------------------------
(* Steps that change no thread and of the commands only the history.       *)

ThreadType ==
  [op : {"idle", "create", "append", "execute", "executed",
         "destroy", "reset", "erase", "clear"},
   lists : SUBSET Lists, todo : SUBSET Lists, command : Commands \cup {None},
   fence : Fences \cup {None}, ok : BOOLEAN, need : BOOLEAN]

LEMMA IdleTyped ==
  /\ Idle \in ThreadType
  /\ Idle.op = "idle" /\ Idle.lists = {} /\ Idle.todo = {} /\ Idle.fence = None
  BY DEF Idle, ThreadType

\* Nothing is added to or taken from the commands, but to their history.
SameCommands ==
  \A c \in Commands :
    /\ command'[c] = None <=> command[c] = None
    /\ command[c] # None =>
         /\ command'[c].list = command[c].list /\ command'[c].event = command[c].event
         /\ command'[c].kernel_id = command[c].kernel_id
         /\ command'[c].call_count = command[c].call_count

LEMMA SameHeld ==
  ASSUME SameCommands
  PROVE  Held' = Held /\ \A l : CommandsOf(l)' = CommandsOf(l)
<1>1. \A c \in Commands : (IF command'[c] = None THEN None ELSE command'[c].event)
                          = IF command[c] = None THEN None ELSE command[c].event
  BY DEF SameCommands
<1>2. Held' = Held
  BY <1>1 DEF Held
<1>3. \A l : CommandsOf(l)' = CommandsOf(l)
  BY DEF CommandsOf, SameCommands
<1>. QED  BY <1>2, <1>3

\* What is reported leaves the pending calls and is remembered.
LEMMA ReportFacts ==
  ASSUME TypeOK, NEW S \in SUBSET kernel_call_list_, Report(S)
  PROVE  /\ SameCommands
         /\ command' \in [Commands -> CommandType \cup {None}]
         /\ kernel_call_list_' = kernel_call_list_ \ S
         /\ \A c \in Commands : command[c] # None =>
              /\ command'[c].wanted = command[c].wanted
              /\ command'[c].reported = command[c].reported \cup Shown(S, c)
<1>1. \A c : Shown(S, c) \in SUBSET Nat
  BY DEF Shown, TypeOK, CallType
<1>2. /\ kernel_call_list_' = kernel_call_list_ \ S
      /\ command' = [c \in Commands |->
           IF command[c] = None THEN None
           ELSE [command[c] EXCEPT !.reported = @ \cup Shown(S, c)]]
  BY DEF Report
<1>3. ASSUME NEW c \in Commands, command[c] # None
      PROVE  /\ command'[c] \in CommandType
             /\ command'[c].list = command[c].list /\ command'[c].event = command[c].event
             /\ command'[c].kernel_id = command[c].kernel_id
             /\ command'[c].call_count = command[c].call_count
             /\ command'[c].wanted = command[c].wanted
             /\ command'[c].reported = command[c].reported \cup Shown(S, c)
  <2>1. command[c] \in CommandType
    BY <1>3 DEF TypeOK
  <2>2. command'[c] = [command[c] EXCEPT !.reported = @ \cup Shown(S, c)]
    BY <1>2, <1>3
  <2>. QED  BY <1>1, <2>1, <2>2 DEF CommandType
<1>4. None \notin CommandType
  BY NoneAssumption
<1>5. SameCommands
  BY <1>2, <1>3, <1>4 DEF SameCommands
<1>6. command' \in [Commands -> CommandType \cup {None}]
  <2>1. \A c \in Commands : command'[c] \in CommandType \cup {None}
    BY <1>2, <1>3
  <2>. QED  BY <1>2, <2>1
<1>. QED  BY <1>2, <1>3, <1>5, <1>6

LEMMA SameAwaited ==
  ASSUME SameCommands, UNCHANGED <<command_list_map_, thr>>, NEW c \in Commands
  PROVE  /\ \A t \in Threads : Upcoming(t, c)' <=> Upcoming(t, c)
         /\ Awaited(c)' <=> Awaited(c)
<1>1. ASSUME NEW t \in Threads
      PROVE  Upcoming(t, c)' <=> Upcoming(t, c)
  BY DEF Upcoming, SameCommands
<1>. QED  BY <1>1 DEF Awaited

LEMMA Quiet ==
  ASSUME Base, SameCommands, UNCHANGED <<list, command_list_map_, thr>>,
         running' \subseteq running,
         \A r \in running' : r.fence # None => fence'[r.fence] = "busy",
         kernel_call_list_' \subseteq kernel_call_list_
  PROVE  ListsInv' /\ CommandsInv' /\ RunsInv' /\ CallsInv'
<1>1. ListsInv'
  BY DEF Base, ListsInv, InFunction, ListRecords
<1>2. CommandsInv'
  <2>1. \A t \in Threads : thr'[t].op = "append" =>
          /\ thr'[t].command \in Commands /\ command'[thr'[t].command] # None
          /\ thr'[t].lists = {command'[thr'[t].command].list}
          /\ command'[thr'[t].command].kernel_id = 0 /\ command'[thr'[t].command].call_count = 0
          /\ thr'[t].fence = None
    BY DEF Base, CommandsInv, SameCommands
  <2>2. \A c \in Commands : command'[c] # None =>
          /\ command_list_map_'[command'[c].list] # None
          /\ command'[c].kernel_id = 0 => \E t \in Threads : thr'[t].op = "append" /\ thr'[t].command = c
          /\ command'[c].call_count <= MaxRuns
          /\ Awaited(c)' => command'[c].call_count < MaxRuns
    BY SameAwaited DEF Base, CommandsInv, SameCommands
  <2>. QED  BY <2>1, <2>2 DEF CommandsInv
<1>3. RunsInv'
  <2>1. \A r \in running : r.command \in Commands
    BY DEF Base, TypeOK
  <2>2. \A r \in running' :
          /\ command'[r.command] # None
          /\ r.call_id > 0
          /\ \/ r.call_id <= command'[r.command].call_count
             \/ r.call_id = command'[r.command].call_count + 1 /\ Awaited(r.command)'
    BY <2>1, SameAwaited DEF Base, RunsInv, SameCommands
  <2>3. \A t \in Threads : thr'[t].op \in {"destroy", "reset", "erase", "clear"} =>
          \A r \in running' : command'[r.command].list \notin thr'[t].lists
    BY <2>1 DEF Base, RunsInv, SameCommands
  <2>. QED  BY <2>2, <2>3 DEF Base, RunsInv
<1>4. CallsInv'
  <2>1. \A k \in kernel_call_list_ : k.command \in Commands
    BY DEF Base, TypeOK, CallType
  <2>. QED  BY <2>1 DEF Base, CallsInv, SameCommands
<1>. QED  BY <1>1, <1>2, <1>3, <1>4

LEMMA InitBase == Init => Base
<1>. SUFFICES ASSUME Init PROVE Base
  OBVIOUS
<1>1. \A t \in Threads : thr[t] = Idle
  BY DEF Init
<1>2. TypeOK /\ CacheTypeOK
  <2>1. thr \in [Threads -> ThreadType]
    BY IdleTyped DEF Init
  <2>. QED  BY <2>1 DEF Init, Cache!CacheInit, TypeOK, CacheTypeOK, ThreadType
<1>3. EventsInv
  BY DEF Init, Cache!CacheInit, EventsInv, Held
<1>4. ListsInv
  BY <1>1, IdleTyped DEF Init, ListsInv, ListRecords
<1>5. CommandsInv
  BY <1>1, IdleTyped DEF Init, CommandsInv
<1>6. RunsInv /\ CallsInv
  BY DEF Init, RunsInv, CallsInv
<1>. QED  BY <1>2, <1>3, <1>4, <1>5, <1>6 DEF Base

\* Callbacks that report calls, and what the device and the application do.
LEMMA SynchronizeBase ==
  ASSUME Base, NEW t \in Threads, Synchronize(t)
  PROVE  Base'
<1>1. /\ Report({k \in kernel_call_list_ : Signaled(k)})
      /\ UNCHANGED <<cacheVars, driverVars, command_list_map_, idVars, thr>>
  BY DEF Synchronize, ProcessCalls
<1>2. /\ SameCommands /\ kernel_call_list_' \subseteq kernel_call_list_
      /\ command' \in [Commands -> CommandType \cup {None}]
  BY <1>1, ReportFacts DEF Base
<1>3. TypeOK'
  BY <1>1, <1>2 DEF Base, TypeOK, cacheVars, driverVars, idVars
<1>4. EventsInv' /\ CacheTypeOK'
  BY <1>1, <1>2, SameHeld, EventsKept DEF Base, cacheVars
<1>5. ListsInv' /\ CommandsInv' /\ RunsInv' /\ CallsInv'
  BY <1>1, <1>2, Quiet DEF driverVars, Base, RunsInv
<1>. QED  BY <1>3, <1>4, <1>5 DEF Base

LEMMA FenceHostSynchronizeBase ==
  ASSUME Base, NEW t \in Threads, NEW f \in Fences, FenceHostSynchronize(t, f)
  PROVE  Base'
<1>. DEFINE S == {k \in kernel_call_list_ : (k.fence = f /\ fence[f] = "signaled") \/ Signaled(k)}
<1>1. /\ Report(S)
      /\ UNCHANGED <<cacheVars, driverVars, command_list_map_, idVars, thr>>
  BY DEF FenceHostSynchronize, ProcessFence
<1>2. /\ SameCommands /\ kernel_call_list_' \subseteq kernel_call_list_
      /\ command' \in [Commands -> CommandType \cup {None}]
  BY <1>1, ReportFacts DEF Base
<1>3. TypeOK'
  BY <1>1, <1>2 DEF Base, TypeOK, cacheVars, driverVars, idVars
<1>4. EventsInv' /\ CacheTypeOK'
  BY <1>1, <1>2, SameHeld, EventsKept DEF Base, cacheVars
<1>5. ListsInv' /\ CommandsInv' /\ RunsInv' /\ CallsInv'
  BY <1>1, <1>2, Quiet DEF driverVars, Base, RunsInv
<1>. QED  BY <1>3, <1>4, <1>5 DEF Base

\* Of the calls that name an event of the application at most the first is reported.
LEMMA ProcessCallReports ==
  ASSUME NEW e, ProcessCall(e)
  PROVE  \E S \in SUBSET {k \in kernel_call_list_ : EventOf(k) = e /\ Signaled(k)} : Report(S)
<1>. DEFINE named == {k \in kernel_call_list_ : EventOf(k) = e /\ Signaled(k)}
<1>1. Report({}) \/ \E k \in named : Report({k})
  BY DEF ProcessCall
<1>2. {} \in SUBSET named /\ \A k \in named : {k} \in SUBSET named
  OBVIOUS
<1>. HIDE DEF named
<1>3. \E S \in SUBSET named : Report(S)
  BY <1>1, <1>2
<1>. QED  BY <1>3 DEF named

LEMMA AppEventBase ==
  ASSUME Base, NEW e \in Events, EventDestroy(e) \/ EventHostReset(e)
  PROVE  Base'
<1>1. /\ ProcessCall(e) /\ ~Cache!QueryEvent(e) /\ status[e] # "none"
      /\ \E s \in {"none", "reset"} : status' = [status EXCEPT ![e] = s]
      /\ UNCHANGED <<event_map_, event_info_map_, event_pools_, driverVars,
                     command_list_map_, idVars, thr>>
  BY DEF EventDestroy, EventHostReset, AppOwned, AppEvent
<1>2. PICK S \in SUBSET kernel_call_list_ : Report(S)
  BY <1>1, ProcessCallReports
<1>3. /\ SameCommands /\ kernel_call_list_' \subseteq kernel_call_list_
      /\ command' \in [Commands -> CommandType \cup {None}]
  BY <1>2, ReportFacts DEF Base
<1>4. TypeOK'
  BY <1>1, <1>3 DEF Base, TypeOK, driverVars, idVars
<1>5. EventsInv' /\ CacheTypeOK'
  <2>1. \A f \in Events : Cache!QueryEvent(f) /\ status[f] # "none" => status'[f] # "none"
    BY <1>1 DEF Base, TypeOK
  <2>. QED  BY <1>1, <1>3, <2>1, SameHeld, EventsKept DEF Base
<1>6. ListsInv' /\ CommandsInv' /\ RunsInv' /\ CallsInv'
  BY <1>1, <1>3, Quiet DEF driverVars, Base, RunsInv
<1>. QED  BY <1>4, <1>5, <1>6 DEF Base

LEMMA SameCommandsIfUnchanged ==
  ASSUME command' = command
  PROVE  SameCommands
  BY DEF SameCommands

LEMMA ContextDestroyBase ==
  ASSUME Base, NEW t \in Threads, NEW x \in Contexts, ContextDestroy(t, x)
  PROVE  Base'
<1>1. /\ Cache!ReleaseContext(x)
      /\ UNCHANGED <<driverVars, command_list_map_, command, kernel_call_list_, idVars, thr>>
  BY DEF ContextDestroy
<1>2. SameCommands /\ Held' = Held
  BY <1>1, SameCommandsIfUnchanged, SameHeld
<1>3. EventsInv' /\ CacheTypeOK' /\ status' \in [Events -> {"none", "reset", "signaled"}]
  BY <1>1, <1>2, EventsReleased DEF Base
<1>4. TypeOK'
  BY <1>1, <1>3 DEF Base, TypeOK, driverVars, idVars
<1>5. ListsInv' /\ CommandsInv' /\ RunsInv' /\ CallsInv'
  BY <1>1, <1>2, Quiet DEF driverVars, Base, RunsInv
<1>. QED  BY <1>3, <1>4, <1>5 DEF Base

LEMMA CreateEventBase ==
  ASSUME Base, NEW e \in Events, CreateEvent(e)
  PROVE  Base'
<1>1. /\ status' = [status EXCEPT ![e] = "reset"]
      /\ UNCHANGED <<event_map_, event_info_map_, event_pools_, driverVars,
                     command_list_map_, command, kernel_call_list_, idVars, thr>>
  BY DEF CreateEvent
<1>2. SameCommands /\ Held' = Held
  BY <1>1, SameCommandsIfUnchanged, SameHeld
<1>3. TypeOK'
  BY <1>1 DEF Base, TypeOK, driverVars, idVars
<1>4. EventsInv' /\ CacheTypeOK'
  <2>1. \A f \in Events : Cache!QueryEvent(f) /\ status[f] # "none" => status'[f] # "none"
    BY <1>1 DEF Base, TypeOK
  <2>. QED  BY <1>1, <1>2, <2>1, EventsKept DEF Base
<1>5. ListsInv' /\ CommandsInv' /\ RunsInv' /\ CallsInv'
  BY <1>1, <1>2, Quiet DEF driverVars, Base, RunsInv
<1>. QED  BY <1>3, <1>4, <1>5 DEF Base

LEMMA FinishBase ==
  ASSUME Base, NEW r \in running, Finish(r)
  PROVE  Base'
<1>1. /\ running' = running \ {r}
      /\ status' = [status EXCEPT ![Held[r.command]] = "signaled"]
      /\ UNCHANGED <<event_map_, event_info_map_, event_pools_, list, fence, enabled, raced,
                     command_list_map_, command, kernel_call_list_, idVars, thr>>
  BY DEF Finish
<1>2. SameCommands /\ Held' = Held
  BY <1>1, SameCommandsIfUnchanged, SameHeld
<1>3. TypeOK'
  BY <1>1 DEF Base, TypeOK, idVars
<1>4. EventsInv' /\ CacheTypeOK'
  <2>1. \A f \in Events : Cache!QueryEvent(f) /\ status[f] # "none" => status'[f] # "none"
    BY <1>1 DEF Base, TypeOK
  <2>. QED  BY <1>1, <1>2, <2>1, EventsKept DEF Base
<1>5. ListsInv' /\ CommandsInv' /\ RunsInv' /\ CallsInv'
  BY <1>1, <1>2, Quiet DEF Base, RunsInv
<1>. QED  BY <1>3, <1>4, <1>5 DEF Base

LEMMA FenceBase ==
  ASSUME Base, NEW f \in Fences, FenceSignal(f) \/ FenceReset(f)
  PROVE  Base'
<1>1. /\ \A r \in running : r.fence # f
      /\ \E s \in {"signaled", "reset"} : fence' = [fence EXCEPT ![f] = s]
      /\ UNCHANGED <<cacheVars, list, running, enabled, raced, command_list_map_, command,
                     kernel_call_list_, idVars, thr>>
  <2>1. CASE FenceSignal(f)
    BY <2>1 DEF FenceSignal
  <2>2. CASE FenceReset(f)
    <3>1. \A r \in running : r.fence # f
      BY <2>2, NoneAssumption DEF FenceReset, Base, RunsInv
    <3>. QED  BY <2>2, <3>1 DEF FenceReset
  <2>. QED  BY <2>1, <2>2
<1>2. SameCommands /\ Held' = Held
  BY <1>1, SameCommandsIfUnchanged, SameHeld
<1>3. TypeOK'
  BY <1>1 DEF Base, TypeOK, idVars, cacheVars
<1>4. EventsInv' /\ CacheTypeOK'
  BY <1>1, <1>2, EventsKept DEF Base, cacheVars
<1>5. \A r \in running' : r.fence # None => fence'[r.fence] = "busy"
  BY <1>1 DEF Base, RunsInv, TypeOK
<1>6. ListsInv' /\ CommandsInv' /\ RunsInv' /\ CallsInv'
  BY <1>1, <1>2, <1>5, Quiet
<1>. QED  BY <1>3, <1>4, <1>6 DEF Base

\* The pairs of command and call of an execution are numbers.
LEMMA CallIdsTyped ==
  ASSUME TypeOK, NEW l
  PROVE  CallIds(l) \subseteq Nat \X Nat
<1>1. \A c \in Commands : command[c] # None => command[c] \in CommandType
  BY DEF TypeOK
<1>2. \A c \in CommandsOf(l) : command[c].kernel_id \in Nat /\ command[c].call_count + 1 \in Nat
  BY <1>1 DEF CommandsOf, CommandType
<1>. QED  BY <1>2 DEF CallIds

LEMMA ToggleBase ==
  ASSUME Base, Toggle
  PROVE  Base'
<1>1. /\ enabled' = ~enabled
      /\ UNCHANGED <<cacheVars, list, running, fence, command_list_map_, command,
                     kernel_call_list_, idVars, thr>>
  BY DEF Toggle
<1>2. SameCommands /\ Held' = Held
  BY <1>1, SameCommandsIfUnchanged, SameHeld
<1>3. TypeOK'
  <2>1. raced' \subseteq Nat \X Nat
    <3>. DEFINE L == UNION {thr[t].todo : t \in Threads}
                ids == UNION {CallIds(l) : l \in L}
    <3>1. \A l \in L : CallIds(l) \subseteq Nat \X Nat
      BY CallIdsTyped DEF Base
    <3>. HIDE DEF L
    <3>2. ids \subseteq Nat \X Nat
      BY <3>1
    <3>3. raced' = raced \cup ids
      BY DEF Toggle, L
    <3>. HIDE DEF ids
    <3>. QED  BY <3>2, <3>3 DEF Base, TypeOK
  <2>2. enabled' \in BOOLEAN
    BY <1>1
  <2>. QED  BY <1>1, <2>1, <2>2 DEF Base, TypeOK, idVars, cacheVars
<1>4. EventsInv' /\ CacheTypeOK'
  BY <1>1, <1>2, EventsKept DEF Base, cacheVars
<1>5. ListsInv'
  BY <1>1 DEF Base, ListsInv, InFunction, ListRecords
<1>6. CommandsInv'
  BY <1>1, <1>2, SameAwaited DEF Base, CommandsInv
<1>7. RunsInv'
  <2>1. \A r \in running : r.command \in Commands
    BY DEF Base, TypeOK
  <2>. QED  BY <1>1, <1>2, <2>1, SameAwaited DEF Base, RunsInv
<1>8. CallsInv'
  BY <1>1 DEF Base, CallsInv
<1>. QED  BY <1>3, <1>4, <1>5, <1>6, <1>7, <1>8 DEF Base

-----------------------------------------------------------------------------
(* Steps of a thread that is not appending or executing.                   *)

LEMMA Turn ==
  ASSUME Base, SameCommands, NEW t \in Threads, NEW R \in ThreadType,
         thr' = [thr EXCEPT ![t] = R],
         thr[t].op \notin {"append", "execute"}, R.op \notin {"append", "execute"},
         \A c \in Commands : command[c] # None =>
           command_list_map_'[command[c].list] = command_list_map_[command[c].list],
         UNCHANGED <<running, fence, enabled, raced>>, kernel_call_list_' \subseteq kernel_call_list_,
         R.op \in {"destroy", "reset", "erase", "clear"} =>
           \A r \in running : command[r.command].list \notin R.lists
  PROVE  /\ CommandsInv' /\ RunsInv' /\ CallsInv'
         /\ thr' \in [Threads -> ThreadType]
         /\ \A u \in Threads : thr'[u] = IF u = t THEN R ELSE thr[u]
         /\ \A c \in Commands : Awaited(c)' <=> Awaited(c)
         /\ \A c \in Commands, u \in Threads : Upcoming(u, c)' <=> Upcoming(u, c)
<1>1. \A u \in Threads : thr'[u] = IF u = t THEN R ELSE thr[u]
  BY DEF Base, TypeOK
<1>2. thr' \in [Threads -> ThreadType]
  BY DEF Base, TypeOK, ThreadType
<1>3. ASSUME NEW c \in Commands
      PROVE  (Awaited(c)' <=> Awaited(c)) /\ \A u \in Threads : Upcoming(u, c)' <=> Upcoming(u, c)
  <2>1. \A u \in Threads : Upcoming(u, c)' <=> Upcoming(u, c)
    BY <1>1 DEF Upcoming, SameCommands
  <2>2. Awaited(c)' <=> Awaited(c)
    BY <2>1 DEF Awaited
  <2>. QED  BY <2>1, <2>2
<1>4. CommandsInv'
  <2>1. \A u \in Threads : thr'[u].op = "append" =>
          /\ thr'[u].command \in Commands /\ command'[thr'[u].command] # None
          /\ thr'[u].lists = {command'[thr'[u].command].list}
          /\ command'[thr'[u].command].kernel_id = 0 /\ command'[thr'[u].command].call_count = 0
          /\ thr'[u].fence = None
    BY <1>1 DEF Base, CommandsInv, SameCommands
  <2>2. ASSUME NEW c \in Commands, command'[c] # None
        PROVE  /\ command_list_map_'[command'[c].list] # None
               /\ command'[c].kernel_id = 0 => \E u \in Threads : thr'[u].op = "append" /\ thr'[u].command = c
               /\ command'[c].call_count <= MaxRuns
               /\ Awaited(c)' => command'[c].call_count < MaxRuns
    BY <1>1, <1>3, <2>2 DEF Base, CommandsInv, SameCommands
  <2>. QED  BY <2>1, <2>2 DEF CommandsInv
<1>5. RunsInv'
  <2>1. \A r \in running : r.command \in Commands
    BY DEF Base, TypeOK
  <2>2. \A r \in running' :
          /\ command'[r.command] # None
          /\ r.call_id > 0
          /\ \/ r.call_id <= command'[r.command].call_count
             \/ r.call_id = command'[r.command].call_count + 1 /\ Awaited(r.command)'
          /\ r.fence # None => fence'[r.fence] = "busy"
    BY <1>3, <2>1 DEF Base, RunsInv, SameCommands
  <2>3. \A u \in Threads : thr'[u].op \in {"destroy", "reset", "erase", "clear"} =>
          \A r \in running' : command'[r.command].list \notin thr'[u].lists
    BY <1>1, <2>1 DEF Base, RunsInv, SameCommands
  <2>. QED  BY <2>2, <2>3 DEF Base, RunsInv
<1>6. CallsInv'
  <2>1. \A k \in kernel_call_list_ : k.command \in Commands
    BY DEF Base, TypeOK, CallType
  <2>. QED  BY <2>1 DEF Base, CallsInv, SameCommands
<1>. QED  BY <1>1, <1>2, <1>3, <1>4, <1>5, <1>6

LEMMA CreateBase ==
  ASSUME Base, NEW t \in Threads, NEW l \in Lists, Unrecorded(l), BeginCreate(t, l)
  PROVE  /\ Base'
         /\ \A c \in Commands : Awaited(c)' <=> Awaited(c)
         /\ \A c \in Commands, u \in Threads : Upcoming(u, c)' <=> Upcoming(u, c)
<1>. DEFINE R == [Idle EXCEPT !.op = "create", !.lists = {l}]
<1>1. PICK x \in Contexts, immediate \in BOOLEAN :
        list' = [list EXCEPT ![l] = [context |-> x, immediate |-> immediate, open |-> TRUE]]
  BY DEF BeginCreate
<1>2. /\ thr[t].op = "idle" /\ list[l] = None /\ thr' = [thr EXCEPT ![t] = R]
      /\ UNCHANGED <<cacheVars, running, fence, enabled, raced, command_list_map_, command,
                     kernel_call_list_, idVars>>
  BY DEF BeginCreate
<1>3. R \in ThreadType /\ R.op = "create" /\ R.lists = {l}
  BY IdleTyped DEF ThreadType, Idle
<1>. HIDE DEF R
<1>4. SameCommands /\ Held' = Held
  BY <1>2, SameCommandsIfUnchanged, SameHeld
<1>5. /\ CommandsInv' /\ RunsInv' /\ CallsInv' /\ thr' \in [Threads -> ThreadType]
      /\ \A u \in Threads : thr'[u] = IF u = t THEN R ELSE thr[u]
      /\ \A c \in Commands : Awaited(c)' <=> Awaited(c)
      /\ \A c \in Commands, u \in Threads : Upcoming(u, c)' <=> Upcoming(u, c)
  <2>. HIDE DEF Base, CommandsInv, RunsInv, CallsInv, ThreadType
  <2>. QED  BY <1>2, <1>3, <1>4, Turn
<1>6. list' \in [Lists -> [context : Contexts, immediate : BOOLEAN, open : BOOLEAN] \cup {None}]
  BY <1>1 DEF Base, TypeOK
<1>7. TypeOK'
  BY <1>2, <1>5, <1>6 DEF Base, TypeOK, ThreadType, idVars, cacheVars
<1>8. EventsInv' /\ CacheTypeOK'
  BY <1>2, <1>4, EventsKept DEF Base, cacheVars
<1>9. ListsInv'
  <2>1. \A u \in Threads : l \notin thr[u].lists
    BY DEF Unrecorded, InFunction
  <2>2. \A m \in Lists : m # l => list'[m] = list[m] /\ (InFunction(m)' <=> InFunction(m))
    BY <1>1, <1>2, <1>3, <1>5 DEF Base, TypeOK, InFunction, ListsInv
  <2>3. InFunction(l)'
    BY <1>3, <1>5 DEF InFunction
  <2>4. \A m \in Lists : list'[m] # None /\ ~InFunction(m)' => command_list_map_'[m] # None
    BY <1>2, <2>2, <2>3 DEF Base, ListsInv
  <2>5. ListRecords'
    BY <1>2, <1>3, <1>5 DEF Base, ListsInv, ListRecords, Unrecorded
  <2>6. \A u \in Threads :
          /\ thr'[u].op = "idle" => thr'[u].lists = {}
          /\ thr'[u].op \in {"create", "append", "destroy", "reset", "erase", "clear"} =>
               \E m \in Lists : thr'[u].lists = {m}
          /\ thr'[u].op = "execute" => thr'[u].todo \subseteq thr'[u].lists
          /\ thr'[u].op = "executed" => thr'[u].todo = {}
    BY <1>3, <1>5 DEF Base, ListsInv
  <2>7. \A u \in Threads :
          /\ thr'[u].op = "create" => \A m \in thr'[u].lists : list'[m] # None
          /\ thr'[u].op \in {"destroy", "erase"} => \A m \in thr'[u].lists : list'[m] = None
    <3>1. list'[l] # None
      <4>1. list'[l] = [context |-> x, immediate |-> immediate, open |-> TRUE]
        BY <1>1 DEF Base, TypeOK
      <4>2. [context |-> x, immediate |-> immediate, open |-> TRUE]
              \in [context : Contexts, immediate : BOOLEAN, open : BOOLEAN]
        OBVIOUS
      <4>. QED  BY <4>1, <4>2, NoneAssumption
    <3>. QED  BY <1>3, <1>5, <2>1, <2>2, <3>1 DEF Base, ListsInv, TypeOK
  <2>8. \A u \in Threads, v \in Threads : u # v => thr'[u].lists \cap thr'[v].lists = {}
    BY <1>3, <1>5, <2>1 DEF Base, ListsInv
  <2>. QED  BY <2>4, <2>5, <2>6, <2>7, <2>8 DEF ListsInv
<1>. QED  BY <1>5, <1>7, <1>8, <1>9 DEF Base

LEMMA EndCreateBase ==
  ASSUME Base, NEW t \in Threads, EndCreate(t)
  PROVE  /\ Base'
         /\ \A c \in Commands : Awaited(c)' <=> Awaited(c)
         /\ \A c \in Commands, u \in Threads : Upcoming(u, c)' <=> Upcoming(u, c)
<1>1. PICK l \in thr[t].lists :
        /\ command_list_map_[l] = None
        /\ command_list_map_' = [command_list_map_ EXCEPT ![l] = NewRecord(l)]
        /\ kernel_id_map_' = [kernel_id_map_ EXCEPT ![l] = {}]
        /\ call_id_map_' = [call_id_map_ EXCEPT ![l] = {}]
  BY DEF EndCreate
<1>2. /\ thr[t].op = "create" /\ thr' = [thr EXCEPT ![t] = Idle]
      /\ UNCHANGED <<cacheVars, driverVars, command, kernel_call_list_, kernel_id_>>
  BY DEF EndCreate
<1>3. thr[t].lists = {l} /\ l \in Lists /\ thr[t].lists \subseteq Lists
  BY <1>1, <1>2 DEF Base, ListsInv
<1>4. SameCommands /\ Held' = Held
  BY <1>2, SameCommandsIfUnchanged, SameHeld
<1>5. /\ CommandsInv' /\ RunsInv' /\ CallsInv' /\ thr' \in [Threads -> ThreadType]
      /\ \A u \in Threads : thr'[u] = IF u = t THEN Idle ELSE thr[u]
      /\ \A c \in Commands : Awaited(c)' <=> Awaited(c)
      /\ \A c \in Commands, u \in Threads : Upcoming(u, c)' <=> Upcoming(u, c)
  <2>1. \A c \in Commands : command[c] # None =>
          command_list_map_'[command[c].list] = command_list_map_[command[c].list]
    BY <1>1, <1>3 DEF Base, CommandsInv, TypeOK, CommandType
  <2>2. UNCHANGED <<running, fence, enabled, raced>> /\ kernel_call_list_' = kernel_call_list_
    BY <1>2 DEF driverVars
  <2>. QED  BY <1>2, <1>4, <2>1, <2>2, IdleTyped, Turn
<1>6. NewRecord(l) # None /\ NewRecord(l) \in [context : Contexts, immediate : BOOLEAN]
  <2>1. list[l] # None
    BY <1>1, <1>2 DEF Base, ListsInv
  <2>. QED  BY <1>3, <2>1, NoneAssumption DEF Base, TypeOK, NewRecord
<1>7. TypeOK'
  BY <1>1, <1>2, <1>3, <1>5, <1>6 DEF Base, TypeOK, ThreadType, cacheVars, driverVars
<1>8. EventsInv' /\ CacheTypeOK'
  BY <1>2, <1>4, EventsKept DEF Base, cacheVars
<1>9. ListsInv'
  <2>1. \A m \in Lists : m # l => /\ command_list_map_'[m] = command_list_map_[m]
                                  /\ InFunction(m)' <=> InFunction(m)
    BY <1>1, <1>3, <1>5, IdleTyped DEF Base, TypeOK, InFunction
  <2>2. \A m \in Lists : list'[m] # None /\ ~InFunction(m)' => command_list_map_'[m] # None
    BY <1>1, <1>2, <1>3, <1>6, <2>1 DEF Base, ListsInv, TypeOK, driverVars
  <2>3. ListRecords'
    BY <1>3, <1>5, <2>1, IdleTyped DEF Base, ListsInv, ListRecords, TypeOK
  <2>. QED  BY <1>2, <1>5, <2>2, <2>3, IdleTyped DEF Base, ListsInv, driverVars
<1>. QED  BY <1>5, <1>7, <1>8, <1>9 DEF Base

LEMMA BeginDestroyBase ==
  ASSUME Base, NEW t \in Threads, NEW l \in Lists, BeginDestroy(t, l) \/ BeginReset(t, l)
  PROVE  /\ Base'
         /\ \A c \in Commands : Awaited(c)' <=> Awaited(c)
         /\ \A c \in Commands, u \in Threads : Upcoming(u, c)' <=> Upcoming(u, c)
<1>1. PICK op \in {"destroy", "reset"} :
        /\ thr' = [thr EXCEPT ![t] = [Idle EXCEPT !.op = op, !.lists = {l}]]
        /\ \/ op = "destroy" /\ list' = [list EXCEPT ![l] = None]
           \/ op = "reset" /\ list' = [list EXCEPT ![l].open = TRUE]
  BY DEF BeginDestroy, BeginReset
<1>2. /\ thr[t].op = "idle" /\ Usable(l) /\ ~OnDevice(l)
      /\ UNCHANGED <<cacheVars, running, fence, enabled, raced, command_list_map_, command,
                     kernel_call_list_, idVars>>
  BY DEF BeginDestroy, BeginReset
<1>. DEFINE R == [Idle EXCEPT !.op = op, !.lists = {l}]
<1>3. R \in ThreadType /\ R.op = op /\ R.lists = {l} /\ thr' = [thr EXCEPT ![t] = R]
  BY <1>1, IdleTyped DEF ThreadType, Idle
<1>. HIDE DEF R
<1>4. SameCommands /\ Held' = Held
  BY <1>2, SameCommandsIfUnchanged, SameHeld
<1>5. /\ CommandsInv' /\ RunsInv' /\ CallsInv' /\ thr' \in [Threads -> ThreadType]
      /\ \A u \in Threads : thr'[u] = IF u = t THEN R ELSE thr[u]
      /\ \A c \in Commands : Awaited(c)' <=> Awaited(c)
      /\ \A c \in Commands, u \in Threads : Upcoming(u, c)' <=> Upcoming(u, c)
  <2>1. \A r \in running : command[r.command].list \notin R.lists
    BY <1>2, <1>3 DEF OnDevice
  <2>2. /\ thr[t].op \notin {"append", "execute"} /\ R.op \notin {"append", "execute"}
        /\ UNCHANGED <<running, fence, enabled, raced>> /\ kernel_call_list_' = kernel_call_list_
        /\ command_list_map_' = command_list_map_
    BY <1>2, <1>3
  <2>. QED  BY <1>3, <1>4, <2>1, <2>2, Turn
<1>6. /\ list' \in [Lists -> [context : Contexts, immediate : BOOLEAN, open : BOOLEAN] \cup {None}]
      /\ \A m \in Lists : m # l => list'[m] = list[m]
      /\ op = "destroy" => list'[l] = None
  <2>1. CASE op = "destroy"
    BY <1>1, <2>1 DEF Base, TypeOK
  <2>2. CASE op = "reset"
    <3>1. list[l] \in [context : Contexts, immediate : BOOLEAN, open : BOOLEAN]
      BY <1>2 DEF Base, TypeOK, Usable
    <3>2. list' = [list EXCEPT ![l] = [list[l] EXCEPT !.open = TRUE]]
      BY <1>1, <2>2
    <3>3. [list[l] EXCEPT !.open = TRUE] \in [context : Contexts, immediate : BOOLEAN, open : BOOLEAN]
      BY <3>1
    <3>. QED  BY <2>2, <3>2, <3>3 DEF Base, TypeOK
  <2>. QED  BY <2>1, <2>2
<1>7. TypeOK'
  BY <1>2, <1>5, <1>6 DEF Base, TypeOK, ThreadType, idVars, cacheVars
<1>8. EventsInv' /\ CacheTypeOK'
  BY <1>2, <1>4, EventsKept DEF Base, cacheVars
<1>9. ListsInv'
  <2>1. \A u \in Threads : l \notin thr[u].lists
    BY <1>2 DEF Usable, InFunction
  <2>2. \A m \in Lists : m # l => (InFunction(m)' <=> InFunction(m))
    BY <1>2, <1>3, <1>5 DEF Base, TypeOK, InFunction, ListsInv
  <2>3. InFunction(l)'
    BY <1>3, <1>5 DEF InFunction
  <2>4. \A m \in Lists : list'[m] # None /\ ~InFunction(m)' => command_list_map_'[m] # None
    BY <1>2, <1>6, <2>2, <2>3 DEF Base, ListsInv
  <2>5. ListRecords'
    BY <1>2, <1>3, <1>5 DEF Base, ListsInv, ListRecords, Usable
  <2>6. \A u \in Threads :
          /\ thr'[u].op = "idle" => thr'[u].lists = {}
          /\ thr'[u].op \in {"create", "append", "destroy", "reset", "erase", "clear"} =>
               \E m \in Lists : thr'[u].lists = {m}
          /\ thr'[u].op = "execute" => thr'[u].todo \subseteq thr'[u].lists
          /\ thr'[u].op = "executed" => thr'[u].todo = {}
    BY <1>3, <1>5 DEF Base, ListsInv
  <2>7. \A u \in Threads :
          /\ thr'[u].op = "create" => \A m \in thr'[u].lists : list'[m] # None
          /\ thr'[u].op \in {"destroy", "erase"} => \A m \in thr'[u].lists : list'[m] = None
    BY <1>3, <1>5, <1>6, <2>1 DEF Base, ListsInv, TypeOK
  <2>8. \A u \in Threads, v \in Threads : u # v => thr'[u].lists \cap thr'[v].lists = {}
    BY <1>3, <1>5, <2>1 DEF Base, ListsInv
  <2>. QED  BY <2>4, <2>5, <2>6, <2>7, <2>8 DEF ListsInv
<1>. QED  BY <1>5, <1>7, <1>8, <1>9 DEF Base

LEMMA EndDestroyOrResetBase ==
  ASSUME Base, NEW t \in Threads, EndDestroyOrReset(t)
  PROVE  /\ Base'
         /\ \A c \in Commands : Awaited(c)' <=> Awaited(c)
         /\ \A c \in Commands, u \in Threads : Upcoming(u, c)' <=> Upcoming(u, c)
<1>. DEFINE R == [thr[t] EXCEPT !.op = IF @ = "destroy" THEN "erase" ELSE "clear"]
<1>1. /\ thr[t].op \in {"destroy", "reset"}
      /\ Report({k \in kernel_call_list_ : Signaled(k)})
      /\ thr' = [thr EXCEPT ![t] = R]
      /\ UNCHANGED <<cacheVars, driverVars, command_list_map_, idVars>>
  BY DEF EndDestroyOrReset, ProcessCalls
<1>2. /\ R \in ThreadType /\ R.lists = thr[t].lists
      /\ R.op = IF thr[t].op = "destroy" THEN "erase" ELSE "clear"
  BY <1>1 DEF Base, TypeOK, ThreadType
<1>. HIDE DEF R
<1>3. /\ SameCommands /\ kernel_call_list_' \subseteq kernel_call_list_
      /\ command' \in [Commands -> CommandType \cup {None}]
  BY <1>1, ReportFacts DEF Base
<1>4. /\ CommandsInv' /\ RunsInv' /\ CallsInv' /\ thr' \in [Threads -> ThreadType]
      /\ \A u \in Threads : thr'[u] = IF u = t THEN R ELSE thr[u]
      /\ \A c \in Commands : Awaited(c)' <=> Awaited(c)
      /\ \A c \in Commands, u \in Threads : Upcoming(u, c)' <=> Upcoming(u, c)
  <2>1. \A r \in running : command[r.command].list \notin R.lists
    BY <1>1, <1>2 DEF Base, RunsInv
  <2>2. /\ thr[t].op \notin {"append", "execute"} /\ R.op \notin {"append", "execute"}
        /\ UNCHANGED <<running, fence, enabled, raced>> /\ command_list_map_' = command_list_map_
    BY <1>1, <1>2 DEF driverVars
  <2>. QED  BY <1>1, <1>2, <1>3, <2>1, <2>2, Turn
<1>5. TypeOK'
  BY <1>1, <1>3, <1>4 DEF Base, TypeOK, ThreadType, idVars, cacheVars, driverVars
<1>6. EventsInv' /\ CacheTypeOK'
  BY <1>1, <1>3, SameHeld, EventsKept DEF Base, cacheVars
<1>7. ListsInv'
  <2>1. \A m : InFunction(m)' <=> InFunction(m)
    BY <1>2, <1>4 DEF InFunction
  <2>2. ListRecords'
    BY <1>1, <1>2, <1>4 DEF Base, ListsInv, ListRecords
  <2>3. \A m \in Lists : list'[m] # None /\ ~InFunction(m)' => command_list_map_'[m] # None
    BY <1>1, <2>1 DEF Base, ListsInv, driverVars
  <2>. QED  BY <1>1, <1>2, <1>4, <2>2, <2>3 DEF Base, ListsInv, driverVars
<1>. QED  BY <1>4, <1>5, <1>6, <1>7 DEF Base

LEMMA LogExecuteBase ==
  ASSUME Base, NEW t \in Threads, LogExecute(t)
  PROVE  /\ Base'
         /\ \A c \in Commands : Awaited(c)' <=> Awaited(c)
         /\ \A c \in Commands, u \in Threads : Upcoming(u, c)' <=> Upcoming(u, c)
<1>1. /\ thr[t].op = "executed" /\ thr' = [thr EXCEPT ![t] = Idle]
      /\ UNCHANGED <<cacheVars, driverVars, command_list_map_, command, kernel_call_list_, idVars>>
  BY DEF LogExecute
<1>2. SameCommands /\ Held' = Held
  BY <1>1, SameCommandsIfUnchanged, SameHeld
<1>3. /\ CommandsInv' /\ RunsInv' /\ CallsInv' /\ thr' \in [Threads -> ThreadType]
      /\ \A u \in Threads : thr'[u] = IF u = t THEN Idle ELSE thr[u]
      /\ \A c \in Commands : Awaited(c)' <=> Awaited(c)
      /\ \A c \in Commands, u \in Threads : Upcoming(u, c)' <=> Upcoming(u, c)
  <2>1. UNCHANGED <<running, fence, enabled, raced, command_list_map_>> /\ kernel_call_list_' = kernel_call_list_
    BY <1>1 DEF driverVars
  <2>. QED  BY <1>1, <1>2, <2>1, IdleTyped, Turn
<1>4. TypeOK'
  BY <1>1, <1>3 DEF Base, TypeOK, ThreadType, cacheVars, driverVars, idVars
<1>5. EventsInv' /\ CacheTypeOK'
  BY <1>1, <1>2, EventsKept DEF Base, cacheVars
<1>6. ListsInv'
  <2>1. \A m \in Lists : command_list_map_[m] # None \/ ~InFunction(m)' => InFunction(m)' \/ list[m] = None \/ command_list_map_[m] # None
    BY <1>1, <1>3 DEF Base, ListsInv, ListRecords, InFunction
  <2>2. \A m \in Lists : list'[m] # None /\ ~InFunction(m)' => command_list_map_'[m] # None
    BY <1>1, <2>1 DEF driverVars
  <2>3. ListRecords'
    BY <1>1, <1>3, IdleTyped DEF Base, ListsInv, ListRecords
  <2>. QED  BY <1>1, <1>3, <2>2, <2>3, IdleTyped DEF Base, ListsInv, driverVars
<1>. QED  BY <1>3, <1>4, <1>5, <1>6 DEF Base

LEMMA EndRemoveBase ==
  ASSUME Base, NEW t \in Threads, NEW l \in Lists, EndRemove(t, l)
  PROVE  /\ Base'
         /\ \A c \in Commands : Awaited(c)' <=> Awaited(c)
         /\ \A c \in Commands, u \in Threads : Upcoming(u, c)' <=> Upcoming(u, c)
<1>1. /\ thr[t].op \in Removing /\ l \in thr[t].lists /\ CommandsOf(l) = {}
      /\ command_list_map_' = [command_list_map_ EXCEPT ![l] = RecordAfter(t, l)]
      /\ kernel_id_map_' = [kernel_id_map_ EXCEPT ![l] = {}]
      /\ call_id_map_' = [call_id_map_ EXCEPT ![l] = {}]
      /\ thr' = [thr EXCEPT ![t] = Idle]
      /\ UNCHANGED <<cacheVars, driverVars, command, kernel_call_list_, kernel_id_>>
  BY DEF EndRemove
<1>2. thr[t].lists = {l}
  BY <1>1 DEF Base, ListsInv, Removing
<1>3. SameCommands /\ Held' = Held
  BY <1>1, SameCommandsIfUnchanged, SameHeld
\* A command that has no id yet is of another list.
<1>4. \A c \in Commands : command[c] # None => command[c].list # l
  <2>. SUFFICES ASSUME NEW c \in Commands, command[c] # None, command[c].list = l
                PROVE  FALSE
    OBVIOUS
  <2>1. command[c].kernel_id = 0
    BY <1>1 DEF CommandsOf, Base, TypeOK, CommandType
  <2>2. PICK u \in Threads : thr[u].op = "append" /\ thr[u].command = c
    BY <2>1 DEF Base, CommandsInv
  <2>3. l \in thr[u].lists
    BY <2>2 DEF Base, CommandsInv
  <2>. QED  BY <1>1, <2>2, <2>3 DEF Base, ListsInv, Removing
<1>5. /\ CommandsInv' /\ RunsInv' /\ CallsInv' /\ thr' \in [Threads -> ThreadType]
      /\ \A u \in Threads : thr'[u] = IF u = t THEN Idle ELSE thr[u]
      /\ \A c \in Commands : Awaited(c)' <=> Awaited(c)
      /\ \A c \in Commands, u \in Threads : Upcoming(u, c)' <=> Upcoming(u, c)
  <2>1. \A c \in Commands : command[c] # None =>
          command_list_map_'[command[c].list] = command_list_map_[command[c].list]
    BY <1>1, <1>4 DEF Base, TypeOK, CommandType
  <2>2. /\ UNCHANGED <<running, fence, enabled, raced>> /\ kernel_call_list_' = kernel_call_list_
        /\ thr[t].op \notin {"append", "execute"}
    BY <1>1 DEF driverVars, Removing
  <2>. QED  BY <1>1, <1>3, <2>1, <2>2, IdleTyped, Turn
<1>6. RecordAfter(t, l) \in [context : Contexts, immediate : BOOLEAN] \cup {None}
  BY DEF RecordAfter, Base, TypeOK
<1>7. TypeOK'
  BY <1>1, <1>5, <1>6 DEF Base, TypeOK, ThreadType, cacheVars, driverVars
<1>8. EventsInv' /\ CacheTypeOK'
  BY <1>1, <1>3, EventsKept DEF Base, cacheVars
<1>9. ListsInv'
  <2>1. \A m \in Lists : m # l => /\ command_list_map_'[m] = command_list_map_[m]
                                  /\ InFunction(m)' <=> InFunction(m)
    BY <1>1, <1>2, <1>5, IdleTyped DEF Base, TypeOK, InFunction
  <2>2. list[l] # None => command_list_map_'[l] # None
    BY <1>1 DEF Base, TypeOK, ListsInv, ListRecords, Removing, RecordAfter
  <2>3. \A m \in Lists : list'[m] # None /\ ~InFunction(m)' => command_list_map_'[m] # None
    BY <1>1, <2>1, <2>2 DEF Base, ListsInv, driverVars
  <2>4. ListRecords'
    BY <1>2, <1>5, <2>1, IdleTyped DEF Base, ListsInv, ListRecords, TypeOK
  <2>. QED  BY <1>1, <1>5, <2>3, <2>4, IdleTyped DEF Base, ListsInv, driverVars
<1>. QED  BY <1>5, <1>7, <1>8, <1>9 DEF Base

-----------------------------------------------------------------------------
(* Commands are appended.                                                  *)

\* What BeginAppend does: the cache or the application gives an event, the device
\* gets the call of an immediate list, and the thread remembers the outcome.
Appended(t, l, c, e, ok) ==
  LET submitted == ok /\ command_list_map_[l].immediate
  IN
  /\ thr[t].op = "idle" /\ LockFree /\ Usable(l) /\ command_list_map_[l] # None
  /\ command[c] = None /\ Held[c] = None /\ Held' = [Held EXCEPT ![c] = e]
  /\ command' \in [Commands -> CommandType \cup {None}]
  /\ \A d \in Commands \ {c} : command'[d] = command[d]
  /\ command'[c] # None /\ command'[c].list = l /\ command'[c].event = e
  /\ command'[c].kernel_id = 0 /\ command'[c].call_count = 0 /\ command'[c].reported = {}
  /\ IF submitted /\ enabled THEN command'[c].wanted = {1} ELSE command'[c].wanted = {}
  /\ IF submitted
     THEN running' = running \cup {[command |-> c, call_id |-> 1, fence |-> None]}
     ELSE running' = running
  /\ thr' \in [Threads -> ThreadType]
  /\ \A u \in Threads \ {t} : thr'[u] = thr[u]
  /\ thr'[t].op = "append" /\ thr'[t].lists = {l} /\ thr'[t].command = c
  /\ thr'[t].need = enabled /\ thr'[t].fence = None
  /\ IF ok THEN thr'[t].ok = TRUE ELSE thr'[t].ok = FALSE
  /\ UNCHANGED <<list, fence, enabled, raced, command_list_map_, kernel_call_list_, idVars>>

LEMMA AppendFacts ==
  ASSUME TypeOK, NEW t \in Threads, NEW l \in Lists, NEW c \in Commands, NEW e \in Events,
         BeginAppend(t, l, c, e)
  PROVE  /\ Cache!GetEvent(command_list_map_[l].context, e) \/ AppEventFor(e)
         /\ \E ok \in BOOLEAN : Appended(t, l, c, e, ok)
<1>. DEFINE W(want) ==
              [list |-> l, event |-> e, kernel_id |-> 0, call_count |-> 0,
               wanted |-> want, reported |-> {}]
            R(ok) == [Idle EXCEPT !.op = "append", !.lists = {l}, !.command = c,
                                  !.ok = ok, !.need = enabled]
            New == {[command |-> c, call_id |-> 1, fence |-> None]}
<1>1. PICK ok \in BOOLEAN :
        LET submitted == ok /\ command_list_map_[l].immediate
        IN
        /\ command' = [command EXCEPT ![c] = W(IF submitted /\ enabled THEN {1} ELSE {})]
        /\ running' = running \cup (IF submitted THEN New ELSE {})
        /\ thr' = [thr EXCEPT ![t] = R(ok)]
  BY DEF BeginAppend
<1>2. /\ thr[t].op = "idle" /\ LockFree /\ Usable(l) /\ command_list_map_[l] # None
      /\ command[c] = None
      /\ Cache!GetEvent(command_list_map_[l].context, e) \/ AppEventFor(e)
      /\ UNCHANGED <<list, fence, enabled, raced, command_list_map_, kernel_call_list_, idVars>>
  BY DEF BeginAppend
<1>. DEFINE submitted == ok /\ command_list_map_[l].immediate
            want == IF submitted /\ enabled THEN {1} ELSE {}
<1>3. want \in SUBSET Nat /\ IF submitted /\ enabled THEN want = {1} ELSE want = {}
  OBVIOUS
<1>4. command' = [command EXCEPT ![c] = W(want)]
  BY <1>1
<1>5. IF submitted THEN running' = running \cup New ELSE running' = running
  BY <1>1
<1>. HIDE DEF want
<1>6. /\ W(want) \in CommandType
      /\ W(want).list = l /\ W(want).event = e /\ W(want).wanted = want
      /\ W(want).kernel_id = 0 /\ W(want).call_count = 0 /\ W(want).reported = {}
  BY <1>3 DEF CommandType
<1>7. /\ R(ok) \in ThreadType
      /\ R(ok).op = "append" /\ R(ok).lists = {l} /\ R(ok).command = c
      /\ R(ok).need = enabled /\ R(ok).fence = None
      /\ IF ok THEN R(ok).ok = TRUE ELSE R(ok).ok = FALSE
  <2>1. enabled \in BOOLEAN
    BY DEF TypeOK
  <2>2. CASE ok = TRUE
    BY <2>1, <2>2 DEF ThreadType, Idle
  <2>3. CASE ok = FALSE
    BY <2>1, <2>3 DEF ThreadType, Idle
  <2>. QED  BY <2>2, <2>3
<1>8. thr' = [thr EXCEPT ![t] = R(ok)]
  BY <1>1
<1>. HIDE DEF W, R
<1>9. /\ thr' \in [Threads -> ThreadType] /\ thr'[t] = R(ok)
      /\ \A u \in Threads \ {t} : thr'[u] = thr[u]
  BY <1>7, <1>8 DEF TypeOK, ThreadType
<1>10. /\ command' \in [Commands -> CommandType \cup {None}] /\ command'[c] = W(want)
       /\ \A d \in Commands \ {c} : command'[d] = command[d]
       /\ command'[c] # None
  BY <1>4, <1>6, NoneAssumption DEF TypeOK
<1>11. Held[c] = None /\ Held' = [Held EXCEPT ![c] = e]
  BY <1>2, <1>6, <1>10 DEF Held
<1>12. Appended(t, l, c, e, ok)
  BY <1>2, <1>3, <1>5, <1>6, <1>7, <1>9, <1>10, <1>11 DEF Appended
<1>. QED  BY <1>2, <1>12

LEMMA AppendEvents ==
  ASSUME Base, NEW t \in Threads, NEW l \in Lists, NEW c \in Commands,
         NEW e \in Events, NEW ok \in BOOLEAN, HandleKept, Appended(t, l, c, e, ok),
         AppEvent(e) => Fresh(e),
         Cache!GetEvent(command_list_map_[l].context, e) \/ AppEventFor(e)
  PROVE  /\ EventsInv' /\ CacheTypeOK'
         /\ status' \in [Events -> {"none", "reset", "signaled"}]
         /\ status'[e] = "reset"
         /\ \A d \in Commands : Held[d] # None => Held[d] # e /\ status'[Held[d]] = status[Held[d]]
         /\ \A f \in Events : /\ Cache!QueryEvent(f) => Cache!QueryEvent(f)'
                              /\ status'[f] # status[f] => Cache!QueryEvent(f)'
<1>1. command_list_map_[l].context \in Contexts
  BY DEF Appended, Base, TypeOK
<1>2. CASE Cache!GetEvent(command_list_map_[l].context, e)
  <2>1. \A f \in Events : status[f] = "none" /\ ~Unnamed(f) => status'[f] = "none"
    BY DEF HandleKept
  <2>2. Held[c] = None /\ Held' = [Held EXCEPT ![c] = e]
    BY DEF Appended
  <2>. QED  BY <1>1, <1>2, <2>1, <2>2, EventsAcquired DEF Base
<1>3. CASE AppEventFor(e)
  <2>1. /\ UNCHANGED cacheVars /\ status[e] = "reset" /\ event_info_map_[e] = None
        /\ \A d \in Commands : Held[d] # e
    BY <1>3 DEF AppEventFor, AppEvent, Fresh, Unnamed, Cache!QueryEvent
  <2>2. \A d \in Commands : Held'[d] = IF d = c THEN e ELSE Held[d]
    BY DEF Appended, Held
  <2>3. \A x \in Contexts : \A i \in DOMAIN event_map_[x] : event_map_[x][i] # e
    BY <2>1, NoneAssumption DEF Base, EventsInv
  <2>4. EventsInv'
    BY <2>1, <2>2, <2>3 DEF Base, EventsInv, Cache!QueryEvent, cacheVars
  <2>. QED  BY <2>1, <2>4 DEF Base, CacheTypeOK, TypeOK, cacheVars, Cache!QueryEvent
<1>. QED  BY <1>2, <1>3

LEMMA AppendAwaits ==
  ASSUME Base, NEW t \in Threads, NEW l \in Lists, NEW c \in Commands,
         NEW e \in Events, NEW ok \in BOOLEAN, Appended(t, l, c, e, ok)
  PROVE  /\ \A d \in Commands \ {c} : \A u \in Threads : Upcoming(u, d)' <=> Upcoming(u, d)
         /\ \A d \in Commands \ {c} : Awaited(d)' <=> Awaited(d)
         /\ Awaited(c)' <=> ok /\ command_list_map_[l].immediate
         /\ \A u \in Threads : Upcoming(u, c)' => u = t
         /\ ~Awaited(c)
<1>1. \A d \in Commands \ {c} : \A u \in Threads : Upcoming(u, d)' <=> Upcoming(u, d)
  BY DEF Appended, Upcoming
<1>2. \A u \in Threads : Upcoming(u, c)' <=> u = t /\ ok /\ command_list_map_[l].immediate
  <2>1. Upcoming(t, c)' <=> ok /\ command_list_map_[l].immediate
    BY DEF Appended, Upcoming
  <2>2. \A u \in Threads \ {t} : ~Upcoming(u, c)'
    BY DEF Appended, Upcoming, Base, CommandsInv
  <2>. QED  BY <2>1, <2>2
<1>3. ~Awaited(c)
  BY DEF Awaited, Upcoming, Appended
<1>. QED  BY <1>1, <1>2, <1>3 DEF Awaited

LEMMA BeginAppendBase ==
  ASSUME Base, NEW t \in Threads, NEW l \in Lists, NEW c \in Commands,
         NEW e \in Events, AppEvent(e) => Fresh(e), BeginAppend(t, l, c, e), HandleKept
  PROVE  Base'
<1>1. PICK ok \in BOOLEAN :
        /\ Cache!GetEvent(command_list_map_[l].context, e) \/ AppEventFor(e)
        /\ Appended(t, l, c, e, ok)
  BY AppendFacts DEF Base
<1>2. EventsInv' /\ CacheTypeOK' /\ status' \in [Events -> {"none", "reset", "signaled"}]
  BY <1>1, AppendEvents
<1>. DEFINE new == [command |-> c, call_id |-> 1, fence |-> None]
<1>3. /\ new.command = c /\ new.call_id = 1 /\ new.fence = None
      /\ new \in [command : Commands, call_id : Nat, fence : Fences \cup {None}]
  OBVIOUS
<1>. HIDE DEF new
<1>4. \A r \in running' : r \in running \/ (r = new /\ ok /\ command_list_map_[l].immediate)
  BY <1>1 DEF Appended, new
<1>5. TypeOK'
  BY <1>1, <1>2, <1>3, <1>4 DEF Base, TypeOK, Appended, ThreadType, idVars
<1>6. \A u \in Threads : l \notin thr[u].lists
  BY <1>1 DEF Appended, Usable, InFunction
<1>7. ListsInv'
  <2>1. \A m \in Lists : m # l => (InFunction(m)' <=> InFunction(m))
    BY <1>1 DEF Appended, InFunction, Base, ListsInv
  <2>2. \A m \in Lists : list'[m] # None /\ ~InFunction(m)' => command_list_map_'[m] # None
    BY <1>1, <2>1 DEF Base, ListsInv, Appended
  <2>3. ListRecords'
    BY <1>1 DEF Base, ListsInv, ListRecords, Appended
  <2>4. \A u \in Threads, v \in Threads : u # v => thr'[u].lists \cap thr'[v].lists = {}
    BY <1>1, <1>6 DEF Base, ListsInv, Appended
  <2>5. \A u \in Threads :
          /\ thr'[u].op = "idle" => thr'[u].lists = {}
          /\ thr'[u].op \in {"create", "append", "destroy", "reset", "erase", "clear"} =>
               \E m \in Lists : thr'[u].lists = {m}
          /\ thr'[u].op = "execute" => thr'[u].todo \subseteq thr'[u].lists
          /\ thr'[u].op = "executed" => thr'[u].todo = {}
          /\ thr'[u].op = "create" => \A m \in thr'[u].lists : list'[m] # None
          /\ thr'[u].op \in {"destroy", "erase"} => \A m \in thr'[u].lists : list'[m] = None
    BY <1>1 DEF Base, ListsInv, Appended
  <2>. QED  BY <2>2, <2>3, <2>4, <2>5 DEF ListsInv
<1>8. CommandsInv'
  <2>1. \A u \in Threads \ {t} : thr[u].op = "append" => thr[u].command # c
    BY <1>1 DEF Appended, Base, CommandsInv
  <2>2. \A u \in Threads : thr'[u].op = "append" =>
          /\ thr'[u].command \in Commands /\ command'[thr'[u].command] # None
          /\ thr'[u].lists = {command'[thr'[u].command].list}
          /\ command'[thr'[u].command].kernel_id = 0 /\ command'[thr'[u].command].call_count = 0
          /\ thr'[u].fence = None
    BY <1>1, <2>1 DEF Appended, Base, CommandsInv
  <2>3. ASSUME NEW d \in Commands, command'[d] # None
        PROVE  /\ command_list_map_'[command'[d].list] # None
               /\ command'[d].kernel_id = 0 => \E u \in Threads : thr'[u].op = "append" /\ thr'[u].command = d
               /\ command'[d].call_count <= MaxRuns
               /\ Awaited(d)' => command'[d].call_count < MaxRuns
    <3>1. CASE d = c
      BY <1>1, <3>1, BoundAssumption DEF Appended
    <3>2. CASE d # c
      <4>1. Awaited(d)' <=> Awaited(d)
        BY <1>1, <3>2, AppendAwaits
      <4>2. command[d] # None /\ command'[d] = command[d]
        BY <1>1, <2>3, <3>2 DEF Appended
      <4>. QED  BY <1>1, <4>1, <4>2 DEF Appended, Base, CommandsInv
    <3>. QED  BY <3>1, <3>2
  <2>. QED  BY <2>2, <2>3 DEF CommandsInv
<1>9. RunsInv'
  <2>1. \A r \in running : r.command \in Commands /\ r.command # c
    BY <1>1 DEF Base, TypeOK, RunsInv, Appended
  <2>2. \A r, s \in running' : r.command = s.command => r = s
    BY <1>3, <1>4, <2>1 DEF Base, RunsInv
  <2>3. ASSUME NEW r \in running'
        PROVE  /\ command'[r.command] # None
               /\ r.call_id > 0
               /\ \/ r.call_id <= command'[r.command].call_count
                  \/ r.call_id = command'[r.command].call_count + 1 /\ Awaited(r.command)'
               /\ r.fence # None => fence'[r.fence] = "busy"
    <3>1. CASE r \in running
      <4>1. Awaited(r.command)' <=> Awaited(r.command)
        BY <1>1, <2>1, <3>1, AppendAwaits
      <4>. QED  BY <1>1, <2>1, <3>1, <4>1 DEF Appended, Base, RunsInv
    <3>2. CASE r = new /\ ok /\ command_list_map_[l].immediate
      <4>1. Awaited(c)' /\ command'[c] # None /\ command'[c].call_count = 0
        <5>1. Awaited(c)' <=> ok /\ command_list_map_[l].immediate
          BY <1>1, AppendAwaits
        <5>2. command'[c] # None /\ command'[c].call_count = 0
          BY <1>1 DEF Appended
        <5>. QED  BY <3>2, <5>1, <5>2
      <4>. QED  BY <1>3, <3>2, <4>1
    <3>. QED  BY <1>4, <3>1, <3>2
  <2>4. \A u \in Threads : thr'[u].op \in {"destroy", "reset", "erase", "clear"} =>
          \A r \in running' : command'[r.command].list \notin thr'[u].lists
    BY <1>1, <1>3, <1>4, <1>6, <2>1 DEF Appended, Base, RunsInv
  <2>. QED  BY <2>2, <2>3, <2>4 DEF RunsInv
<1>10. CallsInv'
  <2>1. \A k \in kernel_call_list_ : k.command \in Commands /\ k.command # c
    BY <1>1 DEF Base, TypeOK, CallType, CallsInv, Appended
  <2>. QED  BY <1>1, <2>1 DEF Base, CallsInv, Appended
<1>. QED  BY <1>2, <1>5, <1>7, <1>8, <1>9, <1>10 DEF Base

\* A command that has no call is deleted, and its event returned.
Deleted(c) ==
  /\ command[c] # None
  /\ command' = [command EXCEPT ![c] = None]
  /\ Cache!ReleaseEvent(command[c].event)
  /\ UNCHANGED <<driverVars, command_list_map_, kernel_call_list_, idVars>>

LEMMA DeletedFacts ==
  ASSUME TypeOK, EventsInv, CacheTypeOK, NEW c \in Commands, Deleted(c)
  PROVE  /\ EventsInv' /\ CacheTypeOK'
         /\ Held[c] # None /\ Held' = [Held EXCEPT ![c] = None]
         /\ status' \in [Events -> {"none", "reset", "signaled"}]
         /\ UNCHANGED <<event_info_map_, event_pools_>>
         /\ \A d \in Commands \ {c} : Held[d] # None => status'[Held[d]] = status[Held[d]]
         /\ \A f \in Events : status'[f] # "none" => status[f] # "none" \/ Cache!QueryEvent(f)
         /\ command'[c] = None /\ \A d \in Commands \ {c} : command'[d] = command[d]
         /\ command' \in [Commands -> CommandType \cup {None}]
<1>1. /\ Held[c] = command[c].event /\ Held[c] # None
      /\ command'[c] = None /\ \A d \in Commands \ {c} : command'[d] = command[d]
      /\ command' \in [Commands -> CommandType \cup {None}]
  BY HeldEvents DEF Deleted, TypeOK
<1>2. Held' = [Held EXCEPT ![c] = None]
  BY <1>1 DEF Held
<1>3. Cache!ReleaseEvent(Held[c])
  BY <1>1 DEF Deleted
<1>. QED  BY <1>1, <1>2, <1>3, EventsReturned

LEMMA DeletedBase ==
  ASSUME Base, NEW c \in Commands, Deleted(c),
         \A r \in running : r.command # c,
         \A k \in kernel_call_list_ : k.command # c,
         thr' \in [Threads -> ThreadType],
         \A u \in Threads :
           /\ \/ thr'[u] = thr[u]
              \/ thr'[u] = Idle /\ thr[u].op = "append" /\ thr[u].command = c
           /\ thr'[u].op = "append" => thr'[u].command # c
  PROVE  Base' /\ \A d \in Commands \ {c} : Awaited(d)' <=> Awaited(d)
<1>1. /\ EventsInv' /\ CacheTypeOK'
      /\ status' \in [Events -> {"none", "reset", "signaled"}]
      /\ command'[c] = None /\ \A d \in Commands \ {c} : command'[d] = command[d]
      /\ command' \in [Commands -> CommandType \cup {None}]
  BY DeletedFacts DEF Base
<1>2. UNCHANGED <<list, running, fence, enabled, raced, command_list_map_, kernel_call_list_, idVars>>
  BY DEF Deleted, driverVars
<1>3. \A d \in Commands \ {c} : Awaited(d)' <=> Awaited(d)
  <2>1. ASSUME NEW d \in Commands \ {c}, NEW u \in Threads
        PROVE  Upcoming(u, d)' <=> Upcoming(u, d)
    BY <1>1, <1>2, IdleTyped DEF Upcoming
  <2>. QED  BY <2>1 DEF Awaited
<1>4. TypeOK'
  BY <1>1, <1>2 DEF Base, TypeOK, ThreadType, idVars
<1>5. ListsInv'
  <2>1. \A u \in Threads :
          \/ thr'[u] = thr[u]
          \/ thr'[u].op = "idle" /\ thr'[u].lists = {} /\ thr[u].op = "append"
    BY IdleTyped
  <2>2. \A m \in Lists : InFunction(m) => InFunction(m)' \/ command_list_map_[m] # None
    BY <2>1 DEF InFunction, Base, ListsInv, ListRecords
  <2>3. \A m \in Lists : list'[m] # None /\ ~InFunction(m)' => command_list_map_'[m] # None
    BY <1>2, <2>2 DEF Base, ListsInv
  <2>4. ListRecords'
    BY <1>2, <2>1 DEF Base, ListsInv, ListRecords
  <2>. QED  BY <1>2, <2>1, <2>3, <2>4 DEF Base, ListsInv
<1>6. CommandsInv'
  <2>1. \A u \in Threads : thr'[u].op = "append" =>
          /\ thr'[u].command \in Commands /\ command'[thr'[u].command] # None
          /\ thr'[u].lists = {command'[thr'[u].command].list}
          /\ command'[thr'[u].command].kernel_id = 0 /\ command'[thr'[u].command].call_count = 0
          /\ thr'[u].fence = None
    BY <1>1, <1>2, IdleTyped DEF Base, CommandsInv
  <2>2. ASSUME NEW d \in Commands, command'[d] # None
        PROVE  /\ command_list_map_'[command'[d].list] # None
               /\ command'[d].kernel_id = 0 => \E u \in Threads : thr'[u].op = "append" /\ thr'[u].command = d
               /\ command'[d].call_count <= MaxRuns
               /\ Awaited(d)' => command'[d].call_count < MaxRuns
    <3>1. d # c /\ command'[d] = command[d]
      BY <1>1, <2>2
    <3>. QED  BY <1>2, <1>3, <2>2, <3>1 DEF Base, CommandsInv
  <2>. QED  BY <2>1, <2>2 DEF CommandsInv
<1>7. RunsInv'
  <2>1. \A r \in running : r.command \in Commands \ {c}
    BY DEF Base, TypeOK
  <2>2. \A r \in running' :
          /\ command'[r.command] # None
          /\ r.call_id > 0
          /\ \/ r.call_id <= command'[r.command].call_count
             \/ r.call_id = command'[r.command].call_count + 1 /\ Awaited(r.command)'
          /\ r.fence # None => fence'[r.fence] = "busy"
    BY <1>1, <1>2, <1>3, <2>1 DEF Base, RunsInv
  <2>3. \A u \in Threads : thr'[u].op \in {"destroy", "reset", "erase", "clear"} =>
          \A r \in running' : command'[r.command].list \notin thr'[u].lists
    BY <1>1, <1>2, <2>1, IdleTyped DEF Base, RunsInv
  <2>. QED  BY <1>2, <2>2, <2>3 DEF Base, RunsInv
<1>8. CallsInv'
  <2>1. \A k \in kernel_call_list_ : k.command \in Commands \ {c}
    BY DEF Base, TypeOK, CallType
  <2>. QED  BY <1>1, <1>2, <2>1 DEF Base, CallsInv
<1>. QED  BY <1>1, <1>3, <1>4, <1>5, <1>6, <1>7, <1>8 DEF Base

\* One thread appends a command, and only its function concerns the command's list.
LEMMA Appender ==
  ASSUME Base, NEW t \in Threads, thr[t].op = "append"
  PROVE  LET c == thr[t].command
         IN  /\ c \in Commands /\ command[c] # None /\ command[c] \in CommandType
             /\ thr[t].lists = {command[c].list} /\ command[c].list \in Lists
             /\ command[c].kernel_id = 0 /\ command[c].call_count = 0
             /\ command_list_map_[command[c].list] # None
             /\ \A u \in Threads \ {t} :
                  /\ command[c].list \notin thr[u].lists
                  /\ thr[u].op = "append" => thr[u].command # c
                  /\ thr[u].op = "execute" => command[c].list \notin thr[u].todo
             /\ Awaited(c) <=> thr[t].ok /\ command_list_map_[command[c].list].immediate
<1>. DEFINE c == thr[t].command
<1>1. /\ c \in Commands /\ command[c] # None /\ command[c] \in CommandType
      /\ thr[t].lists = {command[c].list} /\ command[c].list \in Lists
      /\ command[c].kernel_id = 0 /\ command[c].call_count = 0
      /\ command_list_map_[command[c].list] # None
  BY DEF Base, CommandsInv, TypeOK, CommandType
<1>2. ASSUME NEW u \in Threads \ {t}
      PROVE  /\ command[c].list \notin thr[u].lists
             /\ thr[u].op = "append" => thr[u].command # c
             /\ thr[u].op = "execute" => command[c].list \notin thr[u].todo
  <2>1. command[c].list \notin thr[u].lists
    BY <1>1 DEF Base, ListsInv
  <2>. QED  BY <1>1, <2>1 DEF Base, ListsInv, CommandsInv
<1>3. Awaited(c) <=> thr[t].ok /\ command_list_map_[command[c].list].immediate
  BY <1>1, <1>2 DEF Awaited, Upcoming
<1>. QED  BY <1>1, <1>2, <1>3

\* What EndAppend does after a failure ...
LEMMA AppendFailedFacts ==
  ASSUME Base, NEW t \in Threads, EndAppend(t), ~thr[t].ok
  PROVE  LET c == thr[t].command
         IN  /\ thr[t].op = "append" /\ c \in Commands /\ Deleted(c)
             /\ thr' = [thr EXCEPT ![t] = Idle]
             /\ \A r \in running : r.command # c
             /\ \A k \in kernel_call_list_ : k.command # c
<1>. DEFINE c == thr[t].command
<1>1. thr[t].op = "append" /\ thr' = [thr EXCEPT ![t] = Idle]
  BY DEF EndAppend
<1>2. /\ c \in Commands /\ command[c] # None /\ command[c].call_count = 0 /\ ~Awaited(c)
  BY <1>1, Appender
<1>3. Deleted(c)
  BY <1>2 DEF EndAppend, Deleted
<1>4. \A r \in running : r.command # c
  BY <1>2 DEF Base, RunsInv, TypeOK
<1>5. \A k \in kernel_call_list_ : k.command # c
  BY <1>2 DEF Base, CallsInv, TypeOK, CallType
<1>. QED  BY <1>1, <1>2, <1>3, <1>4, <1>5

\* ... and after a success, when the command gets its id.
Recorded(t, c) ==
  LET l == command[c].list
      immediate == command_list_map_[l].immediate
      new == [command |-> c, call_id |-> 1, need_to_process |-> thr[t].need, fence |-> None]
  IN
  /\ thr[t].op = "append" /\ thr[t].command = c /\ LockFree /\ thr[t].ok
  /\ kernel_id_' = kernel_id_ + 1
  /\ kernel_id_map_' = [kernel_id_map_ EXCEPT ![l] = @ \cup {kernel_id_}]
  /\ command' \in [Commands -> CommandType \cup {None}]
  /\ \A d \in Commands \ {c} : command'[d] = command[d]
  /\ command'[c] # None /\ command'[c].list = l /\ command'[c].event = command[c].event
  /\ command'[c].kernel_id = kernel_id_
  /\ command'[c].wanted = command[c].wanted /\ command'[c].reported = command[c].reported
  /\ IF immediate
     THEN /\ command'[c].call_count = 1
          /\ call_id_map_' = [call_id_map_ EXCEPT ![l] = @ \cup {<<kernel_id_, 1>>}]
          /\ kernel_call_list_' = kernel_call_list_ \cup {new}
     ELSE command'[c].call_count = 0 /\ UNCHANGED <<kernel_call_list_, call_id_map_>>
  /\ thr' = [thr EXCEPT ![t] = Idle]
  /\ UNCHANGED <<cacheVars, driverVars, command_list_map_>>

LEMMA RecordFacts ==
  ASSUME Base, NEW t \in Threads, EndAppend(t), thr[t].ok
  PROVE  thr[t].command \in Commands /\ Recorded(t, thr[t].command)
<1>. DEFINE c == thr[t].command
            l == command[c].list
            new == [command |-> c, call_id |-> 1, need_to_process |-> thr[t].need, fence |-> None]
            n == IF command_list_map_[l].immediate THEN 1 ELSE 0
<1>1. thr[t].op = "append" /\ thr' = [thr EXCEPT ![t] = Idle]
      /\ UNCHANGED <<driverVars, command_list_map_, cacheVars>>
  BY DEF EndAppend
<1>2. /\ LockFree /\ AddKernelCommand(c)
      /\ kernel_call_list_' = kernel_call_list_ \cup ImmediateCalls(t)
  BY DEF EndAppend
<1>3. /\ c \in Commands /\ command[c] # None /\ command[c] \in CommandType
      /\ thr[t].lists = {l} /\ l \in Lists
  BY <1>1, Appender
<1>4. /\ kernel_id_' = kernel_id_ + 1
      /\ kernel_id_map_' = [kernel_id_map_ EXCEPT ![l] = @ \cup {kernel_id_}]
      /\ command' = [command EXCEPT ![c].kernel_id = kernel_id_, ![c].call_count = n]
      /\ call_id_map_' = [call_id_map_ EXCEPT ![l] =
            @ \cup (IF command_list_map_[l].immediate THEN {<<kernel_id_, 1>>} ELSE {})]
  BY <1>2 DEF AddKernelCommand
<1>5. n \in Nat /\ kernel_id_ \in Nat
  BY DEF Base, TypeOK
<1>6. IF command_list_map_[l].immediate THEN n = 1 ELSE n = 0
  OBVIOUS
<1>. HIDE DEF n
<1>7. /\ command' \in [Commands -> CommandType \cup {None}]
      /\ \A d \in Commands \ {c} : command'[d] = command[d]
      /\ command'[c] \in CommandType
      /\ command'[c].list = l /\ command'[c].event = command[c].event
      /\ command'[c].kernel_id = kernel_id_ /\ command'[c].call_count = n
      /\ command'[c].wanted = command[c].wanted /\ command'[c].reported = command[c].reported
  <2>1. command' = [command EXCEPT ![c] = [[command[c] EXCEPT !.kernel_id = kernel_id_] EXCEPT !.call_count = n]]
    BY <1>4, <1>3 DEF Base, TypeOK
  <2>. DEFINE W == [[command[c] EXCEPT !.kernel_id = kernel_id_] EXCEPT !.call_count = n]
  <2>2. /\ W \in CommandType
        /\ W.list = l /\ W.event = command[c].event
        /\ W.kernel_id = kernel_id_ /\ W.call_count = n
        /\ W.wanted = command[c].wanted /\ W.reported = command[c].reported
    BY <1>3, <1>5 DEF CommandType
  <2>. HIDE DEF W
  <2>3. command' = [command EXCEPT ![c] = W]
    BY <2>1 DEF W
  <2>. QED  BY <1>3, <2>2, <2>3 DEF Base, TypeOK
<1>8. command'[c] # None
  BY <1>7, NoneAssumption
<1>9. ImmediateCalls(t) = IF command_list_map_[l].immediate THEN {new} ELSE {}
  BY <1>3 DEF ImmediateCalls
<1>10. CASE command_list_map_[l].immediate
  BY <1>1, <1>2, <1>3, <1>4, <1>6, <1>7, <1>8, <1>9, <1>10 DEF Recorded
<1>11. CASE ~command_list_map_[l].immediate
  <2>1. kernel_call_list_' = kernel_call_list_ /\ call_id_map_' = call_id_map_
    BY <1>2, <1>3, <1>4, <1>9, <1>11 DEF Base, TypeOK
  <2>. QED  BY <1>1, <1>2, <1>3, <1>4, <1>6, <1>7, <1>8, <1>11, <2>1 DEF Recorded
<1>. QED  BY <1>10, <1>11

LEMMA RecordedBase ==
  ASSUME Base, NEW t \in Threads, NEW c \in Commands, Recorded(t, c)
  PROVE  /\ Base' /\ Held' = Held
         /\ ~Awaited(c)' /\ \A d \in Commands \ {c} : Awaited(d)' <=> Awaited(d)
<1>. DEFINE l == command[c].list
<1>1. thr[t].command = c
  BY DEF Recorded
<1>2. thr[t].op = "append" /\ thr' = [thr EXCEPT ![t] = Idle]
  BY DEF Recorded
<1>3. /\ command[c] # None /\ command[c] \in CommandType
      /\ thr[t].lists = {l} /\ l \in Lists
      /\ command[c].kernel_id = 0 /\ command[c].call_count = 0
      /\ command_list_map_[l] # None
      /\ \A u \in Threads \ {t} :
           /\ l \notin thr[u].lists
           /\ thr[u].op = "append" => thr[u].command # c
           /\ thr[u].op = "execute" => l \notin thr[u].todo
      /\ Awaited(c) <=> thr[t].ok /\ command_list_map_[l].immediate
  BY <1>1, <1>2, Appender
<1>. DEFINE new == [command |-> c, call_id |-> 1, need_to_process |-> thr[t].need, fence |-> None]
            immediate == command_list_map_[l].immediate
<1>4. /\ kernel_id_' = kernel_id_ + 1
      /\ kernel_id_map_' = [kernel_id_map_ EXCEPT ![l] = @ \cup {kernel_id_}]
      /\ command' \in [Commands -> CommandType \cup {None}]
      /\ \A d \in Commands \ {c} : command'[d] = command[d]
      /\ command'[c] # None /\ command'[c].list = l /\ command'[c].event = command[c].event
      /\ command'[c].kernel_id = kernel_id_
      /\ UNCHANGED <<cacheVars, list, running, fence, enabled, raced, command_list_map_>>
  BY DEF Recorded, driverVars
<1>5. IF immediate
      THEN /\ command'[c].call_count = 1
           /\ call_id_map_' = [call_id_map_ EXCEPT ![l] = @ \cup {<<kernel_id_, 1>>}]
           /\ kernel_call_list_' = kernel_call_list_ \cup {new}
      ELSE command'[c].call_count = 0 /\ UNCHANGED <<kernel_call_list_, call_id_map_>>
  BY DEF Recorded
<1>6. /\ new \in CallType /\ new.command = c /\ new.call_id = 1
  BY <1>1, <1>2 DEF Base, TypeOK, CallType
<1>. HIDE DEF new
<1>7. /\ thr' \in [Threads -> ThreadType]
      /\ \A u \in Threads : thr'[u] = IF u = t THEN Idle ELSE thr[u]
  BY <1>2, IdleTyped DEF Base, TypeOK, ThreadType
<1>8. TypeOK'
  <2>1. kernel_call_list_' \subseteq CallType
    BY <1>5, <1>6 DEF Base, TypeOK
  <2>2. call_id_map_' \in [Lists -> SUBSET (Nat \X Nat)]
    <3>1. <<kernel_id_, 1>> \in Nat \X Nat
      BY DEF Base, TypeOK
    <3>. QED  BY <1>5, <3>1 DEF Base, TypeOK
  <2>3. kernel_id_' \in Nat \ {0} /\ kernel_id_map_' \in [Lists -> SUBSET Nat]
    <3>1. kernel_id_ \in Nat \ {0} /\ kernel_id_map_ \in [Lists -> SUBSET Nat] /\ kernel_id_' = kernel_id_ + 1
      BY <1>4 DEF Base, TypeOK
    <3>2. kernel_id_map_[l] \cup {kernel_id_} \in SUBSET Nat
      BY <1>3, <3>1
    <3>3. kernel_id_map_' = [kernel_id_map_ EXCEPT ![l] = kernel_id_map_[l] \cup {kernel_id_}]
      BY <1>4
    <3>4. kernel_id_' \in Nat \ {0}
      BY <3>1
    <3>. QED  BY <3>1, <3>2, <3>3, <3>4
  <2>. QED  BY <1>4, <1>7, <2>1, <2>2, <2>3 DEF Base, TypeOK, ThreadType, cacheVars
<1>9. Held' = Held
  <2>1. \A d \in Commands : (IF command'[d] = None THEN None ELSE command'[d].event)
                            = IF command[d] = None THEN None ELSE command[d].event
    BY <1>3, <1>4
  <2>. QED  BY <2>1 DEF Held
<1>10. EventsInv' /\ CacheTypeOK'
  BY <1>4, <1>9, EventsKept DEF Base, cacheVars
<1>11. ListsInv'
  <2>1. \A m \in Lists : m # l => (InFunction(m)' <=> InFunction(m))
    BY <1>3, <1>7, IdleTyped DEF InFunction
  <2>2. \A m \in Lists : list'[m] # None /\ ~InFunction(m)' => command_list_map_'[m] # None
    BY <1>3, <1>4, <2>1 DEF Base, ListsInv
  <2>3. ListRecords'
    BY <1>4, <1>7, IdleTyped DEF Base, ListsInv, ListRecords
  <2>. QED  BY <1>4, <1>7, <2>2, <2>3, IdleTyped DEF Base, ListsInv
<1>12. ~Awaited(c)' /\ \A d \in Commands \ {c} : Awaited(d)' <=> Awaited(d)
  <2>1. \A u \in Threads : ~Upcoming(u, c)'
    <3>1. ~Upcoming(t, c)'
      BY <1>7, IdleTyped DEF Upcoming
    <3>2. ASSUME NEW u \in Threads \ {t} PROVE ~Upcoming(u, c)'
      <4>1. thr'[u] = thr[u] /\ command'[c].list = l
        BY <1>4, <1>7
      <4>2. /\ thr[u].op = "append" => thr[u].command # c
            /\ thr[u].op = "execute" => l \notin thr[u].todo
        BY <1>3
      <4>. QED  BY <4>1, <4>2 DEF Upcoming
    <3>. QED  BY <3>1, <3>2
  <2>2. \A d \in Commands \ {c}, u \in Threads : Upcoming(u, d)' <=> Upcoming(u, d)
    BY <1>1, <1>2, <1>3, <1>4, <1>7, IdleTyped DEF Upcoming
  <2>. QED  BY <2>1, <2>2 DEF Awaited
<1>13. CommandsInv'
  <2>1. \A u \in Threads : thr'[u].op = "append" =>
          /\ thr'[u].command \in Commands /\ command'[thr'[u].command] # None
          /\ thr'[u].lists = {command'[thr'[u].command].list}
          /\ command'[thr'[u].command].kernel_id = 0 /\ command'[thr'[u].command].call_count = 0
          /\ thr'[u].fence = None
    BY <1>3, <1>4, <1>7, IdleTyped DEF Base, CommandsInv
  <2>2. ASSUME NEW d \in Commands, command'[d] # None
        PROVE  /\ command_list_map_'[command'[d].list] # None
               /\ command'[d].kernel_id = 0 => \E u \in Threads : thr'[u].op = "append" /\ thr'[u].command = d
               /\ command'[d].call_count <= MaxRuns
               /\ Awaited(d)' => command'[d].call_count < MaxRuns
    <3>1. CASE d = c
      BY <1>3, <1>4, <1>5, <1>12, <3>1, BoundAssumption DEF Base, TypeOK
    <3>2. CASE d # c
      <4>1. command'[d] = command[d] /\ command[d] # None /\ (Awaited(d)' <=> Awaited(d))
        BY <1>4, <1>12, <2>2, <3>2
      <4>2. command_list_map_[command[d].list] # None /\ command[d].call_count <= MaxRuns
            /\ (Awaited(d) => command[d].call_count < MaxRuns)
        BY <4>1 DEF Base, CommandsInv
      <4>3. ASSUME command[d].kernel_id = 0
            PROVE  \E u \in Threads : thr'[u].op = "append" /\ thr'[u].command = d
        <5>1. PICK u \in Threads : thr[u].op = "append" /\ thr[u].command = d
          BY <4>1, <4>3 DEF Base, CommandsInv
        <5>2. u # t
          BY <1>1, <3>2, <5>1
        <5>. QED  BY <1>7, <5>1, <5>2
      <4>. QED  BY <1>4, <4>1, <4>2, <4>3
    <3>. QED  BY <3>1, <3>2
  <2>. QED  BY <2>1, <2>2 DEF CommandsInv
<1>14. RunsInv'
  <2>1. \A r \in running : r.command \in Commands /\ r.call_id \in Nat
    BY DEF Base, TypeOK
  <2>2. ASSUME NEW r \in running'
        PROVE  /\ command'[r.command] # None
               /\ r.call_id > 0
               /\ \/ r.call_id <= command'[r.command].call_count
                  \/ r.call_id = command'[r.command].call_count + 1 /\ Awaited(r.command)'
               /\ r.fence # None => fence'[r.fence] = "busy"
    <3>1. CASE r.command = c
      <4>1. /\ r.call_id > 0
            /\ r.call_id <= 0 \/ (r.call_id = 1 /\ Awaited(c))
            /\ r.fence # None => fence[r.fence] = "busy"
        BY <1>3, <1>4, <3>1 DEF Base, RunsInv
      <4>2. r.call_id = 1 /\ Awaited(c)
        BY <1>4, <2>1, <4>1
      <4>3. command'[c].call_count = 1
        BY <1>3, <1>5, <4>2
      <4>. QED  BY <1>4, <3>1, <4>1, <4>2, <4>3
    <3>2. CASE r.command # c
      BY <1>4, <1>12, <2>1, <3>2 DEF Base, RunsInv
    <3>. QED  BY <3>1, <3>2
  <2>3. \A u \in Threads : thr'[u].op \in {"destroy", "reset", "erase", "clear"} =>
          \A r \in running' : command'[r.command].list \notin thr'[u].lists
    BY <1>4, <1>7, <2>1, IdleTyped DEF Base, RunsInv
  <2>. QED  BY <1>4, <2>2, <2>3 DEF Base, RunsInv
<1>15. CallsInv'
  <2>1. \A k \in kernel_call_list_ : k.command \in Commands /\ k.command # c
    BY <1>3 DEF Base, TypeOK, CallType, CallsInv
  <2>2. \A k \in kernel_call_list_' : k \in kernel_call_list_ \/ (k = new /\ command'[c].call_count = 1)
    BY <1>5
  <2>3. \A k \in kernel_call_list_' :
          /\ command'[k.command] # None
          /\ k.call_id > 0 /\ k.call_id <= command'[k.command].call_count
    BY <1>4, <1>6, <2>1, <2>2 DEF Base, CallsInv
  <2>4. \A j, k \in kernel_call_list_' : j.command = k.command /\ j.call_id = k.call_id => j = k
    BY <1>6, <2>1, <2>2 DEF Base, CallsInv
  <2>. QED  BY <2>3, <2>4 DEF CallsInv
<1>. QED  BY <1>8, <1>9, <1>12, <1>10, <1>11, <1>13, <1>14, <1>15 DEF Base

LEMMA EndAppendBase ==
  ASSUME Base, NEW t \in Threads, EndAppend(t)
  PROVE  Base'
<1>. DEFINE c == thr[t].command
<1>1. CASE ~thr[t].ok
  <2>1. /\ thr[t].op = "append" /\ c \in Commands /\ Deleted(c)
        /\ thr' = [thr EXCEPT ![t] = Idle]
        /\ \A r \in running : r.command # c
        /\ \A k \in kernel_call_list_ : k.command # c
    BY <1>1, AppendFailedFacts
  <2>2. /\ thr' \in [Threads -> ThreadType]
        /\ \A u \in Threads : thr'[u] = IF u = t THEN Idle ELSE thr[u]
    BY <2>1, IdleTyped DEF Base, TypeOK, ThreadType
  <2>3. \A u \in Threads : thr'[u].op = "append" => thr'[u].command # c
    BY <2>1, <2>2, Appender, IdleTyped
  <2>. QED  BY <2>1, <2>2, <2>3, DeletedBase
<1>2. CASE thr[t].ok
  BY <1>2, RecordFacts, RecordedBase
<1>. QED  BY <1>1, <1>2

LEMMA RemoveFacts ==
  ASSUME Base, NEW t \in Threads, NEW l \in Lists, NEW c \in Commands, RemoveKernelCommand(t, l, c)
  PROVE  /\ Deleted(c) /\ thr' = thr
         /\ thr[t].op \in Removing /\ thr[t].lists = {l}
         /\ command[c].list = l /\ command[c].kernel_id > 0
         /\ \A r \in running : r.command # c
         /\ \A k \in kernel_call_list_ : k.command # c
<1>1. /\ thr[t].op \in Removing /\ l \in thr[t].lists /\ c \in CommandsOf(l) /\ thr' = thr
      /\ \A k \in kernel_call_list_ : k.command # c
  BY DEF RemoveKernelCommand
<1>2. thr[t].lists = {l}
  BY <1>1 DEF Base, ListsInv, Removing
<1>3. Deleted(c)
  BY <1>1 DEF RemoveKernelCommand, Deleted, CommandsOf
<1>4. \A r \in running : r.command # c
  BY <1>1 DEF Base, RunsInv, CommandsOf, Removing
<1>. QED  BY <1>1, <1>2, <1>3, <1>4 DEF CommandsOf

LEMMA RemoveKernelCommandBase ==
  ASSUME Base, NEW t \in Threads, NEW l \in Lists, NEW c \in Commands, RemoveKernelCommand(t, l, c)
  PROVE  Base' /\ \A d \in Commands \ {c} : Awaited(d)' <=> Awaited(d)
<1>1. /\ Deleted(c) /\ thr' = thr /\ command[c].kernel_id > 0
      /\ \A r \in running : r.command # c
      /\ \A k \in kernel_call_list_ : k.command # c
  BY RemoveFacts
<1>2. thr' \in [Threads -> ThreadType]
  BY <1>1 DEF Base, TypeOK, ThreadType
<1>3. \A u \in Threads : thr'[u].op = "append" => thr'[u].command # c
  BY <1>1 DEF Base, CommandsInv
<1>. QED  BY <1>1, <1>2, <1>3, DeletedBase

-----------------------------------------------------------------------------
(* Command lists are executed.                                             *)

LEMMA CommandsOfList ==
  ASSUME NEW c \in Commands, NEW l
  PROVE  c \in CommandsOf(l) <=> command[c] # None /\ command[c].list = l /\ command[c].kernel_id > 0
  BY DEF CommandsOf

\* What BeginExecute does with the commands of the lists L and a fence f.
Executed(t, L, f) ==
  /\ thr[t].op = "idle" /\ LockFree
  /\ \A l \in L : /\ Usable(l) /\ command_list_map_[l] # None
                  /\ ~list[l].immediate /\ ~OnDevice(l)
  /\ \A l \in L : \A c \in CommandsOf(l) :
       /\ command[c].call_count < MaxRuns /\ status[command[c].event] # "none"
  /\ f # None => fence[f] = "reset"
  /\ list' \in [Lists -> [context : Contexts, immediate : BOOLEAN, open : BOOLEAN] \cup {None}]
  /\ \A m \in Lists : list'[m] = None <=> list[m] = None
  /\ \A r : r \in running' <=>
       \/ r \in running
       \/ \E l \in L : \E c \in CommandsOf(l) :
            r = [command |-> c, call_id |-> command[c].call_count + 1, fence |-> f]
  /\ fence' = [g \in Fences |-> IF g = f THEN "busy" ELSE fence[g]]
  /\ command' \in [Commands -> CommandType \cup {None}]
  /\ SameCommands
  /\ \A c \in Commands : command[c] # None =>
       /\ command'[c].reported = command[c].reported
       /\ IF enabled /\ \E l \in L : c \in CommandsOf(l)
          THEN command'[c].wanted = command[c].wanted \cup {command[c].call_count + 1}
          ELSE command'[c].wanted = command[c].wanted
  /\ thr' \in [Threads -> ThreadType]
  /\ \A u \in Threads \ {t} : thr'[u] = thr[u]
  /\ thr'[t].op = "execute" /\ thr'[t].lists = L /\ thr'[t].todo = L /\ thr'[t].fence = f
  /\ UNCHANGED <<cacheVars, enabled, raced, command_list_map_, kernel_call_list_, idVars>>

LEMMA ExecuteFacts ==
  ASSUME TypeOK, NEW t \in Threads, NEW L \in SUBSET Lists, NEW f \in Fences \cup {None},
         BeginExecute(t, L, f)
  PROVE  Executed(t, L, f)
<1>. DEFINE commands == UNION {CommandsOf(l) : l \in L}
            R == [Idle EXCEPT !.op = "execute", !.lists = L, !.todo = L, !.fence = f]
<1>1. \A c : c \in commands <=> \E l \in L : c \in CommandsOf(l)
  OBVIOUS
<1>2. /\ thr[t].op = "idle" /\ LockFree
      /\ \A l \in L : /\ Usable(l) /\ command_list_map_[l] # None
                      /\ ~list[l].immediate /\ ~OnDevice(l)
      /\ \A c \in commands : /\ command[c].call_count < MaxRuns
                             /\ status[command[c].event] # "none"
      /\ f # None => fence[f] = "reset"
      /\ UNCHANGED <<cacheVars, enabled, raced, command_list_map_, kernel_call_list_, idVars>>
  BY DEF BeginExecute
<1>3. /\ list' = [l \in Lists |-> IF l \in L THEN [list[l] EXCEPT !.open = FALSE] ELSE list[l]]
      /\ running' = running \cup
           {[command |-> c, call_id |-> command[c].call_count + 1, fence |-> f] : c \in commands}
      /\ fence' = [g \in Fences |-> IF g = f THEN "busy" ELSE fence[g]]
      /\ command' = [c \in Commands |->
           IF c \in commands /\ enabled
           THEN [command[c] EXCEPT !.wanted = @ \cup {command[c].call_count + 1}]
           ELSE command[c]]
      /\ thr' = [thr EXCEPT ![t] = R]
  BY DEF BeginExecute
<1>. HIDE DEF commands
<1>4. \A c \in commands : c \in Commands /\ command[c] # None /\ command[c] \in CommandType
  BY <1>1 DEF CommandsOf, TypeOK
<1>5. /\ R \in ThreadType
      /\ R.op = "execute" /\ R.lists = L /\ R.todo = L /\ R.fence = f
  BY IdleTyped DEF ThreadType, Idle
<1>. HIDE DEF R
<1>6. /\ thr' \in [Threads -> ThreadType] /\ thr'[t] = R
      /\ \A u \in Threads \ {t} : thr'[u] = thr[u]
  BY <1>3, <1>5 DEF TypeOK, ThreadType
<1>7. ASSUME NEW m \in Lists
      PROVE  /\ list'[m] \in [context : Contexts, immediate : BOOLEAN, open : BOOLEAN] \cup {None}
             /\ list'[m] = None <=> list[m] = None
  <2>1. CASE m \in L
    <3>1. list[m] \in [context : Contexts, immediate : BOOLEAN, open : BOOLEAN] /\ list[m] # None
      BY <1>2, <2>1 DEF TypeOK, Usable
    <3>2. [list[m] EXCEPT !.open = FALSE] \in [context : Contexts, immediate : BOOLEAN, open : BOOLEAN]
      BY <3>1
    <3>3. list'[m] = [list[m] EXCEPT !.open = FALSE]
      BY <1>3, <2>1
    <3>. QED  BY <3>1, <3>2, <3>3, NoneAssumption
  <2>2. CASE m \notin L
    BY <1>3, <2>2 DEF TypeOK
  <2>. QED  BY <2>1, <2>2
<1>8. list' \in [Lists -> [context : Contexts, immediate : BOOLEAN, open : BOOLEAN] \cup {None}]
  BY <1>3, <1>7
<1>9. ASSUME NEW c \in Commands, command[c] # None
      PROVE  /\ command'[c] \in CommandType
             /\ command'[c].list = command[c].list /\ command'[c].event = command[c].event
             /\ command'[c].kernel_id = command[c].kernel_id
             /\ command'[c].call_count = command[c].call_count
             /\ command'[c].reported = command[c].reported
             /\ IF enabled /\ c \in commands
                THEN command'[c].wanted = command[c].wanted \cup {command[c].call_count + 1}
                ELSE command'[c].wanted = command[c].wanted
  <2>1. command[c] \in CommandType
    BY <1>9 DEF TypeOK
  <2>2. CASE enabled /\ c \in commands
    <3>1. command'[c] = [command[c] EXCEPT !.wanted = @ \cup {command[c].call_count + 1}]
      BY <1>3, <2>2
    <3>2. command[c].wanted \cup {command[c].call_count + 1} \in SUBSET Nat
      BY <2>1 DEF CommandType
    <3>. QED  BY <2>1, <2>2, <3>1, <3>2 DEF CommandType
  <2>3. CASE ~(enabled /\ c \in commands)
    <3>1. command'[c] = command[c]
      BY <1>3, <2>3
    <3>. QED  BY <2>1, <2>3, <3>1
  <2>. QED  BY <2>2, <2>3
<1>10. \A c \in Commands : command[c] = None => command'[c] = None
  BY <1>3, <1>4
<1>11. SameCommands
  BY <1>9, <1>10, NoneAssumption DEF SameCommands
<1>12. command' \in [Commands -> CommandType \cup {None}]
  <2>1. \A c \in Commands : command'[c] \in CommandType \cup {None}
    BY <1>9, <1>10
  <2>. QED  BY <1>3, <2>1
<1>13. \A r : r \in running' <=>
        \/ r \in running
        \/ \E l \in L : \E c \in CommandsOf(l) :
             r = [command |-> c, call_id |-> command[c].call_count + 1, fence |-> f]
  BY <1>1, <1>3
<1>14. \A l \in L : \A c \in CommandsOf(l) :
         command[c].call_count < MaxRuns /\ status[command[c].event] # "none"
  BY <1>1, <1>2
<1>. QED  BY <1>1, <1>2, <1>3, <1>5, <1>6, <1>7, <1>8, <1>9, <1>11, <1>12, <1>13, <1>14 DEF Executed

LEMMA ExecuteAwaits ==
  ASSUME Base, NEW t \in Threads, NEW L \in SUBSET Lists, NEW f \in Fences \cup {None},
         Executed(t, L, f), NEW c \in Commands
  PROVE  /\ \A u \in Threads : Upcoming(u, c)' <=>
              Upcoming(u, c) \/ (u = t /\ \E l \in L : c \in CommandsOf(l))
         /\ Awaited(c)' <=> Awaited(c) \/ \E l \in L : c \in CommandsOf(l)
         /\ (\E l \in L : c \in CommandsOf(l)) => ~Awaited(c)
<1>1. /\ SameCommands /\ thr[t].op = "idle"
      /\ \A u \in Threads \ {t} : thr'[u] = thr[u]
      /\ thr'[t].op = "execute" /\ thr'[t].todo = L
      /\ command_list_map_' = command_list_map_
  BY DEF Executed
<1>2. (\E l \in L : c \in CommandsOf(l)) <=>
        command[c] # None /\ command[c].list \in L /\ command[c].kernel_id > 0
  BY CommandsOfList
<1>3. \A u \in Threads \ {t} : Upcoming(u, c)' <=> Upcoming(u, c)
  BY <1>1 DEF Upcoming, SameCommands
<1>4. ~Upcoming(t, c) /\ (Upcoming(t, c)' <=> \E l \in L : c \in CommandsOf(l))
  BY <1>1, <1>2 DEF Upcoming, SameCommands
<1>5. \A u \in Threads : Upcoming(u, c) => command[c].list \in thr[u].lists
  BY DEF Upcoming, Base, CommandsInv, ListsInv
<1>6. (\E l \in L : c \in CommandsOf(l)) => ~Awaited(c)
  BY <1>2, <1>5 DEF Awaited, Executed, Usable, InFunction
<1>. QED  BY <1>3, <1>4, <1>6 DEF Awaited

LEMMA BeginExecuteBase ==
  ASSUME Base, NEW t \in Threads, NEW L \in SUBSET Lists, NEW f \in Fences \cup {None},
         BeginExecute(t, L, f)
  PROVE  Base'
<1>1. Executed(t, L, f)
  BY ExecuteFacts DEF Base
<1>2. /\ SameCommands /\ thr[t].op = "idle"
      /\ \A l \in L : Usable(l) /\ command_list_map_[l] # None /\ ~OnDevice(l)
      /\ \A m \in Lists : list'[m] = None <=> list[m] = None
      /\ \A u \in Threads \ {t} : thr'[u] = thr[u]
      /\ thr'[t].op = "execute" /\ thr'[t].lists = L /\ thr'[t].todo = L
      /\ thr' \in [Threads -> ThreadType]
      /\ UNCHANGED <<cacheVars, enabled, raced, command_list_map_, kernel_call_list_, idVars>>
  BY <1>1 DEF Executed
<1>3. ASSUME NEW r \in running'
      PROVE  \/ r \in running
             \/ /\ r.command \in Commands /\ command[r.command] # None
                /\ command[r.command].list \in L /\ command[r.command].kernel_id > 0
                /\ command[r.command].call_count \in Nat
                /\ r = [command |-> r.command, call_id |-> command[r.command].call_count + 1,
                        fence |-> f]
                /\ r.call_id = command[r.command].call_count + 1 /\ r.fence = f
                /\ Awaited(r.command)'
  <2>. SUFFICES ASSUME r \notin running
                PROVE  /\ r.command \in Commands /\ command[r.command] # None
                       /\ command[r.command].list \in L /\ command[r.command].kernel_id > 0
                       /\ command[r.command].call_count \in Nat
                       /\ r = [command |-> r.command, call_id |-> command[r.command].call_count + 1,
                               fence |-> f]
                       /\ r.call_id = command[r.command].call_count + 1 /\ r.fence = f
                       /\ Awaited(r.command)'
    OBVIOUS
  <2>1. PICK l \in L : \E c \in CommandsOf(l) :
          r = [command |-> c, call_id |-> command[c].call_count + 1, fence |-> f]
    BY <1>1 DEF Executed
  <2>2. PICK c \in CommandsOf(l) :
          r = [command |-> c, call_id |-> command[c].call_count + 1, fence |-> f]
    BY <2>1
  <2>3. c \in Commands /\ command[c] # None /\ command[c].list = l /\ command[c].kernel_id > 0
    BY DEF CommandsOf
  <2>4. command[c].call_count \in Nat
    BY <2>3 DEF Base, TypeOK, CommandType
  <2>5. Awaited(c)'
    BY <1>1, <2>3, ExecuteAwaits
  <2>6. r.command = c /\ r.call_id = command[c].call_count + 1 /\ r.fence = f
    BY <2>2
  <2>. QED  BY <2>2, <2>3, <2>4, <2>5, <2>6
<1>4. TypeOK'
  <2>1. running' \subseteq [command : Commands, call_id : Nat, fence : Fences \cup {None}]
    BY <1>3 DEF Base, TypeOK
  <2>2. fence' \in [Fences -> {"reset", "busy", "signaled"}]
    BY <1>1 DEF Base, TypeOK, Executed
  <2>3. /\ list' \in [Lists -> [context : Contexts, immediate : BOOLEAN, open : BOOLEAN] \cup {None}]
        /\ command' \in [Commands -> CommandType \cup {None}]
    BY <1>1 DEF Executed
  <2>. QED  BY <1>2, <2>1, <2>2, <2>3 DEF Base, TypeOK, ThreadType, cacheVars, idVars
<1>5. EventsInv' /\ CacheTypeOK'
  BY <1>2, SameHeld, EventsKept DEF Base, cacheVars
<1>6. \A u \in Threads : \A l \in L : l \notin thr[u].lists
  BY <1>2 DEF Usable, InFunction
<1>7. ListsInv'
  <2>1. \A m \in Lists : m \notin L => (InFunction(m)' <=> InFunction(m))
    BY <1>2 DEF InFunction, Base, ListsInv
  <2>2. \A m \in L : InFunction(m)'
    BY <1>2 DEF InFunction
  <2>3. \A m \in Lists : list'[m] # None /\ ~InFunction(m)' => command_list_map_'[m] # None
    BY <1>2, <2>1, <2>2 DEF Base, ListsInv
  <2>4. ListRecords'
    BY <1>2 DEF Base, ListsInv, ListRecords
  <2>5. \A u \in Threads, v \in Threads : u # v => thr'[u].lists \cap thr'[v].lists = {}
    BY <1>2, <1>6 DEF Base, ListsInv
  <2>6. \A u \in Threads : thr'[u].lists \subseteq Lists
    BY <1>2 DEF ThreadType
  <2>. QED  BY <1>2, <2>3, <2>4, <2>5, <2>6 DEF Base, ListsInv
<1>8. CommandsInv'
  <2>1. \A u \in Threads : thr'[u].op = "append" =>
          /\ thr'[u].command \in Commands /\ command'[thr'[u].command] # None
          /\ thr'[u].lists = {command'[thr'[u].command].list}
          /\ command'[thr'[u].command].kernel_id = 0 /\ command'[thr'[u].command].call_count = 0
          /\ thr'[u].fence = None
    BY <1>2 DEF Base, CommandsInv, SameCommands
  <2>2. ASSUME NEW d \in Commands, command'[d] # None
        PROVE  /\ command_list_map_'[command'[d].list] # None
               /\ command'[d].kernel_id = 0 => \E u \in Threads : thr'[u].op = "append" /\ thr'[u].command = d
               /\ command'[d].call_count <= MaxRuns
               /\ Awaited(d)' => command'[d].call_count < MaxRuns
    <3>1. command[d] # None /\ command'[d].list = command[d].list
          /\ command'[d].kernel_id = command[d].kernel_id
          /\ command'[d].call_count = command[d].call_count
      BY <1>2, <2>2 DEF SameCommands
    <3>2. (\E l \in L : d \in CommandsOf(l)) => command[d].call_count < MaxRuns
      BY <1>1 DEF Executed
    <3>3. Awaited(d)' => command[d].call_count < MaxRuns
      BY <1>1, <3>1, <3>2, ExecuteAwaits DEF Base, CommandsInv
    <3>4. command[d].kernel_id = 0 => \E u \in Threads : thr'[u].op = "append" /\ thr'[u].command = d
      BY <1>2, <3>1 DEF Base, CommandsInv
    <3>. QED  BY <1>2, <3>1, <3>3, <3>4 DEF Base, CommandsInv
  <2>. QED  BY <2>1, <2>2 DEF CommandsInv
<1>9. RunsInv'
  <2>1. \A r \in running : /\ r.command \in Commands
                           /\ command[r.command] # None /\ command[r.command].list \notin L
    BY <1>2 DEF Base, TypeOK, RunsInv, OnDevice
  <2>2. \A r, s \in running' : r.command = s.command => r = s
    <3>. SUFFICES ASSUME NEW r \in running', NEW s \in running', r.command = s.command
                  PROVE  r = s
      OBVIOUS
    <3>1. CASE r \in running
      BY <1>3, <2>1, <3>1 DEF Base, RunsInv
    <3>2. CASE r \notin running
      BY <1>3, <2>1, <3>2
    <3>. QED  BY <3>1, <3>2
  <2>3. ASSUME NEW r \in running'
        PROVE  /\ command'[r.command] # None
               /\ r.call_id > 0
               /\ \/ r.call_id <= command'[r.command].call_count
                  \/ r.call_id = command'[r.command].call_count + 1 /\ Awaited(r.command)'
               /\ r.fence # None => fence'[r.fence] = "busy"
    <3>1. fence' = [g \in Fences |-> IF g = f THEN "busy" ELSE fence[g]]
      BY <1>1 DEF Executed
    <3>2. CASE r \in running
      <4>1. Awaited(r.command) => Awaited(r.command)'
        <5>1. PICK c \in Commands : c = r.command
          BY <2>1, <3>2
        <5>. QED  BY <1>1, <5>1, ExecuteAwaits
      <4>2. r.fence \in Fences \cup {None}
        BY <3>2 DEF Base, TypeOK
      <4>3. r.fence # None => fence'[r.fence] = "busy"
        BY <3>1, <3>2, <4>2 DEF Base, RunsInv
      <4>. QED  BY <1>2, <2>1, <3>2, <4>1, <4>3 DEF Base, RunsInv, SameCommands
    <3>3. CASE r \notin running
      <4>1. /\ r.command \in Commands /\ command[r.command] # None
            /\ command[r.command].call_count \in Nat
            /\ r.call_id = command[r.command].call_count + 1 /\ r.fence = f
            /\ Awaited(r.command)'
        BY <1>3, <3>3
      <4>2. command'[r.command] # None /\ command'[r.command].call_count = command[r.command].call_count
        BY <1>2, <4>1 DEF SameCommands
      <4>. QED  BY <3>1, <4>1, <4>2
    <3>. QED  BY <3>2, <3>3
  <2>4. \A u \in Threads : thr'[u].op \in {"destroy", "reset", "erase", "clear"} =>
          \A r \in running' : command'[r.command].list \notin thr'[u].lists
    BY <1>2, <1>3, <1>6, <2>1 DEF Base, RunsInv, SameCommands
  <2>. QED  BY <2>2, <2>3, <2>4 DEF RunsInv
<1>10. CallsInv'
  <2>1. \A k \in kernel_call_list_ : k.command \in Commands
    BY DEF Base, TypeOK, CallType
  <2>. QED  BY <1>2, <2>1 DEF Base, CallsInv, SameCommands
<1>. QED  BY <1>4, <1>5, <1>7, <1>8, <1>9, <1>10 DEF Base

\* What AddKernelCalls does with the commands of list l.
Called(t, l) ==
  /\ thr[t].op = "execute" /\ l \in thr[t].todo /\ LockFree
  /\ \A k : k \in kernel_call_list_' <=>
       \/ k \in kernel_call_list_
       \/ \E c \in CommandsOf(l) :
            k = [command |-> c, call_id |-> command[c].call_count + 1,
                 need_to_process |-> enabled, fence |-> thr[t].fence]
  /\ call_id_map_' = [call_id_map_ EXCEPT ![l] = CallIds(l)]
  /\ command' \in [Commands -> CommandType \cup {None}]
  /\ \A c \in Commands : (command'[c] = None <=> command[c] = None)
  /\ \A c \in Commands : command[c] # None =>
       /\ command'[c].list = command[c].list /\ command'[c].event = command[c].event
       /\ command'[c].kernel_id = command[c].kernel_id
       /\ command'[c].wanted = command[c].wanted /\ command'[c].reported = command[c].reported
       /\ IF c \in CommandsOf(l) THEN command'[c].call_count = command[c].call_count + 1
                                 ELSE command'[c].call_count = command[c].call_count
  /\ thr' \in [Threads -> ThreadType]
  /\ \A u \in Threads \ {t} : thr'[u] = thr[u]
  /\ thr'[t].lists = thr[t].lists /\ thr'[t].fence = thr[t].fence
  /\ thr'[t].todo = thr[t].todo \ {l}
  /\ IF thr[t].todo = {l} THEN thr'[t].op = "executed" ELSE thr'[t].op = "execute"
  /\ UNCHANGED <<cacheVars, driverVars, command_list_map_, kernel_id_, kernel_id_map_>>

LEMMA CallFacts ==
  ASSUME TypeOK, NEW t \in Threads, NEW l \in Lists, AddKernelCalls(t, l)
  PROVE  Called(t, l)
<1>. DEFINE R == [thr[t] EXCEPT !.todo = @ \ {l},
                               !.op = IF thr[t].todo = {l} THEN "executed" ELSE "execute"]
<1>1. /\ thr[t].op = "execute" /\ l \in thr[t].todo /\ LockFree
      /\ kernel_call_list_' = kernel_call_list_ \cup
           {[command |-> c, call_id |-> command[c].call_count + 1, need_to_process |-> enabled,
             fence |-> thr[t].fence] : c \in CommandsOf(l)}
      /\ call_id_map_' = [call_id_map_ EXCEPT ![l] = CallIds(l)]
      /\ command' = [c \in Commands |->
           IF c \in CommandsOf(l) THEN [command[c] EXCEPT !.call_count = @ + 1] ELSE command[c]]
      /\ UNCHANGED <<cacheVars, driverVars, command_list_map_, kernel_id_, kernel_id_map_>>
  BY DEF AddKernelCalls, NewCallIds
<1>0. thr' = [thr EXCEPT ![t] = R]
  <2>1. thr' = [thr EXCEPT ![t].todo = @ \ {l},
                          ![t].op = IF thr[t].todo = {l} THEN "executed" ELSE "execute"]
    BY DEF AddKernelCalls
  <2>. QED  BY <2>1 DEF TypeOK
<1>2. /\ R \in ThreadType
      /\ R.lists = thr[t].lists /\ R.fence = thr[t].fence /\ R.todo = thr[t].todo \ {l}
      /\ IF thr[t].todo = {l} THEN R.op = "executed" ELSE R.op = "execute"
  BY DEF TypeOK, ThreadType
<1>. HIDE DEF R
<1>3. /\ thr' \in [Threads -> ThreadType] /\ thr'[t] = R
      /\ \A u \in Threads \ {t} : thr'[u] = thr[u]
  BY <1>0, <1>2 DEF TypeOK, ThreadType
<1>4. \A c \in CommandsOf(l) : c \in Commands /\ command[c] # None
  BY DEF CommandsOf
<1>5. ASSUME NEW c \in Commands, command[c] # None
      PROVE  /\ command'[c] \in CommandType
             /\ command'[c].list = command[c].list /\ command'[c].event = command[c].event
             /\ command'[c].kernel_id = command[c].kernel_id
             /\ command'[c].wanted = command[c].wanted /\ command'[c].reported = command[c].reported
             /\ IF c \in CommandsOf(l) THEN command'[c].call_count = command[c].call_count + 1
                                       ELSE command'[c].call_count = command[c].call_count
  <2>1. command[c] \in CommandType
    BY <1>5 DEF TypeOK
  <2>2. command'[c] = IF c \in CommandsOf(l) THEN [command[c] EXCEPT !.call_count = @ + 1] ELSE command[c]
    BY <1>1
  <2>. QED  BY <2>1, <2>2 DEF CommandType
<1>6. \A c \in Commands : command'[c] = None <=> command[c] = None
  BY <1>1, <1>4, <1>5, NoneAssumption
<1>7. command' \in [Commands -> CommandType \cup {None}]
  <2>1. \A c \in Commands : command'[c] \in CommandType \cup {None}
    BY <1>5, <1>6
  <2>. QED  BY <1>1, <2>1
<1>. QED  BY <1>1, <1>2, <1>3, <1>5, <1>6, <1>7 DEF Called

LEMMA CallAwaits ==
  ASSUME Base, NEW t \in Threads, NEW l \in Lists, Called(t, l), NEW c \in Commands
  PROVE  /\ c \in CommandsOf(l) => Awaited(c) /\ ~Awaited(c)'
         /\ c \notin CommandsOf(l) => (Awaited(c)' <=> Awaited(c))
         /\ c \in CommandsOf(l) => \A u \in Threads : Upcoming(u, c) => u = t
         /\ \A u \in Threads : Upcoming(u, c)' => Upcoming(u, c)
         /\ c \notin CommandsOf(l) => \A u \in Threads : Upcoming(u, c)' <=> Upcoming(u, c)
<1>1. /\ thr[t].op = "execute" /\ l \in thr[t].todo
      /\ \A u \in Threads \ {t} : thr'[u] = thr[u]
      /\ thr'[t].todo = thr[t].todo \ {l} /\ thr'[t].op \in {"execute", "executed"}
      /\ thr'[t].op = "executed" => thr[t].todo = {l}
      /\ command_list_map_' = command_list_map_
      /\ command'[c] = None <=> command[c] = None
      /\ command[c] # None => /\ command'[c].list = command[c].list
                              /\ command'[c].kernel_id = command[c].kernel_id
  BY DEF Called
<1>2. c \in CommandsOf(l) <=> command[c] # None /\ command[c].list = l /\ command[c].kernel_id > 0
  BY CommandsOfList
<1>3. \A u \in Threads : Upcoming(u, c) => command[c].list \in thr[u].lists
  BY DEF Upcoming, Base, CommandsInv, ListsInv
<1>4. \A u \in Threads \ {t} : (Upcoming(u, c)' <=> Upcoming(u, c)) /\ l \notin thr[u].lists
  BY <1>1 DEF Upcoming, Base, ListsInv
<1>5. c \in CommandsOf(l) => Upcoming(t, c) /\ ~Upcoming(t, c)'
  BY <1>1, <1>2 DEF Upcoming
<1>6. c \notin CommandsOf(l) => (Upcoming(t, c)' <=> Upcoming(t, c))
  BY <1>1, <1>2 DEF Upcoming
<1>. QED  BY <1>2, <1>3, <1>4, <1>5, <1>6 DEF Awaited

LEMMA AddKernelCallsBase ==
  ASSUME Base, NEW t \in Threads, NEW l \in Lists, AddKernelCalls(t, l)
  PROVE  Base'
<1>1. Called(t, l)
  BY CallFacts DEF Base
<1>2. /\ thr[t].op = "execute" /\ l \in thr[t].todo
      /\ thr' \in [Threads -> ThreadType]
      /\ \A u \in Threads \ {t} : thr'[u] = thr[u]
      /\ thr'[t].lists = thr[t].lists /\ thr'[t].todo = thr[t].todo \ {l}
      /\ IF thr[t].todo = {l} THEN thr'[t].op = "executed" ELSE thr'[t].op = "execute"
      /\ UNCHANGED <<cacheVars, list, running, fence, enabled, raced, command_list_map_,
                     kernel_id_, kernel_id_map_>>
  BY <1>1 DEF Called, driverVars
<1>3. /\ \A c \in Commands : (command'[c] = None <=> command[c] = None)
      /\ \A c \in Commands : command[c] # None =>
           /\ command'[c].list = command[c].list /\ command'[c].event = command[c].event
           /\ command'[c].kernel_id = command[c].kernel_id
           /\ IF c \in CommandsOf(l) THEN command'[c].call_count = command[c].call_count + 1
                                     ELSE command'[c].call_count = command[c].call_count
      /\ command' \in [Commands -> CommandType \cup {None}]
  BY <1>1 DEF Called
<1>4. \A c \in Commands : command[c] # None => command[c].call_count \in Nat /\ command[c].kernel_id \in Nat
  BY DEF Base, TypeOK, CommandType
<1>5. ASSUME NEW k \in kernel_call_list_', k \notin kernel_call_list_
      PROVE  /\ k \in CallType /\ k.command \in CommandsOf(l)
             /\ k = [command |-> k.command, call_id |-> command[k.command].call_count + 1,
                     need_to_process |-> enabled, fence |-> thr[t].fence]
             /\ k.call_id = command[k.command].call_count + 1
  <2>1. PICK c \in CommandsOf(l) :
          k = [command |-> c, call_id |-> command[c].call_count + 1,
               need_to_process |-> enabled, fence |-> thr[t].fence]
    BY <1>1, <1>5 DEF Called
  <2>2. c \in Commands /\ command[c].call_count \in Nat
    BY <1>4 DEF CommandsOf
  <2>3. k.command = c /\ k.call_id = command[c].call_count + 1
    BY <2>1
  <2>4. k \in CallType
    BY <2>1, <2>2 DEF CallType, Base, TypeOK
  <2>. QED  BY <2>1, <2>3, <2>4
<1>6. CallIds(l) \in SUBSET (Nat \X Nat)
  BY <1>4 DEF CallIds, CommandsOf
<1>7. TypeOK'
  <2>1. kernel_call_list_' \subseteq CallType
    BY <1>5 DEF Base, TypeOK
  <2>2. call_id_map_' \in [Lists -> SUBSET (Nat \X Nat)]
    BY <1>1, <1>6 DEF Base, TypeOK, Called
  <2>. QED  BY <1>2, <1>3, <2>1, <2>2 DEF Base, TypeOK, ThreadType, cacheVars
<1>8. EventsInv' /\ CacheTypeOK'
  <2>1. \A c \in Commands : (IF command'[c] = None THEN None ELSE command'[c].event)
                            = IF command[c] = None THEN None ELSE command[c].event
    BY <1>3
  <2>2. Held' = Held
    BY <2>1 DEF Held
  <2>. QED  BY <1>2, <2>2, EventsKept DEF Base, cacheVars
<1>9. ListsInv'
  <2>1. \A m \in Lists : InFunction(m)' <=> InFunction(m)
    BY <1>2 DEF InFunction
  <2>2. \A m \in Lists : list'[m] # None /\ ~InFunction(m)' => command_list_map_'[m] # None
    BY <1>2, <2>1 DEF Base, ListsInv
  <2>3. ListRecords'
    BY <1>2 DEF Base, ListsInv, ListRecords
  <2>4. thr[t].todo \subseteq thr[t].lists
    BY <1>2 DEF Base, ListsInv
  <2>5. \A u \in Threads, v \in Threads : u # v => thr'[u].lists \cap thr'[v].lists = {}
    BY <1>2 DEF Base, ListsInv
  <2>. QED  BY <1>2, <2>2, <2>3, <2>4, <2>5 DEF Base, ListsInv
<1>10. CommandsInv'
  <2>1. \A c \in CommandsOf(l) : command[c].kernel_id > 0
    BY DEF CommandsOf
  <2>2. \A u \in Threads : thr'[u].op = "append" =>
          /\ thr'[u].command \in Commands /\ command'[thr'[u].command] # None
          /\ thr'[u].lists = {command'[thr'[u].command].list}
          /\ command'[thr'[u].command].kernel_id = 0 /\ command'[thr'[u].command].call_count = 0
          /\ thr'[u].fence = None
    BY <1>2, <1>3, <2>1 DEF Base, CommandsInv
  <2>3. ASSUME NEW d \in Commands, command'[d] # None
        PROVE  /\ command_list_map_'[command'[d].list] # None
               /\ command'[d].kernel_id = 0 => \E u \in Threads : thr'[u].op = "append" /\ thr'[u].command = d
               /\ command'[d].call_count <= MaxRuns
               /\ Awaited(d)' => command'[d].call_count < MaxRuns
    <3>1. command[d] # None /\ command'[d].list = command[d].list
          /\ command'[d].kernel_id = command[d].kernel_id
      BY <1>3, <2>3
    <3>2. command[d].kernel_id = 0 => \E u \in Threads : thr'[u].op = "append" /\ thr'[u].command = d
      BY <1>2, <3>1 DEF Base, CommandsInv
    <3>3. CASE d \in CommandsOf(l)
      <4>1. Awaited(d) /\ ~Awaited(d)'
        BY <1>1, <3>3, CallAwaits
      <4>2. command'[d].call_count = command[d].call_count + 1 /\ command[d].call_count < MaxRuns
        BY <1>3, <3>1, <3>3, <4>1 DEF Base, CommandsInv
      <4>3. command_list_map_[command[d].list] # None
        BY <3>1 DEF Base, CommandsInv
      <4>. QED  BY <1>2, <1>4, <3>1, <3>2, <4>1, <4>2, <4>3, BoundAssumption
    <3>4. CASE d \notin CommandsOf(l)
      <4>1. Awaited(d)' <=> Awaited(d)
        BY <1>1, <3>4, CallAwaits
      <4>2. command'[d].call_count = command[d].call_count
        BY <1>3, <3>1, <3>4
      <4>. QED  BY <1>2, <3>1, <3>2, <4>1, <4>2 DEF Base, CommandsInv
    <3>. QED  BY <3>3, <3>4
  <2>. QED  BY <2>2, <2>3 DEF CommandsInv
<1>11. RunsInv'
  <2>1. \A r \in running : r.command \in Commands /\ r.call_id \in Nat
    BY DEF Base, TypeOK
  <2>2. ASSUME NEW r \in running'
        PROVE  /\ command'[r.command] # None
               /\ r.call_id > 0
               /\ \/ r.call_id <= command'[r.command].call_count
                  \/ r.call_id = command'[r.command].call_count + 1 /\ Awaited(r.command)'
               /\ r.fence # None => fence'[r.fence] = "busy"
    <3>1. PICK c \in Commands : r.command = c
      BY <1>2, <2>1
    <3>2. /\ r \in running /\ r.call_id \in Nat /\ command[c] # None /\ command'[c] # None
          /\ r.call_id > 0
          /\ r.call_id <= command[c].call_count \/ (r.call_id = command[c].call_count + 1 /\ Awaited(c))
          /\ r.fence # None => fence'[r.fence] = "busy"
      BY <1>2, <1>3, <2>1, <3>1 DEF Base, RunsInv
    <3>3. CASE c \in CommandsOf(l)
      <4>1. command'[c].call_count = command[c].call_count + 1
        BY <1>3, <3>2, <3>3
      <4>2. r.call_id <= command[c].call_count + 1
        BY <1>4, <3>2
      <4>. QED  BY <3>1, <3>2, <4>1, <4>2
    <3>4. CASE c \notin CommandsOf(l)
      <4>1. Awaited(c)' <=> Awaited(c)
        BY <1>1, <3>4, CallAwaits
      <4>2. command'[c].call_count = command[c].call_count
        BY <1>3, <3>2, <3>4
      <4>. QED  BY <3>1, <3>2, <4>1, <4>2
    <3>. QED  BY <3>3, <3>4
  <2>3. \A u \in Threads : thr'[u].op \in {"destroy", "reset", "erase", "clear"} =>
          \A r \in running' : command'[r.command].list \notin thr'[u].lists
    BY <1>2, <1>3, <2>1 DEF Base, RunsInv
  <2>. QED  BY <1>2, <2>2, <2>3 DEF Base, RunsInv
<1>12. CallsInv'
  <2>1. \A k \in kernel_call_list_ :
          /\ k.command \in Commands /\ k.call_id \in Nat /\ command[k.command] # None
          /\ k.call_id > 0 /\ k.call_id <= command[k.command].call_count
    BY DEF Base, TypeOK, CallType, CallsInv
  <2>2. \A c \in CommandsOf(l) : c \in Commands /\ command[c] # None
    BY DEF CommandsOf
  <2>3. ASSUME NEW k \in kernel_call_list_'
        PROVE  /\ command'[k.command] # None
               /\ k.call_id > 0 /\ k.call_id <= command'[k.command].call_count
    <3>1. CASE k \in kernel_call_list_
      <4>1. command'[k.command].call_count >= command[k.command].call_count
        BY <1>3, <1>4, <2>1, <3>1
      <4>2. command'[k.command].call_count \in Nat
        BY <1>3, <1>4, <2>1, <3>1
      <4>. QED  BY <1>3, <1>4, <2>1, <3>1, <4>1, <4>2
    <3>2. CASE k \notin kernel_call_list_
      BY <1>3, <1>4, <1>5, <2>2, <3>2
    <3>. QED  BY <3>1, <3>2
  <2>4. ASSUME NEW j \in kernel_call_list_', NEW k \in kernel_call_list_',
               j.command = k.command, j.call_id = k.call_id
        PROVE  j = k
    <3>1. CASE j \in kernel_call_list_ /\ k \in kernel_call_list_
      BY <2>4, <3>1 DEF Base, CallsInv
    <3>2. CASE j \in kernel_call_list_ /\ k \notin kernel_call_list_
      BY <1>4, <1>5, <2>1, <2>4, <3>2
    <3>3. CASE j \notin kernel_call_list_ /\ k \in kernel_call_list_
      BY <1>4, <1>5, <2>1, <2>4, <3>3
    <3>4. CASE j \notin kernel_call_list_ /\ k \notin kernel_call_list_
      <4>1. /\ j = [command |-> j.command, call_id |-> command[j.command].call_count + 1,
                    need_to_process |-> enabled, fence |-> thr[t].fence]
            /\ k = [command |-> k.command, call_id |-> command[k.command].call_count + 1,
                    need_to_process |-> enabled, fence |-> thr[t].fence]
        BY <1>5, <3>4
      <4>. QED  BY <2>4, <4>1
    <3>. QED  BY <3>1, <3>2, <3>3, <3>4
  <2>. QED  BY <2>3, <2>4 DEF CallsInv
<1>. QED  BY <1>7, <1>8, <1>9, <1>10, <1>11, <1>12 DEF Base

-----------------------------------------------------------------------------
(* Types and records.                                                      *)

LEMMA StutterBase ==
  ASSUME Base, UNCHANGED vars
  PROVE  Base'
<1>1. UNCHANGED <<cacheVars, driverVars, command_list_map_, command, kernel_call_list_, idVars, thr>>
  BY DEF vars
<1>2. SameCommands /\ Held' = Held
  BY <1>1, SameCommandsIfUnchanged, SameHeld
<1>3. TypeOK'
  BY <1>1 DEF Base, TypeOK, cacheVars, driverVars, idVars
<1>4. EventsInv' /\ CacheTypeOK'
  BY <1>1, <1>2, EventsKept DEF Base, cacheVars
<1>5. ListsInv' /\ CommandsInv' /\ RunsInv' /\ CallsInv'
  BY <1>1, <1>2, Quiet DEF driverVars, Base, RunsInv
<1>. QED  BY <1>3, <1>4, <1>5 DEF Base

LEMMA NextBase ==
  ASSUME Base, [CareNext]_vars
  PROVE  Base'
<1>1. CASE OutsideStep
  BY <1>1, CreateEventBase, FinishBase, FenceBase, ToggleBase DEF OutsideStep
<1>2. ASSUME NEW t \in Threads, CallbackStep(t) PROVE Base'
  BY <1>2, EndCreateBase, EndAppendBase, AddKernelCallsBase, LogExecuteBase,
     EndDestroyOrResetBase, RemoveKernelCommandBase, EndRemoveBase DEF CallbackStep
<1>3. ASSUME NEW t \in Threads, CallStep(t) PROVE Base'
  BY <1>3, BeginAppendBase, BeginExecuteBase, SynchronizeBase, FenceHostSynchronizeBase,
     BeginDestroyBase, ContextDestroyBase DEF CallStep
<1>4. CASE CreateStep
  BY <1>4, CreateBase DEF CreateStep
<1>5. CASE \E e \in Events : EventHostReset(e) \/ EventDestroy(e)
  BY <1>5, AppEventBase
<1>6. CASE UNCHANGED vars
  BY <1>6, StutterBase
<1>. QED  BY <1>1, <1>2, <1>3, <1>4, <1>5, <1>6 DEF CareNext, Next, Common

LEMMA BaseInvariant == EarlyDestroySpec => []Base
<1>1. EarlyDestroySpec => Init /\ [][CareNext]_vars
  BY DEF EarlyDestroySpec, CareNext
<1>2. Init => Base
  BY InitBase
<1>3. Base /\ [CareNext]_vars => Base'
  BY NextBase
<1>. QED  BY <1>1, <1>2, <1>3, PTL

\* The types of the collector's variables, whether or not the application destroys events
\* that recorded commands still name.
THEOREM Types == EarlyDestroySpec => []TypeOK
<1>1. Base => TypeOK
  BY DEF Base
<1>. QED  BY <1>1, BaseInvariant, PTL

\* AddCommandList finds no record of the list it adds, and any other callback finds one:
\* the assertions about command_list_map_ hold, provided that the driver gives the handle
\* of a destroyed list out again only after the exit callback has forgotten the list
\* (Unrecorded) and that the application uses a list in one function at a time (Usable).
THEOREM RecordsOfLists == EarlyDestroySpec => []ListRecords
<1>1. Base => ListRecords
  BY DEF Base, ListsInv
<1>. QED  BY <1>1, BaseInvariant, PTL

-----------------------------------------------------------------------------
(* Every submission is accounted for.                                      *)

\* The device has got a call of command c whose callback will ask for it to be shown, as
\* the switch stands: an append has asked already.
Wanting(c) ==
  \E t \in Threads : /\ Upcoming(t, c)
                     /\ IF thr[t].op = "append" THEN thr[t].need ELSE enabled

\* The submissions wanted of a command are those pending, those reported and the one that
\* the device has got but the collector has not recorded, but for those the switch raced.
Agrees(c) ==
  /\ Shown(kernel_call_list_, c) \cap command[c].reported = {}
  /\ \A n \in command[c].reported : n <= command[c].call_count
  /\ \A n \in Nat : command[c].kernel_id = 0 \/ <<command[c].kernel_id, n>> \notin raced =>
       (n \in command[c].wanted <=>
          \/ n \in Shown(kernel_call_list_, c) \/ n \in command[c].reported
          \/ n = command[c].call_count + 1 /\ Wanting(c))

AccountsInv == \A c \in Commands : command[c] # None => Agrees(c)

LEMMA ShownNumbers ==
  ASSUME Base, NEW c \in Commands
  PROVE  /\ \A n \in Shown(kernel_call_list_, c) : n \in Nat /\ n > 0 /\ n <= command[c].call_count
         /\ command[c] = None => Shown(kernel_call_list_, c) = {}
  BY DEF Shown, Base, TypeOK, CallType, CallsInv

\* No thread begins or ends an append.
AppendsKept ==
  \A u \in Threads : thr[u].op = "append" \/ thr'[u].op = "append" => thr'[u] = thr[u]

LEMMA WantingKept ==
  ASSUME NEW c \in Commands, AppendsKept, enabled' = enabled,
         \A u \in Threads : Upcoming(u, c)' <=> Upcoming(u, c)
  PROVE  Wanting(c)' <=> Wanting(c)
<1>1. \A u \in Threads : (IF thr'[u].op = "append" THEN thr'[u].need ELSE enabled')
                         = IF thr[u].op = "append" THEN thr[u].need ELSE enabled
  BY DEF AppendsKept
<1>. QED  BY <1>1 DEF Wanting

LEMMA ThreadRests ==
  ASSUME Base, NEW t \in Threads, thr' = [thr EXCEPT ![t] = Idle], thr[t].op # "append"
  PROVE  AppendsKept
<1>1. \A u \in Threads : thr'[u] = IF u = t THEN Idle ELSE thr[u]
  BY DEF Base, TypeOK
<1>. QED  BY <1>1, IdleTyped DEF AppendsKept

\* Steps that report calls and record none.
LEMMA AccountsKept ==
  ASSUME Base, AccountsInv, NEW S \in SUBSET kernel_call_list_, SameCommands,
         kernel_call_list_' = kernel_call_list_ \ S,
         \A c \in Commands : command[c] # None =>
           /\ command'[c].wanted = command[c].wanted
           /\ command'[c].reported = command[c].reported \cup Shown(S, c),
         \A c \in Commands, u \in Threads : Upcoming(u, c)' <=> Upcoming(u, c),
         AppendsKept, UNCHANGED <<enabled, raced>>
  PROVE  AccountsInv'
<1>. SUFFICES ASSUME NEW c \in Commands, command'[c] # None
              PROVE  Agrees(c)'
  BY DEF AccountsInv
<1>1. /\ command[c] # None /\ command'[c].call_count = command[c].call_count
      /\ command'[c].kernel_id = command[c].kernel_id
  BY DEF SameCommands
<1>2. /\ Shown(S, c) \subseteq Shown(kernel_call_list_, c)
      /\ Shown(kernel_call_list_', c) = Shown(kernel_call_list_, c) \ Shown(S, c)
  BY DEF Shown, Base, CallsInv
<1>3. Agrees(c)
  BY <1>1 DEF AccountsInv
<1>4. \A n \in Shown(S, c) : n <= command[c].call_count
  BY <1>2, ShownNumbers
<1>5. command'[c].wanted = command[c].wanted /\ command'[c].reported = command[c].reported \cup Shown(S, c)
  BY <1>1
<1>6. Wanting(c)' <=> Wanting(c)
  BY WantingKept
<1>. QED  BY <1>1, <1>2, <1>3, <1>4, <1>5, <1>6 DEF Agrees

LEMMA AccountsReport ==
  ASSUME Base, AccountsInv, NEW S \in SUBSET kernel_call_list_, Report(S),
         \A c \in Commands, u \in Threads : Upcoming(u, c)' <=> Upcoming(u, c),
         AppendsKept, UNCHANGED <<enabled, raced>>
  PROVE  AccountsInv'
<1>1. /\ SameCommands /\ kernel_call_list_' = kernel_call_list_ \ S
      /\ \A c \in Commands : command[c] # None =>
           /\ command'[c].wanted = command[c].wanted
           /\ command'[c].reported = command[c].reported \cup Shown(S, c)
  BY ReportFacts DEF Base
<1>. QED  BY <1>1, AccountsKept

LEMMA AccountsReportIdle ==
  ASSUME Base, AccountsInv, NEW S \in SUBSET kernel_call_list_, Report(S),
         UNCHANGED <<enabled, raced, command_list_map_, thr>>
  PROVE  AccountsInv'
<1>1. \A c \in Commands, u \in Threads : Upcoming(u, c)' <=> Upcoming(u, c)
  BY ReportFacts, SameAwaited DEF Base
<1>. QED  BY <1>1, AccountsReport DEF AppendsKept

LEMMA AccountsStill ==
  ASSUME Base, AccountsInv, UNCHANGED <<command, kernel_call_list_, enabled, raced>>,
         \A c \in Commands, u \in Threads : Upcoming(u, c)' <=> Upcoming(u, c), AppendsKept
  PROVE  AccountsInv'
<1>1. \A c : Shown({}, c) = {}
  BY DEF Shown
<1>2. SameCommands
  BY SameCommandsIfUnchanged
<1>. QED  BY <1>1, <1>2, AccountsKept

\* The switch changes: what has been submitted and not recorded is raced.
LEMMA AccountsToggle ==
  ASSUME Base, AccountsInv, Toggle
  PROVE  AccountsInv'
<1>. DEFINE L == UNION {thr[t].todo : t \in Threads}
<1>1. /\ UNCHANGED <<command, kernel_call_list_, command_list_map_, thr>>
      /\ raced' = raced \cup UNION {CallIds(l) : l \in L}
  BY DEF Toggle
<1>. SUFFICES ASSUME NEW c \in Commands, command'[c] # None
              PROVE  Agrees(c)'
  BY DEF AccountsInv
<1>2. command[c] # None /\ Agrees(c)
  BY <1>1 DEF AccountsInv
<1>3. \A u \in Threads : Upcoming(u, c)' <=> Upcoming(u, c)
  BY <1>1, SameCommandsIfUnchanged, SameAwaited
<1>4. CASE command[c].kernel_id = 0
  <2>1. \A u \in Threads : Upcoming(u, c) => thr[u].op = "append"
    BY <1>4 DEF Upcoming
  <2>2. Wanting(c)' <=> Wanting(c)
    BY <1>1, <1>3, <2>1 DEF Wanting
  <2>. QED  BY <1>1, <1>2, <1>4, <2>2 DEF Agrees
<1>5. CASE command[c].kernel_id # 0
  <2>1. \A u \in Threads : Upcoming(u, c) => command[c].list \in thr[u].todo /\ c \in CommandsOf(command[c].list)
    BY <1>5 DEF Upcoming, Base, CommandsInv, CommandsOf
  <2>2. ASSUME Wanting(c) \/ Wanting(c)'
        PROVE  <<command[c].kernel_id, command[c].call_count + 1>> \in raced'
    <3>1. PICK u \in Threads : Upcoming(u, c)
      BY <1>3, <2>2 DEF Wanting
    <3>2. command[c].list \in L
      BY <2>1, <3>1
    <3>3. <<command[c].kernel_id, command[c].call_count + 1>> \in CallIds(command[c].list)
      BY <2>1, <3>1 DEF CallIds
    <3>. QED  BY <1>1, <3>2, <3>3
  <2>3. raced \subseteq raced'
    BY <1>1
  <2>. HIDE DEF L
  <2>4. ASSUME NEW n \in Nat, <<command[c].kernel_id, n>> \notin raced'
        PROVE  /\ <<command[c].kernel_id, n>> \notin raced
               /\ ~(n = command[c].call_count + 1 /\ Wanting(c))
               /\ ~(n = command[c].call_count + 1 /\ Wanting(c)')
    BY <2>2, <2>3, <2>4
  <2>5. command' = command /\ kernel_call_list_' = kernel_call_list_
    BY <1>1
  <2>. QED  BY <1>2, <1>5, <2>4, <2>5 DEF Agrees
<1>. QED  BY <1>4, <1>5

LEMMA AccountsAppend ==
  ASSUME Base, AccountsInv, NEW t \in Threads, NEW l \in Lists, NEW c \in Commands,
         NEW e \in Events, NEW ok \in BOOLEAN, Appended(t, l, c, e, ok)
  PROVE  AccountsInv'
<1>1. /\ command[c] = None /\ \A d \in Commands \ {c} : command'[d] = command[d]
      /\ command'[c].call_count = 0 /\ command'[c].reported = {}
      /\ UNCHANGED <<enabled, raced, kernel_call_list_>>
      /\ thr'[t].op = "append" /\ thr'[t].need = enabled
      /\ thr[t].op = "idle" /\ \A u \in Threads \ {t} : thr'[u] = thr[u]
  BY DEF Appended
<1>2. IF ok /\ command_list_map_[l].immediate /\ enabled
      THEN command'[c].wanted = {1} ELSE command'[c].wanted = {}
  BY DEF Appended
<1>3. Shown(kernel_call_list_, c) = {}
  BY <1>1, ShownNumbers
<1>4. /\ Awaited(c)' <=> ok /\ command_list_map_[l].immediate
      /\ \A u \in Threads : Upcoming(u, c)' => u = t
  BY AppendAwaits
<1>5. \A d \in Commands \ {c} : \A u \in Threads : Upcoming(u, d)' <=> Upcoming(u, d)
  BY AppendAwaits
<1>6. ASSUME NEW d \in Commands, command'[d] # None
      PROVE  Agrees(d)'
  <2>1. CASE d = c
    <3>1. Wanting(c)' <=> ok /\ command_list_map_[l].immediate /\ enabled
      BY <1>1, <1>4 DEF Wanting, Awaited
    <3>. QED  BY <1>1, <1>2, <1>3, <2>1, <3>1 DEF Agrees
  <2>2. CASE d # c
    <3>1. ~Upcoming(t, d)
      BY <1>1 DEF Upcoming
    <3>2. Wanting(d)' <=> Wanting(d)
      BY <1>1, <1>5, <2>2, <3>1 DEF Wanting
    <3>3. command'[d] = command[d] /\ command[d] # None /\ Agrees(d)
      BY <1>1, <1>6, <2>2 DEF AccountsInv
    <3>. QED  BY <1>1, <3>2, <3>3 DEF Agrees
  <2>. QED  BY <2>1, <2>2
<1>. QED  BY <1>6 DEF AccountsInv

LEMMA AccountsRecord ==
  ASSUME Base, AccountsInv, NEW t \in Threads, NEW c \in Commands, Recorded(t, c)
  PROVE  AccountsInv'
<1>. DEFINE immediate == command_list_map_[command[c].list].immediate
            new == [command |-> c, call_id |-> 1, need_to_process |-> thr[t].need, fence |-> None]
<1>1. /\ thr[t].op = "append" /\ thr[t].command = c /\ thr[t].ok
      /\ \A d \in Commands \ {c} : command'[d] = command[d]
      /\ command'[c].wanted = command[c].wanted /\ command'[c].reported = command[c].reported
      /\ enabled' = enabled /\ raced' = raced /\ thr' = [thr EXCEPT ![t] = Idle]
      /\ command_list_map_' = command_list_map_
  BY DEF Recorded, driverVars
<1>2. IF immediate
      THEN command'[c].call_count = 1 /\ kernel_call_list_' = kernel_call_list_ \cup {new}
      ELSE command'[c].call_count = 0 /\ kernel_call_list_' = kernel_call_list_
  BY DEF Recorded
<1>3. /\ command[c] # None /\ command[c].call_count = 0 /\ (Awaited(c) <=> immediate)
      /\ command[c].kernel_id = 0
      /\ \A u \in Threads \ {t} : thr[u].op = "append" => thr[u].command # c
  BY <1>1, Appender
<1>4. \A u \in Threads : thr'[u] = IF u = t THEN Idle ELSE thr[u]
  BY <1>1 DEF Base, TypeOK
<1>5. ~Awaited(c)' /\ \A d \in Commands \ {c} : \A u \in Threads : Upcoming(u, d)' <=> Upcoming(u, d)
  <2>1. ~Awaited(c)'
    BY RecordedBase
  <2>2. ASSUME NEW d \in Commands \ {c}, NEW u \in Threads
        PROVE  Upcoming(u, d)' <=> Upcoming(u, d)
    BY <1>1, <1>4, IdleTyped DEF Upcoming
  <2>. QED  BY <2>1, <2>2
<1>6. Shown(kernel_call_list_, c) = {}
  BY <1>3, ShownNumbers
<1>7. new.command = c /\ new.call_id = 1 /\ new.need_to_process = thr[t].need
  OBVIOUS
<1>. HIDE DEF new
<1>8. Shown(kernel_call_list_', c) = IF immediate /\ thr[t].need THEN {1} ELSE {}
  <2>1. CASE immediate
    BY <1>2, <1>6, <1>7, <2>1 DEF Shown
  <2>2. CASE ~immediate
    BY <1>2, <1>6, <2>2
  <2>. QED  BY <2>1, <2>2
<1>9. \A d \in Commands \ {c} : Shown(kernel_call_list_', d) = Shown(kernel_call_list_, d)
  BY <1>2, <1>7 DEF Shown
<1>. HIDE DEF immediate
<1>10. ASSUME NEW d \in Commands, command'[d] # None
       PROVE  Agrees(d)'
  <2>1. CASE d = c
    <3>1. Wanting(c) <=> immediate /\ thr[t].need
      <4>1. \A u \in Threads : Upcoming(u, c) => u = t
        BY <1>3 DEF Upcoming
      <4>. QED  BY <1>1, <1>3, <4>1 DEF Wanting, Awaited
    <3>2. ~Wanting(c)'
      BY <1>5 DEF Wanting, Awaited
    <3>3. /\ \A n \in command[c].reported : n <= 0
          /\ \A n \in Nat : n \in command[c].wanted <=>
               n \in command[c].reported \/ (n = 1 /\ immediate /\ thr[t].need)
          /\ command[c].reported \in SUBSET Nat
      <4>1. Agrees(c) /\ command[c].reported \in SUBSET Nat
        BY <1>3 DEF AccountsInv, Base, TypeOK, CommandType
      <4>. QED  BY <1>3, <1>6, <3>1, <4>1 DEF Agrees
    <3>4. 1 \notin command[c].reported /\ \A n \in command[c].reported : n <= 1
      BY <3>3
    <3>. QED  BY <1>1, <1>2, <1>8, <2>1, <3>2, <3>3, <3>4 DEF Agrees
  <2>2. CASE d # c
    <3>1. Wanting(d)' <=> Wanting(d)
      <4>1. ~Upcoming(t, d)
        BY <1>1, <2>2 DEF Upcoming
      <4>. QED  BY <1>1, <1>4, <1>5, <2>2, <4>1 DEF Wanting
    <3>2. command'[d] = command[d] /\ command[d] # None /\ Agrees(d)
      BY <1>1, <1>10, <2>2 DEF AccountsInv
    <3>. QED  BY <1>1, <1>9, <2>2, <3>1, <3>2 DEF Agrees
  <2>. QED  BY <2>1, <2>2
<1>. QED  BY <1>10 DEF AccountsInv

LEMMA AccountsDelete ==
  ASSUME Base, AccountsInv, NEW c \in Commands, Deleted(c),
         \A u \in Threads :
           thr'[u] = thr[u] \/ (thr'[u] = Idle /\ thr[u].op = "append" /\ thr[u].command = c)
  PROVE  AccountsInv'
<1>1. /\ command'[c] = None /\ \A d \in Commands \ {c} : command'[d] = command[d]
      /\ UNCHANGED <<enabled, raced, kernel_call_list_, command_list_map_>>
  BY DeletedFacts DEF Base, Deleted, driverVars
<1>2. ASSUME NEW d \in Commands, command'[d] # None
      PROVE  Agrees(d)'
  <2>1. d # c /\ command'[d] = command[d] /\ command[d] # None /\ Agrees(d)
    BY <1>1, <1>2 DEF AccountsInv
  <2>2. \A u \in Threads : /\ Upcoming(u, d)' <=> Upcoming(u, d)
                           /\ Upcoming(u, d) => thr'[u] = thr[u]
    <3>1. ASSUME NEW u \in Threads
          PROVE  (Upcoming(u, d)' <=> Upcoming(u, d)) /\ (Upcoming(u, d) => thr'[u] = thr[u])
      BY <1>1, <2>1, IdleTyped DEF Upcoming
    <3>. QED  BY <3>1
  <2>3. Wanting(d)' <=> Wanting(d)
    BY <1>1, <2>2 DEF Wanting
  <2>. QED  BY <1>1, <2>1, <2>3 DEF Agrees
<1>. QED  BY <1>2 DEF AccountsInv

LEMMA AccountsExecute ==
  ASSUME Base, AccountsInv, NEW t \in Threads, NEW L \in SUBSET Lists,
         NEW f \in Fences \cup {None}, Executed(t, L, f)
  PROVE  AccountsInv'
<1>1. /\ SameCommands /\ UNCHANGED <<enabled, raced, kernel_call_list_>>
      /\ thr[t].op = "idle" /\ thr'[t].op = "execute"
      /\ \A u \in Threads \ {t} : thr'[u] = thr[u]
  BY DEF Executed
<1>2. ASSUME NEW c \in Commands, command'[c] # None
      PROVE  Agrees(c)'
  <2>. DEFINE chosen == \E l \in L : c \in CommandsOf(l)
  <2>1. /\ command[c] # None /\ command'[c].call_count = command[c].call_count
        /\ command'[c].kernel_id = command[c].kernel_id
    BY <1>1, <1>2 DEF SameCommands
  <2>2. /\ command'[c].reported = command[c].reported
        /\ IF enabled /\ chosen
           THEN command'[c].wanted = command[c].wanted \cup {command[c].call_count + 1}
           ELSE command'[c].wanted = command[c].wanted
    BY <2>1 DEF Executed
  <2>3. /\ \A u \in Threads : Upcoming(u, c)' <=> Upcoming(u, c) \/ (u = t /\ chosen)
        /\ chosen => ~Awaited(c)
    BY ExecuteAwaits
  <2>4. Agrees(c) /\ ~Upcoming(t, c)
    BY <1>1, <2>1 DEF AccountsInv, Upcoming
  <2>. HIDE DEF chosen
  <2>5. CASE chosen
    <3>1. ~Wanting(c) /\ (Wanting(c)' <=> enabled)
      BY <1>1, <2>3, <2>5 DEF Wanting, Awaited
    <3>. QED  BY <1>1, <2>1, <2>2, <2>4, <2>5, <3>1 DEF Agrees
  <2>6. CASE ~chosen
    <3>1. Wanting(c)' <=> Wanting(c)
      BY <1>1, <2>3, <2>4, <2>6 DEF Wanting
    <3>. QED  BY <1>1, <2>1, <2>2, <2>4, <2>6, <3>1 DEF Agrees
  <2>. QED  BY <2>5, <2>6
<1>. QED  BY <1>2 DEF AccountsInv

LEMMA AccountsCall ==
  ASSUME Base, AccountsInv, NEW t \in Threads, NEW l \in Lists, Called(t, l)
  PROVE  AccountsInv'
<1>1. /\ enabled' = enabled /\ raced' = raced
      /\ thr[t].op = "execute" /\ thr'[t].op \in {"execute", "executed"}
      /\ \A u \in Threads \ {t} : thr'[u] = thr[u]
      /\ thr'[t].todo \subseteq thr[t].todo
  BY DEF Called, driverVars
<1>2. ASSUME NEW c \in Commands, command'[c] # None
      PROVE  Agrees(c)'
  <2>. DEFINE new == [command |-> c, call_id |-> command[c].call_count + 1,
                      need_to_process |-> enabled, fence |-> thr[t].fence]
  <2>1. command[c] # None
    BY <1>2 DEF Called
  <2>2. /\ command'[c].wanted = command[c].wanted /\ command'[c].reported = command[c].reported
        /\ command'[c].kernel_id = command[c].kernel_id
        /\ IF c \in CommandsOf(l) THEN command'[c].call_count = command[c].call_count + 1
                                  ELSE command'[c].call_count = command[c].call_count
    BY <2>1 DEF Called
  <2>3. /\ c \in CommandsOf(l) => Awaited(c) /\ ~Awaited(c)'
        /\ c \notin CommandsOf(l) => (Awaited(c)' <=> Awaited(c))
        /\ c \in CommandsOf(l) => \A u \in Threads : Upcoming(u, c) => u = t
        /\ \A u \in Threads : Upcoming(u, c)' => Upcoming(u, c)
        /\ c \notin CommandsOf(l) => \A u \in Threads : Upcoming(u, c)' <=> Upcoming(u, c)
    BY CallAwaits
  <2>4. Agrees(c)
    BY <2>1 DEF AccountsInv
  <2>5. \A k : k \in kernel_call_list_' /\ k.command = c <=>
          \/ k \in kernel_call_list_ /\ k.command = c
          \/ c \in CommandsOf(l) /\ k = new
    <3>1. \A k : k \in kernel_call_list_' <=>
            \/ k \in kernel_call_list_
            \/ \E d \in CommandsOf(l) :
                 k = [command |-> d, call_id |-> command[d].call_count + 1,
                      need_to_process |-> enabled, fence |-> thr[t].fence]
      BY DEF Called
    <3>. QED  BY <3>1
  <2>6. new.command = c /\ new.call_id = command[c].call_count + 1 /\ (new.need_to_process <=> enabled)
    OBVIOUS
  <2>. HIDE DEF new
  <2>7. command[c].call_count \in Nat /\ command[c].reported \in SUBSET Nat
    BY <2>1 DEF Base, TypeOK, CommandType
  <2>8. CASE c \in CommandsOf(l)
    <3>1. Shown(kernel_call_list_', c) = Shown(kernel_call_list_, c)
            \cup (IF enabled THEN {command[c].call_count + 1} ELSE {})
      BY <2>5, <2>6, <2>8 DEF Shown
    <3>2. /\ command[c].call_count + 1 \notin command[c].reported
          /\ \A n \in command[c].reported : n <= command[c].call_count + 1
      BY <2>4, <2>7 DEF Agrees
    <3>3. (Wanting(c) <=> enabled) /\ ~Wanting(c)'
      BY <1>1, <2>3, <2>8 DEF Wanting, Awaited
    <3>. QED  BY <1>1, <2>2, <2>4, <2>8, <3>1, <3>2, <3>3 DEF Agrees
  <2>9. CASE c \notin CommandsOf(l)
    <3>1. Shown(kernel_call_list_', c) = Shown(kernel_call_list_, c)
      BY <2>5, <2>9 DEF Shown
    <3>2. Wanting(c)' <=> Wanting(c)
      BY <1>1, <2>3, <2>9, WantingKept DEF AppendsKept
    <3>. QED  BY <1>1, <2>2, <2>4, <2>9, <3>1, <3>2 DEF Agrees
  <2>. QED  BY <2>8, <2>9
<1>. QED  BY <1>2 DEF AccountsInv

LEMMA NextAccounts ==
  ASSUME Base, AccountsInv, [CareNext]_vars
  PROVE  AccountsInv'
<1>1. CASE OutsideStep
  <2>1. UNCHANGED <<command, command_list_map_, kernel_call_list_, thr>>
    BY <1>1 DEF OutsideStep, CreateEvent, Finish, FenceSignal, FenceReset, Toggle
  <2>2. \A c \in Commands, u \in Threads : Upcoming(u, c)' <=> Upcoming(u, c)
    BY <2>1, SameCommandsIfUnchanged, SameAwaited
  <2>3. CASE ~Toggle
    <3>1. UNCHANGED <<enabled, raced>>
      BY <1>1, <2>3 DEF OutsideStep, CreateEvent, Finish, FenceSignal, FenceReset, driverVars
    <3>. QED  BY <2>1, <2>2, <3>1, AccountsStill DEF AppendsKept
  <2>. QED  BY <2>3, AccountsToggle
<1>2. ASSUME NEW t \in Threads, CallbackStep(t) PROVE AccountsInv'
  <2>1. CASE EndCreate(t)
    <3>1. /\ UNCHANGED <<command, kernel_call_list_, enabled, raced>>
          /\ thr[t].op = "create" /\ thr' = [thr EXCEPT ![t] = Idle]
      BY <2>1 DEF EndCreate, driverVars
    <3>. QED  BY <2>1, <3>1, ThreadRests, EndCreateBase, AccountsStill
  <2>2. CASE EndAppend(t)
    <3>1. CASE ~thr[t].ok
      <4>1. PICK c \in Commands : /\ Deleted(c) /\ thr[t].op = "append" /\ thr[t].command = c
                                  /\ thr' = [thr EXCEPT ![t] = Idle]
        BY <2>2, <3>1, AppendFailedFacts
      <4>2. \A u \in Threads : thr'[u] = IF u = t THEN Idle ELSE thr[u]
        BY <4>1 DEF Base, TypeOK
      <4>. QED  BY <4>1, <4>2, AccountsDelete
    <3>2. CASE thr[t].ok
      BY <2>2, <3>2, RecordFacts, AccountsRecord
    <3>. QED  BY <3>1, <3>2
  <2>3. CASE \E l \in Lists : AddKernelCalls(t, l)
    BY <2>3, CallFacts, AccountsCall DEF Base
  <2>4. CASE LogExecute(t)
    <3>1. /\ UNCHANGED <<command, kernel_call_list_, enabled, raced>>
          /\ thr[t].op = "executed" /\ thr' = [thr EXCEPT ![t] = Idle]
      BY <2>4 DEF LogExecute, driverVars
    <3>. QED  BY <2>4, <3>1, ThreadRests, LogExecuteBase, AccountsStill
  <2>5. CASE EndDestroyOrReset(t)
    <3>1. \A c \in Commands, u \in Threads : Upcoming(u, c)' <=> Upcoming(u, c)
      BY <2>5, EndDestroyOrResetBase
    <3>2. /\ Report({k \in kernel_call_list_ : Signaled(k)}) /\ UNCHANGED <<enabled, raced>>
          /\ thr[t].op \in {"destroy", "reset"}
          /\ thr' = [thr EXCEPT ![t].op = IF @ = "destroy" THEN "erase" ELSE "clear"]
      BY <2>5 DEF EndDestroyOrReset, ProcessCalls, driverVars
    <3>3. AppendsKept
      <4>1. thr'[t].op \in {"erase", "clear"} /\ \A u \in Threads \ {t} : thr'[u] = thr[u]
        BY <3>2 DEF Base, TypeOK
      <4>. QED  BY <3>2, <4>1 DEF AppendsKept
    <3>. QED  BY <3>1, <3>2, <3>3, AccountsReport
  <2>6. CASE \E l \in Lists, c \in Commands : RemoveKernelCommand(t, l, c)
    BY <2>6, RemoveFacts, AccountsDelete
  <2>7. CASE \E l \in Lists : EndRemove(t, l)
    <3>1. /\ UNCHANGED <<command, kernel_call_list_, enabled, raced>>
          /\ thr[t].op \in {"erase", "clear"} /\ thr' = [thr EXCEPT ![t] = Idle]
      BY <2>7 DEF EndRemove, driverVars, Removing
    <3>. QED  BY <2>7, <3>1, ThreadRests, EndRemoveBase, AccountsStill
  <2>. QED  BY <1>2, <2>1, <2>2, <2>3, <2>4, <2>5, <2>6, <2>7 DEF CallbackStep
<1>3. ASSUME NEW t \in Threads, CallStep(t) PROVE AccountsInv'
  <2>1. CASE \E l \in Lists, c \in Commands, e \in Events : BeginAppend(t, l, c, e)
    BY <2>1, AppendFacts, AccountsAppend DEF Base
  <2>2. CASE \E L \in SUBSET Lists, f \in Fences \cup {None} : BeginExecute(t, L, f)
    BY <2>2, ExecuteFacts, AccountsExecute DEF Base
  <2>3. CASE Synchronize(t)
    BY <2>3, AccountsReportIdle DEF Synchronize, ProcessCalls, driverVars
  <2>4. CASE \E f \in Fences : FenceHostSynchronize(t, f)
    BY <2>4, AccountsReportIdle DEF FenceHostSynchronize, ProcessFence, driverVars
  <2>5. CASE \E l \in Lists : BeginDestroy(t, l) \/ BeginReset(t, l)
    <3>1. PICK l \in Lists, op \in {"destroy", "reset"} :
            /\ BeginDestroy(t, l) \/ BeginReset(t, l)
            /\ thr' = [thr EXCEPT ![t] = [Idle EXCEPT !.op = op, !.lists = {l}]]
      BY <2>5 DEF BeginDestroy, BeginReset
    <3>2. UNCHANGED <<command, kernel_call_list_, enabled, raced>> /\ thr[t].op = "idle"
      BY <3>1 DEF BeginDestroy, BeginReset
    <3>3. AppendsKept
      <4>1. thr'[t].op = op /\ \A u \in Threads \ {t} : thr'[u] = thr[u]
        BY <3>1, IdleTyped DEF Base, TypeOK, Idle
      <4>. QED  BY <3>2, <4>1 DEF AppendsKept
    <3>. QED  BY <3>1, <3>2, <3>3, BeginDestroyBase, AccountsStill
  <2>6. CASE \E x \in Contexts : ContextDestroy(t, x)
    <3>1. UNCHANGED <<enabled, raced, command, kernel_call_list_, command_list_map_, thr>>
      BY <2>6 DEF ContextDestroy, driverVars
    <3>. QED  BY <3>1, SameCommandsIfUnchanged, SameAwaited, AccountsStill DEF AppendsKept
  <2>. QED  BY <1>3, <2>1, <2>2, <2>3, <2>4, <2>5, <2>6 DEF CallStep
<1>4. CASE CreateStep
  <2>1. PICK t \in Threads, l \in Lists : Unrecorded(l) /\ BeginCreate(t, l)
    BY <1>4 DEF CreateStep
  <2>2. /\ UNCHANGED <<command, kernel_call_list_, enabled, raced>> /\ thr[t].op = "idle"
        /\ thr' = [thr EXCEPT ![t] = [Idle EXCEPT !.op = "create", !.lists = {l}]]
    BY <2>1 DEF BeginCreate
  <2>3. AppendsKept
    <3>1. thr'[t].op = "create" /\ \A u \in Threads \ {t} : thr'[u] = thr[u]
      BY <2>2 DEF Base, TypeOK, Idle
    <3>. QED  BY <2>2, <3>1 DEF AppendsKept
  <2>. QED  BY <2>1, <2>2, <2>3, CreateBase, AccountsStill
<1>5. CASE \E e \in Events : EventHostReset(e) \/ EventDestroy(e)
  <2>1. PICK e \in Events : ProcessCall(e) /\ UNCHANGED <<enabled, raced, command_list_map_, thr>>
    BY <1>5 DEF EventHostReset, EventDestroy, driverVars
  <2>2. PICK S \in SUBSET kernel_call_list_ : Report(S)
    BY <2>1, ProcessCallReports
  <2>. QED  BY <2>1, <2>2, AccountsReportIdle
<1>6. CASE UNCHANGED vars
  <2>1. UNCHANGED <<enabled, raced, command, kernel_call_list_, command_list_map_, thr>>
    BY <1>6 DEF vars, driverVars
  <2>. QED  BY <2>1, SameCommandsIfUnchanged, SameAwaited, AccountsStill DEF AppendsKept
<1>. QED  BY <1>1, <1>2, <1>3, <1>4, <1>5, <1>6 DEF CareNext, Next, Common

\* No submission made while collection was enabled is lost or reported twice, and none made
\* while it was disabled is reported, in whatever order the callbacks, the device, the
\* application's own resets and destructions of events and its changes of the switch run;
\* only a submission during whose function the switch changed may go either way.
THEOREM SubmissionsAccounted == EarlyDestroySpec => []Accounted
<1>1. EarlyDestroySpec => Init /\ [][CareNext]_vars
  BY DEF EarlyDestroySpec, CareNext
<1>2. Init => AccountsInv
  BY DEF Init, AccountsInv
<1>3. Base /\ AccountsInv /\ [CareNext]_vars => AccountsInv'
  BY NextAccounts
<1>4. Base /\ AccountsInv => Accounted
  <2>. SUFFICES ASSUME Base, AccountsInv, NEW c \in Commands,
                       command[c] # None, ~InFunction(command[c].list)
                PROVE  /\ Shown(kernel_call_list_, c) \cap command[c].reported = {}
                       /\ (Shown(kernel_call_list_, c) \cup command[c].reported) \ Raced(c)
                            = command[c].wanted \ Raced(c)
    BY DEF Accounted
  <2>1. ~Wanting(c)
    BY DEF Wanting, Upcoming, InFunction, Base, CommandsInv, ListsInv
  <2>2. Agrees(c)
    BY DEF AccountsInv
  <2>3. /\ command[c].wanted \in SUBSET Nat /\ command[c].reported \in SUBSET Nat
        /\ Shown(kernel_call_list_, c) \in SUBSET Nat
    BY ShownNumbers DEF Base, TypeOK, CommandType
  <2>4. \A n \in Nat : n \notin Raced(c) => <<command[c].kernel_id, n>> \notin raced
    <3>1. ASSUME NEW n \in Nat, <<command[c].kernel_id, n>> \in raced PROVE n \in Raced(c)
      <4>. DEFINE p == <<command[c].kernel_id, n>>
      <4>1. p \in raced /\ p[1] = command[c].kernel_id /\ p[2] = n
        BY <3>1
      <4>. QED  BY <4>1 DEF Raced
    <3>. QED  BY <3>1
  <2>5. \A n \in Nat : n \notin Raced(c) =>
          (n \in command[c].wanted <=> n \in Shown(kernel_call_list_, c) \/ n \in command[c].reported)
    BY <2>1, <2>2, <2>4 DEF Agrees
  <2>. QED  BY <2>2, <2>3, <2>5 DEF Agrees
<1>. QED  BY <1>1, <1>2, <1>3, <1>4, BaseInvariant, PTL

-----------------------------------------------------------------------------
(* The ids of the correlator.                                              *)

KernelIds(l) == {command[c].kernel_id : c \in CommandsOf(l)}
LastCallIds(l) == {<<command[c].kernel_id, command[c].call_count>> : c \in CommandsOf(l)}

InRemoval(l) == \E t \in Threads : thr[t].op \in Removing /\ l \in thr[t].lists

\* Ids are not used twice.  Those of a list are the ids of its commands, unless they are
\* being removed; after an execution the call ids are those of the last calls.
IdsInv ==
  /\ \A c \in Commands : command[c] # None => command[c].kernel_id < kernel_id_
  /\ \A c, d \in Commands :
       command[c] # None /\ command[d] # None /\ command[c].kernel_id > 0
         /\ command[c].kernel_id = command[d].kernel_id => c = d
  /\ \A l \in Lists : ~InRemoval(l) => kernel_id_map_[l] = KernelIds(l)
  /\ \A t \in Threads : thr[t].op \in {"execute", "executed"} =>
       \A l \in thr[t].lists \ thr[t].todo : call_id_map_[l] = LastCallIds(l)

\* Steps that leave the ids alone.
LEMMA IdsKept ==
  ASSUME Base, IdsInv, SameCommands, UNCHANGED idVars,
         \A u \in Threads :
           \/ thr'[u] = thr[u]
           \/ /\ thr'[u].op \in {"execute", "executed"} => thr'[u].lists \subseteq thr'[u].todo
              /\ thr[u].op \in Removing => thr'[u].op \in Removing /\ thr'[u].lists = thr[u].lists
  PROVE  IdsInv'
<1>1. \A l : CommandsOf(l)' = CommandsOf(l)
  BY SameHeld
<1>2. \A l : KernelIds(l)' = KernelIds(l) /\ LastCallIds(l)' = LastCallIds(l)
  <2>1. ASSUME NEW l
        PROVE  KernelIds(l)' = KernelIds(l) /\ LastCallIds(l)' = LastCallIds(l)
    <3>1. \A c \in CommandsOf(l) : /\ command'[c].kernel_id = command[c].kernel_id
                                   /\ command'[c].call_count = command[c].call_count
      BY DEF CommandsOf, SameCommands
    <3>2. CommandsOf(l)' = CommandsOf(l)
      BY <1>1
    <3>. QED  BY <3>1, <3>2 DEF KernelIds, LastCallIds
  <2>. QED  BY <2>1
<1>3. \A l \in Lists : InRemoval(l) => InRemoval(l)'
  BY DEF InRemoval
<1>4. /\ \A c \in Commands : command'[c] # None => command'[c].kernel_id < kernel_id_'
      /\ \A c, d \in Commands :
           command'[c] # None /\ command'[d] # None /\ command'[c].kernel_id > 0
             /\ command'[c].kernel_id = command'[d].kernel_id => c = d
  BY DEF IdsInv, SameCommands, idVars
<1>5. \A l \in Lists : ~InRemoval(l)' => kernel_id_map_'[l] = KernelIds(l)'
  BY <1>2, <1>3 DEF IdsInv, idVars
<1>6. \A t \in Threads : thr'[t].op \in {"execute", "executed"} =>
        \A l \in thr'[t].lists \ thr'[t].todo : call_id_map_'[l] = LastCallIds(l)'
  BY <1>2 DEF IdsInv, idVars
<1>. QED  BY <1>4, <1>5, <1>6 DEF IdsInv

\* A list that has no commands gets empty lists of ids.
LEMMA IdsCleared ==
  ASSUME Base, IdsInv, NEW t \in Threads, NEW l \in Lists,
         thr[t].op \in {"create", "erase", "clear"}, thr[t].lists = {l},
         CommandsOf(l) = {}, UNCHANGED <<command, kernel_id_>>,
         thr' = [thr EXCEPT ![t] = Idle],
         kernel_id_map_' = [kernel_id_map_ EXCEPT ![l] = {}],
         call_id_map_' = [call_id_map_ EXCEPT ![l] = {}]
  PROVE  IdsInv'
<1>1. \A u \in Threads : thr'[u] = IF u = t THEN Idle ELSE thr[u]
  BY DEF Base, TypeOK
<1>2. \A m : CommandsOf(m)' = CommandsOf(m) /\ KernelIds(m)' = KernelIds(m) /\ LastCallIds(m)' = LastCallIds(m)
  BY DEF CommandsOf, KernelIds, LastCallIds
<1>3. \A m \in Lists : m # l => (InRemoval(m) => InRemoval(m)')
  BY <1>1 DEF InRemoval
<1>4. \A m \in Lists : ~InRemoval(m)' => kernel_id_map_'[m] = KernelIds(m)'
  <2>1. KernelIds(l) = {}
    BY DEF KernelIds
  <2>. QED  BY <1>2, <1>3, <2>1 DEF IdsInv, Base, TypeOK
<1>5. \A u \in Threads : thr'[u].op \in {"execute", "executed"} =>
        \A m \in thr'[u].lists \ thr'[u].todo : call_id_map_'[m] = LastCallIds(m)'
  <2>1. \A u \in Threads : u # t => l \notin thr[u].lists /\ thr[u].lists \subseteq Lists
    BY DEF Base, ListsInv, TypeOK
  <2>. QED  BY <1>1, <1>2, <2>1, IdleTyped DEF IdsInv, Base, TypeOK
<1>. QED  BY <1>4, <1>5 DEF IdsInv

LEMMA IdsAppend ==
  ASSUME Base, IdsInv, NEW t \in Threads, NEW l \in Lists, NEW c \in Commands,
         NEW e \in Events, NEW ok \in BOOLEAN, Appended(t, l, c, e, ok)
  PROVE  IdsInv'
<1>1. /\ command[c] = None /\ \A d \in Commands \ {c} : command'[d] = command[d]
      /\ command'[c] # None /\ command'[c].kernel_id = 0
      /\ thr[t].op = "idle" /\ thr'[t].op = "append" /\ \A u \in Threads \ {t} : thr'[u] = thr[u]
      /\ UNCHANGED <<kernel_id_, kernel_id_map_, call_id_map_>>
  BY DEF Appended, idVars
<1>2. ASSUME NEW m
      PROVE  KernelIds(m)' = KernelIds(m) /\ LastCallIds(m)' = LastCallIds(m)
  <2>1. CommandsOf(m)' = CommandsOf(m)
    BY <1>1 DEF CommandsOf
  <2>2. \A d \in CommandsOf(m) : command'[d] = command[d]
    BY <1>1 DEF CommandsOf
  <2>. QED  BY <2>1, <2>2 DEF KernelIds, LastCallIds
<1>3. \A m \in Lists : InRemoval(m)' <=> InRemoval(m)
  BY <1>1 DEF InRemoval, Removing
<1>4. \A d \in Commands : command'[d] # None => command'[d].kernel_id < kernel_id_'
  BY <1>1 DEF IdsInv, Base, TypeOK
<1>5. \A d, g \in Commands :
        command'[d] # None /\ command'[g] # None /\ command'[d].kernel_id > 0
          /\ command'[d].kernel_id = command'[g].kernel_id => d = g
  BY <1>1 DEF IdsInv
<1>. QED  BY <1>1, <1>2, <1>3, <1>4, <1>5 DEF IdsInv

LEMMA IdsRecord ==
  ASSUME Base, IdsInv, NEW t \in Threads, NEW c \in Commands, Recorded(t, c),
         NEW l, command[c].list = l
  PROVE  IdsInv'
<1>1. /\ thr[t].op = "append" /\ thr[t].command = c /\ thr' = [thr EXCEPT ![t] = Idle]
      /\ kernel_id_' = kernel_id_ + 1
      /\ kernel_id_map_' = [kernel_id_map_ EXCEPT ![l] = @ \cup {kernel_id_}]
      /\ \A d \in Commands \ {c} : command'[d] = command[d]
      /\ command'[c] # None /\ command'[c].list = l /\ command'[c].kernel_id = kernel_id_
  BY DEF Recorded
<1>2. \A m \in Lists : m # l => call_id_map_'[m] = call_id_map_[m]
  BY DEF Recorded, Base, TypeOK
<1>3. /\ command[c] # None /\ command[c].kernel_id = 0 /\ l \in Lists /\ thr[t].lists = {l}
      /\ \A u \in Threads \ {t} : l \notin thr[u].lists
  BY <1>1, Appender
<1>4. \A u \in Threads : thr'[u] = IF u = t THEN Idle ELSE thr[u]
  BY <1>1 DEF Base, TypeOK
<1>5. kernel_id_ \in Nat /\ kernel_id_ > 0
  BY DEF Base, TypeOK
<1>6. CommandsOf(l)' = CommandsOf(l) \cup {c} /\ c \notin CommandsOf(l)
  BY <1>1, <1>3, <1>5 DEF CommandsOf
<1>7. \A m : m # l => CommandsOf(m)' = CommandsOf(m) /\ c \notin CommandsOf(m)
  BY <1>1, <1>3 DEF CommandsOf
<1>8. \A m : \A d \in CommandsOf(m) : d \in Commands
  BY DEF CommandsOf
<1>9. KernelIds(l)' = KernelIds(l) \cup {kernel_id_}
  <2>1. \A d \in CommandsOf(l) : command'[d] = command[d]
    BY <1>1, <1>6, <1>8
  <2>. QED  BY <1>1, <1>6, <2>1 DEF KernelIds
<1>10. ASSUME NEW m, m # l
       PROVE  KernelIds(m)' = KernelIds(m) /\ LastCallIds(m)' = LastCallIds(m)
  <2>1. \A d \in CommandsOf(m) : command'[d] = command[d]
    BY <1>1, <1>7, <1>8, <1>10
  <2>2. CommandsOf(m)' = CommandsOf(m)
    BY <1>7, <1>10
  <2>. QED  BY <2>1, <2>2 DEF KernelIds, LastCallIds
<1>11. \A m \in Lists : InRemoval(m)' <=> InRemoval(m)
  BY <1>1, <1>4, IdleTyped DEF InRemoval, Removing
<1>12. /\ \A d \in Commands : command'[d] # None => command'[d].kernel_id < kernel_id_'
       /\ \A d, g \in Commands :
            command'[d] # None /\ command'[g] # None /\ command'[d].kernel_id > 0
              /\ command'[d].kernel_id = command'[g].kernel_id => d = g
  <2>1. \A d \in Commands \ {c} : command[d] # None =>
          command[d].kernel_id \in Nat /\ command[d].kernel_id < kernel_id_
    BY DEF IdsInv, Base, TypeOK, CommandType
  <2>2. \A d \in Commands : command'[d] # None => command'[d].kernel_id < kernel_id_'
    BY <1>1, <1>5, <2>1
  <2>3. ASSUME NEW d \in Commands, NEW g \in Commands, command'[d] # None, command'[g] # None,
               command'[d].kernel_id > 0, command'[d].kernel_id = command'[g].kernel_id
        PROVE  d = g
    BY <1>1, <1>5, <2>1, <2>3 DEF IdsInv
  <2>. QED  BY <2>2, <2>3
<1>13. \A m \in Lists : ~InRemoval(m)' => kernel_id_map_'[m] = KernelIds(m)'
  BY <1>1, <1>9, <1>10, <1>11 DEF IdsInv, Base, TypeOK
<1>14. \A u \in Threads : thr'[u].op \in {"execute", "executed"} =>
         \A m \in thr'[u].lists \ thr'[u].todo : call_id_map_'[m] = LastCallIds(m)'
  <2>1. \A u \in Threads : thr[u].lists \subseteq Lists
    BY DEF Base, TypeOK
  <2>. QED  BY <1>2, <1>3, <1>4, <1>10, <2>1, IdleTyped DEF IdsInv
<1>. QED  BY <1>12, <1>13, <1>14 DEF IdsInv

\* A deleted command is not of any list that threads use, but of one that is taken down.
LEMMA IdsDelete ==
  ASSUME Base, IdsInv, NEW c \in Commands, Deleted(c),
         command[c].kernel_id > 0 => InRemoval(command[c].list),
         \A u \in Threads : thr'[u] = thr[u] \/ (thr'[u] = Idle /\ thr[u].op = "append")
  PROVE  IdsInv'
<1>1. /\ command'[c] = None /\ \A d \in Commands \ {c} : command'[d] = command[d]
      /\ command[c] # None
      /\ UNCHANGED <<kernel_id_, kernel_id_map_, call_id_map_>>
  BY DeletedFacts DEF Base, Deleted, idVars
<1>2. ASSUME NEW m, c \notin CommandsOf(m)
      PROVE  KernelIds(m)' = KernelIds(m) /\ LastCallIds(m)' = LastCallIds(m)
  <2>1. CommandsOf(m)' = CommandsOf(m)
    BY <1>1, <1>2 DEF CommandsOf
  <2>2. \A d \in CommandsOf(m) : command'[d] = command[d]
    BY <1>1, <1>2 DEF CommandsOf
  <2>. QED  BY <2>1, <2>2 DEF KernelIds, LastCallIds
<1>3. \A m \in Lists : InRemoval(m)' <=> InRemoval(m)
  BY IdleTyped DEF InRemoval, Removing
<1>4. \A m : c \in CommandsOf(m) => InRemoval(m)
  BY <1>1 DEF CommandsOf
<1>5. \A m \in Lists : ~InRemoval(m)' => kernel_id_map_'[m] = KernelIds(m)'
  BY <1>1, <1>2, <1>3, <1>4 DEF IdsInv
<1>6. ASSUME NEW u \in Threads, thr'[u].op \in {"execute", "executed"},
             NEW m \in thr'[u].lists \ thr'[u].todo
      PROVE  call_id_map_'[m] = LastCallIds(m)'
  <2>1. thr'[u] = thr[u]
    BY <1>6, IdleTyped
  <2>2. ~InRemoval(m)
    BY <1>6, <2>1 DEF InRemoval, Removing, Base, ListsInv
  <2>. QED  BY <1>1, <1>2, <1>4, <1>6, <2>1, <2>2 DEF IdsInv
<1>7. /\ \A d \in Commands : command'[d] # None => command'[d].kernel_id < kernel_id_'
      /\ \A d, g \in Commands :
           command'[d] # None /\ command'[g] # None /\ command'[d].kernel_id > 0
             /\ command'[d].kernel_id = command'[g].kernel_id => d = g
  BY <1>1 DEF IdsInv
<1>. QED  BY <1>5, <1>6, <1>7 DEF IdsInv

LEMMA IdsCall ==
  ASSUME Base, IdsInv, NEW t \in Threads, NEW l \in Lists, Called(t, l)
  PROVE  IdsInv'
<1>1. /\ thr[t].op = "execute" /\ l \in thr[t].todo
      /\ call_id_map_' = [call_id_map_ EXCEPT ![l] = CallIds(l)]
      /\ \A u \in Threads \ {t} : thr'[u] = thr[u]
      /\ thr'[t].lists = thr[t].lists /\ thr'[t].todo = thr[t].todo \ {l}
      /\ thr'[t].op \in {"execute", "executed"}
      /\ UNCHANGED <<kernel_id_, kernel_id_map_>>
  BY DEF Called
<1>2. /\ \A c \in Commands : (command'[c] = None <=> command[c] = None)
      /\ \A c \in Commands : command[c] # None =>
           /\ command'[c].list = command[c].list /\ command'[c].kernel_id = command[c].kernel_id
           /\ IF c \in CommandsOf(l) THEN command'[c].call_count = command[c].call_count + 1
                                     ELSE command'[c].call_count = command[c].call_count
  BY DEF Called
<1>3. \A m : CommandsOf(m)' = CommandsOf(m)
  BY <1>2 DEF CommandsOf
<1>4. \A m : \A c \in CommandsOf(m) : c \in Commands /\ command[c] # None /\ command[c].list = m
  BY DEF CommandsOf
<1>5. \A m : KernelIds(m)' = KernelIds(m)
  BY <1>2, <1>3, <1>4 DEF KernelIds
<1>6. LastCallIds(l)' = CallIds(l)
  BY <1>2, <1>3, <1>4 DEF LastCallIds, CallIds
<1>7. ASSUME NEW m, m # l PROVE LastCallIds(m)' = LastCallIds(m)
  <2>1. \A c \in CommandsOf(m) : /\ command'[c].kernel_id = command[c].kernel_id
                                 /\ command'[c].call_count = command[c].call_count
    BY <1>2, <1>4, <1>7
  <2>2. CommandsOf(m)' = CommandsOf(m)
    BY <1>3
  <2>. QED  BY <2>1, <2>2 DEF LastCallIds
<1>8. \A m \in Lists : InRemoval(m)' <=> InRemoval(m)
  BY <1>1 DEF InRemoval, Removing
<1>9. ASSUME NEW u \in Threads, thr'[u].op \in {"execute", "executed"},
             NEW m \in thr'[u].lists \ thr'[u].todo
      PROVE  call_id_map_'[m] = LastCallIds(m)'
  <2>1. thr[u].lists \subseteq Lists /\ thr[t].lists \subseteq Lists
    BY DEF Base, TypeOK
  <2>2. CASE u = t
    <3>1. CASE m = l
      BY <1>1, <1>6, <3>1 DEF Base, TypeOK
    <3>2. CASE m # l
      <4>1. m \in thr[t].lists \ thr[t].todo
        BY <1>1, <1>9, <2>2, <3>2
      <4>. QED  BY <1>1, <1>7, <2>1, <3>2, <4>1 DEF IdsInv, Base, TypeOK
    <3>. QED  BY <3>1, <3>2
  <2>3. CASE u # t
    <3>1. thr'[u] = thr[u] /\ m # l
      BY <1>1, <1>9, <2>3 DEF Base, ListsInv
    <3>. QED  BY <1>1, <1>7, <1>9, <2>1, <3>1 DEF IdsInv, Base, TypeOK
  <2>. QED  BY <2>2, <2>3
<1>10. /\ \A d \in Commands : command'[d] # None => command'[d].kernel_id < kernel_id_'
       /\ \A d, g \in Commands :
            command'[d] # None /\ command'[g] # None /\ command'[d].kernel_id > 0
              /\ command'[d].kernel_id = command'[g].kernel_id => d = g
  BY <1>1, <1>2 DEF IdsInv
<1>. QED  BY <1>1, <1>5, <1>8, <1>9, <1>10 DEF IdsInv

LEMMA NextIds ==
  ASSUME Base, IdsInv, [CareNext]_vars
  PROVE  IdsInv'
<1>1. CASE OutsideStep
  <2>1. UNCHANGED <<command, idVars, thr>>
    BY <1>1 DEF OutsideStep, CreateEvent, Finish, FenceSignal, FenceReset, Toggle
  <2>. QED  BY <2>1, SameCommandsIfUnchanged, IdsKept
<1>2. ASSUME NEW t \in Threads, CallbackStep(t) PROVE IdsInv'
  <2>1. CASE EndCreate(t)
    <3>1. PICK l \in thr[t].lists :
            /\ command_list_map_[l] = None
            /\ kernel_id_map_' = [kernel_id_map_ EXCEPT ![l] = {}]
            /\ call_id_map_' = [call_id_map_ EXCEPT ![l] = {}]
      BY <2>1 DEF EndCreate
    <3>2. thr[t].op = "create" /\ thr[t].lists = {l} /\ l \in Lists
      BY <2>1 DEF EndCreate, Base, ListsInv
    <3>3. CommandsOf(l) = {}
      BY <3>1 DEF CommandsOf, Base, CommandsInv
    <3>4. UNCHANGED <<command, kernel_id_>> /\ thr' = [thr EXCEPT ![t] = Idle]
      BY <2>1 DEF EndCreate
    <3>. QED  BY <3>1, <3>2, <3>3, <3>4, IdsCleared
  <2>2. CASE EndAppend(t)
    <3>1. CASE ~thr[t].ok
      <4>1. PICK c \in Commands : /\ Deleted(c) /\ thr[t].op = "append" /\ thr[t].command = c
                                  /\ thr' = [thr EXCEPT ![t] = Idle]
        BY <2>2, <3>1, AppendFailedFacts
      <4>2. command[c].kernel_id = 0
        BY <4>1, Appender
      <4>3. \A u \in Threads : thr'[u] = thr[u] \/ (thr'[u] = Idle /\ thr[u].op = "append")
        BY <4>1 DEF Base, TypeOK
      <4>. QED  BY <4>1, <4>2, <4>3, IdsDelete
    <3>2. CASE thr[t].ok
      BY <2>2, <3>2, RecordFacts, IdsRecord
    <3>. QED  BY <3>1, <3>2
  <2>3. CASE \E l \in Lists : AddKernelCalls(t, l)
    BY <2>3, CallFacts, IdsCall DEF Base
  <2>4. CASE LogExecute(t)
    <3>1. /\ thr[t].op = "executed" /\ UNCHANGED <<command, idVars>>
          /\ \A u \in Threads : thr'[u] = IF u = t THEN Idle ELSE thr[u]
      BY <2>4 DEF LogExecute, Base, TypeOK
    <3>. QED  BY <3>1, IdleTyped, SameCommandsIfUnchanged, IdsKept DEF Removing
  <2>5. CASE EndDestroyOrReset(t)
    <3>1. /\ thr[t].op \in {"destroy", "reset"} /\ UNCHANGED idVars
          /\ thr' = [thr EXCEPT ![t].op = IF @ = "destroy" THEN "erase" ELSE "clear"]
          /\ Report({k \in kernel_call_list_ : Signaled(k)})
      BY <2>5 DEF EndDestroyOrReset, ProcessCalls
    <3>2. /\ thr'[t].op \in {"erase", "clear"}
          /\ \A u \in Threads \ {t} : thr'[u] = thr[u]
      BY <3>1 DEF Base, TypeOK
    <3>3. SameCommands
      BY <3>1, ReportFacts DEF Base
    <3>. QED  BY <3>1, <3>2, <3>3, IdsKept DEF Removing
  <2>6. CASE \E l \in Lists, c \in Commands : RemoveKernelCommand(t, l, c)
    <3>1. PICK l \in Lists, c \in Commands : RemoveKernelCommand(t, l, c)
      BY <2>6
    <3>. QED  BY <3>1, RemoveFacts, IdsDelete DEF InRemoval
  <2>7. CASE \E l \in Lists : EndRemove(t, l)
    <3>1. PICK l \in Lists :
            /\ thr[t].op \in Removing /\ l \in thr[t].lists /\ CommandsOf(l) = {}
            /\ kernel_id_map_' = [kernel_id_map_ EXCEPT ![l] = {}]
            /\ call_id_map_' = [call_id_map_ EXCEPT ![l] = {}]
            /\ thr' = [thr EXCEPT ![t] = Idle]
            /\ UNCHANGED <<command, kernel_id_>>
      BY <2>7 DEF EndRemove
    <3>2. thr[t].op \in {"erase", "clear"} /\ thr[t].lists = {l}
      BY <3>1 DEF Removing, Base, ListsInv
    <3>. QED  BY <3>1, <3>2, IdsCleared
  <2>. QED  BY <1>2, <2>1, <2>2, <2>3, <2>4, <2>5, <2>6, <2>7 DEF CallbackStep
<1>3. ASSUME NEW t \in Threads, CallStep(t) PROVE IdsInv'
  <2>1. CASE \E l \in Lists, c \in Commands, e \in Events : BeginAppend(t, l, c, e)
    BY <2>1, AppendFacts, IdsAppend DEF Base
  <2>2. CASE \E L \in SUBSET Lists, f \in Fences \cup {None} : BeginExecute(t, L, f)
    <3>1. PICK L \in SUBSET Lists, f \in Fences \cup {None} : Executed(t, L, f)
      BY <2>2, ExecuteFacts DEF Base
    <3>. QED  BY <3>1, IdsKept DEF Executed, Removing
  <2>3. CASE Synchronize(t)
    BY <2>3, ReportFacts, IdsKept DEF Base, Synchronize, ProcessCalls
  <2>4. CASE \E f \in Fences : FenceHostSynchronize(t, f)
    <3>1. PICK f \in Fences : FenceHostSynchronize(t, f)
      BY <2>4
    <3>2. /\ Report({k \in kernel_call_list_ : (k.fence = f /\ fence[f] = "signaled") \/ Signaled(k)})
          /\ UNCHANGED <<idVars, thr>>
      BY <3>1 DEF FenceHostSynchronize, ProcessFence
    <3>. QED  BY <3>2, ReportFacts, IdsKept DEF Base
  <2>5. CASE \E l \in Lists : BeginDestroy(t, l) \/ BeginReset(t, l)
    <3>1. /\ thr[t].op = "idle" /\ UNCHANGED <<command, idVars>>
          /\ \E op \in {"destroy", "reset"}, l \in Lists :
               thr' = [thr EXCEPT ![t] = [Idle EXCEPT !.op = op, !.lists = {l}]]
      BY <2>5 DEF BeginDestroy, BeginReset
    <3>2. thr'[t].op \in {"destroy", "reset"} /\ \A u \in Threads \ {t} : thr'[u] = thr[u]
      BY <3>1 DEF Base, TypeOK, Idle
    <3>. QED  BY <3>1, <3>2, SameCommandsIfUnchanged, IdsKept DEF Removing
  <2>6. CASE \E x \in Contexts : ContextDestroy(t, x)
    BY <2>6, SameCommandsIfUnchanged, IdsKept DEF ContextDestroy
  <2>. QED  BY <1>3, <2>1, <2>2, <2>3, <2>4, <2>5, <2>6 DEF CallStep
<1>4. CASE CreateStep
  <2>1. PICK t \in Threads, l \in Lists :
          /\ thr[t].op = "idle" /\ UNCHANGED <<command, idVars>>
          /\ thr' = [thr EXCEPT ![t] = [Idle EXCEPT !.op = "create", !.lists = {l}]]
    BY <1>4 DEF CreateStep, BeginCreate
  <2>2. thr'[t].op = "create" /\ \A u \in Threads \ {t} : thr'[u] = thr[u]
    BY <2>1 DEF Base, TypeOK, Idle
  <2>. QED  BY <2>1, <2>2, SameCommandsIfUnchanged, IdsKept DEF Removing
<1>5. CASE \E e \in Events : EventHostReset(e) \/ EventDestroy(e)
  <2>1. PICK e \in Events : ProcessCall(e) /\ UNCHANGED <<idVars, thr>>
    BY <1>5 DEF EventHostReset, EventDestroy
  <2>2. PICK S \in SUBSET kernel_call_list_ : Report(S)
    BY <2>1, ProcessCallReports
  <2>. QED  BY <2>1, <2>2, ReportFacts, IdsKept DEF Base
<1>6. CASE UNCHANGED vars
  BY <1>6, SameCommandsIfUnchanged, IdsKept DEF vars
<1>. QED  BY <1>1, <1>2, <1>3, <1>4, <1>5, <1>6 DEF CareNext, Next, Common

\* The commands of a list correspond to the pairs of ids of its last submission.
LEMMA IdsPaired ==
  ASSUME Base, IdsInv, NEW l \in Lists
  PROVE  Cardinality(KernelIds(l)) = Cardinality(LastCallIds(l))
<1>. DEFINE By(i) == CHOOSE c \in CommandsOf(l) : command[c].kernel_id = i
            g == [i \in KernelIds(l) |-> <<i, command[By(i)].call_count>>]
<1>1. \A c \in CommandsOf(l) : /\ c \in Commands /\ command[c] # None
                               /\ command[c].kernel_id \in Nat /\ command[c].kernel_id > 0
                               /\ command[c].kernel_id < kernel_id_
  BY DEF CommandsOf, IdsInv, Base, TypeOK, CommandType
<1>2. \A c \in CommandsOf(l) : By(command[c].kernel_id) = c
  BY <1>1 DEF IdsInv
<1>. HIDE DEF By
<1>3. IsFiniteSet(KernelIds(l))
  <2>1. kernel_id_ \in Nat
    BY DEF Base, TypeOK
  <2>2. KernelIds(l) \subseteq 0..kernel_id_
    BY <1>1, <2>1 DEF KernelIds
  <2>3. IsFiniteSet(0..kernel_id_)
    BY <2>1, FS_Interval
  <2>. QED  BY <2>2, <2>3, FS_Subset
<1>4. g \in Bijection(KernelIds(l), LastCallIds(l))
  <2>1. \A c \in CommandsOf(l) : g[command[c].kernel_id] = <<command[c].kernel_id, command[c].call_count>>
    BY <1>2 DEF KernelIds
  <2>2. \A i \in KernelIds(l) : \E c \in CommandsOf(l) : i = command[c].kernel_id
    BY DEF KernelIds
  <2>3. \A p \in LastCallIds(l) : \E c \in CommandsOf(l) : p = <<command[c].kernel_id, command[c].call_count>>
    BY DEF LastCallIds
  <2>4. \A i, j \in KernelIds(l) : g[i] = g[j] => i = j
    OBVIOUS
  <2>5. \A c \in CommandsOf(l) : /\ <<command[c].kernel_id, command[c].call_count>> \in LastCallIds(l)
                                 /\ command[c].kernel_id \in KernelIds(l)
    BY DEF KernelIds, LastCallIds
  <2>6. DOMAIN g = KernelIds(l) /\ g = [i \in DOMAIN g |-> g[i]]
    OBVIOUS
  <2>. HIDE DEF g
  <2>7. \A i \in KernelIds(l) : g[i] \in LastCallIds(l)
    <3>. SUFFICES ASSUME NEW i \in KernelIds(l) PROVE g[i] \in LastCallIds(l)
      OBVIOUS
    <3>1. PICK c \in CommandsOf(l) : i = command[c].kernel_id
      BY <2>2
    <3>. QED  BY <2>1, <2>5, <3>1
  <2>8. \A p \in LastCallIds(l) : \E i \in KernelIds(l) : g[i] = p
    <3>. SUFFICES ASSUME NEW p \in LastCallIds(l) PROVE \E i \in KernelIds(l) : g[i] = p
      OBVIOUS
    <3>1. PICK c \in CommandsOf(l) : p = <<command[c].kernel_id, command[c].call_count>>
      BY <2>3
    <3>. QED  BY <2>1, <2>5, <3>1
  <2>9. g \in [KernelIds(l) -> LastCallIds(l)]
    BY <2>6, <2>7
  <2>. QED  BY <2>4, <2>8, <2>9 DEF Bijection, Injection, Surjection, IsInjective
<1>. QED  BY <1>3, <1>4, FS_Bijection DEF ExistsBijection

\* After an execution the correlator has a call id for every kernel id, so the API
\* collector's assertion holds, whatever lists other threads use.
THEOREM IdsOfExecution == EarlyDestroySpec => []IdListsPaired
<1>1. EarlyDestroySpec => Init /\ [][CareNext]_vars
  BY DEF EarlyDestroySpec, CareNext
<1>2. Init => IdsInv
  <2>. SUFFICES ASSUME Init PROVE IdsInv
    OBVIOUS
  <2>1. \A l : CommandsOf(l) = {} /\ KernelIds(l) = {}
    BY DEF Init, CommandsOf, KernelIds
  <2>2. \A t \in Threads : thr[t].op = "idle"
    BY IdleTyped DEF Init
  <2>. QED  BY <2>1, <2>2 DEF Init, IdsInv
<1>3. Base /\ IdsInv /\ [CareNext]_vars => IdsInv'
  BY NextIds
<1>4. Base /\ IdsInv => IdListsPaired
  <2>. SUFFICES ASSUME Base, IdsInv, NEW t \in Threads, thr[t].op = "executed",
                       NEW l \in thr[t].lists
                PROVE  Cardinality(kernel_id_map_[l]) = Cardinality(call_id_map_[l])
    BY DEF IdListsPaired
  <2>1. l \in Lists /\ l \in thr[t].lists \ thr[t].todo
    BY DEF Base, TypeOK, ListsInv
  <2>2. ~InRemoval(l)
    BY DEF InRemoval, Removing, Base, ListsInv
  <2>3. kernel_id_map_[l] = KernelIds(l) /\ call_id_map_[l] = LastCallIds(l)
    BY <2>1, <2>2 DEF IdsInv
  <2>. QED  BY <2>1, <2>3, IdsPaired
<1>. QED  BY <1>1, <1>2, <1>3, <1>4, BaseInvariant, PTL

-----------------------------------------------------------------------------
(* Events of pending calls.  An application that resets or destroys an     *)
(* event of its own may only rely on the first call that names it being    *)
(* processed (ProcessCall), so what follows is about applications that     *)
(* execute a list once between resets, or name no events of their own.     *)

Modest == MaxRuns = 1 \/ AppEvents = {}

RunOf(c, n, f) == [command |-> c, call_id |-> n, fence |-> f]

\* The event of a call exists, and is signaled unless the device still runs the call; no call
\* is pending of a list whose commands are removed.
SettledInv ==
  /\ AppEvents = {} => \A e \in Events : status[e] # "none" => Cache!QueryEvent(e)
  /\ \A k \in kernel_call_list_ :
       \/ status[Held[k.command]] = "signaled"
       \/ RunOf(k.command, k.call_id, k.fence) \in running
  /\ \A t \in Threads, c \in Commands : Upcoming(t, c) =>
       \/ status[Held[c]] = "signaled"
       \/ RunOf(c, command[c].call_count + 1, thr[t].fence) \in running
  /\ \A r \in running : status[Held[r.command]] # "none"
  /\ NoOrphanedCall

\* If commands run once, their events are not signaled before they have run.
FreshInv ==
  /\ \A r \in running : status[Held[r.command]] # "signaled"
  /\ \A c \in Commands : command[c] # None /\ command[c].call_count = 0 /\ ~Awaited(c) =>
       status[Held[c]] # "signaled"

QueryInv == SettledInv /\ (MaxRuns = 1 => FreshInv)

LEMMA CallHeld ==
  ASSUME Base, NEW k \in kernel_call_list_
  PROVE  /\ k.command \in Commands /\ command[k.command] # None
         /\ Held[k.command] \in Events /\ Held[k.command] # None
         /\ EventOf(k) = Held[k.command] /\ k.fence \in Fences \cup {None}
         /\ k.call_id > 0 /\ k.call_id \in Nat /\ k.call_id <= command[k.command].call_count
<1>1. /\ k.command \in Commands /\ k.fence \in Fences \cup {None} /\ k.call_id \in Nat
      /\ command[k.command] # None
      /\ k.call_id > 0 /\ k.call_id <= command[k.command].call_count
  BY DEF Base, TypeOK, CallType, CallsInv
<1>2. TypeOK
  BY DEF Base
<1>. QED  BY <1>1, <1>2, HeldEvents DEF EventOf

LEMMA RunHeld ==
  ASSUME Base, NEW r \in running
  PROVE  /\ r.command \in Commands /\ command[r.command] # None
         /\ Held[r.command] \in Events /\ Held[r.command] # None
         /\ r = RunOf(r.command, r.call_id, r.fence)
<1>1. r \in [command : Commands, call_id : Nat, fence : Fences \cup {None}] /\ TypeOK
  BY DEF Base, TypeOK
<1>2. r.command \in Commands /\ r = RunOf(r.command, r.call_id, r.fence)
  BY <1>1 DEF RunOf
<1>3. command[r.command] # None
  BY DEF Base, RunsInv
<1>. QED  BY <1>1, <1>2, <1>3, HeldEvents

\* Steps that neither submit, record nor finish calls nor change the events held.
LEMMA QueryKept ==
  ASSUME Base, QueryInv, SameCommands, running' = running,
         kernel_call_list_' \subseteq kernel_call_list_,
         \A c \in Commands : Held[c] # None => status'[Held[c]] = status[Held[c]],
         AppEvents = {} => \A e \in Events : status'[e] # "none" => Cache!QueryEvent(e)',
         \A c \in Commands : Awaited(c)' <=> Awaited(c),
         \A c \in Commands, u \in Threads : Upcoming(u, c)' <=> Upcoming(u, c),
         \A u \in Threads :
           \/ thr'[u] = thr[u]
           \/ /\ thr[u].op \notin {"append", "execute"}
              /\ thr'[u].op \in Removing => \A k \in kernel_call_list_' :
                   command[k.command].list \notin thr'[u].lists
  PROVE  QueryInv'
<1>1. Held' = Held /\ TypeOK
  BY SameHeld DEF Base
<1>2. \A c \in Commands : command[c] # None => status'[Held'[c]] = status[Held[c]]
  BY <1>1, HeldEvents
<1>3. \A k \in kernel_call_list_' :
        \/ status'[Held'[k.command]] = "signaled"
        \/ RunOf(k.command, k.call_id, k.fence) \in running'
  BY <1>2, CallHeld DEF QueryInv, SettledInv
<1>4. ASSUME NEW t \in Threads, NEW c \in Commands, Upcoming(t, c)'
      PROVE  \/ status'[Held'[c]] = "signaled"
             \/ RunOf(c, command'[c].call_count + 1, thr'[t].fence) \in running'
  <2>1. Upcoming(t, c)
    BY <1>4
  <2>2. command[c] # None /\ thr'[t] = thr[t]
    BY <2>1 DEF Upcoming
  <2>3. command'[c].call_count = command[c].call_count
    BY <2>2 DEF SameCommands
  <2>. QED  BY <1>2, <2>1, <2>2, <2>3 DEF QueryInv, SettledInv
<1>5. \A r \in running' : status'[Held'[r.command]] # "none"
  BY <1>2, RunHeld DEF QueryInv, SettledInv
<1>6. NoOrphanedCall'
  <2>1. \A k \in kernel_call_list_ : command'[k.command].list = command[k.command].list
    BY CallHeld DEF SameCommands
  <2>. QED  BY <2>1 DEF QueryInv, SettledInv, NoOrphanedCall
<1>7. ASSUME MaxRuns = 1 PROVE FreshInv'
  <2>1. \A r \in running' : status'[Held'[r.command]] # "signaled"
    BY <1>2, <1>7, RunHeld DEF QueryInv, FreshInv
  <2>2. \A c \in Commands : command'[c] # None /\ command'[c].call_count = 0 /\ ~Awaited(c)' =>
          status'[Held'[c]] # "signaled"
    BY <1>2, <1>7 DEF QueryInv, FreshInv, SameCommands
  <2>. QED  BY <2>1, <2>2 DEF FreshInv
<1>. QED  BY <1>3, <1>4, <1>5, <1>6, <1>7 DEF QueryInv, SettledInv

\* Steps that leave the events alone, too.
LEMMA QueryStill ==
  ASSUME Base, QueryInv, SameCommands, UNCHANGED <<running, status, event_info_map_>>,
         kernel_call_list_' \subseteq kernel_call_list_,
         \A c \in Commands : Awaited(c)' <=> Awaited(c),
         \A c \in Commands, u \in Threads : Upcoming(u, c)' <=> Upcoming(u, c),
         \A u \in Threads :
           \/ thr'[u] = thr[u]
           \/ /\ thr[u].op \notin {"append", "execute"}
              /\ thr'[u].op \in Removing => \A k \in kernel_call_list_' :
                   command[k.command].list \notin thr'[u].lists
  PROVE  QueryInv'
<1>1. AppEvents = {} => \A e \in Events : status'[e] # "none" => Cache!QueryEvent(e)'
  BY DEF QueryInv, SettledInv, Cache!QueryEvent
<1>. QED  BY <1>1, QueryKept

\* The device signals the event of what it has run.
LEMMA QueryFinish ==
  ASSUME Base, QueryInv, NEW r \in running, Finish(r)
  PROVE  QueryInv'
<1>1. /\ running' = running \ {r}
      /\ status' = [status EXCEPT ![Held[r.command]] = "signaled"]
      /\ UNCHANGED <<event_info_map_, command_list_map_, command, kernel_call_list_, thr>>
  BY DEF Finish
<1>2. SameCommands /\ Held' = Held
  BY <1>1, SameCommandsIfUnchanged, SameHeld
<1>3. \A c \in Commands : Awaited(c)' <=> Awaited(c)
  BY <1>1, <1>2, SameAwaited
<1>31. \A c \in Commands, u \in Threads : Upcoming(u, c)' <=> Upcoming(u, c)
  BY <1>1, <1>2, SameAwaited
<1>4. /\ r.command \in Commands /\ command[r.command] # None
      /\ Held[r.command] \in Events /\ Held[r.command] # None
  BY RunHeld
<1>5. status'[Held[r.command]] = "signaled" /\ \A e \in Events : e # Held[r.command] => status'[e] = status[e]
  BY <1>1, <1>4 DEF Base, TypeOK
<1>6. \A c \in Commands : command[c] # None /\ c # r.command => status'[Held[c]] = status[Held[c]]
  <2>1. TypeOK /\ EventsInv
    BY DEF Base
  <2>2. \A c \in Commands : command[c] # None => Held[c] \in Events /\ Held[c] # None
    BY <2>1, HeldEvents
  <2>3. \A c \in Commands : command[c] # None /\ Held[c] = Held[r.command] => c = r.command
    BY <1>4, <2>1, <2>2 DEF EventsInv
  <2>. QED  BY <1>5, <2>2, <2>3
<1>7. \A k \in kernel_call_list_' :
        \/ status'[Held'[k.command]] = "signaled"
        \/ RunOf(k.command, k.call_id, k.fence) \in running'
  <2>1. \A k \in kernel_call_list_ : RunOf(k.command, k.call_id, k.fence) = r => k.command = r.command
    BY DEF RunOf
  <2>. QED  BY <1>1, <1>2, <1>5, <1>6, <2>1, CallHeld DEF QueryInv, SettledInv
<1>8. ASSUME NEW t \in Threads, NEW c \in Commands, Upcoming(t, c)'
      PROVE  \/ status'[Held'[c]] = "signaled"
             \/ RunOf(c, command'[c].call_count + 1, thr'[t].fence) \in running'
  <2>1. Upcoming(t, c) /\ command[c] # None
    BY <1>8, <1>31 DEF Upcoming
  <2>2. CASE c = r.command
    BY <1>2, <1>5, <2>2
  <2>3. CASE c # r.command
    <3>1. \A n, f : RunOf(c, n, f) # r
      BY <2>3 DEF RunOf
    <3>. QED  BY <1>1, <1>2, <1>6, <2>1, <2>3, <3>1 DEF QueryInv, SettledInv
  <2>. QED  BY <2>2, <2>3
<1>9. \A s \in running' : s \in running /\ s.command # r.command
  BY <1>1 DEF Base, RunsInv
<1>10. \A s \in running' : status'[Held'[s.command]] # "none"
  BY <1>2, <1>6, <1>9, RunHeld DEF QueryInv, SettledInv
<1>11. AppEvents = {} => \A e \in Events : status'[e] # "none" => Cache!QueryEvent(e)'
  <2>1. status[Held[r.command]] # "none"
    BY DEF QueryInv, SettledInv
  <2>. QED  BY <1>1, <1>5, <2>1 DEF QueryInv, SettledInv, Cache!QueryEvent
<1>12. NoOrphanedCall'
  BY <1>1 DEF QueryInv, SettledInv, NoOrphanedCall
<1>13. ASSUME MaxRuns = 1 PROVE FreshInv'
  <2>1. \A s \in running' : status'[Held'[s.command]] # "signaled"
    BY <1>2, <1>6, <1>9, <1>13, RunHeld DEF QueryInv, FreshInv
  <2>2. ASSUME NEW c \in Commands, command'[c] # None, command'[c].call_count = 0, ~Awaited(c)'
        PROVE  status'[Held'[c]] # "signaled"
    <3>1. command[c] # None /\ command[c].call_count = 0 /\ ~Awaited(c)
      BY <1>1, <1>3, <2>2
    <3>2. c # r.command
      BY <3>1 DEF Base, RunsInv, TypeOK
    <3>. QED  BY <1>2, <1>6, <1>13, <3>1, <3>2 DEF QueryInv, FreshInv
  <2>. QED  BY <2>1, <2>2 DEF FreshInv
<1>. QED  BY <1>7, <1>8, <1>10, <1>11, <1>12, <1>13 DEF QueryInv, SettledInv

\* The application resets or destroys an event: no call that names it stays pending.
LEMMA QueryAppEvent ==
  ASSUME Base, QueryInv, Modest, NEW e \in Events,
         EventHostReset(e) \/ EventDestroy(e), Settled(e)
  PROVE  QueryInv'
<1>1. /\ ProcessCall(e) /\ ~Cache!QueryEvent(e) /\ status[e] # "none"
      /\ \A r \in running : Held[r.command] # e
      /\ \E s \in {"none", "reset"} : status' = [status EXCEPT ![e] = s]
      /\ UNCHANGED <<running, event_info_map_, command_list_map_, thr>>
  BY DEF EventDestroy, EventHostReset, AppOwned, AppEvent, driverVars
<1>2. AppEvents # {} /\ MaxRuns = 1
  BY <1>1 DEF Modest, QueryInv, SettledInv
<1>. DEFINE named == {k \in kernel_call_list_ : EventOf(k) = e}
\* A call that names it is the only one of its command, and has run ...
<1>3. \A k \in named : k.command \in Commands /\ k.call_id = 1 /\ Held[k.command] = e
  <2>. SUFFICES ASSUME NEW k \in named
                PROVE  k.command \in Commands /\ k.call_id = 1 /\ Held[k.command] = e
    OBVIOUS
  <2>1. /\ k.command \in Commands /\ command[k.command] # None
        /\ k.call_id > 0 /\ k.call_id \in Nat /\ k.call_id <= command[k.command].call_count
    BY CallHeld
  <2>2. command[k.command].call_count <= 1 /\ command[k.command].call_count \in Nat
    BY <1>2, <2>1 DEF Base, CommandsInv, TypeOK, CommandType
  <2>. QED  BY <2>1, <2>2, CallHeld
<1>31. \A k \in named : Signaled(k)
  <2>. SUFFICES ASSUME NEW k \in named PROVE Signaled(k)
    OBVIOUS
  <2>1. RunOf(k.command, k.call_id, k.fence) \notin running
    <3>1. RunOf(k.command, k.call_id, k.fence).command = k.command
      BY DEF RunOf
    <3>. QED  BY <1>1, <1>3, <3>1
  <2>2. status[Held[k.command]] = "signaled"
    BY <2>1 DEF QueryInv, SettledInv
  <2>. QED  BY <2>2, CallHeld DEF Signaled
\* ... and no other command names it, so that the call reported is the only one.
<1>32. \A j, k \in named : j = k
  <2>1. e # None
    BY NoneAssumption
  <2>. QED  BY <1>3, <2>1 DEF Base, EventsInv, CallsInv
<1>4. \E S \in SUBSET kernel_call_list_ : Report(S) /\ named \subseteq S
  <2>1. {k \in kernel_call_list_ : EventOf(k) = e /\ Signaled(k)} = named
    BY <1>31
  <2>2. (named = {} /\ Report({})) \/ \E k \in named : Report({k})
    BY <1>1, <2>1 DEF ProcessCall
  <2>3. named \subseteq kernel_call_list_
    OBVIOUS
  <2>. HIDE DEF named
  <2>4. CASE named = {} /\ Report({})
    BY <2>4
  <2>5. ASSUME NEW k \in named, Report({k})
        PROVE  \E S \in SUBSET kernel_call_list_ : Report(S) /\ named \subseteq S
    <3>1. {k} \in SUBSET kernel_call_list_ /\ named \subseteq {k}
      BY <1>32, <2>3
    <3>. QED  BY <2>5, <3>1
  <2>. QED  BY <2>2, <2>4, <2>5
<1>5. PICK S \in SUBSET kernel_call_list_ : Report(S) /\ named \subseteq S
  BY <1>4
<1>6. SameCommands /\ kernel_call_list_' = kernel_call_list_ \ S
  BY <1>5, ReportFacts DEF Base
<1>7. Held' = Held
  BY <1>6, SameHeld
<1>8. \A k \in kernel_call_list_' : k \in kernel_call_list_ /\ Held[k.command] # e
  BY <1>5, <1>6, CallHeld
<1>9. \A c \in Commands : command[c] # None /\ Held[c] # e => status'[Held[c]] = status[Held[c]]
  <2>1. \A c \in Commands : command[c] # None => Held[c] \in Events
    BY HeldEvents DEF Base
  <2>. QED  BY <1>1, <2>1 DEF Base, TypeOK
<1>10. \A k \in kernel_call_list_' :
         \/ status'[Held'[k.command]] = "signaled"
         \/ RunOf(k.command, k.call_id, k.fence) \in running'
  BY <1>1, <1>7, <1>8, <1>9, CallHeld DEF QueryInv, SettledInv
<1>11. \A c \in Commands : Awaited(c)' <=> Awaited(c)
  BY <1>1, <1>6, SameAwaited
<1>111. \A c \in Commands, u \in Threads : Upcoming(u, c)' <=> Upcoming(u, c)
  BY <1>1, <1>6, SameAwaited
<1>12. ASSUME NEW t \in Threads, NEW c \in Commands, Upcoming(t, c)'
       PROVE  \/ status'[Held'[c]] = "signaled"
              \/ RunOf(c, command'[c].call_count + 1, thr'[t].fence) \in running'
  <2>1. Upcoming(t, c) /\ command[c] # None
    BY <1>12, <1>111 DEF Upcoming
  <2>2. InFunction(command[c].list)
    BY <2>1 DEF InFunction, Upcoming, Base, CommandsInv, ListsInv
  <2>3. Held[c] # e
    BY <2>2 DEF Settled
  <2>4. command'[c].call_count = command[c].call_count
    BY <1>6, <2>1 DEF SameCommands
  <2>. QED  BY <1>1, <1>7, <1>9, <2>1, <2>3, <2>4 DEF QueryInv, SettledInv
<1>13. \A r \in running' : status'[Held'[r.command]] # "none"
  BY <1>1, <1>7, <1>9, RunHeld DEF QueryInv, SettledInv
<1>14. NoOrphanedCall'
  <2>1. \A k \in kernel_call_list_' : command'[k.command].list = command[k.command].list
    BY <1>6, <1>8, CallHeld DEF SameCommands
  <2>. QED  BY <1>1, <1>6, <2>1 DEF QueryInv, SettledInv, NoOrphanedCall
<1>15. FreshInv'
  <2>1. \A r \in running' : status'[Held'[r.command]] # "signaled"
    BY <1>1, <1>2, <1>7, <1>9, RunHeld DEF QueryInv, FreshInv
  <2>2. ASSUME NEW c \in Commands, command'[c] # None, command'[c].call_count = 0, ~Awaited(c)'
        PROVE  status'[Held'[c]] # "signaled"
    <3>1. command[c] # None /\ command[c].call_count = 0 /\ ~Awaited(c)
      BY <1>6, <1>11, <2>2 DEF SameCommands
    <3>2. status[Held[c]] # "signaled"
      BY <1>2, <3>1 DEF QueryInv, FreshInv
    <3>3. status'[e] # "signaled"
      BY <1>1 DEF Base, TypeOK
    <3>. QED  BY <1>7, <1>9, <3>1, <3>2, <3>3
  <2>. QED  BY <2>1, <2>2 DEF FreshInv
<1>. QED  BY <1>2, <1>10, <1>12, <1>13, <1>14, <1>15 DEF QueryInv, SettledInv

LEMMA QueryOutside ==
  ASSUME Base, QueryInv, OutsideStep
  PROVE  QueryInv'
<1>1. ASSUME NEW e \in Events, CreateEvent(e), HandleKept PROVE QueryInv'
  <2>1. /\ e \in AppEvents /\ status[e] = "none" /\ status' = [status EXCEPT ![e] = "reset"]
        /\ UNCHANGED <<running, event_info_map_, command_list_map_, command, kernel_call_list_, thr>>
    BY <1>1 DEF CreateEvent, driverVars
  <2>2. status'[e] = "reset" /\ \A f \in Events : f # e => status'[f] = status[f]
    BY <2>1 DEF Base, TypeOK
  <2>3. Unnamed(e)
    BY <1>1, <2>1, <2>2 DEF HandleKept
  <2>4. \A c \in Commands : Held[c] # None => status'[Held[c]] = status[Held[c]]
    BY <2>2, <2>3, HeldEvents DEF Unnamed, Base
  <2>5. SameCommands
    BY <2>1, SameCommandsIfUnchanged
  <2>6. /\ \A c \in Commands : Awaited(c)' <=> Awaited(c)
        /\ \A c \in Commands, u \in Threads : Upcoming(u, c)' <=> Upcoming(u, c)
    BY <2>1, <2>5, SameAwaited
  <2>. QED  BY <2>1, <2>4, <2>5, <2>6, QueryKept
<1>2. CASE \E r \in running : Finish(r)
  BY <1>2, QueryFinish
<1>3. CASE (\E f \in Fences : FenceSignal(f) \/ FenceReset(f)) \/ Toggle
  <2>1. UNCHANGED <<running, status, event_info_map_, command_list_map_, command, kernel_call_list_, thr>>
    BY <1>3 DEF FenceSignal, FenceReset, Toggle, cacheVars
  <2>2. SameCommands
    BY <2>1, SameCommandsIfUnchanged
  <2>3. /\ \A c \in Commands : Awaited(c)' <=> Awaited(c)
        /\ \A c \in Commands, u \in Threads : Upcoming(u, c)' <=> Upcoming(u, c)
    BY <2>1, <2>2, SameAwaited
  <2>. QED  BY <2>1, <2>2, <2>3, QueryStill
<1>. QED  BY <1>1, <1>2, <1>3 DEF OutsideStep

\* Calls are processed, and no thread moves on.
LEMMA QuerySynchronize ==
  ASSUME Base, QueryInv, NEW t \in Threads,
         Synchronize(t) \/ \E f \in Fences : FenceHostSynchronize(t, f)
  PROVE  QueryInv'
<1>1. /\ \E S \in SUBSET kernel_call_list_ : Report(S)
      /\ UNCHANGED <<running, status, event_info_map_, command_list_map_, thr>>
  BY DEF Synchronize, FenceHostSynchronize, ProcessCalls, ProcessFence, driverVars, cacheVars
<1>2. PICK S \in SUBSET kernel_call_list_ : Report(S)
  BY <1>1
<1>3. SameCommands /\ kernel_call_list_' \subseteq kernel_call_list_
  BY <1>2, ReportFacts DEF Base
<1>4. /\ \A c \in Commands : Awaited(c)' <=> Awaited(c)
      /\ \A c \in Commands, u \in Threads : Upcoming(u, c)' <=> Upcoming(u, c)
  BY <1>1, <1>3, SameAwaited
<1>. QED  BY <1>1, <1>3, <1>4, QueryStill

\* Before the commands of a list are removed, every call of them is processed.
LEMMA QueryProcess ==
  ASSUME Base, QueryInv, NEW t \in Threads, EndDestroyOrReset(t)
  PROVE  QueryInv'
<1>. DEFINE S == {k \in kernel_call_list_ : Signaled(k)}
<1>1. /\ Report(S) /\ thr[t].op \in {"destroy", "reset"}
      /\ thr' = [thr EXCEPT ![t].op = IF @ = "destroy" THEN "erase" ELSE "clear"]
      /\ UNCHANGED <<running, status, event_info_map_, command_list_map_>>
  BY DEF EndDestroyOrReset, ProcessCalls, driverVars, cacheVars
<1>2. SameCommands /\ kernel_call_list_' = kernel_call_list_ \ S
  BY <1>1, ReportFacts DEF Base
<1>3. /\ thr'[t].lists = thr[t].lists
      /\ \A u \in Threads : u # t => thr'[u] = thr[u]
  BY <1>1 DEF Base, TypeOK
<1>4. \A k \in kernel_call_list_ \ S : command[k.command].list \notin thr[t].lists
  <2>. SUFFICES ASSUME NEW k \in kernel_call_list_, ~Signaled(k)
                PROVE  command[k.command].list \notin thr[t].lists
    OBVIOUS
  <2>1. status[Held[k.command]] # "signaled"
    BY CallHeld DEF Signaled
  <2>2. RunOf(k.command, k.call_id, k.fence) \in running
    BY <2>1 DEF QueryInv, SettledInv
  <2>3. RunOf(k.command, k.call_id, k.fence).command = k.command
    BY DEF RunOf
  <2>. QED  BY <1>1, <2>2, <2>3 DEF Base, RunsInv
<1>. HIDE DEF S
<1>5. \A u \in Threads :
        \/ thr'[u] = thr[u]
        \/ /\ thr[u].op \notin {"append", "execute"}
           /\ thr'[u].op \in Removing => \A k \in kernel_call_list_' :
                command[k.command].list \notin thr'[u].lists
  BY <1>1, <1>2, <1>3, <1>4
<1>6. /\ \A c \in Commands : Awaited(c)' <=> Awaited(c)
      /\ \A c \in Commands, u \in Threads : Upcoming(u, c)' <=> Upcoming(u, c)
  BY EndDestroyOrResetBase
<1>. QED  BY <1>1, <1>2, <1>5, <1>6, QueryStill

\* Steps of a thread that begins or ends a function without touching calls.
LEMMA QueryTurn ==
  ASSUME Base, QueryInv, NEW t \in Threads,
         \/ \E l \in Lists : Unrecorded(l) /\ BeginCreate(t, l)
         \/ EndCreate(t)
         \/ \E l \in Lists : BeginDestroy(t, l) \/ BeginReset(t, l)
         \/ LogExecute(t)
         \/ \E l \in Lists : EndRemove(t, l)
  PROVE  QueryInv'
<1>1. UNCHANGED <<running, status, event_info_map_, command, kernel_call_list_>>
  BY DEF BeginCreate, EndCreate, BeginDestroy, BeginReset, LogExecute, EndRemove, cacheVars, driverVars
<1>. DEFINE Turns == /\ thr[t].op \in {"idle", "create", "executed", "erase", "clear"}
                     /\ \E R : thr' = [thr EXCEPT ![t] = R] /\ R.op \in {"idle", "create", "destroy", "reset"}
<1>2. Turns
  <2>1. CASE \E l \in Lists : BeginCreate(t, l)
    <3>1. PICK l : thr[t].op = "idle" /\ thr' = [thr EXCEPT ![t] = [Idle EXCEPT !.op = "create", !.lists = {l}]]
      BY <2>1 DEF BeginCreate
    <3>2. [Idle EXCEPT !.op = "create", !.lists = {l}].op = "create"
      BY DEF Idle
    <3>. QED  BY <3>1, <3>2
  <2>2. CASE EndCreate(t) \/ LogExecute(t)
    <3>1. thr[t].op \in {"create", "executed"} /\ thr' = [thr EXCEPT ![t] = Idle]
      BY <2>2 DEF EndCreate, LogExecute
    <3>. QED  BY <3>1, IdleTyped
  <2>3. CASE \E l \in Lists : BeginDestroy(t, l)
    <3>1. PICK l : thr[t].op = "idle" /\ thr' = [thr EXCEPT ![t] = [Idle EXCEPT !.op = "destroy", !.lists = {l}]]
      BY <2>3 DEF BeginDestroy
    <3>2. [Idle EXCEPT !.op = "destroy", !.lists = {l}].op = "destroy"
      BY DEF Idle
    <3>. QED  BY <3>1, <3>2
  <2>4. CASE \E l \in Lists : BeginReset(t, l)
    <3>1. PICK l : thr[t].op = "idle" /\ thr' = [thr EXCEPT ![t] = [Idle EXCEPT !.op = "reset", !.lists = {l}]]
      BY <2>4 DEF BeginReset
    <3>2. [Idle EXCEPT !.op = "reset", !.lists = {l}].op = "reset"
      BY DEF Idle
    <3>. QED  BY <3>1, <3>2
  <2>5. CASE \E l \in Lists : EndRemove(t, l)
    <3>1. thr[t].op \in {"erase", "clear"} /\ thr' = [thr EXCEPT ![t] = Idle]
      BY <2>5 DEF EndRemove, Removing
    <3>. QED  BY <3>1, IdleTyped
  <2>. QED  BY <2>1, <2>2, <2>3, <2>4, <2>5
<1>21. /\ \A u \in Threads : u # t => thr'[u] = thr[u]
       /\ thr[t].op \notin {"append", "execute"} /\ thr'[t].op \notin Removing
  BY <1>2 DEF Removing, Base, TypeOK
<1>3. /\ \A c \in Commands : Awaited(c)' <=> Awaited(c)
      /\ \A c \in Commands, u \in Threads : Upcoming(u, c)' <=> Upcoming(u, c)
  BY CreateBase, EndCreateBase, BeginDestroyBase, LogExecuteBase, EndRemoveBase
<1>4. SameCommands
  BY <1>1, SameCommandsIfUnchanged
<1>. QED  BY <1>1, <1>21, <1>3, <1>4, QueryStill

LEMMA QueryContextDestroy ==
  ASSUME Base, QueryInv, NEW t \in Threads, NEW x \in Contexts, ContextDestroy(t, x)
  PROVE  QueryInv'
<1>1. /\ Cache!ReleaseContext(x)
      /\ UNCHANGED <<running, command_list_map_, command, kernel_call_list_, thr>>
  BY DEF ContextDestroy, driverVars
<1>2. SameCommands /\ Held' = Held
  BY <1>1, SameCommandsIfUnchanged, SameHeld
<1>3. /\ \A c \in Commands : Held[c] # None => status'[Held[c]] = status[Held[c]]
      /\ \A f \in Events : status'[f] # "none" =>
           status'[f] = status[f] /\ event_info_map_'[f] = event_info_map_[f]
  BY <1>1, <1>2, EventsReleased DEF Base
<1>4. AppEvents = {} => \A e \in Events : status'[e] # "none" => Cache!QueryEvent(e)'
  BY <1>3 DEF QueryInv, SettledInv, Cache!QueryEvent
<1>5. /\ \A c \in Commands : Awaited(c)' <=> Awaited(c)
      /\ \A c \in Commands, u \in Threads : Upcoming(u, c)' <=> Upcoming(u, c)
  BY <1>1, <1>2, SameAwaited
<1>. QED  BY <1>1, <1>2, <1>3, <1>4, <1>5, QueryKept

LEMMA QueryStutter ==
  ASSUME Base, QueryInv, UNCHANGED vars
  PROVE  QueryInv'
<1>1. UNCHANGED <<running, status, event_info_map_, command_list_map_, command, kernel_call_list_, thr>>
  BY DEF vars, cacheVars, driverVars
<1>2. SameCommands
  BY <1>1, SameCommandsIfUnchanged
<1>3. /\ \A c \in Commands : Awaited(c)' <=> Awaited(c)
      /\ \A c \in Commands, u \in Threads : Upcoming(u, c)' <=> Upcoming(u, c)
  BY <1>1, <1>2, SameAwaited
<1>. QED  BY <1>1, <1>2, <1>3, QueryStill

\* A command is appended: its event is reset.
LEMMA QueryAppend ==
  ASSUME Base, QueryInv, NEW t \in Threads, NEW l \in Lists, NEW c \in Commands,
         NEW e \in Events, NEW ok \in BOOLEAN, HandleKept, Appended(t, l, c, e, ok),
         AppEvent(e) => Fresh(e),
         Cache!GetEvent(command_list_map_[l].context, e) \/ AppEventFor(e)
  PROVE  QueryInv'
<1>1. /\ command[c] = None /\ Held' = [Held EXCEPT ![c] = e]
      /\ \A d \in Commands \ {c} : command'[d] = command[d]
      /\ command'[c] # None /\ command'[c].call_count = 0
      /\ thr[t].op = "idle" /\ LockFree /\ thr'[t].op = "append" /\ thr'[t].fence = None
      /\ \A u \in Threads \ {t} : thr'[u] = thr[u]
      /\ kernel_call_list_' = kernel_call_list_
  BY DEF Appended
<1>2. \A r : r \in running' <=>
        r \in running \/ (ok /\ command_list_map_[l].immediate /\ r = RunOf(c, 1, None))
  BY DEF Appended, RunOf
<1>3. /\ status'[e] = "reset"
      /\ \A d \in Commands : Held[d] # None => status'[Held[d]] = status[Held[d]]
      /\ \A f \in Events : /\ Cache!QueryEvent(f) => Cache!QueryEvent(f)'
                           /\ status'[f] # status[f] => Cache!QueryEvent(f)'
  BY AppendEvents
<1>4. /\ \A d \in Commands \ {c} : \A u \in Threads : Upcoming(u, d)' <=> Upcoming(u, d)
      /\ \A d \in Commands \ {c} : Awaited(d)' <=> Awaited(d)
      /\ Awaited(c)' <=> ok /\ command_list_map_[l].immediate
      /\ \A u \in Threads : Upcoming(u, c)' => u = t
  BY AppendAwaits
<1>5. Held'[c] = e /\ \A d \in Commands \ {c} : Held'[d] = Held[d]
  BY <1>1 DEF Held
<1>6. \A d \in Commands : command[d] # None => d # c /\ status'[Held'[d]] = status[Held[d]]
  BY <1>1, <1>3, <1>5, HeldEvents DEF Base
<1>7. AppEvents = {} => \A f \in Events : status'[f] # "none" => Cache!QueryEvent(f)'
  BY <1>3 DEF QueryInv, SettledInv
<1>8. \A k \in kernel_call_list_' :
        \/ status'[Held'[k.command]] = "signaled"
        \/ RunOf(k.command, k.call_id, k.fence) \in running'
  BY <1>1, <1>2, <1>6, CallHeld DEF QueryInv, SettledInv
<1>9. ASSUME NEW u \in Threads, NEW d \in Commands, Upcoming(u, d)'
      PROVE  \/ status'[Held'[d]] = "signaled"
             \/ RunOf(d, command'[d].call_count + 1, thr'[u].fence) \in running'
  <2>1. CASE d = c
    BY <1>1, <1>2, <1>4, <1>9, <2>1 DEF Awaited
  <2>2. CASE d # c
    <3>1. Upcoming(u, d) /\ command[d] # None /\ u # t
      BY <1>1, <1>4, <1>9, <2>2 DEF Upcoming
    <3>2. thr'[u] = thr[u] /\ command'[d] = command[d]
      BY <1>1, <2>2, <3>1
    <3>. QED  BY <1>2, <1>6, <3>1, <3>2 DEF QueryInv, SettledInv
  <2>. QED  BY <2>1, <2>2
<1>10. \A r \in running' : r \in running \/ r.command = c
  BY <1>2 DEF RunOf
<1>11. \A r \in running' : status'[Held'[r.command]] # "none"
  BY <1>3, <1>5, <1>6, <1>10, RunHeld DEF QueryInv, SettledInv
<1>12. NoOrphanedCall'
  <2>1. \A u \in Threads : thr'[u].op \notin Removing
    BY <1>1 DEF LockFree, Removing
  <2>. QED  BY <2>1 DEF NoOrphanedCall
<1>13. ASSUME MaxRuns = 1 PROVE FreshInv'
  <2>1. \A r \in running' : status'[Held'[r.command]] # "signaled"
    BY <1>3, <1>5, <1>6, <1>10, <1>13, RunHeld DEF QueryInv, FreshInv
  <2>2. ASSUME NEW d \in Commands, command'[d] # None, command'[d].call_count = 0, ~Awaited(d)'
        PROVE  status'[Held'[d]] # "signaled"
    <3>1. CASE d = c
      BY <1>3, <1>5, <3>1
    <3>2. CASE d # c
      BY <1>1, <1>4, <1>6, <1>13, <2>2, <3>2 DEF QueryInv, FreshInv
    <3>. QED  BY <3>1, <3>2
  <2>. QED  BY <2>1, <2>2 DEF FreshInv
<1>. QED  BY <1>7, <1>8, <1>9, <1>11, <1>12, <1>13 DEF QueryInv, SettledInv

\* A command is deleted that the device does not run and that has no call pending.
LEMMA QueryDelete ==
  ASSUME Base, QueryInv, NEW c \in Commands, Deleted(c),
         \A r \in running : r.command # c,
         \A k \in kernel_call_list_ : k.command # c,
         \A d \in Commands \ {c} : Awaited(d)' <=> Awaited(d),
         \A u \in Threads :
           \/ thr'[u] = thr[u]
           \/ thr'[u] = Idle
  PROVE  QueryInv'
<1>1. /\ Held[c] # None /\ Held' = [Held EXCEPT ![c] = None]
      /\ event_info_map_' = event_info_map_
      /\ \A d \in Commands \ {c} : Held[d] # None => status'[Held[d]] = status[Held[d]]
      /\ \A f \in Events : status'[f] # "none" => status[f] # "none" \/ Cache!QueryEvent(f)
      /\ command'[c] = None /\ \A d \in Commands \ {c} : command'[d] = command[d]
  BY DeletedFacts DEF Base
<1>2. UNCHANGED <<running, command_list_map_, kernel_call_list_>>
  BY DEF Deleted, driverVars
<1>3. \A d \in Commands \ {c} : command[d] # None => status'[Held'[d]] = status[Held[d]]
  <2>1. \A d \in Commands \ {c} : Held'[d] = Held[d]
    BY <1>1 DEF Held
  <2>. QED  BY <1>1, <2>1, HeldEvents DEF Base
<1>4. AppEvents = {} => \A f \in Events : status'[f] # "none" => Cache!QueryEvent(f)'
  BY <1>1 DEF QueryInv, SettledInv, Cache!QueryEvent
<1>5. \A k \in kernel_call_list_' :
        \/ status'[Held'[k.command]] = "signaled"
        \/ RunOf(k.command, k.call_id, k.fence) \in running'
  BY <1>2, <1>3, CallHeld DEF QueryInv, SettledInv
<1>6. ASSUME NEW u \in Threads, NEW d \in Commands, Upcoming(u, d)'
      PROVE  \/ status'[Held'[d]] = "signaled"
             \/ RunOf(d, command'[d].call_count + 1, thr'[u].fence) \in running'
  <2>1. d # c
    BY <1>1, <1>6 DEF Upcoming
  <2>2. thr'[u] = thr[u]
    BY <1>6, IdleTyped DEF Upcoming
  <2>3. Upcoming(u, d) /\ command[d] # None
    BY <1>1, <1>2, <1>6, <2>1, <2>2 DEF Upcoming
  <2>. QED  BY <1>1, <1>2, <1>3, <2>1, <2>2, <2>3 DEF QueryInv, SettledInv
<1>7. \A r \in running' : status'[Held'[r.command]] # "none"
  BY <1>2, <1>3, RunHeld DEF QueryInv, SettledInv
<1>8. NoOrphanedCall'
  <2>1. \A k \in kernel_call_list_ : command'[k.command] = command[k.command]
    BY <1>1, CallHeld
  <2>2. \A u \in Threads : thr'[u].op \in Removing => thr'[u] = thr[u]
    BY IdleTyped DEF Removing
  <2>. QED  BY <1>2, <2>1, <2>2 DEF QueryInv, SettledInv, NoOrphanedCall
<1>9. ASSUME MaxRuns = 1 PROVE FreshInv'
  <2>1. \A r \in running' : status'[Held'[r.command]] # "signaled"
    BY <1>2, <1>3, <1>9, RunHeld DEF QueryInv, FreshInv
  <2>2. \A d \in Commands : command'[d] # None /\ command'[d].call_count = 0 /\ ~Awaited(d)' =>
          status'[Held'[d]] # "signaled"
    BY <1>1, <1>3, <1>9 DEF QueryInv, FreshInv
  <2>. QED  BY <2>1, <2>2 DEF FreshInv
<1>. QED  BY <1>4, <1>5, <1>6, <1>7, <1>8, <1>9 DEF QueryInv, SettledInv

\* An append is recorded: the call of an immediate list is one the device has got.
LEMMA QueryRecord ==
  ASSUME Base, QueryInv, NEW t \in Threads, NEW c \in Commands, Recorded(t, c)
  PROVE  QueryInv'
<1>. DEFINE l == command[c].list
<1>1. /\ thr[t].op = "append" /\ thr[t].command = c /\ thr[t].ok /\ LockFree
      /\ command[c] # None /\ command[c].call_count = 0 /\ thr[t].fence = None
      /\ Awaited(c) <=> command_list_map_[l].immediate
  BY Appender DEF Recorded, Base, CommandsInv
<1>2. /\ \A d \in Commands \ {c} : command'[d] = command[d]
      /\ command'[c] # None
      /\ IF command_list_map_[l].immediate
         THEN /\ command'[c].call_count = 1
              /\ kernel_call_list_' = kernel_call_list_ \cup
                   {[command |-> c, call_id |-> 1, need_to_process |-> thr[t].need, fence |-> None]}
         ELSE command'[c].call_count = 0 /\ kernel_call_list_' = kernel_call_list_
      /\ UNCHANGED <<running, status, event_info_map_, command_list_map_>>
  BY DEF Recorded, driverVars, cacheVars
<1>3. \A u \in Threads : thr'[u] = IF u = t THEN Idle ELSE thr[u]
  BY DEF Recorded, Base, TypeOK
<1>4. Held' = Held /\ ~Awaited(c)' /\ \A d \in Commands \ {c} : Awaited(d)' <=> Awaited(d)
  BY RecordedBase
<1>5. \A k \in kernel_call_list_' : k \in kernel_call_list_ \/
        (command_list_map_[l].immediate /\ k.command = c /\ k.call_id = 1 /\ k.fence = None)
  BY <1>2
<1>6. command_list_map_[l].immediate => Upcoming(t, c)
  BY <1>1 DEF Upcoming
<1>7. \A k \in kernel_call_list_' :
        \/ status'[Held'[k.command]] = "signaled"
        \/ RunOf(k.command, k.call_id, k.fence) \in running'
  <2>1. Upcoming(t, c) => status[Held[c]] = "signaled" \/ RunOf(c, 1, None) \in running
    BY <1>1 DEF QueryInv, SettledInv
  <2>. QED  BY <1>2, <1>4, <1>5, <1>6, <2>1 DEF QueryInv, SettledInv
<1>8. ASSUME NEW u \in Threads, NEW d \in Commands, Upcoming(u, d)'
      PROVE  \/ status'[Held'[d]] = "signaled"
             \/ RunOf(d, command'[d].call_count + 1, thr'[u].fence) \in running'
  <2>1. d # c
    BY <1>4, <1>8 DEF Awaited
  <2>2. thr'[u] = thr[u]
    BY <1>3, <1>8, IdleTyped DEF Upcoming
  <2>3. Upcoming(u, d) /\ command'[d] = command[d]
    BY <1>2, <1>8, <2>1, <2>2 DEF Upcoming
  <2>. QED  BY <1>2, <1>4, <2>2, <2>3 DEF QueryInv, SettledInv
<1>9. \A r \in running' : status'[Held'[r.command]] # "none"
  BY <1>2, <1>4 DEF QueryInv, SettledInv
<1>10. NoOrphanedCall'
  <2>1. \A u \in Threads : thr'[u].op \notin Removing
    BY <1>1, <1>3, IdleTyped DEF LockFree, Removing
  <2>. QED  BY <2>1 DEF NoOrphanedCall
<1>11. AppEvents = {} => \A f \in Events : status'[f] # "none" => Cache!QueryEvent(f)'
  BY <1>2 DEF QueryInv, SettledInv, Cache!QueryEvent
<1>12. ASSUME MaxRuns = 1 PROVE FreshInv'
  <2>1. \A d \in Commands : command'[d] # None /\ command'[d].call_count = 0 /\ ~Awaited(d)' =>
          command[d] # None /\ command[d].call_count = 0 /\ ~Awaited(d)
    BY <1>1, <1>2, <1>4
  <2>. QED  BY <1>2, <1>4, <1>12, <2>1 DEF QueryInv, FreshInv
<1>. QED  BY <1>7, <1>8, <1>9, <1>10, <1>11, <1>12 DEF QueryInv, SettledInv

\* Lists are executed: their commands do not run already, and their events exist.
LEMMA QueryExecute ==
  ASSUME Base, QueryInv, NEW t \in Threads, NEW L \in SUBSET Lists, NEW f \in Fences \cup {None},
         Executed(t, L, f)
  PROVE  QueryInv'
<1>1. /\ thr[t].op = "idle" /\ LockFree /\ SameCommands
      /\ \A l \in L : \A c \in CommandsOf(l) :
           command[c].call_count < MaxRuns /\ status[command[c].event] # "none"
      /\ \A u \in Threads \ {t} : thr'[u] = thr[u]
      /\ thr'[t].op = "execute" /\ thr'[t].fence = f
      /\ UNCHANGED <<status, event_info_map_, command_list_map_, kernel_call_list_>>
  BY DEF Executed, cacheVars
<1>2. \A r : r \in running' <=>
        r \in running \/ \E l \in L : \E c \in CommandsOf(l) : r = RunOf(c, command[c].call_count + 1, f)
  BY DEF Executed, RunOf
<1>3. Held' = Held
  BY <1>1, SameHeld
<1>4. \A c \in Commands :
        /\ \A u \in Threads : Upcoming(u, c)' <=>
             Upcoming(u, c) \/ (u = t /\ \E l \in L : c \in CommandsOf(l))
        /\ Awaited(c)' <=> Awaited(c) \/ \E l \in L : c \in CommandsOf(l)
        /\ (\E l \in L : c \in CommandsOf(l)) => ~Awaited(c)
  BY ExecuteAwaits
<1>5. \A l \in L : \A c \in CommandsOf(l) :
        /\ c \in Commands /\ command[c] # None /\ Held[c] = command[c].event
        /\ command[c].call_count \in Nat
  BY HeldEvents DEF CommandsOf, Base, CommandType
<1>6. \A r \in running' : r \in running \/ \E l \in L : r.command \in CommandsOf(l)
  BY <1>2 DEF RunOf
<1>7. \A k \in kernel_call_list_' :
        \/ status'[Held'[k.command]] = "signaled"
        \/ RunOf(k.command, k.call_id, k.fence) \in running'
  BY <1>1, <1>2, <1>3 DEF QueryInv, SettledInv
<1>8. ASSUME NEW u \in Threads, NEW d \in Commands, Upcoming(u, d)'
      PROVE  \/ status'[Held'[d]] = "signaled"
             \/ RunOf(d, command'[d].call_count + 1, thr'[u].fence) \in running'
  <2>1. command'[d].call_count = command[d].call_count
    <3>1. command'[d] # None
      BY <1>8 DEF Upcoming
    <3>. QED  BY <1>1, <3>1 DEF SameCommands
  <2>2. CASE Upcoming(u, d)
    <3>1. u # t
      BY <1>1, <2>2 DEF Upcoming
    <3>. QED  BY <1>1, <1>2, <1>3, <2>1, <2>2, <3>1 DEF QueryInv, SettledInv
  <2>3. CASE u = t /\ \E l \in L : d \in CommandsOf(l)
    BY <1>1, <1>2, <2>1, <2>3
  <2>. QED  BY <1>4, <1>8, <2>2, <2>3
<1>9. \A r \in running' : status'[Held'[r.command]] # "none"
  BY <1>1, <1>3, <1>5, <1>6 DEF QueryInv, SettledInv
<1>10. NoOrphanedCall'
  <2>1. \A u \in Threads : thr'[u].op \notin Removing
    BY <1>1 DEF LockFree, Removing
  <2>. QED  BY <2>1 DEF NoOrphanedCall
<1>11. AppEvents = {} => \A e \in Events : status'[e] # "none" => Cache!QueryEvent(e)'
  BY <1>1 DEF QueryInv, SettledInv, Cache!QueryEvent
<1>12. ASSUME MaxRuns = 1 PROVE FreshInv'
  <2>1. \A l \in L : \A c \in CommandsOf(l) : status[Held[c]] # "signaled"
    <3>. SUFFICES ASSUME NEW l \in L, NEW c \in CommandsOf(l) PROVE status[Held[c]] # "signaled"
      OBVIOUS
    <3>1. c \in Commands /\ command[c] # None /\ command[c].call_count = 0
      BY <1>1, <1>5, <1>12
    <3>2. ~Awaited(c)
      BY <1>4, <3>1
    <3>. QED  BY <1>12, <3>1, <3>2 DEF QueryInv, FreshInv
  <2>2. \A r \in running' : status'[Held'[r.command]] # "signaled"
    BY <1>1, <1>3, <1>6, <1>12, <2>1 DEF QueryInv, FreshInv
  <2>3. \A d \in Commands : command'[d] # None /\ command'[d].call_count = 0 /\ ~Awaited(d)' =>
          status'[Held'[d]] # "signaled"
    BY <1>1, <1>3, <1>4, <1>12 DEF QueryInv, FreshInv, SameCommands
  <2>. QED  BY <2>2, <2>3 DEF FreshInv
<1>. QED  BY <1>7, <1>8, <1>9, <1>10, <1>11, <1>12 DEF QueryInv, SettledInv

\* The calls of a list are recorded: they are those the device has got.
LEMMA QueryCall ==
  ASSUME Base, QueryInv, NEW t \in Threads, NEW l \in Lists, Called(t, l)
  PROVE  QueryInv'
<1>1. /\ LockFree
      /\ \A c \in Commands : (command'[c] = None <=> command[c] = None)
      /\ \A c \in Commands : command[c] # None =>
           /\ command'[c].event = command[c].event
           /\ IF c \in CommandsOf(l) THEN command'[c].call_count = command[c].call_count + 1
                                     ELSE command'[c].call_count = command[c].call_count
      /\ \A u \in Threads : thr'[u].fence = thr[u].fence
      /\ \A u \in Threads \ {t} : thr'[u] = thr[u]
      /\ thr'[t].op \in {"execute", "executed"}
      /\ UNCHANGED <<running, status, event_info_map_>>
  BY DEF Called, cacheVars, driverVars
<1>2. \A k \in kernel_call_list_' :
        \/ k \in kernel_call_list_
        \/ \E c \in CommandsOf(l) : /\ k.command = c /\ k.call_id = command[c].call_count + 1
                                    /\ k.fence = thr[t].fence
  BY DEF Called
<1>3. Held' = Held
  BY <1>1 DEF Held
<1>4. \A c \in Commands :
        /\ c \in CommandsOf(l) => Upcoming(t, c) /\ ~Awaited(c)'
        /\ c \notin CommandsOf(l) => (Awaited(c)' <=> Awaited(c))
        /\ \A u \in Threads : Upcoming(u, c)' => Upcoming(u, c)
  BY CallAwaits DEF Awaited
<1>5. \A c \in CommandsOf(l) : c \in Commands /\ command[c] # None /\ command[c].call_count \in Nat
  BY HeldEvents DEF CommandsOf, Base, CommandType
<1>6. \A k \in kernel_call_list_' :
        \/ status'[Held'[k.command]] = "signaled"
        \/ RunOf(k.command, k.call_id, k.fence) \in running'
  BY <1>1, <1>2, <1>3, <1>4, <1>5 DEF QueryInv, SettledInv
<1>7. ASSUME NEW u \in Threads, NEW d \in Commands, Upcoming(u, d)'
      PROVE  \/ status'[Held'[d]] = "signaled"
             \/ RunOf(d, command'[d].call_count + 1, thr'[u].fence) \in running'
  <2>1. d \notin CommandsOf(l) /\ Upcoming(u, d)
    BY <1>4, <1>7 DEF Awaited
  <2>2. command[d] # None
    BY <2>1 DEF Upcoming
  <2>. QED  BY <1>1, <1>3, <2>1, <2>2 DEF QueryInv, SettledInv
<1>8. \A r \in running' : status'[Held'[r.command]] # "none"
  BY <1>1, <1>3 DEF QueryInv, SettledInv
<1>9. NoOrphanedCall'
  <2>1. \A u \in Threads : thr'[u].op \notin Removing
    BY <1>1 DEF LockFree, Removing
  <2>. QED  BY <2>1 DEF NoOrphanedCall
<1>10. AppEvents = {} => \A e \in Events : status'[e] # "none" => Cache!QueryEvent(e)'
  BY <1>1 DEF QueryInv, SettledInv, Cache!QueryEvent
<1>11. ASSUME MaxRuns = 1 PROVE FreshInv'
  <2>1. ASSUME NEW d \in Commands, command'[d] # None, command'[d].call_count = 0, ~Awaited(d)'
        PROVE  status'[Held'[d]] # "signaled"
    <3>1. command[d] # None /\ d \notin CommandsOf(l)
      BY <1>1, <1>5, <2>1
    <3>. QED  BY <1>1, <1>3, <1>4, <1>11, <2>1, <3>1 DEF QueryInv, FreshInv
  <2>. QED  BY <1>1, <1>3, <1>11, <2>1 DEF QueryInv, FreshInv
<1>. QED  BY <1>6, <1>7, <1>8, <1>9, <1>10, <1>11 DEF QueryInv, SettledInv

LEMMA InitQuery == Init => QueryInv
<1>. SUFFICES ASSUME Init PROVE QueryInv
  OBVIOUS
<1>1. /\ status = [e \in Events |-> "none"] /\ running = {} /\ kernel_call_list_ = {}
      /\ command = [c \in Commands |-> None] /\ thr = [t \in Threads |-> Idle]
  BY DEF Init
<1>2. \A t \in Threads, c \in Commands : ~Upcoming(t, c)
  BY <1>1 DEF Upcoming
<1>. QED  BY <1>1, <1>2 DEF QueryInv, SettledInv, FreshInv, NoOrphanedCall

LEMMA NextQuery ==
  ASSUME Base, QueryInv, Modest, [CareNext]_vars
  PROVE  QueryInv'
<1>1. CASE OutsideStep
  BY <1>1, QueryOutside
<1>2. ASSUME NEW t \in Threads, CallbackStep(t) PROVE QueryInv'
  <2>1. CASE EndCreate(t) \/ LogExecute(t) \/ \E l \in Lists : EndRemove(t, l)
    BY <2>1, QueryTurn
  <2>2. CASE EndAppend(t)
    <3>1. CASE ~thr[t].ok
      <4>1. PICK c \in Commands : /\ Deleted(c) /\ thr[t].op = "append" /\ thr[t].command = c
                                  /\ thr' = [thr EXCEPT ![t] = Idle]
                                  /\ \A r \in running : r.command # c
                                  /\ \A k \in kernel_call_list_ : k.command # c
        BY <2>2, <3>1, AppendFailedFacts
      <4>2. /\ thr' \in [Threads -> ThreadType]
            /\ \A u \in Threads : thr'[u] = IF u = t THEN Idle ELSE thr[u]
        BY <4>1, IdleTyped DEF Base, TypeOK, ThreadType
      <4>3. \A u \in Threads : thr'[u].op = "append" => thr'[u].command # c
        BY <4>1, <4>2, Appender, IdleTyped
      <4>4. \A d \in Commands \ {c} : Awaited(d)' <=> Awaited(d)
        BY <4>1, <4>2, <4>3, DeletedBase
      <4>. QED  BY <4>1, <4>2, <4>4, QueryDelete
    <3>2. CASE thr[t].ok
      BY <2>2, <3>2, RecordFacts, QueryRecord
    <3>. QED  BY <3>1, <3>2
  <2>3. CASE \E l \in Lists : AddKernelCalls(t, l)
    BY <2>3, CallFacts, QueryCall DEF Base
  <2>4. CASE EndDestroyOrReset(t)
    BY <2>4, QueryProcess
  <2>5. CASE \E l \in Lists, c \in Commands : RemoveKernelCommand(t, l, c)
    <3>1. PICK l \in Lists, c \in Commands : RemoveKernelCommand(t, l, c)
      BY <2>5
    <3>2. /\ Deleted(c) /\ thr' = thr
          /\ \A r \in running : r.command # c
          /\ \A k \in kernel_call_list_ : k.command # c
      BY <3>1, RemoveFacts
    <3>3. \A d \in Commands \ {c} : Awaited(d)' <=> Awaited(d)
      BY <3>1, RemoveKernelCommandBase
    <3>. QED  BY <3>2, <3>3, QueryDelete
  <2>. QED  BY <1>2, <2>1, <2>2, <2>3, <2>4, <2>5 DEF CallbackStep
<1>3. ASSUME NEW t \in Threads, CallStep(t) PROVE QueryInv'
  <2>1. CASE \E l \in Lists, c \in Commands, e \in Events :
               (AppEvent(e) => Fresh(e)) /\ BeginAppend(t, l, c, e) /\ HandleKept
    <3>1. PICK l \in Lists, c \in Commands, e \in Events :
            (AppEvent(e) => Fresh(e)) /\ BeginAppend(t, l, c, e) /\ HandleKept
      BY <2>1
    <3>2. PICK ok \in BOOLEAN :
            /\ Cache!GetEvent(command_list_map_[l].context, e) \/ AppEventFor(e)
            /\ Appended(t, l, c, e, ok)
      BY <3>1, AppendFacts DEF Base
    <3>. QED  BY <3>1, <3>2, QueryAppend
  <2>2. CASE \E L \in SUBSET Lists, f \in Fences \cup {None} : BeginExecute(t, L, f)
    BY <2>2, ExecuteFacts, QueryExecute DEF Base
  <2>3. CASE Synchronize(t) \/ \E f \in Fences : FenceHostSynchronize(t, f)
    BY <2>3, QuerySynchronize
  <2>4. CASE \E l \in Lists : BeginDestroy(t, l) \/ BeginReset(t, l)
    BY <2>4, QueryTurn
  <2>5. CASE \E x \in Contexts : ContextDestroy(t, x)
    BY <2>5, QueryContextDestroy
  <2>. QED  BY <1>3, <2>1, <2>2, <2>3, <2>4, <2>5 DEF CallStep
<1>4. CASE CreateStep
  BY <1>4, QueryTurn DEF CreateStep
<1>5. CASE \E e \in Events : Settled(e) /\ (EventHostReset(e) \/ EventDestroy(e))
  BY <1>5, QueryAppEvent
<1>6. CASE UNCHANGED vars
  BY <1>6, QueryStutter
<1>7. \A e \in Events : Unnamed(e) => Settled(e)
  BY DEF Unnamed, Settled
<1>. QED  BY <1>1, <1>2, <1>3, <1>4, <1>5, <1>6, <1>7 DEF CareNext, Next, Common

LEMMA QueryInvariant ==
  ASSUME Modest
  PROVE  EarlyDestroySpec => [](Base /\ QueryInv)
<1>1. EarlyDestroySpec => Init /\ [][CareNext]_vars
  BY DEF EarlyDestroySpec, CareNext
<1>2. Init => Base /\ QueryInv
  BY InitBase, InitQuery
<1>3. Base /\ QueryInv /\ [CareNext]_vars => (Base /\ QueryInv)'
  BY NextBase, NextQuery
<1>. QED  BY <1>1, <1>2, <1>3, PTL

\* The events that ProcessCalls queries exist: neither their commands are deleted nor the
\* events destroyed.  (An application that executes a list twice and destroys an event of its
\* own that the list's commands name may destroy the event of the second call:
\* ProcessCall processes the first one only.)
THEOREM QueriedEventsExist ==
  ASSUME Modest
  PROVE  EarlyDestroySpec => []PendingEventsExist
<1>1. Base /\ QueryInv => PendingEventsExist
  <2>. SUFFICES ASSUME Base, QueryInv, NEW k \in kernel_call_list_
                PROVE  command[k.command] # None /\ status[EventOf(k)] # "none"
    BY DEF PendingEventsExist
  <2>1. command[k.command] # None /\ EventOf(k) = Held[k.command]
    BY CallHeld
  <2>2. ASSUME RunOf(k.command, k.call_id, k.fence) \in running
        PROVE  status[Held[k.command]] # "none"
    BY <2>2 DEF QueryInv, SettledInv, RunOf
  <2>. QED  BY <2>1, <2>2 DEF QueryInv, SettledInv
<1>. QED  BY <1>1, QueryInvariant, PTL

\* When RemoveKernelCommands deletes the commands of a list that was reset or destroyed, none
\* has a call pending: FTRACE_ASSERT(call->command != command) holds.
THEOREM CommandsOutliveCalls ==
  ASSUME Modest
  PROVE  EarlyDestroySpec => []NoOrphanedCall
<1>1. QueryInv => NoOrphanedCall
  BY DEF QueryInv, SettledInv
<1>. QED  BY <1>1, QueryInvariant, PTL

\* The calls of a fence that is signaled have run: the assertions of ProcessFence hold, even
\* if the fence was reset and used again while its calls were pending.
THEOREM FencesOfCalls ==
  ASSUME Modest
  PROVE  EarlyDestroySpec => []FenceImpliesEvent
<1>1. Base /\ QueryInv => FenceImpliesEvent
  <2>. SUFFICES ASSUME Base, QueryInv, NEW f \in Fences, NEW k \in kernel_call_list_,
                       fence[f] = "signaled", k.fence = f
                PROVE  Signaled(k)
    BY DEF FenceImpliesEvent
  <2>1. EventOf(k) = Held[k.command] /\ f # None
    BY CallHeld, NoneAssumption
  <2>2. RunOf(k.command, k.call_id, k.fence) \notin running
    <3>1. RunOf(k.command, k.call_id, k.fence).fence = f
      BY DEF RunOf
    <3>. QED  BY <2>1, <3>1 DEF Base, RunsInv
  <2>. QED  BY <2>1, <2>2 DEF QueryInv, SettledInv, Signaled
<1>. QED  BY <1>1, QueryInvariant, PTL

\* Only calls whose event is signaled leave the list.
LEMMA RemovedSignaled ==
  ASSUME Base, QueryInv, [CareNext]_vars, NEW k \in kernel_call_list_ \ kernel_call_list_'
  PROVE  Signaled(k)
<1>1. CASE \E S : Report(S) /\ S \subseteq {j \in kernel_call_list_ : Signaled(j)}
  BY <1>1 DEF Report
<1>2. ASSUME NEW f \in Fences, fence[f] = "signaled", k.fence = f
      PROVE  Signaled(k)
  <2>1. EventOf(k) = Held[k.command] /\ f # None
    BY CallHeld, NoneAssumption
  <2>2. RunOf(k.command, k.call_id, k.fence) \notin running
    <3>1. RunOf(k.command, k.call_id, k.fence).fence = f
      BY <1>2 DEF RunOf
    <3>. QED  BY <1>2, <2>1, <3>1 DEF Base, RunsInv
  <2>. QED  BY <2>1, <2>2 DEF QueryInv, SettledInv, Signaled
<1>3. CASE OutsideStep \/ CreateStep \/ UNCHANGED vars
  BY <1>3 DEF OutsideStep, CreateStep, CreateEvent, Finish, FenceSignal, FenceReset, Toggle,
              BeginCreate, vars
<1>4. ASSUME NEW t \in Threads, CallbackStep(t) PROVE Signaled(k)
  <2>1. CASE EndDestroyOrReset(t)
    BY <1>1, <2>1 DEF EndDestroyOrReset, ProcessCalls
  <2>2. CASE EndAppend(t)
    BY <2>2 DEF EndAppend
  <2>3. CASE \E l \in Lists : AddKernelCalls(t, l)
    BY <2>3 DEF AddKernelCalls
  <2>4. CASE kernel_call_list_' = kernel_call_list_
    BY <2>4
  <2>. QED  BY <1>4, <2>1, <2>2, <2>3, <2>4
            DEF CallbackStep, EndCreate, LogExecute, RemoveKernelCommand, EndRemove
<1>5. ASSUME NEW t \in Threads, CallStep(t) PROVE Signaled(k)
  <2>1. CASE Synchronize(t)
    BY <1>1, <2>1 DEF Synchronize, ProcessCalls
  <2>2. CASE \E f \in Fences : FenceHostSynchronize(t, f)
    BY <1>2, <2>2 DEF FenceHostSynchronize, ProcessFence, Report
  <2>3. CASE kernel_call_list_' = kernel_call_list_
    BY <2>3
  <2>. QED  BY <1>5, <2>1, <2>2, <2>3
            DEF CallStep, BeginAppend, BeginExecute, BeginDestroy, BeginReset, ContextDestroy
<1>6. CASE \E e \in Events : EventHostReset(e) \/ EventDestroy(e)
  BY <1>1, <1>6, ProcessCallReports DEF EventHostReset, EventDestroy
<1>. QED  BY <1>3, <1>4, <1>5, <1>6 DEF CareNext, Next, Common

\* If lists are executed once between resets, a call is processed only when the device has
\* run its submission: no timestamp is read of a kernel that still runs.
THEOREM ReportsAfterRun ==
  ASSUME MaxRuns = 1
  PROVE  EarlyDestroySpec => ReportedAfterRun
<1>. DEFINE Finished == \A k \in kernel_call_list_ \ kernel_call_list_' : \A r \in running :
                          r.command = k.command => r.call_id # k.call_id
<1>1. EarlyDestroySpec => Init /\ [][CareNext]_vars
  BY DEF EarlyDestroySpec, CareNext
<1>2. Base /\ QueryInv /\ [CareNext]_vars => Finished
  <2>. SUFFICES ASSUME Base, QueryInv, [CareNext]_vars,
                       NEW k \in kernel_call_list_ \ kernel_call_list_',
                       NEW r \in running, r.command = k.command
                PROVE  FALSE
    OBVIOUS
  <2>1. status[Held[k.command]] = "signaled"
    BY RemovedSignaled, CallHeld DEF Signaled
  <2>. QED  BY <2>1 DEF QueryInv, FreshInv
<1>3. EarlyDestroySpec => [](Base /\ QueryInv)
  BY QueryInvariant DEF Modest
<1>. HIDE DEF Finished
<1>4. EarlyDestroySpec => [][Finished]_vars
  BY <1>1, <1>2, <1>3, PTL
<1>. QED  BY <1>4 DEF ReportedAfterRun, Finished

-----------------------------------------------------------------------------
(* The collector uses the event cache as ZeEventCache assumes.             *)

\* An application that keeps its events while commands name them.
HeldInv == \A c \in Commands : Held[c] # None => status[Held[c]] # "none"

\* A step of the cache, and no event destroyed that a command names.
CacheMove == [Cache!Next]_Cache!vars /\ HeldInv'

LEMMA CacheRests ==
  ASSUME HeldInv, UNCHANGED cacheVars, Held' = Held
  PROVE  CacheMove
  BY DEF CacheMove, HeldInv, Cache!vars, cacheVars

LEMMA CacheReturn ==
  ASSUME Base, HeldInv, NEW c \in Commands, Deleted(c)
  PROVE  CacheMove
<1>1. /\ Held[c] # None /\ Held' = [Held EXCEPT ![c] = None]
      /\ \A d \in Commands \ {c} : Held[d] # None => status'[Held[d]] = status[Held[d]]
  BY DeletedFacts DEF Base
<1>2. Cache!ReleaseEvent(Held[c])
  <2>1. Held[c] = command[c].event
    BY <1>1 DEF Held
  <2>. QED  BY <2>1 DEF Deleted
<1>3. Cache!Return(c)
  BY <1>1, <1>2 DEF Cache!Return
<1>4. HeldInv'
  <2>1. Held'[c] = None /\ \A d \in Commands \ {c} : Held'[d] = Held[d]
    BY <1>1 DEF Held
  <2>. QED  BY <1>1, <2>1 DEF HeldInv
<1>. QED  BY <1>3, <1>4 DEF CacheMove, Cache!Next, Cache!CacheStep

LEMMA CacheAcquire ==
  ASSUME Base, HeldInv, NEW t \in Threads, NEW l \in Lists, NEW c \in Commands,
         NEW e \in Events, AppEvent(e) => Fresh(e), BeginAppend(t, l, c, e), HandleKept
  PROVE  CacheMove
<1>1. PICK ok \in BOOLEAN :
        /\ Cache!GetEvent(command_list_map_[l].context, e) \/ AppEventFor(e)
        /\ Appended(t, l, c, e, ok)
  BY AppendFacts DEF Base
<1>2. Held[c] = None /\ Held' = [Held EXCEPT ![c] = e] /\ command_list_map_[l].context \in Contexts
  BY <1>1 DEF Appended, Base, TypeOK
<1>3. /\ status'[e] = "reset"
      /\ \A d \in Commands : Held[d] # None => status'[Held[d]] = status[Held[d]]
  BY <1>1, AppendEvents
<1>4. HeldInv'
  <2>1. Held'[c] = e /\ \A d \in Commands \ {c} : Held'[d] = Held[d]
    BY <1>2 DEF Held
  <2>. QED  BY <1>3, <2>1 DEF HeldInv
<1>5. CASE Cache!GetEvent(command_list_map_[l].context, e)
  <2>1. Cache!Acquire(c, command_list_map_[l].context)
    BY <1>2, <1>5 DEF Cache!Acquire
  <2>. QED  BY <1>2, <1>4, <2>1 DEF CacheMove, Cache!Next, Cache!CacheStep
<1>6. CASE AppEventFor(e)
  <2>1. Cache!UseAppEvent(c, e)
    BY <1>2, <1>6 DEF Cache!UseAppEvent, AppEventFor, AppEvent, Fresh, Unnamed, cacheVars
  <2>. QED  BY <1>4, <2>1 DEF CacheMove, Cache!Next, Cache!CacheStep
<1>. QED  BY <1>1, <1>5, <1>6

LEMMA CacheContext ==
  ASSUME Base, HeldInv, NEW t \in Threads, NEW x \in Contexts, ContextDestroy(t, x)
  PROVE  CacheMove
<1>1. Cache!ReleaseContext(x) /\ command' = command
  BY DEF ContextDestroy
<1>2. Held' = Held
  BY <1>1, SameCommandsIfUnchanged, SameHeld
<1>3. Cache!DestroyContext(x)
  BY <1>1, <1>2 DEF Cache!DestroyContext
<1>4. \A c \in Commands : Held[c] # None => status'[Held[c]] = status[Held[c]]
  BY <1>1, <1>2, EventsReleased DEF Base
<1>5. HeldInv'
  BY <1>2, <1>4 DEF HeldInv
<1>. QED  BY <1>3, <1>5 DEF CacheMove, Cache!Next, Cache!CacheStep

LEMMA CacheOutside ==
  ASSUME Base, HeldInv, OutsideStep
  PROVE  CacheMove
<1>1. Held' = Held
  <2>1. command' = command
    BY DEF OutsideStep, CreateEvent, Finish, FenceSignal, FenceReset, Toggle
  <2>. QED  BY <2>1, SameCommandsIfUnchanged, SameHeld
<1>2. ASSUME NEW e \in Events, CreateEvent(e) PROVE CacheMove
  <2>1. /\ status[e] = "none" /\ status' = [status EXCEPT ![e] = "reset"]
        /\ UNCHANGED <<event_map_, event_info_map_, event_pools_>>
    BY <1>2 DEF CreateEvent
  <2>2. Cache!AppCreateEvent(e)
    BY <1>1, <2>1 DEF Cache!AppCreateEvent
  <2>3. \A f \in Events : status[f] # "none" => status'[f] # "none"
    BY <2>1 DEF Base, TypeOK
  <2>4. HeldInv'
    BY <1>1, <2>3, HeldEvents DEF HeldInv, Base
  <2>. QED  BY <2>2, <2>4 DEF CacheMove, Cache!Next, Cache!CacheStep
<1>3. ASSUME NEW r \in running, Finish(r) PROVE CacheMove
  <2>. DEFINE e == Held[r.command]
  <2>1. /\ r.command \in Commands /\ e \in Events /\ e # None
        /\ status' = [status EXCEPT ![e] = "signaled"]
        /\ UNCHANGED <<event_map_, event_info_map_, event_pools_>>
    BY <1>3, RunHeld DEF Finish
  <2>2. status[e] \in {"reset", "signaled"}
    BY <2>1 DEF HeldInv, Base, TypeOK
  <2>3. \A f \in Events : status[f] # "none" => status'[f] # "none"
    BY <2>1 DEF Base, TypeOK
  <2>4. HeldInv'
    BY <1>1, <2>3, HeldEvents DEF HeldInv, Base
  <2>5. CASE status[e] = "reset"
    <3>1. Cache!DeviceSignal(r.command)
      BY <1>1, <2>1, <2>5 DEF Cache!DeviceSignal
    <3>. QED  BY <2>1, <2>4, <3>1 DEF CacheMove, Cache!Next, Cache!CacheStep
  <2>6. CASE status[e] = "signaled"
    <3>1. status' = status
      BY <2>1, <2>6 DEF Base, TypeOK
    <3>. QED  BY <1>1, <2>1, <3>1, CacheRests DEF cacheVars
  <2>. QED  BY <2>2, <2>5, <2>6
<1>4. CASE (\E f \in Fences : FenceSignal(f) \/ FenceReset(f)) \/ Toggle
  <2>1. UNCHANGED cacheVars
    BY <1>4 DEF FenceSignal, FenceReset, Toggle
  <2>. QED  BY <1>1, <2>1, CacheRests
<1>. QED  BY <1>2, <1>3, <1>4 DEF OutsideStep

LEMMA CacheAppEvent ==
  ASSUME Base, HeldInv, NEW e \in Events, EventHostReset(e) \/ (Unnamed(e) /\ EventDestroy(e))
  PROVE  CacheMove
<1>1. /\ ProcessCall(e) /\ ~Cache!QueryEvent(e) /\ status[e] \in {"reset", "signaled"}
      /\ UNCHANGED <<event_map_, event_info_map_, event_pools_>>
  BY DEF EventHostReset, EventDestroy, AppOwned, AppEvent, Base, TypeOK
<1>2. Held' = Held
  BY <1>1, ProcessCallReports, ReportFacts, SameHeld DEF Base
<1>3. CASE EventHostReset(e)
  <2>1. status' = [status EXCEPT ![e] = "reset"]
    BY <1>3 DEF EventHostReset
  <2>2. \A f \in Events : status[f] # "none" => status'[f] # "none"
    BY <2>1 DEF Base, TypeOK
  <2>3. HeldInv'
    BY <1>2, <2>2, HeldEvents DEF HeldInv, Base
  <2>4. CASE status[e] = "signaled"
    <3>1. Cache!AppResetEvent(e)
      BY <1>1, <1>2, <2>1, <2>4 DEF Cache!AppResetEvent
    <3>. QED  BY <2>3, <3>1 DEF CacheMove, Cache!Next, Cache!CacheStep
  <2>5. CASE status[e] = "reset"
    <3>1. status' = status
      BY <2>1, <2>5 DEF Base, TypeOK
    <3>. QED  BY <1>1, <1>2, <3>1, CacheRests DEF cacheVars
  <2>. QED  BY <1>1, <2>4, <2>5
<1>4. CASE Unnamed(e) /\ EventDestroy(e)
  <2>1. status' = [status EXCEPT ![e] = "none"] /\ \A c \in Commands : Held[c] # e
    BY <1>4 DEF EventDestroy, Unnamed
  <2>2. Cache!AppDestroyEvent(e) /\ Cache!KeepsNamedEvents(e)
    BY <1>1, <1>2, <2>1 DEF Cache!AppDestroyEvent, Cache!KeepsNamedEvents
  <2>3. \A f \in Events : f # e => status'[f] = status[f]
    BY <2>1 DEF Base, TypeOK
  <2>4. HeldInv'
    BY <1>2, <2>1, <2>3, HeldEvents DEF HeldInv, Base
  <2>. QED  BY <2>2, <2>4 DEF CacheMove, Cache!Next
<1>. QED  BY <1>3, <1>4

LEMMA NextCache ==
  ASSUME Base, HeldInv, [Next]_vars
  PROVE  CacheMove
<1>1. CASE OutsideStep
  BY <1>1, CacheOutside
<1>2. ASSUME NEW t \in Threads, CallbackStep(t) PROVE CacheMove
  <2>1. CASE EndCreate(t) \/ LogExecute(t) \/ \E l \in Lists : EndRemove(t, l)
    <3>1. UNCHANGED cacheVars /\ command' = command
      BY <2>1 DEF EndCreate, LogExecute, EndRemove
    <3>. QED  BY <3>1, SameCommandsIfUnchanged, SameHeld, CacheRests
  <2>2. CASE EndAppend(t)
    <3>1. CASE ~thr[t].ok
      BY <2>2, <3>1, AppendFailedFacts, CacheReturn
    <3>2. CASE thr[t].ok
      <4>1. UNCHANGED cacheVars /\ Held' = Held
        BY <2>2, <3>2, RecordFacts, RecordedBase DEF Recorded
      <4>. QED  BY <4>1, CacheRests
    <3>. QED  BY <3>1, <3>2
  <2>3. CASE \E l \in Lists : AddKernelCalls(t, l)
    <3>1. PICK l \in Lists : Called(t, l)
      BY <2>3, CallFacts DEF Base
    <3>2. Held' = Held
      BY <3>1 DEF Held, Called
    <3>. QED  BY <3>1, <3>2, CacheRests DEF Called
  <2>4. CASE EndDestroyOrReset(t)
    <3>1. UNCHANGED cacheVars /\ Report({k \in kernel_call_list_ : Signaled(k)})
      BY <2>4 DEF EndDestroyOrReset, ProcessCalls
    <3>2. Held' = Held
      BY <3>1, ReportFacts, SameHeld DEF Base
    <3>. QED  BY <3>1, <3>2, CacheRests
  <2>5. CASE \E l \in Lists, c \in Commands : RemoveKernelCommand(t, l, c)
    BY <2>5, RemoveFacts, CacheReturn
  <2>. QED  BY <1>2, <2>1, <2>2, <2>3, <2>4, <2>5 DEF CallbackStep
<1>3. ASSUME NEW t \in Threads, CallStep(t) PROVE CacheMove
  <2>1. CASE \E l \in Lists, c \in Commands, e \in Events :
               (AppEvent(e) => Fresh(e)) /\ BeginAppend(t, l, c, e) /\ HandleKept
    BY <2>1, CacheAcquire
  <2>2. CASE \E L \in SUBSET Lists, f \in Fences \cup {None} : BeginExecute(t, L, f)
    <3>1. PICK L \in SUBSET Lists, f \in Fences \cup {None} : Executed(t, L, f)
      BY <2>2, ExecuteFacts DEF Base
    <3>2. UNCHANGED cacheVars /\ Held' = Held
      BY <3>1, SameHeld DEF Executed
    <3>. QED  BY <3>2, CacheRests
  <2>3. CASE Synchronize(t) \/ \E f \in Fences : FenceHostSynchronize(t, f)
    <3>1. UNCHANGED cacheVars /\ \E S \in SUBSET kernel_call_list_ : Report(S)
      BY <2>3 DEF Synchronize, FenceHostSynchronize, ProcessCalls, ProcessFence
    <3>2. Held' = Held
      BY <3>1, ReportFacts, SameHeld DEF Base
    <3>. QED  BY <3>1, <3>2, CacheRests
  <2>4. CASE \E l \in Lists : BeginDestroy(t, l) \/ BeginReset(t, l)
    <3>1. UNCHANGED cacheVars /\ command' = command
      BY <2>4 DEF BeginDestroy, BeginReset
    <3>. QED  BY <3>1, SameCommandsIfUnchanged, SameHeld, CacheRests
  <2>5. CASE \E x \in Contexts : ContextDestroy(t, x)
    BY <2>5, CacheContext
  <2>. QED  BY <1>3, <2>1, <2>2, <2>3, <2>4, <2>5 DEF CallStep
<1>4. CASE CreateStep
  <2>1. UNCHANGED cacheVars /\ command' = command
    BY <1>4 DEF CreateStep, BeginCreate
  <2>. QED  BY <2>1, SameCommandsIfUnchanged, SameHeld, CacheRests
<1>5. CASE \E e \in Events : EventHostReset(e) \/ (Unnamed(e) /\ EventDestroy(e))
  BY <1>5, CacheAppEvent
<1>6. CASE UNCHANGED vars
  <2>1. UNCHANGED cacheVars /\ command' = command
    BY <1>6 DEF vars
  <2>. QED  BY <2>1, SameCommandsIfUnchanged, SameHeld, CacheRests
<1>. QED  BY <1>1, <1>2, <1>3, <1>4, <1>5, <1>6 DEF Next, Common

LEMMA BaseOfSpec == Spec => []Base
<1>1. Spec => Init /\ [][Next]_vars
  BY DEF Spec
<1>2. Init => Base
  BY InitBase
<1>3. Base /\ [Next]_vars => Base'
  BY NextBase DEF CareNext
<1>. QED  BY <1>1, <1>2, <1>3, PTL

LEMMA InitCache == Init => HeldInv /\ Cache!Init
<1>. SUFFICES ASSUME Init PROVE HeldInv /\ Cache!Init
  OBVIOUS
<1>1. /\ Cache!CacheInit /\ status = [e \in Events |-> "none"]
      /\ command = [c \in Commands |-> None]
  BY DEF Init
<1>2. Held = [c \in Commands |-> None]
  BY <1>1 DEF Held
<1>. QED  BY <1>1, <1>2 DEF HeldInv, Cache!Init

\* The collector implements the closed system of ZeEventCache: however threads, device and
\* application interleave, the callbacks acquire, return and drop events as the cache assumes.
THEOREM CollectorImplementsCache == Spec => ImplementsCache
<1>1. Spec => Init /\ [][Next]_vars
  BY DEF Spec
<1>2. Init => HeldInv /\ Cache!Init
  BY InitCache
<1>3. Base /\ HeldInv /\ [Next]_vars => [Cache!Next]_Cache!vars /\ HeldInv'
  BY NextCache DEF CacheMove
<1>4. Spec => Cache!Init /\ [][Cache!Next]_Cache!vars
  BY <1>1, <1>2, <1>3, BaseOfSpec, PTL
<1>. QED  BY <1>4 DEF ImplementsCache, Cache!Spec

\* If the application destroys no event that a command names, every event that ProcessCalls
\* queries exists, however often lists are executed and events reset.
THEOREM KeptEventsExist == Spec => []PendingEventsExist
<1>1. Spec => Init /\ [][Next]_vars
  BY DEF Spec
<1>2. Init => HeldInv
  BY InitCache
<1>3. Base /\ HeldInv /\ [Next]_vars => HeldInv'
  BY NextCache DEF CacheMove
<1>4. Base /\ HeldInv => PendingEventsExist
  BY CallHeld DEF HeldInv, PendingEventsExist
<1>. QED  BY <1>1, <1>2, <1>3, <1>4, BaseOfSpec, PTL

\* What is proved of the cache (ZeEventCacheProofs), about the cache of the collector.
Proved == INSTANCE ZeEventCacheProofs WITH
  Holders <- Commands, held <- Held, stale <- {}, alive <- TRUE

LEMMA CollectorRunsCache == Spec => Proved!Spec
<1>1. Cache!Init => Proved!Init
  BY DEF Cache!Init, Proved!Init, Cache!CacheInit, Proved!CacheInit
<1>2. Cache!Next => Proved!Next
  BY DEF Cache!Next, Proved!Next,
         Cache!Elements, Cache!QueryEvent, Cache!NewPools, Cache!PopBack, Cache!TakeFree,
         Cache!GrowPool, Cache!GetEvent, Cache!ReleaseEvent, Cache!AllReleased,
         Cache!ReleaseContext, Cache!DestroyFree, Cache!Acquire, Cache!UseAppEvent, Cache!Return,
         Cache!DestroyContext, Cache!Destruct, Cache!DeviceSignal, Cache!AppCreateEvent,
         Cache!AppResetEvent, Cache!AppDestroyEvent, Cache!KeepsNamedEvents, Cache!CacheStep,
         Proved!Elements, Proved!QueryEvent, Proved!NewPools, Proved!PopBack, Proved!TakeFree,
         Proved!GrowPool, Proved!GetEvent, Proved!ReleaseEvent, Proved!AllReleased,
         Proved!ReleaseContext, Proved!DestroyFree, Proved!Acquire, Proved!UseAppEvent,
         Proved!Return, Proved!DestroyContext, Proved!Destruct, Proved!DeviceSignal,
         Proved!AppCreateEvent, Proved!AppResetEvent, Proved!AppDestroyEvent,
         Proved!KeepsNamedEvents, Proved!CacheStep
<1>3. [Cache!Next]_Cache!vars => [Proved!Next]_Proved!vars
  BY <1>2 DEF Cache!vars, Proved!vars
<1>. QED
  BY <1>1, <1>3, CollectorImplementsCache, PTL DEF ImplementsCache, Cache!Spec, Proved!Spec

\* In the collector, then, an event that GetEvent hands out is not signaled (its assertion
\* holds), no event of a context is lost, and ReleaseContext of a context whose commands are
\* deleted destroys all its events and pools.
THEOREM CacheOfCollector ==
  Spec => [](Proved!FreeEventsReady /\ Proved!Conserved /\ Proved!ContextReleasable)
<1>1. Proved!PoolSizeAssumption /\ Proved!HandleAssumption /\ Proved!FiniteAssumption
  BY EventAssumption, PoolSizeAssumption, NoneAssumption
     DEF Proved!PoolSizeAssumption, Proved!HandleAssumption, Proved!FiniteAssumption,
         Proved!IsFiniteSet, IsFiniteSet
<1>2. Proved!Spec => []Proved!FreeEventsReady
  BY <1>1, Proved!HandedOutReady, PTL
<1>3. Proved!Spec => []Proved!Conserved
  BY <1>1, Proved!EventsConserved, PTL
<1>4. Proved!Spec => []Proved!ContextReleasable
  BY <1>1, Proved!ReleasedCompletely, PTL
<1>. QED  BY <1>2, <1>3, <1>4, CollectorRunsCache, PTL
=============================================================================
