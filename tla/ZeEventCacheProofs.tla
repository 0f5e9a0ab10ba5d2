------------------------- MODULE ZeEventCacheProofs -------------------------
(***************************************************************************)
(* Proofs about ZeEventCache for any number of contexts, commands and      *)
(* handles and any pool size.                                              *)
(***************************************************************************)
EXTENDS ZeEventCache, FunctionTheorems, FiniteSetTheorems, TLAPS

-----------------------------------------------------------------------------
(* Stacks.                                                                 *)

NoRepeat(s) == \A i, j \in DOMAIN s : s[i] = s[j] => i = j

\* A stack without repetitions has as many elements as positions.
LEMMA StackCardinality ==
  ASSUME NEW S, NEW n \in Nat, NEW s \in [1..n -> S], NoRepeat(s)
  PROVE  IsFiniteSet(Elements(s)) /\ Cardinality(Elements(s)) = n
<1>1. s \in Bijection(1..n, Elements(s))
  BY DEF Bijection, Injection, Surjection, IsInjective, NoRepeat, Elements
<1>2. ExistsBijection(1..n, Elements(s))
  BY <1>1 DEF ExistsBijection
<1>3. IsFiniteSet(Elements(s))
  BY <1>2, FS_NatBijection
<1>. QED  BY <1>2, <1>3, FS_CountingElements

\* What pop_back leaves.
LEMMA PopFacts ==
  ASSUME NEW S, NEW s \in Seq(S), s # <<>>
  PROVE  /\ Len(s) \in Nat \ {0}
         /\ s[Len(s)] \in Elements(s)
         /\ SubSeq(s, 1, Len(s) - 1) \in Seq(S)
         /\ \A i \in DOMAIN SubSeq(s, 1, Len(s) - 1) :
              i \in DOMAIN s /\ i # Len(s) /\ SubSeq(s, 1, Len(s) - 1)[i] = s[i]
         /\ Elements(s) \subseteq Elements(SubSeq(s, 1, Len(s) - 1)) \cup {s[Len(s)]}
<1>1. Len(s) \in Nat \ {0} /\ DOMAIN s = 1..Len(s)
  OBVIOUS
<1> DEFINE r == SubSeq(s, 1, Len(s) - 1)
<1>2. r \in Seq(S) /\ DOMAIN r = 1..(Len(s) - 1) /\ \A i \in 1..(Len(s) - 1) : r[i] = s[i]
  BY <1>1
<1>3. \A i \in DOMAIN r : i \in DOMAIN s /\ i # Len(s) /\ r[i] = s[i]
  BY <1>1, <1>2
<1>5. s[Len(s)] \in Elements(s)
  BY <1>1 DEF Elements
<1>. HIDE DEF r
<1>4. ASSUME NEW i \in DOMAIN s
      PROVE  s[i] \in Elements(r) \cup {s[Len(s)]}
  <2>1. CASE i = Len(s)
    BY <2>1
  <2>2. CASE i # Len(s)
    <3>1. i \in DOMAIN r /\ r[i] = s[i]
      BY <2>2, <1>1, <1>2
    <3>. QED  BY <3>1 DEF Elements
  <2>. QED  BY <2>1, <2>2
<1>6. Elements(s) \subseteq Elements(r) \cup {s[Len(s)]}
  BY <1>4 DEF Elements
<1>. QED  BY <1>1, <1>2, <1>3, <1>5, <1>6 DEF r

\* What push_back yields.
LEMMA PushFacts ==
  ASSUME NEW S, NEW s \in Seq(S), NEW e \in S
  PROVE  /\ Append(s, e) \in Seq(S)
         /\ DOMAIN Append(s, e) = DOMAIN s \cup {Len(s) + 1}
         /\ Append(s, e)[Len(s) + 1] = e
         /\ Len(s) + 1 \notin DOMAIN s
         /\ \A i \in DOMAIN s : Append(s, e)[i] = s[i]
         /\ Elements(Append(s, e)) = Elements(s) \cup {e}
<1>1. /\ Append(s, e) \in Seq(S)
      /\ DOMAIN s = 1..Len(s)
      /\ DOMAIN Append(s, e) = 1..(Len(s) + 1)
      /\ Len(s) \in Nat
      /\ Append(s, e)[Len(s) + 1] = e
      /\ \A i \in 1..Len(s) : Append(s, e)[i] = s[i]
  OBVIOUS
<1>2. DOMAIN Append(s, e) = DOMAIN s \cup {Len(s) + 1} /\ Len(s) + 1 \notin DOMAIN s
  BY <1>1
<1>. HIDE <1>1
<1>. DEFINE a == Append(s, e)
<1>3. /\ \A i \in DOMAIN s : a[i] = s[i]
      /\ a[Len(s) + 1] = e
      /\ a \in Seq(S)
  BY <1>1
<1>4. DOMAIN a = DOMAIN s \cup {Len(s) + 1} /\ Len(s) + 1 \notin DOMAIN s
  BY <1>2
<1>. HIDE DEF a
<1>5. Elements(a) = Elements(s) \cup {e}
  BY <1>3, <1>4 DEF Elements
<1>. QED  BY <1>3, <1>4, <1>5 DEF a
-----------------------------------------------------------------------------
(* The inductive invariant.  None of OnePlace, FreeEventsReady,            *)
(* NoDanglingEvent and Conserved is inductive alone: an event is handed    *)
(* out ready because a free one is in no command's hands and so is never   *)
(* signaled; a new handle is not yet cached because every cached event     *)
(* is free or held and those exist; a context is emptied completely        *)
(* because no event of its pools is lost.                                  *)

IInv ==
  /\ TypeOK
  /\ OnePlace
  /\ FreeEventsReady
  /\ NoDanglingEvent
  /\ Conserved
  /\ stale = {}

LEMMA InitInv == Init => IInv
<1>. SUFFICES ASSUME Init PROVE IInv
  OBVIOUS
<1>. USE DEF Init, CacheInit
<1>1. \A c \in Contexts : event_map_[c] = <<>> /\ EventsOf(c) = {}
  BY HandleAssumption DEF EventsOf
<1>2. TypeOK
  BY DEF TypeOK
<1>3. OnePlace
  BY <1>1 DEF OnePlace
<1>4. Conserved
  <2>. SUFFICES ASSUME NEW c \in Contexts
                PROVE  /\ EventsOf(c) = {}
                       /\ Cardinality(EventsOf(c)) = EVENT_POOL_SIZE * event_pools_[c]
    BY DEF Conserved
  <2>1. EventsOf(c) = {} /\ event_pools_[c] = 0
    BY <1>1
  <2>2. Cardinality(EventsOf(c)) = 0
    BY <2>1, FS_EmptySet
  <2>. QED  BY <2>1, <2>2, PoolSizeAssumption
<1>5. FreeEventsReady /\ NoDanglingEvent
  BY <1>1 DEF FreeEventsReady, NoDanglingEvent
<1>. QED  BY <1>2, <1>3, <1>4, <1>5 DEF IInv

\* As long as the cache lives, every event in event_info_map_ exists.
LEMMA CachedEventsExist ==
  ASSUME IInv, alive, NEW e \in Events, QueryEvent(e)
  PROVE  status[e] # "none"
<1>1. event_info_map_[e] \in Contexts /\ e \in EventsOf(event_info_map_[e])
  BY DEF IInv, TypeOK, QueryEvent, EventsOf
<1>2. CASE e \in Elements(event_map_[event_info_map_[e]])
  BY <1>1, <1>2 DEF IInv, FreeEventsReady, Elements
<1>3. CASE \E h \in Holders : e = held[h]
  BY <1>3, HandleAssumption DEF IInv, NoDanglingEvent
<1>. QED  BY <1>1, <1>2, <1>3 DEF IInv, Conserved

-----------------------------------------------------------------------------
(* One lemma per operation.                                                *)

LEMMA TakeFreeInv ==
  ASSUME IInv, NEW h \in Holders, NEW c \in Contexts, NEW e \in Events,
         alive, held[h] = None, TakeFree(c, e),
         held' = [held EXCEPT ![h] = e], UNCHANGED <<stale, alive>>
  PROVE  IInv'
<1>. DEFINE s == event_map_[c]
<1>. DEFINE r == SubSeq(s, 1, Len(s) - 1)
<1>1. s \in Seq(Events) /\ s # <<>> /\ e = s[Len(s)]
  BY DEF TakeFree, PopBack, IInv, TypeOK
<1>2. /\ Len(s) \in DOMAIN s
      /\ r \in Seq(Events)
      /\ \A i \in DOMAIN r : i \in DOMAIN s /\ i # Len(s) /\ r[i] = s[i]
      /\ Elements(s) \subseteq Elements(r) \cup {e}
  BY <1>1, PopFacts
<1>3. /\ event_map_' = [event_map_ EXCEPT ![c] = r]
      /\ UNCHANGED <<event_info_map_, event_pools_, status>>
  BY DEF TakeFree, PopBack
<1>. HIDE DEF s, r
<1>4. event_map_'[c] = r /\ \A d \in Contexts \ {c} : event_map_'[d] = event_map_[d]
  BY <1>3 DEF IInv, TypeOK
<1>5. held'[h] = e /\ \A g \in Holders \ {h} : held'[g] = held[g]
  BY DEF IInv, TypeOK
<1>6. TypeOK'
  BY <1>2, <1>3 DEF IInv, TypeOK
<1>7. event_info_map_[e] = c /\ event_info_map_[e] # None
  BY <1>1, <1>2, HandleAssumption DEF IInv, OnePlace, s
<1>8. \A d \in Contexts : e \notin Elements(event_map_[d])'
  <2>1. e \notin Elements(r)
    BY <1>1, <1>2 DEF IInv, OnePlace, Elements, s
  <2>2. \A d \in Contexts \ {c} : e \notin Elements(event_map_[d])
    BY <1>7 DEF IInv, OnePlace, Elements
  <2>. QED  BY <1>4, <2>1, <2>2
<1>9. \A g \in Holders : held[g] # e
  <2>1. e \in Elements(event_map_[c]) /\ QueryEvent(e) /\ e # None
    BY <1>1, <1>2, <1>7, HandleAssumption DEF Elements, QueryEvent, s
  <2>. QED  BY <2>1 DEF IInv, OnePlace
<1>10. \A d \in Contexts : Elements(event_map_[d])' \subseteq Elements(event_map_[d])
  BY <1>2, <1>4 DEF Elements, s
<1>11. OnePlace'
  <2>1. ASSUME NEW d \in Contexts, NEW i \in DOMAIN event_map_'[d],
               NEW j \in DOMAIN event_map_'[d]
        PROVE  /\ event_info_map_[event_map_'[d][i]] = d
               /\ event_map_'[d][i] = event_map_'[d][j] => i = j
    <3>1. CASE d = c
      BY <3>1, <1>2, <1>4 DEF IInv, OnePlace, s
    <3>2. CASE d # c
      BY <3>2, <1>4 DEF IInv, OnePlace
    <3>. QED  BY <3>1, <3>2
  <2>2. ASSUME NEW g \in Holders, held'[g] # None, QueryEvent(held[g])'
        PROVE  /\ \A d \in Contexts : held'[g] \notin Elements(event_map_[d])'
               /\ \A k \in Holders : held'[k] = held'[g] => k = g
    <3>1. CASE g = h
      BY <3>1, <1>5, <1>8, <1>9
    <3>2. CASE g # h
      <4>1. held'[g] = held[g] /\ QueryEvent(held[g]) /\ held[g] # None
        BY <3>2, <2>2, <1>3, <1>5 DEF QueryEvent
      <4>2. \A d \in Contexts : held[g] \notin Elements(event_map_[d])'
        BY <4>1, <1>10 DEF IInv, OnePlace
      <4>3. \A k \in Holders : held[k] = held[g] => k = g
        BY <4>1 DEF IInv, OnePlace
      <4>. QED  BY <4>1, <4>2, <4>3, <3>2, <1>5, <1>9
    <3>. QED  BY <3>1, <3>2
  <2>3. \A d \in Contexts : \A i, j \in DOMAIN event_map_'[d] :
               /\ event_info_map_'[event_map_'[d][i]] = d
               /\ event_map_'[d][i] = event_map_'[d][j] => i = j
    BY <2>1, <1>3
  <2>4. (\A g \in Holders : held[g] # None /\ QueryEvent(held[g]) =>
           /\ \A d \in Contexts : held[g] \notin Elements(event_map_[d])
           /\ \A k \in Holders : held[k] = held[g] => k = g)'
    BY <2>2
  <2>. QED  BY <2>3, <2>4 DEF OnePlace
<1>12. FreeEventsReady'
  <2>. SUFFICES ASSUME NEW d \in Contexts, NEW i \in DOMAIN event_map_'[d]
                PROVE  status[event_map_'[d][i]] = "reset"
    BY <1>3 DEF FreeEventsReady
  <2>. QED  BY <1>2, <1>4 DEF IInv, FreeEventsReady, s
<1>13. NoDanglingEvent'
  BY <1>3, <1>5 DEF IInv, NoDanglingEvent, TakeFree
<1>14. Conserved'
  <2>. SUFFICES ASSUME NEW d \in Contexts
                PROVE  EventsOf(d) \subseteq
                         Elements(event_map_[d])' \cup {held'[g] : g \in Holders}
    BY <1>3 DEF Conserved, IInv, EventsOf
  <2>1. {held[g] : g \in Holders} \subseteq {held'[g] : g \in Holders} \cup {None}
    BY <1>5
  <2>2. e \in {held'[g] : g \in Holders}
    BY <1>5
  <2>3. Elements(event_map_[d]) \subseteq Elements(event_map_[d])' \cup {e}
    BY <1>2, <1>4 DEF s
  <2>4. None \notin EventsOf(d)
    BY HandleAssumption DEF EventsOf
  <2>. QED  BY <2>1, <2>2, <2>3, <2>4 DEF IInv, Conserved
<1>. QED  BY <1>6, <1>11, <1>12, <1>13, <1>14 DEF IInv

LEMMA GrowPoolInv ==
  ASSUME IInv, NEW h \in Holders, NEW c \in Contexts, NEW e \in Events,
         alive, held[h] = None, GrowPool(c, e),
         held' = [held EXCEPT ![h] = e], UNCHANGED <<stale, alive>>
  PROVE  IInv'
<1>1. PICK pool \in NewPools :
        /\ PopBack(c, pool, e)
        /\ event_info_map_' =
             [x \in Events |-> IF x \in Elements(pool) THEN c ELSE event_info_map_[x]]
        /\ event_pools_' = [event_pools_ EXCEPT ![c] = @ + 1]
        /\ status' = [x \in Events |-> IF x \in Elements(pool) THEN "reset" ELSE status[x]]
  BY DEF GrowPool
<1>. DEFINE P == Elements(pool)
<1>. DEFINE r == SubSeq(pool, 1, Len(pool) - 1)
<1>2. /\ pool \in [1..EVENT_POOL_SIZE -> Events]
      /\ NoRepeat(pool)
      /\ \A i \in DOMAIN pool : status[pool[i]] = "none"
  BY DEF NewPools, NoRepeat
<1>3. pool \in Seq(Events) /\ Len(pool) = EVENT_POOL_SIZE /\ pool # <<>>
  BY <1>2, PoolSizeAssumption
<1>4. e = pool[Len(pool)] /\ event_map_' = [event_map_ EXCEPT ![c] = r]
  BY <1>1 DEF PopBack
<1>5. /\ Len(pool) \in DOMAIN pool
      /\ e \in P
      /\ r \in Seq(Events)
      /\ \A i \in DOMAIN r : i \in DOMAIN pool /\ i # Len(pool) /\ r[i] = pool[i]
      /\ P \subseteq Elements(r) \cup {e}
  BY <1>3, <1>4, PopFacts
<1>6. IsFiniteSet(P) /\ Cardinality(P) = EVENT_POOL_SIZE
  BY <1>2, StackCardinality, PoolSizeAssumption
<1>7. P \subseteq Events /\ \A x \in P : status[x] = "none"
  BY <1>2 DEF Elements
<1>8. \A x \in P : event_info_map_[x] = None
  BY <1>7, CachedEventsExist DEF QueryEvent
<1>9. \A x \in P : \A g \in Holders : held[g] # x
  BY <1>7, HandleAssumption DEF IInv, NoDanglingEvent
<1>10. \A x \in P : \A d \in Contexts : x \notin Elements(event_map_[d])
  BY <1>8, HandleAssumption DEF IInv, OnePlace, Elements
<1>11. event_map_[c] = <<>>
  BY DEF GrowPool
<1>. HIDE DEF P, r
<1>12. event_map_'[c] = r /\ \A d \in Contexts \ {c} : event_map_'[d] = event_map_[d]
  BY <1>4 DEF IInv, TypeOK
<1>13. held'[h] = e /\ \A g \in Holders \ {h} : held'[g] = held[g]
  BY DEF IInv, TypeOK
<1>14. /\ \A x \in P : event_info_map_'[x] = c /\ status'[x] = "reset"
       /\ \A x \in Events \ P : event_info_map_'[x] = event_info_map_[x] /\ status'[x] = status[x]
  BY <1>1, <1>7 DEF P
<1>15. TypeOK'
  <2>1. event_map_' \in [Contexts -> Seq(Events)]
    BY <1>4, <1>5 DEF IInv, TypeOK
  <2>2. event_info_map_' \in [Events -> Contexts \cup {None}]
    BY <1>1 DEF IInv, TypeOK
  <2>3. event_pools_' \in [Contexts -> Nat]
    BY <1>1 DEF IInv, TypeOK
  <2>4. status' \in [Events -> {"none", "reset", "signaled"}]
    BY <1>1 DEF IInv, TypeOK
  <2>. QED  BY <2>1, <2>2, <2>3, <2>4 DEF IInv, TypeOK
<1>16. Elements(r) \subseteq P \ {e}
  BY <1>2, <1>4, <1>5 DEF Elements, NoRepeat, P
<1>17. OnePlace'
  <2>1. ASSUME NEW d \in Contexts, NEW i \in DOMAIN event_map_'[d],
               NEW j \in DOMAIN event_map_'[d]
        PROVE  /\ event_info_map_'[event_map_'[d][i]] = d
               /\ event_map_'[d][i] = event_map_'[d][j] => i = j
    <3>1. CASE d = c
      <4>1. i \in DOMAIN pool /\ j \in DOMAIN pool /\ r[i] = pool[i] /\ r[j] = pool[j]
        BY <3>1, <1>5, <1>12, <2>1
      <4>2. pool[i] \in P
        BY <4>1 DEF P, Elements
      <4>. QED  BY <3>1, <4>1, <4>2, <1>2, <1>12, <1>14 DEF NoRepeat
    <3>2. CASE d # c
      <4>1. event_map_'[d] = event_map_[d] /\ event_map_[d][i] \in Elements(event_map_[d])
        BY <3>2, <1>12, <2>1 DEF Elements
      <4>2. event_map_[d][i] \in Events \ P
        BY <4>1, <1>10, <2>1, <1>12, <3>2 DEF IInv, TypeOK
      <4>. QED  BY <4>1, <4>2, <1>14, <2>1 DEF IInv, OnePlace
    <3>. QED  BY <3>1, <3>2
  <2>2. ASSUME NEW g \in Holders, held'[g] # None, QueryEvent(held[g])'
        PROVE  /\ \A d \in Contexts : held'[g] \notin Elements(event_map_[d])'
               /\ \A k \in Holders : held'[k] = held'[g] => k = g
    <3>1. CASE g = h
      <4>1. \A d \in Contexts : e \notin Elements(event_map_'[d])
        BY <1>5, <1>10, <1>12, <1>16
      <4>. QED  BY <3>1, <4>1, <1>5, <1>9, <1>13
    <3>2. CASE g # h
      <4>1. held'[g] = held[g] /\ held[g] \in Events /\ held[g] \notin P
        BY <3>2, <2>2, <1>9, <1>13 DEF IInv, TypeOK
      <4>2. QueryEvent(held[g]) /\ held[g] # None
        BY <4>1, <2>2, <1>14 DEF QueryEvent
      <4>3. /\ \A d \in Contexts : held[g] \notin Elements(event_map_[d])
            /\ \A k \in Holders : held[k] = held[g] => k = g
        BY <4>2 DEF IInv, OnePlace
      <4>4. \A d \in Contexts : held[g] \notin Elements(event_map_'[d])
        BY <4>1, <4>3, <1>12, <1>16
      <4>. QED  BY <4>1, <4>3, <4>4, <3>2, <1>5, <1>13
    <3>. QED  BY <3>1, <3>2
  <2>3. (\A d \in Contexts : \A i, j \in DOMAIN event_map_[d] :
           /\ event_info_map_[event_map_[d][i]] = d
           /\ event_map_[d][i] = event_map_[d][j] => i = j)'
    BY <2>1
  <2>4. (\A g \in Holders : held[g] # None /\ QueryEvent(held[g]) =>
           /\ \A d \in Contexts : held[g] \notin Elements(event_map_[d])
           /\ \A k \in Holders : held[k] = held[g] => k = g)'
    BY <2>2
  <2>. QED  BY <2>3, <2>4 DEF OnePlace
<1>18. FreeEventsReady'
  <2>. SUFFICES ASSUME NEW d \in Contexts, NEW i \in DOMAIN event_map_'[d]
                PROVE  status'[event_map_'[d][i]] = "reset"
    BY DEF FreeEventsReady
  <2>1. CASE d = c
    BY <2>1, <1>12, <1>14, <1>16 DEF Elements
  <2>2. CASE d # c
    <3>1. event_map_'[d] = event_map_[d] /\ event_map_[d][i] \in Elements(event_map_[d])
      BY <2>2, <1>12 DEF Elements
    <3>2. event_map_[d][i] \in Events \ P
      BY <3>1, <1>10, <2>2 DEF IInv, TypeOK
    <3>. QED  BY <3>1, <3>2, <1>14 DEF IInv, FreeEventsReady
  <2>. QED  BY <2>1, <2>2
<1>19. NoDanglingEvent'
  <2>. SUFFICES ASSUME NEW g \in Holders, held'[g] # None
                PROVE  status'[held'[g]] # "none"
    BY DEF NoDanglingEvent
  <2>1. CASE g = h
    BY <2>1, <1>5, <1>13, <1>14
  <2>2. CASE g # h
    BY <2>2, <1>9, <1>13, <1>14 DEF IInv, NoDanglingEvent, TypeOK
  <2>. QED  BY <2>1, <2>2
<1>20. Conserved'
  <2>1. ASSUME NEW d \in Contexts
        PROVE  EventsOf(d)' = IF d = c THEN EventsOf(c) \cup P ELSE EventsOf(d)
    <3>1. EventsOf(d)' = {x \in Events : event_info_map_'[x] = d}
      BY DEF EventsOf
    <3>. QED  BY <3>1, <1>7, <1>8, <1>14, HandleAssumption DEF EventsOf
  <2>2. ASSUME NEW d \in Contexts
        PROVE  EventsOf(d)' \subseteq Elements(event_map_[d])' \cup {held'[g] : g \in Holders}
    <3>1. {held[g] : g \in Holders} \subseteq {held'[g] : g \in Holders} \cup {None}
      BY <1>13
    <3>2. e \in {held'[g] : g \in Holders}
      BY <1>13
    <3>3. EventsOf(d) \subseteq Elements(event_map_[d]) \cup {held'[g] : g \in Holders}
      BY <3>1, HandleAssumption DEF IInv, Conserved, EventsOf
    <3>4. CASE d = c
      <4>1. Elements(event_map_[c]) = {} /\ Elements(event_map_[c])' = Elements(r)
        BY <1>11, <1>12 DEF Elements
      <4>. QED  BY <3>2, <3>3, <3>4, <4>1, <2>1, <1>5
    <3>5. CASE d # c
      BY <3>3, <3>5, <2>1, <1>12
    <3>. QED  BY <3>4, <3>5
  <2>3. ASSUME NEW d \in Contexts
        PROVE  Cardinality(EventsOf(d))' = EVENT_POOL_SIZE * event_pools_'[d]
    <3>1. Cardinality(EventsOf(d)) = EVENT_POOL_SIZE * event_pools_[d] /\ event_pools_[d] \in Nat
      BY DEF IInv, Conserved, TypeOK
    <3>2. CASE d = c
      <4>1. IsFiniteSet(EventsOf(c)) /\ EventsOf(c) \cap P = {}
        BY <1>8, HandleAssumption, FiniteAssumption, FS_Subset DEF EventsOf
      <4>2. Cardinality(EventsOf(c) \cup P) = Cardinality(EventsOf(c)) + Cardinality(P) - 0
        BY <4>1, <1>6, FS_Union, FS_EmptySet
      <4>3. event_pools_'[c] = event_pools_[c] + 1
        BY <1>1 DEF IInv, TypeOK
      <4>4. Cardinality(EventsOf(c)') = EVENT_POOL_SIZE * event_pools_[c] + EVENT_POOL_SIZE
        <5>1. EventsOf(c)' = EventsOf(c) \cup P
          BY <2>1
        <5>2. Cardinality(EventsOf(c)') = Cardinality(EventsOf(c) \cup P)
          BY <5>1
        <5>3. EVENT_POOL_SIZE * event_pools_[c] \in Nat
          BY <3>1, <3>2, PoolSizeAssumption
        <5>. QED  BY <5>2, <5>3, <4>2, <3>1, <3>2, <1>6, PoolSizeAssumption
      <4>5. EVENT_POOL_SIZE * (event_pools_[c] + 1) = EVENT_POOL_SIZE * event_pools_[c] + EVENT_POOL_SIZE
        BY <3>1, <3>2, PoolSizeAssumption
      <4>. QED  BY <3>2, <4>3, <4>4, <4>5
    <3>3. CASE d # c
      BY <3>1, <3>3, <2>1, <1>1 DEF IInv, TypeOK
    <3>. QED  BY <3>2, <3>3
  <2>4. (\A d \in Contexts :
           /\ EventsOf(d) \subseteq Elements(event_map_[d]) \cup {held[g] : g \in Holders}
           /\ Cardinality(EventsOf(d)) = EVENT_POOL_SIZE * event_pools_[d])'
    BY <2>2, <2>3
  <2>. QED  BY <2>4 DEF Conserved
<1>. QED  BY <1>15, <1>17, <1>18, <1>19, <1>20 DEF IInv

LEMMA ReturnInv ==
  ASSUME IInv, NEW h \in Holders, Return(h)
  PROVE  IInv'
<1>. DEFINE e == held[h]
<1>1. e \in Events /\ e # None /\ alive /\ ReleaseEvent(e) /\ UNCHANGED alive
  BY DEF Return, IInv, TypeOK
<1>2. held' = [held EXCEPT ![h] = None] /\ stale' = {}
  BY DEF Return, IInv
<1>3. held'[h] = None /\ \A g \in Holders \ {h} : held'[g] = held[g]
  BY <1>2 DEF IInv, TypeOK
<1>4. held' \in [Holders -> Events \cup {None}]
  BY <1>2 DEF IInv, TypeOK
<1>5. CASE ~QueryEvent(e)
  <2>1. UNCHANGED <<event_map_, event_info_map_, event_pools_, status>>
    BY <1>1, <1>5 DEF ReleaseEvent
  <2>2. TypeOK'
    BY <1>1, <1>2, <1>4, <2>1 DEF IInv, TypeOK
  <2>3. OnePlace'
    <3>1. \A g \in Holders : held'[g] # None => held'[g] = held[g] /\ g # h
      BY <1>3
    <3>2. \A x : QueryEvent(x)' = QueryEvent(x)
      BY <2>1 DEF QueryEvent
    <3>3. \A d \in Contexts : event_map_'[d] = event_map_[d]
      BY <2>1
    <3>. QED  BY <3>1, <3>2, <3>3, <2>1, <1>3 DEF IInv, OnePlace, QueryEvent
  <2>4. FreeEventsReady'
    BY <2>1 DEF IInv, FreeEventsReady, Return
  <2>5. NoDanglingEvent'
    BY <2>1, <1>1, <1>3 DEF IInv, NoDanglingEvent
  <2>6. Conserved'
    <3>1. \A d \in Contexts : EventsOf(d)' = EventsOf(d) /\ e \notin EventsOf(d) /\ None \notin EventsOf(d)
      BY <1>1, <1>5, <2>1, HandleAssumption DEF EventsOf, QueryEvent
    <3>2. {held[g] : g \in Holders} \subseteq {held'[g] : g \in Holders} \cup {e}
      BY <1>3
    <3>3. \A d \in Contexts :
            /\ EventsOf(d) \subseteq Elements(event_map_[d]) \cup {held'[g] : g \in Holders}
            /\ Cardinality(EventsOf(d)) = EVENT_POOL_SIZE * event_pools_[d]
      BY <3>1, <3>2 DEF IInv, Conserved
    <3>. QED  BY <3>1, <3>3, <2>1 DEF Conserved
  <2>. QED  BY <2>2, <2>3, <2>4, <2>5, <2>6, <1>2 DEF IInv
<1>6. CASE QueryEvent(e)
  <2>. DEFINE c == event_info_map_[e]
  <2>. DEFINE s == event_map_[c]
  <2>. DEFINE a == Append(s, e)
  <2>1. c \in Contexts /\ s \in Seq(Events)
    BY <1>1, <1>6 DEF IInv, TypeOK, QueryEvent
  <2>2. /\ status' = [status EXCEPT ![e] = "reset"]
        /\ event_map_' = [event_map_ EXCEPT ![c] = a]
        /\ UNCHANGED <<event_info_map_, event_pools_>>
    BY <1>1, <1>6 DEF ReleaseEvent
  <2>3. /\ a \in Seq(Events)
        /\ DOMAIN a = DOMAIN s \cup {Len(s) + 1}
        /\ a[Len(s) + 1] = e
        /\ Len(s) + 1 \notin DOMAIN s
        /\ \A i \in DOMAIN s : a[i] = s[i]
        /\ Elements(a) = Elements(s) \cup {e}
    BY <1>1, <2>1, PushFacts
  <2>4. /\ \A d \in Contexts : e \notin Elements(event_map_[d])
        /\ \A g \in Holders : held[g] = e => g = h
    BY <1>1, <1>6 DEF IInv, OnePlace
  <2>. HIDE DEF c, s, a
  <2>5. event_map_'[c] = a /\ \A d \in Contexts \ {c} : event_map_'[d] = event_map_[d]
    BY <2>1, <2>2 DEF IInv, TypeOK
  <2>6. status'[e] = "reset" /\ \A x \in Events \ {e} : status'[x] = status[x]
    BY <1>1, <2>2 DEF IInv, TypeOK
  <2>7. TypeOK'
    BY <1>1, <1>2, <1>4, <2>2, <2>3 DEF IInv, TypeOK
  <2>8. OnePlace'
    <3>1. ASSUME NEW d \in Contexts, NEW i \in DOMAIN event_map_'[d],
                 NEW j \in DOMAIN event_map_'[d]
          PROVE  /\ event_info_map_[event_map_'[d][i]] = d
                 /\ event_map_'[d][i] = event_map_'[d][j] => i = j
      <4>1. CASE d = c
        <5>1. \A k \in DOMAIN s : s[k] # e /\ event_info_map_[s[k]] = c
          BY <2>1, <2>4 DEF IInv, OnePlace, Elements, s
        <5>2. \A k, l \in DOMAIN s : s[k] = s[l] => k = l
          BY <2>1 DEF IInv, OnePlace, s
        <5>. QED  BY <4>1, <5>1, <5>2, <2>3, <2>5 DEF c
      <4>2. CASE d # c
        BY <4>2, <2>5 DEF IInv, OnePlace
      <4>. QED  BY <4>1, <4>2
    <3>2. ASSUME NEW g \in Holders, held'[g] # None, QueryEvent(held[g])'
          PROVE  /\ \A d \in Contexts : held'[g] \notin Elements(event_map_'[d])
                 /\ \A k \in Holders : held'[k] = held'[g] => k = g
      <4>1. g # h /\ held'[g] = held[g] /\ held[g] # e
        BY <3>2, <1>3, <2>4
      <4>2. QueryEvent(held[g]) /\ held[g] # None
        BY <4>1, <3>2, <2>2 DEF QueryEvent
      <4>3. /\ \A d \in Contexts : held[g] \notin Elements(event_map_[d])
            /\ \A k \in Holders : held[k] = held[g] => k = g
        BY <4>2 DEF IInv, OnePlace
      <4>4. \A d \in Contexts : held[g] \notin Elements(event_map_'[d])
        BY <4>1, <4>3, <2>1, <2>3, <2>5 DEF s
      <4>. QED  BY <4>1, <4>2, <4>3, <4>4, <1>3
    <3>3. (\A d \in Contexts : \A i, j \in DOMAIN event_map_[d] :
             /\ event_info_map_[event_map_[d][i]] = d
             /\ event_map_[d][i] = event_map_[d][j] => i = j)'
      BY <3>1, <2>2
    <3>4. (\A g \in Holders : held[g] # None /\ QueryEvent(held[g]) =>
             /\ \A d \in Contexts : held[g] \notin Elements(event_map_[d])
             /\ \A k \in Holders : held[k] = held[g] => k = g)'
      BY <3>2
    <3>. QED  BY <3>3, <3>4 DEF OnePlace
  <2>9. FreeEventsReady'
    <3>. SUFFICES ASSUME NEW d \in Contexts, NEW i \in DOMAIN event_map_'[d]
                  PROVE  status'[event_map_'[d][i]] = "reset"
      BY DEF FreeEventsReady
    <3>1. \A x \in Elements(event_map_[d]) : x \in Events /\ status[x] = "reset"
      BY <1>1 DEF IInv, FreeEventsReady, TypeOK, Elements
    <3>2. event_map_'[d][i] \in Elements(event_map_[d]) \cup {e}
      BY <2>3, <2>5 DEF Elements, s
    <3>. QED  BY <3>1, <3>2, <2>6
  <2>10. NoDanglingEvent'
    BY <1>1, <1>3, <2>6 DEF IInv, NoDanglingEvent, TypeOK
  <2>11. Conserved'
    <3>1. \A d \in Contexts : EventsOf(d)' = EventsOf(d) /\ None \notin EventsOf(d)
      BY <2>2, HandleAssumption DEF EventsOf
    <3>2. {held[g] : g \in Holders} \subseteq {held'[g] : g \in Holders} \cup {e}
      BY <1>3
    <3>3. ASSUME NEW d \in Contexts
          PROVE  /\ EventsOf(d) \subseteq Elements(event_map_'[d]) \cup {held'[g] : g \in Holders}
                 /\ Cardinality(EventsOf(d)) = EVENT_POOL_SIZE * event_pools_[d]
      <4>1. /\ EventsOf(d) \subseteq Elements(event_map_[d]) \cup {held'[g] : g \in Holders} \cup {e}
            /\ Cardinality(EventsOf(d)) = EVENT_POOL_SIZE * event_pools_[d]
        BY <3>2 DEF IInv, Conserved
      <4>2. e \in EventsOf(d) => d = c
        BY DEF EventsOf, c
      <4>3. d = c => Elements(event_map_'[d]) = Elements(event_map_[d]) \cup {e}
        BY <2>3, <2>5 DEF s
      <4>4. d # c => event_map_'[d] = event_map_[d]
        BY <2>5
      <4>. QED  BY <4>1, <4>2, <4>3, <4>4
    <3>. QED  BY <3>1, <3>3, <2>2 DEF Conserved
  <2>. QED  BY <2>7, <2>8, <2>9, <2>10, <2>11, <1>2 DEF IInv
<1>. QED  BY <1>5, <1>6

\* When the size test of ReleaseContext succeeds the free list of the
\* context holds all the events of its pools.
LEMMA AllReleasedMeansAll ==
  ASSUME IInv, NEW c \in Contexts, AllReleased(c)
  PROVE  Elements(event_map_[c]) = EventsOf(c)
<1>. DEFINE s == event_map_[c]
<1>1. /\ s \in Seq(Events)
      /\ Len(s) = EVENT_POOL_SIZE * event_pools_[c]
      /\ NoRepeat(s)
      /\ \A i \in DOMAIN s : event_info_map_[s[i]] = c
  <2>1. s \in Seq(Events) /\ Len(s) = EVENT_POOL_SIZE * event_pools_[c]
    BY DEF IInv, TypeOK, AllReleased
  <2>2. \A i, j \in DOMAIN s : event_info_map_[s[i]] = c /\ (s[i] = s[j] => i = j)
    BY DEF IInv, OnePlace
  <2>. QED  BY <2>1, <2>2 DEF NoRepeat
<1>2. Len(s) \in Nat /\ s \in [1..Len(s) -> Events]
  BY <1>1
<1>3. IsFiniteSet(Elements(s)) /\ Cardinality(Elements(s)) = Len(s)
  BY <1>1, <1>2, StackCardinality
<1>4. Elements(s) \in SUBSET EventsOf(c)
  BY <1>1, <1>2 DEF EventsOf, Elements
<1>5. IsFiniteSet(EventsOf(c)) /\ Cardinality(EventsOf(c)) = Len(s)
  BY <1>1, FiniteAssumption, FS_Subset DEF IInv, Conserved, EventsOf
<1>. QED  BY <1>3, <1>4, <1>5, FS_Subset

LEMMA StutterInv ==
  ASSUME IInv, UNCHANGED vars
  PROVE  IInv'
<1>. USE DEF vars
<1>1. TypeOK'
  BY DEF IInv, TypeOK
<1>2. OnePlace'
  BY DEF IInv, OnePlace, QueryEvent
<1>3. FreeEventsReady' /\ NoDanglingEvent'
  BY DEF IInv, FreeEventsReady, NoDanglingEvent
<1>4. Conserved'
  BY DEF IInv, Conserved, EventsOf
<1>. QED  BY <1>1, <1>2, <1>3, <1>4 DEF IInv

LEMMA DestroyContextInv ==
  ASSUME IInv, NEW c \in Contexts, DestroyContext(c)
  PROVE  IInv'
<1>1. alive /\ UNCHANGED <<held, stale, alive>> /\ ReleaseContext(c)
  BY DEF DestroyContext
<1>2. CASE ~AllReleased(c)
  <2>1. UNCHANGED vars
    BY <1>1, <1>2 DEF ReleaseContext, vars
  <2>. QED  BY <2>1, StutterInv
<1>3. CASE AllReleased(c)
  <2>. DEFINE G == EventsOf(c)
  <2>1. Elements(event_map_[c]) = G
    BY <1>3, AllReleasedMeansAll
  <2>2. /\ status' = [e \in Events |-> IF e \in G THEN "none" ELSE status[e]]
        /\ event_info_map_' = [e \in Events |-> IF e \in G THEN None ELSE event_info_map_[e]]
        /\ event_map_' = [event_map_ EXCEPT ![c] = <<>>]
        /\ event_pools_' = [event_pools_ EXCEPT ![c] = 0]
    BY <1>1, <1>3, <2>1 DEF ReleaseContext
  <2>3. event_map_'[c] = <<>> /\ \A d \in Contexts \ {c} : event_map_'[d] = event_map_[d]
    BY <2>2 DEF IInv, TypeOK
  <2>4. event_pools_'[c] = 0 /\ \A d \in Contexts \ {c} : event_pools_'[d] = event_pools_[d]
    BY <2>2 DEF IInv, TypeOK
  <2>5. \A e \in G : e \in Events /\ event_info_map_[e] = c /\ c # None
    BY HandleAssumption DEF EventsOf
  <2>6. \A d \in Contexts \ {c} : \A i \in DOMAIN event_map_[d] :
          event_map_[d][i] \in Events \ G
    BY <2>5 DEF IInv, OnePlace, TypeOK
  <2>7. ASSUME NEW h \in Holders, held[h] # None
        PROVE  held[h] \in Events \ G
    <3>1. held[h] \in G => QueryEvent(held[h])
      BY <2>5 DEF QueryEvent
    <3>. QED  BY <2>1, <2>7, <3>1 DEF IInv, OnePlace, TypeOK
  <2>8. ASSUME NEW d \in Contexts
        PROVE  EventsOf(d)' = IF d = c THEN {} ELSE EventsOf(d)
    <3>1. EventsOf(d)' = {e \in Events : event_info_map_'[e] = d}
      BY DEF EventsOf
    <3>. QED  BY <3>1, <2>2, HandleAssumption DEF EventsOf
  <2>. HIDE DEF G
  <2>9. TypeOK'
    <3>1. event_map_' \in [Contexts -> Seq(Events)]
      BY <2>2 DEF IInv, TypeOK
    <3>2. event_info_map_' \in [Events -> Contexts \cup {None}]
      BY <2>2 DEF IInv, TypeOK
    <3>3. event_pools_' \in [Contexts -> Nat]
      BY <2>2 DEF IInv, TypeOK
    <3>4. status' \in [Events -> {"none", "reset", "signaled"}]
      BY <2>2 DEF IInv, TypeOK
    <3>. QED  BY <1>1, <3>1, <3>2, <3>3, <3>4 DEF IInv, TypeOK
  <2>10. OnePlace'
    <3>1. ASSUME NEW d \in Contexts, NEW i \in DOMAIN event_map_'[d],
                 NEW j \in DOMAIN event_map_'[d]
          PROVE  /\ event_info_map_'[event_map_'[d][i]] = d
                 /\ event_map_'[d][i] = event_map_'[d][j] => i = j
      BY <3>1, <2>2, <2>3, <2>6 DEF IInv, OnePlace
    <3>2. ASSUME NEW g \in Holders, held'[g] # None, QueryEvent(held[g])'
          PROVE  /\ \A d \in Contexts : held'[g] \notin Elements(event_map_'[d])
                 /\ \A k \in Holders : held'[k] = held'[g] => k = g
      <4>1. held'[g] = held[g] /\ held[g] # None /\ QueryEvent(held[g])
        BY <3>2, <1>1, <2>2, <2>7 DEF QueryEvent
      <4>2. /\ \A d \in Contexts : held[g] \notin Elements(event_map_[d])
            /\ \A k \in Holders : held[k] = held[g] => k = g
        BY <4>1 DEF IInv, OnePlace
      <4>3. Elements(event_map_'[c]) = {}
        BY <2>3 DEF Elements
      <4>. QED  BY <4>1, <4>2, <4>3, <1>1, <2>3
    <3>3. (\A d \in Contexts : \A i, j \in DOMAIN event_map_[d] :
             /\ event_info_map_[event_map_[d][i]] = d
             /\ event_map_[d][i] = event_map_[d][j] => i = j)'
      BY <3>1
    <3>4. (\A g \in Holders : held[g] # None /\ QueryEvent(held[g]) =>
             /\ \A d \in Contexts : held[g] \notin Elements(event_map_[d])
             /\ \A k \in Holders : held[k] = held[g] => k = g)'
      BY <3>2
    <3>. QED  BY <3>3, <3>4 DEF OnePlace
  <2>11. FreeEventsReady'
    <3>. SUFFICES ASSUME NEW d \in Contexts, NEW i \in DOMAIN event_map_'[d]
                  PROVE  status'[event_map_'[d][i]] = "reset"
      BY DEF FreeEventsReady
    <3>1. d # c /\ event_map_'[d] = event_map_[d]
      BY <2>3
    <3>. QED  BY <3>1, <1>1, <2>2, <2>6 DEF IInv, FreeEventsReady
  <2>12. NoDanglingEvent'
    BY <1>1, <2>2, <2>7 DEF IInv, NoDanglingEvent
  <2>13. Conserved'
    <3>1. ASSUME NEW d \in Contexts
          PROVE  /\ EventsOf(d)' \subseteq Elements(event_map_'[d]) \cup {held'[g] : g \in Holders}
                 /\ Cardinality(EventsOf(d)') = EVENT_POOL_SIZE * event_pools_'[d]
      <4>1. CASE d = c
        <5>1. EventsOf(d)' = {} /\ event_pools_'[d] = 0
          BY <4>1, <2>4, <2>8
        <5>2. Cardinality(EventsOf(d)') = 0
          BY <5>1, FS_EmptySet
        <5>. QED  BY <5>1, <5>2, PoolSizeAssumption
      <4>2. CASE d # c
        <5>1. EventsOf(d)' = EventsOf(d)
          BY <4>2, <2>8
        <5>2. Cardinality(EventsOf(d)') = Cardinality(EventsOf(d))
          BY <5>1
        <5>. QED  BY <4>2, <5>1, <5>2, <1>1, <2>3, <2>4 DEF IInv, Conserved
      <4>. QED  BY <4>1, <4>2
    <3>. QED  BY <3>1 DEF Conserved
  <2>. QED  BY <2>9, <2>10, <2>11, <2>12, <2>13, <1>1 DEF IInv
<1>. QED  BY <1>2, <1>3

\* The device, the application and the destructor touch neither the maps of
\* the cache nor the events that commands hold.
LEMMA EnvironmentInv ==
  ASSUME IInv,
         UNCHANGED <<event_map_, event_info_map_, event_pools_, held, stale>>,
         status' \in [Events -> {"none", "reset", "signaled"}], alive' \in BOOLEAN,
         alive' => /\ alive
                   /\ \A e \in Events : QueryEvent(e) /\ (\A h \in Holders : held[h] # e)
                                         => status'[e] = status[e]
                   /\ \A h \in Holders : held[h] # None => status'[held[h]] # "none"
  PROVE  IInv'
<1>1. TypeOK'
  BY DEF IInv, TypeOK
<1>2. OnePlace'
  BY DEF IInv, OnePlace, QueryEvent
<1>3. FreeEventsReady'
  <2>. SUFFICES ASSUME alive', NEW c \in Contexts, NEW i \in DOMAIN event_map_[c]
                PROVE  status'[event_map_[c][i]] = "reset"
    BY DEF FreeEventsReady
  <2>. DEFINE e == event_map_[c][i]
  <2>1. e \in Events /\ event_info_map_[e] = c /\ e \in Elements(event_map_[c])
    BY DEF IInv, TypeOK, OnePlace, Elements
  <2>2. QueryEvent(e) /\ e # None
    BY <2>1, HandleAssumption DEF QueryEvent
  <2>3. \A h \in Holders : held[h] # e
    BY <2>1, <2>2 DEF IInv, OnePlace
  <2>. QED  BY <2>1, <2>2, <2>3 DEF IInv, FreeEventsReady
<1>4. NoDanglingEvent'
  BY DEF IInv, NoDanglingEvent
<1>5. Conserved'
  BY DEF IInv, Conserved, EventsOf
<1>. QED  BY <1>1, <1>2, <1>3, <1>4, <1>5 DEF IInv

LEMMA NextInv == IInv /\ [Next]_vars => IInv'
<1>. SUFFICES ASSUME IInv, [Next]_vars PROVE IInv'
  OBVIOUS
<1>. USE DEF QueryEvent
<1>1. ASSUME NEW h \in Holders, NEW c \in Contexts, Acquire(h, c) PROVE IInv'
  BY <1>1, TakeFreeInv, GrowPoolInv DEF Acquire, GetEvent
<1>2. ASSUME NEW h \in Holders, NEW e \in Events, UseAppEvent(h, e) PROVE IInv'
  <2>1. /\ alive /\ held[h] = None /\ status[e] # "none" /\ event_info_map_[e] = None
        /\ UNCHANGED <<event_map_, event_info_map_, event_pools_, status, stale, alive>>
        /\ held'[h] = e /\ \A g \in Holders \ {h} : held'[g] = held[g]
    BY <1>2 DEF UseAppEvent, IInv, TypeOK
  <2>2. TypeOK'
    BY <1>2 DEF UseAppEvent, IInv, TypeOK
  <2>3. OnePlace'
    BY <2>1 DEF IInv, OnePlace
  <2>4. FreeEventsReady' /\ NoDanglingEvent'
    BY <2>1 DEF IInv, FreeEventsReady, NoDanglingEvent
  <2>5. Conserved'
    <3>1. {held[g] : g \in Holders} \subseteq {held'[g] : g \in Holders} \cup {None}
      BY <2>1
    <3>2. \A d \in Contexts : None \notin EventsOf(d) /\ EventsOf(d)' = EventsOf(d)
      BY <2>1, HandleAssumption DEF EventsOf
    <3>. QED  BY <2>1, <3>1, <3>2 DEF IInv, Conserved
  <2>. QED  BY <2>1, <2>2, <2>3, <2>4, <2>5 DEF IInv
<1>3. ASSUME NEW h \in Holders, Return(h) PROVE IInv'
  BY <1>3, ReturnInv
<1>4. ASSUME NEW c \in Contexts, DestroyContext(c) PROVE IInv'
  BY <1>4, DestroyContextInv
<1>5. CASE Destruct
  BY <1>5, EnvironmentInv DEF Destruct, DestroyFree, IInv, TypeOK
<1>6. ASSUME NEW h \in Holders, DeviceSignal(h) PROVE IInv'
  BY <1>6, EnvironmentInv DEF DeviceSignal, IInv, TypeOK, NoDanglingEvent
<1>7. ASSUME NEW e \in Events, AppCreateEvent(e) PROVE IInv'
  <2>1. alive => ~QueryEvent(e)
    BY <1>7, CachedEventsExist DEF AppCreateEvent
  <2>. QED  BY <1>7, <2>1, EnvironmentInv DEF AppCreateEvent, IInv, TypeOK, NoDanglingEvent
<1>8. ASSUME NEW e \in Events, AppResetEvent(e) PROVE IInv'
  BY <1>8, EnvironmentInv DEF AppResetEvent, IInv, TypeOK, NoDanglingEvent
<1>9. ASSUME NEW e \in Events, KeepsNamedEvents(e), AppDestroyEvent(e) PROVE IInv'
  <2>1. stale' = stale
    BY <1>9 DEF KeepsNamedEvents, AppDestroyEvent
  <2>. QED  BY <1>9, <2>1, EnvironmentInv
            DEF KeepsNamedEvents, AppDestroyEvent, IInv, TypeOK, NoDanglingEvent
<1>10. CASE UNCHANGED vars
  BY <1>10, StutterInv
<1>. QED
  BY <1>1, <1>2, <1>3, <1>4, <1>5, <1>6, <1>7, <1>8, <1>9, <1>10 DEF Next, CacheStep

-----------------------------------------------------------------------------
(* Safety.                                                                 *)

LEMMA SpecInv == Spec => []IInv
BY InitInv, NextInv, PTL DEF Spec

\* The variables keep their types.
THEOREM TypeCorrect == Spec => []TypeOK
<1>1. IInv => TypeOK
  BY DEF IInv
<1>. QED  BY <1>1, SpecInv, PTL

\* GetEvent never hands out an event that another command holds, and no
\* event is twice in the free lists.
THEOREM EventsExclusive == Spec => []OnePlace
<1>1. IInv => OnePlace
  BY DEF IInv
<1>. QED  BY <1>1, SpecInv, PTL

\* The assertion of GetEvent that the event it hands out is not ready never
\* fails, provided the application keeps the events its commands name.
THEOREM HandedOutReady == Spec => []FreeEventsReady
<1>1. IInv => FreeEventsReady
  BY DEF IInv
<1>. QED  BY <1>1, SpecInv, PTL

\* ReleaseContext destroys no event that a command holds.
THEOREM HeldEventsExist == Spec => []NoDanglingEvent
<1>1. IInv => NoDanglingEvent
  BY DEF IInv
<1>. QED  BY <1>1, SpecInv, PTL

\* No event of a pool gets lost.
THEOREM EventsConserved == Spec => []Conserved
<1>1. IInv => Conserved
  BY DEF IInv
<1>. QED  BY <1>1, SpecInv, PTL

\* When no command holds an event of a context, zeContextDestroy releases it:
\* all its events are then free, and a free list has no repetitions.
THEOREM ReleasedCompletely == Spec => []ContextReleasable
<1>1. ASSUME IInv, NEW c \in Contexts, \A h \in Holders : held[h] \notin EventsOf(c)
      PROVE  AllReleased(c)
  <2>. DEFINE s == event_map_[c]
  <2>1. s \in Seq(Events) /\ Len(s) \in Nat /\ s \in [1..Len(s) -> Events]
    BY <1>1 DEF IInv, TypeOK
  <2>2. NoRepeat(s) /\ \A i \in DOMAIN s : event_info_map_[s[i]] = c
    BY <1>1 DEF IInv, OnePlace, NoRepeat
  <2>3. EventsOf(c) \subseteq Elements(s)
    BY <1>1 DEF IInv, Conserved
  <2>4. Elements(s) \subseteq EventsOf(c)
    BY <2>1, <2>2 DEF Elements, EventsOf
  <2>5. Cardinality(Elements(s)) = Len(s)
    BY <2>1, <2>2, StackCardinality
  <2>6. Elements(s) = EventsOf(c)
    BY <2>3, <2>4
  <2>. QED  BY <1>1, <2>5, <2>6 DEF IInv, Conserved, AllReleased
<1>2. IInv => ContextReleasable
  BY <1>1 DEF ContextReleasable
<1>. QED  BY <1>2, SpecInv, PTL

-----------------------------------------------------------------------------
(* Refinement: the steps of the cache are leases, returns and retirements  *)
(* of idle events.                                                         *)

LEMMA InitRefines == Init => Abstract!LeaseInit
<1>. SUFFICES ASSUME Init PROVE Abstract!LeaseInit
  OBVIOUS
<1>1. \A h \in Holders : CachedEventOf(h) = None
  BY DEF Init, CachedEventOf
<1>2. FreeEvents = {}
  BY DEF Init, CacheInit, FreeEvents, Elements
<1>. QED  BY <1>1, <1>2 DEF Abstract!LeaseInit

\* An event that no command holds is not leased.
LEMMA NotLeased ==
  ASSUME NEW e, e # None, \A h \in Holders : held[h] # e
  PROVE  e \notin Abstract!Leased
BY DEF Abstract!Leased, CachedEventOf

LEMMA AcquireRefines ==
  ASSUME IInv, NEW h \in Holders, NEW c \in Contexts, NEW e \in Events,
         alive, held[h] = None, GetEvent(c, e),
         held' = [held EXCEPT ![h] = e], UNCHANGED <<stale, alive>>
  PROVE  Abstract!Lease(h, e)
<1>1. held'[h] = e /\ \A g \in Holders \ {h} : held'[g] = held[g]
  BY DEF IInv, TypeOK
<1>2. PICK new \in SUBSET Events, s \in Seq(Events) :
        /\ s # <<>> /\ e = s[Len(s)] /\ NoRepeat(s)
        /\ event_map_' = [event_map_ EXCEPT ![c] = SubSeq(s, 1, Len(s) - 1)]
        /\ Elements(s) = Elements(event_map_[c]) \cup new
        /\ event_info_map_'[e] = c
        /\ \A x \in Events \ new : event_info_map_'[x] = event_info_map_[x]
        /\ \A x \in new \cup {e} : x # None /\ \A g \in Holders : held[g] # x
        /\ \A d \in Contexts \ {c} : e \notin Elements(event_map_[d])
  <2>1. CASE TakeFree(c, e)
    <3>. DEFINE s == event_map_[c]
    <3>1. /\ s \in Seq(Events) /\ s # <<>> /\ e = s[Len(s)]
          /\ event_map_' = [event_map_ EXCEPT ![c] = SubSeq(s, 1, Len(s) - 1)]
          /\ event_info_map_' = event_info_map_
      BY <2>1 DEF TakeFree, PopBack, IInv, TypeOK
    <3>2. Len(s) \in DOMAIN s
      BY <3>1
    <3>3. NoRepeat(s) /\ event_info_map_[e] = c /\ e \in Elements(s)
      BY <3>1, <3>2 DEF IInv, OnePlace, NoRepeat, Elements
    <3>4. QueryEvent(e) /\ e # None
      BY <3>3, HandleAssumption DEF QueryEvent
    <3>5. \A g \in Holders : held[g] # e
      BY <3>3, <3>4 DEF IInv, OnePlace
    <3>6. \A d \in Contexts \ {c} : e \notin Elements(event_map_[d])
      BY <3>3 DEF IInv, OnePlace, Elements
    <3>. {} \in SUBSET Events /\ s \in Seq(Events)
      BY <3>1
    <3>. WITNESS {} \in SUBSET Events, s \in Seq(Events)
    <3>. QED  BY <3>1, <3>3, <3>4, <3>5, <3>6
  <2>2. CASE GrowPool(c, e)
    <3>1. PICK s \in NewPools :
            /\ e = s[Len(s)]
            /\ event_map_' = [event_map_ EXCEPT ![c] = SubSeq(s, 1, Len(s) - 1)]
            /\ event_info_map_' =
                 [x \in Events |-> IF x \in Elements(s) THEN c ELSE event_info_map_[x]]
      BY <2>2 DEF GrowPool, PopBack
    <3>2. s \in Seq(Events) /\ s # <<>> /\ Len(s) \in DOMAIN s /\ NoRepeat(s)
      BY PoolSizeAssumption DEF NewPools, NoRepeat
    <3>3. Elements(s) \in SUBSET Events /\ \A x \in Elements(s) : status[x] = "none"
      BY DEF NewPools, Elements
    <3>4. e \in Elements(s) /\ event_info_map_'[e] = c
      BY <3>1, <3>2 DEF Elements
    <3>5. \A x \in Elements(s) : x # None /\ \A g \in Holders : held[g] # x
      BY <3>3, HandleAssumption DEF IInv, NoDanglingEvent
    <3>6. event_info_map_[e] = None
      BY <3>3, <3>4, CachedEventsExist DEF QueryEvent
    <3>7. \A d \in Contexts : e \notin Elements(event_map_[d])
      BY <3>6, HandleAssumption DEF IInv, OnePlace, Elements
    <3>8. Elements(event_map_[c]) = {}
      BY <2>2 DEF GrowPool, Elements
    <3>9. \A x \in Events \ Elements(s) : event_info_map_'[x] = event_info_map_[x]
      BY <3>1
    <3>10. Elements(s) \cup {e} = Elements(s)
      BY <3>4
    <3>. Elements(s) \in SUBSET Events /\ s \in Seq(Events)
      BY <3>2, <3>3
    <3>. WITNESS Elements(s) \in SUBSET Events, s \in Seq(Events)
    <3>. QED  BY <3>1, <3>2, <3>4, <3>5, <3>7, <3>8, <3>9, <3>10
  <2>. QED  BY <2>1, <2>2 DEF GetEvent
<1>. DEFINE r == SubSeq(s, 1, Len(s) - 1)
<1>3. Elements(r) = Elements(s) \ {e}
  <2>1. /\ Len(s) \in DOMAIN s
        /\ \A i \in DOMAIN r : i \in DOMAIN s /\ i # Len(s) /\ r[i] = s[i]
        /\ Elements(s) \subseteq Elements(r) \cup {e}
    BY <1>2, PopFacts
  <2>. HIDE DEF r
  <2>2. Elements(r) \subseteq Elements(s) /\ e \notin Elements(r)
    BY <2>1, <1>2 DEF Elements, NoRepeat
  <2>. QED  BY <2>1, <2>2
<1>. HIDE DEF r
<1>4. event_map_'[c] = r /\ \A d \in Contexts \ {c} : event_map_'[d] = event_map_[d]
  BY <1>2 DEF IInv, TypeOK, r
<1>5. FreeEvents' = (FreeEvents \cup new) \ {e}
  <2>1. FreeEvents = UNION {Elements(event_map_[d]) : d \in Contexts}
    BY DEF FreeEvents
  <2>2. FreeEvents' = UNION {Elements(event_map_'[d]) : d \in Contexts}
    BY DEF FreeEvents
  <2>3. /\ Elements(event_map_'[c]) = (Elements(event_map_[c]) \cup new) \ {e}
        /\ \A d \in Contexts \ {c} : Elements(event_map_'[d]) = Elements(event_map_[d]) \ {e}
    <3>1. Elements(event_map_'[c]) = Elements(s) \ {e}
      BY <1>3, <1>4
    <3>2. Elements(s) = Elements(event_map_[c]) \cup new
      BY <1>2
    <3>3. ASSUME NEW d \in Contexts \ {c}
          PROVE  Elements(event_map_'[d]) = Elements(event_map_[d]) \ {e}
      <4>1. event_map_'[d] = event_map_[d]
        BY <1>4
      <4>2. e \notin Elements(event_map_[d])
        BY <1>2
      <4>. QED  BY <4>1, <4>2
    <3>. QED  BY <3>1, <3>2, <3>3
  <2>4. ASSUME NEW x \in FreeEvents' PROVE x \in (FreeEvents \cup new) \ {e}
    <3>1. PICK d \in Contexts : x \in Elements(event_map_'[d])
      BY <2>2
    <3>. QED  BY <3>1, <2>1, <2>3
  <2>5. ASSUME NEW x \in (FreeEvents \cup new) \ {e} PROVE x \in FreeEvents'
    <3>1. PICK d \in Contexts : x \in Elements(event_map_[d]) \/ (d = c /\ x \in new)
      BY <2>1
    <3>2. x \in Elements(event_map_'[d])
      BY <3>1, <2>3
    <3>. QED  BY <3>2, <2>2
  <2>. QED  BY <2>4, <2>5
<1>6. \A x \in new \cup {e} : x \notin Abstract!Leased
  BY <1>2, NotLeased
<1>7. CachedEventOf(h) = None /\ CachedEventOf(h)' = e
  BY <1>1, <1>2, HandleAssumption DEF CachedEventOf, QueryEvent
<1>8. \A g \in Holders \ {h} : CachedEventOf(g)' = CachedEventOf(g)
  <2>. SUFFICES ASSUME NEW g \in Holders \ {h} PROVE CachedEventOf(g)' = CachedEventOf(g)
    OBVIOUS
  <2>1. held'[g] = held[g] /\ held[g] \in Events \cup {None}
    BY <1>1 DEF IInv, TypeOK
  <2>2. held[g] # None => QueryEvent(held[g])' = QueryEvent(held[g])
    BY <2>1, <1>2 DEF QueryEvent
  <2>. QED  BY <2>1, <2>2, <1>2 DEF CachedEventOf, QueryEvent
<1>9. [g \in Holders |-> CachedEventOf(g)]' =
        [[g \in Holders |-> CachedEventOf(g)] EXCEPT ![h] = e]
  BY <1>7, <1>8
<1>. QED  BY <1>2, <1>5, <1>6, <1>7, <1>9 DEF Abstract!Lease

LEMMA ReturnRefines ==
  ASSUME IInv, NEW h \in Holders, Return(h)
  PROVE  Abstract!GiveBack(h) \/ UNCHANGED Abstract!leaseVars
<1>. DEFINE e == held[h]
<1>1. e \in Events /\ e # None /\ alive /\ ReleaseEvent(e) /\ alive' = alive
  BY DEF Return, IInv, TypeOK
<1>2. held'[h] = None /\ \A g \in Holders \ {h} : held'[g] = held[g]
  BY DEF Return, IInv, TypeOK
<1>3. event_info_map_' = event_info_map_
  BY <1>1 DEF ReleaseEvent
<1>4. CachedEventOf(h)' = None
  BY <1>2 DEF CachedEventOf
<1>5. \A g \in Holders \ {h} : CachedEventOf(g)' = CachedEventOf(g)
  BY <1>2, <1>3 DEF CachedEventOf, QueryEvent
<1>6. CASE ~QueryEvent(e)
  <2>1. event_map_' = event_map_
    BY <1>1, <1>6 DEF ReleaseEvent
  <2>2. CachedEventOf(h) = None
    BY <1>6 DEF CachedEventOf
  <2>3. [g \in Holders |-> CachedEventOf(g)]' = [g \in Holders |-> CachedEventOf(g)]
    BY <1>4, <1>5, <2>2
  <2>4. FreeEvents' = FreeEvents
    BY <1>1, <2>1 DEF FreeEvents
  <2>. QED  BY <2>3, <2>4 DEF Abstract!leaseVars
<1>7. CASE QueryEvent(e)
  <2>. DEFINE c == event_info_map_[e]
  <2>1. c \in Contexts /\ event_map_[c] \in Seq(Events)
    BY <1>1, <1>7 DEF IInv, TypeOK, QueryEvent
  <2>2. event_map_' = [event_map_ EXCEPT ![c] = Append(@, e)]
    BY <1>1, <1>7 DEF ReleaseEvent
  <2>3. Elements(Append(event_map_[c], e)) = Elements(event_map_[c]) \cup {e}
    BY <1>1, <2>1, PushFacts
  <2>. HIDE DEF c
  <2>4. /\ Elements(event_map_'[c]) = Elements(event_map_[c]) \cup {e}
        /\ \A d \in Contexts \ {c} : event_map_'[d] = event_map_[d]
    BY <2>1, <2>2, <2>3 DEF IInv, TypeOK
  <2>5. FreeEvents' = FreeEvents \cup {e}
    <3>1. /\ FreeEvents = UNION {Elements(event_map_[d]) : d \in Contexts}
          /\ FreeEvents' = UNION {Elements(event_map_'[d]) : d \in Contexts}
      BY <1>1 DEF FreeEvents
    <3>2. ASSUME NEW x \in FreeEvents' PROVE x \in FreeEvents \cup {e}
      <4>1. PICK d \in Contexts : x \in Elements(event_map_'[d])
        BY <3>1
      <4>. QED  BY <3>1, <4>1, <2>4
    <3>3. ASSUME NEW x \in FreeEvents \cup {e} PROVE x \in FreeEvents'
      <4>1. PICK d \in Contexts : x \in Elements(event_map_[d]) \/ (d = c /\ x = e)
        BY <3>1, <2>1
      <4>. QED  BY <3>1, <4>1, <2>4
    <3>. QED  BY <3>2, <3>3
  <2>6. CachedEventOf(h) = e
    BY <1>1, <1>7 DEF CachedEventOf
  <2>7. [g \in Holders |-> CachedEventOf(g)]' =
          [[g \in Holders |-> CachedEventOf(g)] EXCEPT ![h] = None]
    BY <1>4, <1>5
  <2>. QED  BY <2>5, <2>6, <2>7, <1>1 DEF Abstract!GiveBack
<1>. QED  BY <1>6, <1>7

LEMMA DestroyContextRefines ==
  ASSUME IInv, NEW c \in Contexts, DestroyContext(c)
  PROVE  \E S \in SUBSET FreeEvents : Abstract!Retire(S)
<1>1. alive /\ alive' = alive /\ held' = held /\ ReleaseContext(c)
  BY DEF DestroyContext
<1>2. CASE ~AllReleased(c)
  <2>1. event_map_' = event_map_ /\ event_info_map_' = event_info_map_
    BY <1>1, <1>2 DEF ReleaseContext
  <2>2. FreeEvents' = FreeEvents \ {} /\ {} \in SUBSET FreeEvents
    BY <1>1, <2>1 DEF FreeEvents
  <2>3. [g \in Holders |-> CachedEventOf(g)]' = [g \in Holders |-> CachedEventOf(g)]
    BY <1>1, <2>1 DEF CachedEventOf, QueryEvent
  <2>. QED  BY <2>2, <2>3 DEF Abstract!Retire
<1>3. CASE AllReleased(c)
  <2>. DEFINE G == Elements(event_map_[c])
  <2>1. /\ event_info_map_' = [e \in Events |-> IF e \in G THEN None ELSE event_info_map_[e]]
        /\ event_map_' = [event_map_ EXCEPT ![c] = <<>>]
    BY <1>1, <1>3 DEF ReleaseContext
  <2>2. Elements(event_map_'[c]) = {} /\ \A d \in Contexts \ {c} : event_map_'[d] = event_map_[d]
    BY <2>1 DEF IInv, TypeOK, Elements
  <2>3. \A d \in Contexts \ {c} : G \cap Elements(event_map_[d]) = {}
    BY DEF IInv, OnePlace, Elements
  <2>4. \A h \in Holders : held[h] # None => held[h] \in Events
    BY DEF IInv, TypeOK
  <2>5. \A h \in Holders : CachedEventOf(h) # None => held[h] \notin G
    BY DEF IInv, OnePlace, CachedEventOf
  <2>. HIDE DEF G
  <2>6. \A h \in Holders : CachedEventOf(h)' = CachedEventOf(h)
    <3>. SUFFICES ASSUME NEW h \in Holders PROVE CachedEventOf(h)' = CachedEventOf(h)
      OBVIOUS
    <3>1. CASE held[h] = None
      BY <3>1, <1>1 DEF CachedEventOf
    <3>2. CASE held[h] # None /\ event_info_map_[held[h]] = None
      BY <3>2, <1>1, <2>1, <2>4 DEF CachedEventOf, QueryEvent
    <3>3. CASE held[h] # None /\ event_info_map_[held[h]] # None
      BY <3>3, <1>1, <2>1, <2>4, <2>5 DEF CachedEventOf, QueryEvent
    <3>. QED  BY <3>1, <3>2, <3>3
  <2>7. [g \in Holders |-> CachedEventOf(g)]' = [g \in Holders |-> CachedEventOf(g)]
    BY <2>6
  <2>8. FreeEvents' = FreeEvents \ G /\ G \in SUBSET FreeEvents
    <3>1. /\ FreeEvents = UNION {Elements(event_map_[d]) : d \in Contexts}
          /\ FreeEvents' = UNION {Elements(event_map_'[d]) : d \in Contexts}
      BY <1>1 DEF FreeEvents
    <3>2. ASSUME NEW x \in FreeEvents' PROVE x \in FreeEvents \ G
      <4>1. PICK d \in Contexts : x \in Elements(event_map_'[d])
        BY <3>1
      <4>. QED  BY <3>1, <4>1, <2>2, <2>3
    <3>3. ASSUME NEW x \in FreeEvents \ G PROVE x \in FreeEvents'
      <4>1. PICK d \in Contexts : x \in Elements(event_map_[d])
        BY <3>1
      <4>2. d # c
        BY <4>1 DEF G
      <4>. QED  BY <3>1, <4>1, <4>2, <2>2
    <3>. QED  BY <3>1, <3>2, <3>3 DEF G
  <2>. QED  BY <2>7, <2>8 DEF Abstract!Retire
<1>. QED  BY <1>2, <1>3

LEMMA EnvironmentRefines ==
  ASSUME UNCHANGED <<event_map_, event_info_map_, held, alive>>
  PROVE  UNCHANGED Abstract!leaseVars
<1>1. FreeEvents' = FreeEvents
  BY DEF FreeEvents
<1>2. [g \in Holders |-> CachedEventOf(g)]' = [g \in Holders |-> CachedEventOf(g)]
  BY DEF CachedEventOf, QueryEvent
<1>. QED  BY <1>1, <1>2 DEF Abstract!leaseVars

LEMMA NextRefines == IInv /\ [Next]_vars => [Abstract!LeaseNext]_Abstract!leaseVars
<1>. SUFFICES ASSUME IInv, [Next]_vars
              PROVE  Abstract!LeaseNext \/ UNCHANGED Abstract!leaseVars
  OBVIOUS
<1>1. ASSUME NEW h \in Holders, NEW c \in Contexts, Acquire(h, c) PROVE Abstract!LeaseNext
  BY <1>1, AcquireRefines DEF Acquire, Abstract!LeaseNext
<1>2. ASSUME NEW h \in Holders, NEW e \in Events, UseAppEvent(h, e)
      PROVE  UNCHANGED Abstract!leaseVars
  <2>1. /\ held[h] = None /\ event_info_map_[e] = None
        /\ UNCHANGED <<event_map_, event_info_map_, alive>>
        /\ held'[h] = e /\ \A g \in Holders \ {h} : held'[g] = held[g]
    BY <1>2 DEF UseAppEvent, QueryEvent, IInv, TypeOK
  <2>2. FreeEvents' = FreeEvents
    BY <2>1 DEF FreeEvents
  <2>3. \A g \in Holders : CachedEventOf(g)' = CachedEventOf(g)
    BY <2>1 DEF CachedEventOf, QueryEvent
  <2>4. [g \in Holders |-> CachedEventOf(g)]' = [g \in Holders |-> CachedEventOf(g)]
    BY <2>3
  <2>. QED  BY <2>2, <2>4 DEF Abstract!leaseVars
<1>3. ASSUME NEW h \in Holders, Return(h)
      PROVE  Abstract!LeaseNext \/ UNCHANGED Abstract!leaseVars
  BY <1>3, ReturnRefines DEF Abstract!LeaseNext
<1>4. ASSUME NEW c \in Contexts, DestroyContext(c) PROVE Abstract!LeaseNext
  BY <1>4, DestroyContextRefines DEF Abstract!LeaseNext
<1>5. CASE Destruct
  <2>1. FreeEvents' = FreeEvents \ FreeEvents /\ FreeEvents \in SUBSET FreeEvents
    BY <1>5 DEF Destruct, FreeEvents
  <2>2. [g \in Holders |-> CachedEventOf(g)]' = [g \in Holders |-> CachedEventOf(g)]
    BY <1>5 DEF Destruct, DestroyFree, CachedEventOf, QueryEvent
  <2>. QED  BY <2>1, <2>2 DEF Abstract!LeaseNext, Abstract!Retire
<1>6. CASE \/ \E h \in Holders : DeviceSignal(h)
           \/ \E e \in Events : AppCreateEvent(e)
           \/ \E e \in Events : AppResetEvent(e)
           \/ \E e \in Events : KeepsNamedEvents(e) /\ AppDestroyEvent(e)
           \/ UNCHANGED vars
  BY <1>6, EnvironmentRefines
     DEF DeviceSignal, AppCreateEvent, AppResetEvent, AppDestroyEvent, vars
<1>. QED  BY <1>1, <1>2, <1>3, <1>4, <1>5, <1>6 DEF Next, CacheStep

\* The cache keeps the promise of EventLease: each event it hands out is
\* leased to one command until returned, and only idle events are destroyed.
THEOREM CacheImplementsLease == Spec => ImplementsLease
<1>1. Init => Abstract!LeaseInit
  BY InitRefines
<1>2. IInv /\ [Next]_vars => [Abstract!LeaseNext]_Abstract!leaseVars
  BY NextRefines
<1>. QED  BY <1>1, <1>2, SpecInv, PTL DEF Spec, ImplementsLease, Abstract!LeaseSpec
=============================================================================
