--------------------------- MODULE LauncherProofs ---------------------------
(***************************************************************************)
(* Proofs about Launcher for any commands, however long, and any number of *)
(* processes.  The parser recurses from the end of the command line, so    *)
(* what it returns for any line is shown by looking at the last argument   *)
(* at which it would return something else.                                *)
(***************************************************************************)
EXTENDS Launcher, SequenceTheorems, WellFoundedInduction, TLAPS

NatOrder == {pair \in Nat \X Nat : pair[1] < pair[2]}

LEMMA LeastNat ==
  ASSUME NEW S, S \subseteq Nat, S # {}
  PROVE  \E m \in S : \A n \in S : m <= n
<1>1. IsWellFoundedOn(NatOrder, Nat)
  BY NatLessThanWellFounded DEF OpToRel, NatOrder
<1>2. PICK m \in S : \A n \in S : ~(<<n, m>> \in NatOrder)
  BY <1>1, WFMin, Zenon
<1>3. \A n \in S : ~(n < m)
  BY <1>2 DEF NatOrder
<1>. QED  BY <1>3

LEMMA GreatestUpTo ==
  ASSUME NEW S, NEW last \in Nat, S \subseteq 0..last, S # {}
  PROVE  \E m \in S : \A n \in S : n <= m
<1>. DEFINE Rest == {last - n : n \in S}
<1>1. Rest \subseteq Nat /\ Rest # {}
  <2>1. \A n \in S : last - n \in Nat
    OBVIOUS
  <2>. QED  BY <2>1
<1>. HIDE DEF Rest
<1>2. PICK r \in Rest : \A n \in Rest : r <= n
  BY <1>1, LeastNat
<1>3. PICK m \in S : r = last - m
  BY <1>2 DEF Rest
<1>4. \A n \in S : last - m <= last - n
  BY <1>2, <1>3 DEF Rest
<1>. QED  BY <1>4

-----------------------------------------------------------------------------
(* What the parser returns.                                                *)

\* At argument i, if f is what it returns at the ones behind it.
Result(args, i, f) ==
  IF i > Len(args) \/ args[i] \notin Options
    THEN [flags |-> {}, log |-> None, app_index |-> 1]
  ELSE IF args[i] = "version"
    THEN [flags |-> {}, log |-> None, app_index |-> 0]
  ELSE IF args[i] # "output"
    THEN [f[i + 1] EXCEPT !.flags = @ \cup {args[i]},
                          !.app_index = IF @ <= 0 THEN @ ELSE @ + 1]
  ELSE IF i = Len(args)
    THEN [flags |-> {"LOG_TO_FILE"}, log |-> None, app_index |-> -1]
  ELSE [flags |-> f[i + 2].flags \cup {"LOG_TO_FILE"},
        log |-> IF f[i + 2].log = None THEN args[i + 1] ELSE f[i + 2].log,
        app_index |-> IF f[i + 2].app_index <= 0 THEN f[i + 2].app_index
                      ELSE AppIndexAfterOutput(f[i + 2].app_index)]

\* The results of which each is made of those behind it.
Results(args, f) == f = [i \in 1..(Len(args) + 1) |-> Result(args, i, f)]

LEMMA ResultOfRest ==
  ASSUME NEW args \in Seq(STRING), NEW i \in 1..(Len(args) + 1), NEW f, NEW g,
         \A j \in 1..(Len(args) + 1) : i < j => f[j] = g[j]
  PROVE  Result(args, i, f) = Result(args, i, g)
<1>1. Len(args) \in Nat
  BY LenProperties
<1>2. CASE i > Len(args) \/ args[i] \notin Options
  BY <1>2 DEF Result
<1>3. CASE i <= Len(args) /\ args[i] # "output"
  <2>1. f[i + 1] = g[i + 1]
    BY <1>1, <1>3
  <2>. QED  BY <1>3, <2>1 DEF Result
<1>4. CASE i = Len(args) /\ args[i] = "output"
  BY <1>1, <1>4 DEF Result, Options
<1>5. CASE i < Len(args) /\ args[i] = "output"
  <2>1. f[i + 2] = g[i + 2]
    BY <1>1, <1>5
  <2>. QED  BY <1>5, <2>1 DEF Result
<1>. QED  BY <1>1, <1>2, <1>3, <1>4, <1>5

\* There are such results.
LEMMA ResultsExist ==
  ASSUME NEW args \in Seq(STRING)
  PROVE  \E f : Results(args, f)
<1>. DEFINE last == Len(args) + 1
            Good(m, f) == /\ f = [i \in 1..last |-> f[i]]
                          /\ \A i \in m..last : f[i] = Result(args, i, f)
            bad == {m \in 1..last : ~\E f : Good(m, f)}
<1>1. Len(args) \in Nat /\ last \in Nat \ {0}
  BY LenProperties
<1>2. bad = {}
  <2>. SUFFICES ASSUME bad # {} PROVE FALSE
    OBVIOUS
  <2>1. bad \subseteq 0..last
    BY <1>1
  <2>. HIDE DEF bad
  <2>2. PICK m \in bad : \A n \in bad : n <= m
    BY <1>1, <2>1, GreatestUpTo
  <2>3. m \in 1..last /\ ~\E f : Good(m, f)
    BY <2>2 DEF bad
  <2>4. \E f : Good(m, f)
    <3>1. \E f : f = [i \in 1..last |-> f[i]] /\ \A i \in (m + 1)..last : f[i] = Result(args, i, f)
      <4>1. CASE m = last
        <5>. DEFINE e == [i \in 1..last |-> {}]
        <5>1. e = [i \in 1..last |-> e[i]] /\ \A i \in (m + 1)..last : FALSE
          BY <1>1, <4>1
        <5>. HIDE DEF e
        <5>. QED  BY <5>1
      <4>2. CASE m # last
        <5>1. m + 1 \in 1..last /\ ~(m + 1 <= m)
          BY <1>1, <2>3, <4>2
        <5>2. m + 1 \notin bad
          BY <2>2, <5>1
        <5>. QED  BY <5>1, <5>2 DEF bad
      <4>. QED  BY <4>1, <4>2
    <3>2. PICK f : /\ f = [i \in 1..last |-> f[i]]
                   /\ \A i \in (m + 1)..last : f[i] = Result(args, i, f)
      BY <3>1
    <3>. DEFINE g == [i \in 1..last |-> IF i = m THEN Result(args, m, f) ELSE f[i]]
    <3>3. /\ g = [i \in 1..last |-> g[i]] /\ g[m] = Result(args, m, f)
          /\ \A i \in 1..last : i # m => g[i] = f[i]
      BY <2>3
    <3>. HIDE DEF g
    <3>4. \A i \in m..last : Result(args, i, f) = Result(args, i, g)
      <4>. SUFFICES ASSUME NEW i \in m..last PROVE Result(args, i, f) = Result(args, i, g)
        OBVIOUS
      <4>1. i \in 1..last /\ \A j \in 1..last : i < j => f[j] = g[j]
        BY <1>1, <2>3, <3>3
      <4>. QED  BY <4>1, ResultOfRest
    <3>5. \A i \in m..last : g[i] = Result(args, i, g)
      <4>. SUFFICES ASSUME NEW i \in m..last PROVE g[i] = Result(args, i, g)
        OBVIOUS
      <4>1. CASE i = m
        BY <3>3, <3>4, <4>1
      <4>2. CASE i # m
        <5>1. i \in (m + 1)..last /\ i \in 1..last
          BY <1>1, <2>3, <4>2
        <5>. QED  BY <3>2, <3>3, <3>4, <4>2, <5>1
      <4>. QED  BY <4>1, <4>2
    <3>6. Good(m, g)
      BY <3>3, <3>5
    <3>. QED  BY <3>6
  <2>. QED  BY <2>3, <2>4
<1>3. PICK f : Good(1, f)
  <2>1. 1 \in 1..last /\ 1 \notin bad
    BY <1>1, <1>2
  <2>2. \E f : Good(1, f)
    BY <2>1
  <2>. QED  BY <2>2
<1>4. f = [i \in 1..last |-> Result(args, i, f)]
  BY <1>3
<1>. QED  BY <1>4 DEF Results

\* The parser returns the first of them.
LEMMA ParsedResult ==
  ASSUME NEW args \in Seq(STRING)
  PROVE  \E f : Parsed(args) = f[1] /\ \A i \in 1..(Len(args) + 1) : f[i] = Result(args, i, f)
<1>. DEFINE f == CHOOSE g : Results(args, g)
<1>1. Results(args, f)
  BY ResultsExist, Zenon
<1>2. Parsed(args) = f[1]
  BY DEF Parsed, Results, Result
<1>. HIDE DEF f
<1>3. \A i \in 1..(Len(args) + 1) : f[i] = Result(args, i, f)
  BY <1>1 DEF Results
<1>. QED  BY <1>2, <1>3

\* The results there are: the command, nothing to run, ...
IsFirst(args, i, r) ==
  /\ i > Len(args) \/ args[i] \notin Options
  /\ r = [flags |-> {}, log |-> None, app_index |-> 1]
IsLast(r) ==
  r.app_index <= 0 /\ r \in [flags : {{}, {"LOG_TO_FILE"}}, log : {None}, app_index : Int]

\* ... an option, the name of the log file.
IsFlag(args, i, r, rest) ==
  /\ i <= Len(args) /\ args[i] \in Flags
  /\ r = [rest EXCEPT !.flags = @ \cup {args[i]},
                      !.app_index = IF @ <= 0 THEN @ ELSE @ + 1]
IsOutput(args, i, r, rest) ==
  /\ i < Len(args) /\ args[i] = "output"
  /\ r = [flags |-> rest.flags \cup {"LOG_TO_FILE"},
          log |-> IF rest.log = None THEN args[i + 1] ELSE rest.log,
          app_index |-> IF rest.app_index <= 0 THEN rest.app_index ELSE rest.app_index + 2]

LEMMA ResultCases ==
  ASSUME NEW args \in Seq(STRING), NEW f, NEW i \in 1..(Len(args) + 1),
         f[i] = Result(args, i, f)
  PROVE  \/ IsFirst(args, i, f[i])
         \/ IsLast(f[i])
         \/ IsFlag(args, i, f[i], f[i + 1])
         \/ IsOutput(args, i, f[i], f[i + 2])
<1>1. Len(args) \in Nat
  BY LenProperties
<1>2. CASE i > Len(args) \/ args[i] \notin Options
  BY <1>2 DEF Result, IsFirst
<1>3. CASE i <= Len(args) /\ args[i] = "version"
  <2>1. f[i] = [flags |-> {}, log |-> None, app_index |-> 0]
    BY <1>1, <1>3 DEF Result, Options
  <2>. QED  BY <2>1 DEF IsLast
<1>4. CASE i <= Len(args) /\ args[i] \in Flags
  <2>1. args[i] \in Options /\ args[i] # "version" /\ args[i] # "output"
    BY <1>4 DEF Options, Flags
  <2>. QED  BY <1>1, <1>4, <2>1 DEF Result, IsFlag
<1>5. CASE i = Len(args) /\ args[i] = "output"
  <2>1. f[i] = [flags |-> {"LOG_TO_FILE"}, log |-> None, app_index |-> -1]
    BY <1>1, <1>5 DEF Result, Options
  <2>. QED  BY <2>1 DEF IsLast
<1>6. CASE i < Len(args) /\ args[i] = "output"
  BY <1>1, <1>6 DEF Result, Options, AppIndexAfterOutput, IsOutput
<1>. QED  BY <1>1, <1>2, <1>3, <1>4, <1>5, <1>6 DEF Options

ResultType ==
  [flags : SUBSET (Flags \cup {"LOG_TO_FILE"}), log : STRING \cup {None}, app_index : Int]

\* A log file is named if, and only if, the parser was told to write one.
LEMMA ResultTypes ==
  ASSUME NEW args \in Seq(STRING), NEW f,
         \A i \in 1..(Len(args) + 1) : f[i] = Result(args, i, f)
  PROVE  \A i \in 1..(Len(args) + 1) :
           /\ f[i] \in ResultType
           /\ f[i].app_index > 0 => (f[i].log # None <=> "LOG_TO_FILE" \in f[i].flags)
<1>. DEFINE last == Len(args) + 1
            Good(i) == /\ f[i] \in ResultType
                       /\ f[i].app_index > 0 => (f[i].log # None <=> "LOG_TO_FILE" \in f[i].flags)
            bad == {i \in 1..last : ~Good(i)}
<1>1. Len(args) \in Nat /\ last \in Nat /\ \A i \in 1..Len(args) : args[i] \in STRING
  BY LenProperties, ElementOfSeq
<1>. SUFFICES ASSUME bad # {} PROVE FALSE
  OBVIOUS
<1>2. bad \subseteq 0..last
  BY <1>1
<1>. HIDE DEF bad
<1>3. PICK i \in bad : \A j \in bad : j <= i
  BY <1>1, <1>2, GreatestUpTo
<1>4. i \in 1..last /\ ~Good(i)
  BY <1>3 DEF bad
<1>5. \A j \in 1..last : i < j => Good(j)
  <2>. SUFFICES ASSUME NEW j \in 1..last, i < j PROVE Good(j)
    OBVIOUS
  <2>1. j \notin bad
    BY <1>1, <1>3, <1>4
  <2>. QED  BY <2>1 DEF bad
<1>6. CASE IsFirst(args, i, f[i])
  BY <1>4, <1>6 DEF ResultType, IsFirst
<1>7. CASE IsLast(f[i])
  <2>1. f[i] \in ResultType
    BY <1>7 DEF ResultType, IsLast
  <2>2. ~(f[i].app_index > 0)
    BY <1>7 DEF IsLast
  <2>. QED  BY <1>4, <2>1, <2>2
<1>8. CASE IsFlag(args, i, f[i], f[i + 1])
  <2>1. i + 1 \in 1..last /\ i < i + 1
    BY <1>1, <1>4, <1>8 DEF IsFlag
  <2>2. Good(i + 1)
    BY <1>5, <2>1
  <2>3. args[i] # "LOG_TO_FILE"
    BY <1>8 DEF Flags, IsFlag
  <2>. DEFINE r == f[i + 1]
  <2>4. /\ r \in ResultType
        /\ r.app_index > 0 => (r.log # None <=> "LOG_TO_FILE" \in r.flags)
    BY <2>2
  <2>5. f[i] = [flags |-> r.flags \cup {args[i]}, log |-> r.log,
                app_index |-> IF r.app_index <= 0 THEN r.app_index ELSE r.app_index + 1]
    BY <1>8, <2>4 DEF ResultType, IsFlag
  <2>. HIDE DEF r
  <2>6. f[i] \in ResultType
    <3>1. r.flags \cup {args[i]} \in SUBSET (Flags \cup {"LOG_TO_FILE"}) /\ r.app_index \in Int
      BY <1>8, <2>4 DEF ResultType, IsFlag
    <3>2. (IF r.app_index <= 0 THEN r.app_index ELSE r.app_index + 1) \in Int
      BY <3>1
    <3>3. r.log \in STRING \cup {None}
      BY <2>4 DEF ResultType
    <3>. QED  BY <2>5, <3>1, <3>2, <3>3 DEF ResultType
  <2>7. f[i].app_index > 0 => r.app_index > 0
    BY <2>4, <2>5 DEF ResultType
  <2>8. f[i].log = r.log /\ ("LOG_TO_FILE" \in f[i].flags <=> "LOG_TO_FILE" \in r.flags)
    BY <2>3, <2>5
  <2>. QED  BY <1>4, <2>4, <2>6, <2>7, <2>8
<1>9. CASE IsOutput(args, i, f[i], f[i + 2])
  <2>1. i + 2 \in 1..last /\ i < i + 2 /\ i + 1 \in 1..Len(args)
    BY <1>1, <1>4, <1>9 DEF IsOutput
  <2>2. Good(i + 2)
    BY <1>5, <2>1
  <2>3. args[i + 1] \in STRING /\ args[i + 1] # None
    BY <1>1, <2>1, NoneAssumption
  <2>. DEFINE r == f[i + 2]
  <2>4. r \in ResultType
    BY <2>2
  <2>5. f[i] = [flags |-> r.flags \cup {"LOG_TO_FILE"},
                log |-> IF r.log = None THEN args[i + 1] ELSE r.log,
                app_index |-> IF r.app_index <= 0 THEN r.app_index ELSE r.app_index + 2]
    BY <1>9 DEF IsOutput
  <2>. HIDE DEF r
  <2>6. f[i] \in ResultType
    BY <2>3, <2>4, <2>5 DEF ResultType
  <2>7. f[i].log # None /\ "LOG_TO_FILE" \in f[i].flags
    BY <2>3, <2>5
  <2>. QED  BY <1>4, <2>6, <2>7
<1>10. /\ i \in 1..(Len(args) + 1) /\ f[i] = Result(args, i, f)
  BY <1>4
<1>. HIDE DEF Good
<1>. QED  BY <1>6, <1>7, <1>8, <1>9, <1>10, ResultCases

-----------------------------------------------------------------------------
(* What is meant, from argument i on: opts are the positions of options    *)
(* and k is that of the command.                                           *)

\* Argument j is the name of the log file the one before it announces.
Named(args, i, opts, j) == j > i /\ j - 1 \in opts /\ args[j - 1] = "output"

Reads(args, i, k, opts) ==
  \A j \in i..(k - 1) :
    IF j \in opts THEN args[j] \in Options \ {"version"} /\ ~(j = k - 1 /\ args[j] = "output")
                       /\ ~Named(args, i, opts, j)
    ELSE Named(args, i, opts, j)

FlagsOf(args, opts) == {IF args[j] = "output" THEN "LOG_TO_FILE" ELSE args[j] : j \in opts}

\* log is the last name, if there is one.
LogOf(args, opts, log) ==
  /\ (\A j \in opts : args[j] # "output") => log = None
  /\ \A j \in opts : args[j] = "output" /\ (\A l \in opts : args[l] = "output" => l <= j)
       => log = args[j + 1]

Understood(args, i, r) ==
  r.app_index > 0 =>
    LET k == i + r.app_index - 1
    IN  /\ k \in i..(Len(args) + 1) /\ (k <= Len(args) => args[k] \notin Options)
        /\ \E opts \in SUBSET (i..(k - 1)) :
             /\ Reads(args, i, k, opts) /\ r.flags = FlagsOf(args, opts) /\ LogOf(args, opts, r.log)

LEMMA UnderstoodFlag ==
  ASSUME NEW args \in Seq(STRING), NEW i \in 1..(Len(args) + 1), NEW r, NEW rest \in ResultType,
         IsFlag(args, i, r, rest), Understood(args, i + 1, rest)
  PROVE  Understood(args, i, r)
<1>1. Len(args) \in Nat /\ i \in Nat /\ rest.app_index \in Int
  BY LenProperties DEF ResultType
<1>2. /\ i <= Len(args) /\ args[i] \in Flags
      /\ r.flags = rest.flags \cup {args[i]} /\ r.log = rest.log
      /\ r.app_index = IF rest.app_index <= 0 THEN rest.app_index ELSE rest.app_index + 1
  BY DEF IsFlag, ResultType
<1>. SUFFICES ASSUME r.app_index > 0
              PROVE  LET k == i + r.app_index - 1
                     IN  /\ k \in i..(Len(args) + 1) /\ (k <= Len(args) => args[k] \notin Options)
                         /\ \E opts \in SUBSET (i..(k - 1)) :
                              /\ Reads(args, i, k, opts) /\ r.flags = FlagsOf(args, opts)
                              /\ LogOf(args, opts, r.log)
  BY DEF Understood
<1>3. rest.app_index > 0 /\ r.app_index = rest.app_index + 1
  BY <1>1, <1>2
<1>4. PICK k \in Int : k = i + r.app_index - 1 /\ k = (i + 1) + rest.app_index - 1
  <2>1. /\ i + r.app_index - 1 \in Int
        /\ i + r.app_index - 1 = (i + 1) + rest.app_index - 1
    BY <1>1, <1>3
  <2>. QED  BY <2>1
<1>5. /\ k \in (i + 1)..(Len(args) + 1) /\ (k <= Len(args) => args[k] \notin Options)
      /\ \E opts \in SUBSET ((i + 1)..(k - 1)) :
           /\ Reads(args, i + 1, k, opts) /\ rest.flags = FlagsOf(args, opts)
           /\ LogOf(args, opts, rest.log)
  BY <1>3, <1>4 DEF Understood
<1>6. PICK others \in SUBSET ((i + 1)..(k - 1)) :
        /\ Reads(args, i + 1, k, others) /\ rest.flags = FlagsOf(args, others)
        /\ LogOf(args, others, rest.log)
  BY <1>5
<1>. DEFINE opts == others \cup {i}
<1>7. args[i] \in Options \ {"version"} /\ args[i] # "output"
  BY <1>2 DEF Flags, Options
<1>8. /\ opts \in SUBSET (i..(k - 1)) /\ i \in opts /\ i \notin others
      /\ \A j \in Int : j # i => (j \in opts <=> j \in others)
  BY <1>1, <1>5
<1>9. others \subseteq opts /\ \A j \in opts : args[j] = "output" => j \in others
  BY <1>7
<1>10. Reads(args, i, k, opts)
  <2>. HIDE DEF opts
  <2>. SUFFICES ASSUME NEW j \in i..(k - 1)
                PROVE  IF j \in opts
                         THEN args[j] \in Options \ {"version"} /\ ~(j = k - 1 /\ args[j] = "output")
                              /\ ~Named(args, i, opts, j)
                         ELSE Named(args, i, opts, j)
    BY DEF Reads
  <2>1. CASE j = i
    BY <1>1, <1>7, <1>8, <2>1 DEF Named
  <2>2. CASE j # i
    <3>1. j \in (i + 1)..(k - 1) /\ (j \in opts <=> j \in others)
      BY <1>1, <1>5, <1>8, <2>2
    <3>2. Named(args, i, opts, j) <=> Named(args, i + 1, others, j)
      <4>1. CASE j = i + 1
        <5>1. j - 1 = i
          BY <1>1, <4>1
        <5>. QED  BY <1>1, <1>7, <4>1, <5>1 DEF Named
      <4>2. CASE j # i + 1
        <5>1. j - 1 \in Int /\ j - 1 # i /\ j > i /\ j > i + 1
          BY <1>1, <3>1, <4>2
        <5>. QED  BY <1>8, <5>1 DEF Named
      <4>. QED  BY <4>1, <4>2
    <3>. QED  BY <1>6, <3>1, <3>2 DEF Reads
  <2>. QED  BY <2>1, <2>2
<1>11. r.flags = FlagsOf(args, opts)
  BY <1>2, <1>6, <1>7 DEF FlagsOf
<1>12. LogOf(args, opts, r.log)
  <2>. HIDE DEF opts
  <2>. QED  BY <1>2, <1>6, <1>9 DEF LogOf
<1>. HIDE DEF opts
<1>13. k \in i..(Len(args) + 1)
  BY <1>1, <1>5
<1>. QED  BY <1>4, <1>5, <1>8, <1>10, <1>11, <1>12, <1>13

LEMMA UnderstoodOutput ==
  ASSUME NEW args \in Seq(STRING), NEW i \in 1..(Len(args) + 1), NEW r, NEW rest \in ResultType,
         IsOutput(args, i, r, rest), Understood(args, i + 2, rest)
  PROVE  Understood(args, i, r)
<1>1. /\ Len(args) \in Nat /\ i \in Nat /\ rest.app_index \in Int
      /\ \A j \in 1..Len(args) : args[j] # None
  BY LenProperties, ElementOfSeq, NoneAssumption DEF ResultType
<1>2. /\ i < Len(args) /\ args[i] = "output"
      /\ r.flags = rest.flags \cup {"LOG_TO_FILE"}
      /\ r.log = IF rest.log = None THEN args[i + 1] ELSE rest.log
      /\ r.app_index = IF rest.app_index <= 0 THEN rest.app_index ELSE rest.app_index + 2
  BY DEF IsOutput
<1>. SUFFICES ASSUME r.app_index > 0
              PROVE  LET k == i + r.app_index - 1
                     IN  /\ k \in i..(Len(args) + 1) /\ (k <= Len(args) => args[k] \notin Options)
                         /\ \E opts \in SUBSET (i..(k - 1)) :
                              /\ Reads(args, i, k, opts) /\ r.flags = FlagsOf(args, opts)
                              /\ LogOf(args, opts, r.log)
  BY DEF Understood
<1>3. rest.app_index > 0 /\ r.app_index = rest.app_index + 2
  BY <1>1, <1>2
<1>4. PICK k \in Int : k = i + r.app_index - 1 /\ k = (i + 2) + rest.app_index - 1
  <2>1. ASSUME NEW m \in Int PROVE i + (m + 2) - 1 = (i + 2) + m - 1 /\ (i + 2) + m - 1 \in Int
    BY <1>1
  <2>. QED  BY <1>1, <1>3, <2>1
<1>5. /\ k \in (i + 2)..(Len(args) + 1) /\ (k <= Len(args) => args[k] \notin Options)
      /\ \E opts \in SUBSET ((i + 2)..(k - 1)) :
           /\ Reads(args, i + 2, k, opts) /\ rest.flags = FlagsOf(args, opts)
           /\ LogOf(args, opts, rest.log)
  BY <1>3, <1>4 DEF Understood
<1>6. PICK others \in SUBSET ((i + 2)..(k - 1)) :
        /\ Reads(args, i + 2, k, others) /\ rest.flags = FlagsOf(args, others)
        /\ LogOf(args, others, rest.log)
  BY <1>5
<1>. DEFINE opts == others \cup {i}
<1>7. args[i] \in Options \ {"version"}
  BY <1>2 DEF Options
<1>8. /\ opts \in SUBSET (i..(k - 1)) /\ i \in opts /\ i \notin others /\ i + 1 \notin opts
      /\ \A j \in Int : j # i => (j \in opts <=> j \in others)
  BY <1>1, <1>5
<1>9. \A j \in others : j > i /\ j \in Int
  BY <1>1, <1>6
<1>10. Reads(args, i, k, opts)
  <2>. HIDE DEF opts
  <2>. SUFFICES ASSUME NEW j \in i..(k - 1)
                PROVE  IF j \in opts
                         THEN args[j] \in Options \ {"version"} /\ ~(j = k - 1 /\ args[j] = "output")
                              /\ ~Named(args, i, opts, j)
                         ELSE Named(args, i, opts, j)
    BY DEF Reads
  <2>1. CASE j = i
    <3>1. i # k - 1
      BY <1>1, <1>5
    <3>. QED  BY <1>1, <1>7, <1>8, <2>1, <3>1 DEF Named
  <2>2. CASE j = i + 1
    <3>1. j > i /\ j - 1 = i
      BY <1>1, <2>2
    <3>. QED  BY <1>2, <1>8, <2>2, <3>1 DEF Named
  <2>3. CASE j \notin {i, i + 1}
    <3>1. j \in (i + 2)..(k - 1) /\ (j \in opts <=> j \in others)
      BY <1>1, <1>5, <1>8, <2>3
    <3>2. Named(args, i, opts, j) <=> Named(args, i + 2, others, j)
      <4>1. CASE j = i + 2
        <5>1. j - 1 = i + 1 /\ ~(j > i + 2)
          BY <1>1, <4>1
        <5>. QED  BY <1>1, <1>8, <5>1 DEF Named
      <4>2. CASE j # i + 2
        <5>1. j - 1 \in Int /\ j - 1 # i /\ j > i /\ j > i + 2
          BY <1>1, <3>1, <4>2
        <5>. QED  BY <1>8, <5>1 DEF Named
      <4>. QED  BY <4>1, <4>2
    <3>. QED  BY <1>6, <3>1, <3>2 DEF Reads
  <2>. QED  BY <2>1, <2>2, <2>3
<1>11. r.flags = FlagsOf(args, opts)
  BY <1>2, <1>6, <1>7 DEF FlagsOf
<1>12. LogOf(args, opts, r.log)
  <2>. HIDE DEF opts
  <2>1. ~(\A j \in opts : args[j] # "output")
    BY <1>2, <1>8
  <2>2. ASSUME NEW j \in opts, args[j] = "output", \A l \in opts : args[l] = "output" => l <= j
        PROVE  r.log = args[j + 1]
    <3>1. CASE j = i
      <4>1. ASSUME NEW l \in others PROVE args[l] # "output"
        <5>1. l > i /\ l \in opts /\ l \in Int
          BY <1>8, <1>9
        <5>2. ~(l <= i)
          BY <1>1, <5>1
        <5>. QED  BY <2>2, <3>1, <5>1, <5>2
      <4>2. rest.log = None
        BY <1>6, <4>1 DEF LogOf
      <4>. QED  BY <1>2, <3>1, <4>2
    <3>2. CASE j # i
      <4>1. j \in others /\ j \in (i + 2)..(k - 1)
        BY <1>8, <2>2, <3>2
      <4>2. rest.log = args[j + 1]
        BY <1>6, <1>8, <1>9, <2>2, <4>1 DEF LogOf
      <4>3. j # k - 1
        BY <1>6, <2>2, <4>1 DEF Reads
      <4>4. j + 1 \in 1..Len(args)
        BY <1>1, <1>5, <4>1, <4>3
      <4>. QED  BY <1>1, <1>2, <4>2, <4>4
    <3>. QED  BY <3>1, <3>2
  <2>. QED  BY <2>1, <2>2 DEF LogOf
<1>. HIDE DEF opts
<1>13. k \in i..(Len(args) + 1)
  BY <1>1, <1>5
<1>. QED  BY <1>4, <1>5, <1>8, <1>10, <1>11, <1>12, <1>13

LEMMA ResultsUnderstood ==
  ASSUME NEW args \in Seq(STRING), NEW f,
         \A i \in 1..(Len(args) + 1) : f[i] = Result(args, i, f)
  PROVE  \A i \in 1..(Len(args) + 1) : Understood(args, i, f[i])
<1>. DEFINE last == Len(args) + 1
            bad == {i \in 1..last : ~Understood(args, i, f[i])}
<1>1. Len(args) \in Nat /\ last \in Nat /\ \A i \in 1..last : f[i] \in ResultType
  BY LenProperties, ResultTypes
<1>. SUFFICES ASSUME bad # {} PROVE FALSE
  OBVIOUS
<1>2. bad \subseteq 0..last
  BY <1>1
<1>. HIDE DEF bad
<1>3. PICK i \in bad : \A j \in bad : j <= i
  BY <1>1, <1>2, GreatestUpTo
<1>4. i \in 1..last /\ ~Understood(args, i, f[i]) /\ f[i] = Result(args, i, f)
  BY <1>3 DEF bad
<1>5. \A j \in 1..last : i < j => Understood(args, j, f[j])
  <2>. SUFFICES ASSUME NEW j \in 1..last, i < j PROVE Understood(args, j, f[j])
    OBVIOUS
  <2>1. j \notin bad
    BY <1>1, <1>3, <1>4
  <2>. QED  BY <2>1 DEF bad
<1>6. CASE IsFirst(args, i, f[i])
  <2>1. /\ f[i].app_index = 1 /\ f[i].flags = {} /\ f[i].log = None
        /\ i > Len(args) \/ args[i] \notin Options
    BY <1>6 DEF IsFirst
  <2>2. i + f[i].app_index - 1 = i /\ i - 1 < i
    BY <1>1, <1>4, <2>1
  <2>3. i \in i..(Len(args) + 1) /\ (i <= Len(args) => args[i] \notin Options)
    BY <1>1, <1>4, <2>1
  <2>4. {} \in SUBSET (i..(i - 1)) /\ Reads(args, i, i, {})
    BY <1>1, <1>4 DEF Reads
  <2>5. f[i].flags = FlagsOf(args, {}) /\ LogOf(args, {}, f[i].log)
    BY <2>1 DEF FlagsOf, LogOf
  <2>. QED  BY <1>4, <2>2, <2>3, <2>4, <2>5 DEF Understood
<1>7. CASE IsLast(f[i])
  <2>1. f[i].app_index \in Int /\ ~(f[i].app_index > 0)
    BY <1>7 DEF IsLast
  <2>. QED  BY <1>4, <2>1 DEF Understood
<1>8. CASE IsFlag(args, i, f[i], f[i + 1])
  <2>1. i + 1 \in 1..last /\ i < i + 1
    BY <1>1, <1>4, <1>8 DEF IsFlag
  <2>. QED  BY <1>1, <1>4, <1>5, <1>8, <2>1, UnderstoodFlag
<1>9. CASE IsOutput(args, i, f[i], f[i + 2])
  <2>1. i + 2 \in 1..last /\ i < i + 2
    BY <1>1, <1>4, <1>9 DEF IsOutput
  <2>. QED  BY <1>1, <1>4, <1>5, <1>9, <2>1, UnderstoodOutput
<1>. QED  BY <1>4, <1>6, <1>7, <1>8, <1>9, ResultCases

-----------------------------------------------------------------------------
(* There is at most one command, and one way to read what is before it.    *)

LEMMA StartsAgree ==
  ASSUME NEW args \in Seq(STRING), NEW k \in Nat \ {0}, NEW m \in Nat \ {0}, k <= m,
         NEW starts \in Starts(args, k), NEW others \in Starts(args, m)
  PROVE  \A i \in 1..(k - 1) : i \in starts <=> i \in others
<1>. DEFINE bad == {i \in 1..(k - 1) : ~(i \in starts <=> i \in others)}
<1>. SUFFICES ASSUME bad # {} PROVE FALSE
  OBVIOUS
<1>1. bad \subseteq Nat
  OBVIOUS
<1>. HIDE DEF bad
<1>2. PICK i \in bad : \A j \in bad : i <= j
  BY <1>1, LeastNat
<1>3. i \in 1..(k - 1) /\ i \in 1..(m - 1) /\ ~(i \in starts <=> i \in others)
  BY <1>2 DEF bad
<1>4. \A S : S \in {starts, others} =>
        (i \in S <=> ~(i > 1 /\ i - 1 \in S /\ args[i - 1] = "output"))
  BY <1>3 DEF Starts
<1>5. i > 1 => (i - 1 \in starts <=> i - 1 \in others)
  <2>. SUFFICES ASSUME i > 1 PROVE i - 1 \in starts <=> i - 1 \in others
    OBVIOUS
  <2>1. i - 1 \in 1..(k - 1) /\ ~(i <= i - 1)
    BY <1>3
  <2>2. i - 1 \notin bad
    BY <1>2, <2>1
  <2>. QED  BY <2>1, <2>2 DEF bad
<1>. QED  BY <1>3, <1>4, <1>5

LEMMA CommandUnique ==
  ASSUME NEW args \in Seq(STRING), NEW k \in Nat \ {0}, NEW m \in Nat \ {0}, k < m,
         IsCommand(args, k), IsCommand(args, m)
  PROVE  FALSE
<1>1. PICK starts \in Starts(args, k), others \in Starts(args, m) : args[k] \notin Options
  BY DEF IsCommand
<1>2. \A i \in 1..(k - 1) : i \in starts <=> i \in others
  BY <1>1, StartsAgree
<1>3. k \in 1..(m - 1)
  OBVIOUS
<1>4. k > 1 /\ k - 1 \in others /\ args[k - 1] = "output"
  BY <1>1, <1>3 DEF Starts
<1>5. k - 1 \in 1..(k - 1)
  BY <1>4
<1>. QED  BY <1>1, <1>2, <1>4, <1>5 DEF Starts

LEMMA StartsUnique ==
  ASSUME NEW args \in Seq(STRING), NEW k \in Nat \ {0}, NEW starts \in Starts(args, k)
  PROVE  UNION Starts(args, k) = starts
<1>1. ASSUME NEW others \in Starts(args, k) PROVE others = starts
  <2>1. \A i \in 1..(k - 1) : i \in starts <=> i \in others
    BY StartsAgree
  <2>2. starts \in SUBSET (1..(k - 1)) /\ others \in SUBSET (1..(k - 1))
    BY DEF Starts
  <2>. QED  BY <2>1, <2>2
<1>. QED  BY <1>1

\* The parser finds the command, and returns the options that are meant.
LEMMA ParsedAsMeant ==
  ASSUME NEW args \in Seq(STRING), Parsed(args).app_index \in 1..Len(args)
  PROVE  /\ {k \in 1..Len(args) : IsCommand(args, k)} = {Parsed(args).app_index}
         /\ MeantFlags(args, Parsed(args).app_index) = Parsed(args).flags
         /\ MeantLog(args, Parsed(args).app_index) = Parsed(args).log
<1>1. PICK f : Parsed(args) = f[1] /\ \A i \in 1..(Len(args) + 1) : f[i] = Result(args, i, f)
  BY ParsedResult
<1>2. Len(args) \in Nat /\ 1 \in 1..(Len(args) + 1)
  BY LenProperties
<1>3. Understood(args, 1, Parsed(args))
  BY <1>1, <1>2, ResultsUnderstood
<1>4. PICK k \in 1..Len(args) : k = Parsed(args).app_index
  OBVIOUS
<1>5. k > 0 /\ 1 + k - 1 = k
  BY <1>2, <1>4
<1>6. PICK opts \in SUBSET (1..(k - 1)) :
        /\ args[k] \notin Options
        /\ Reads(args, 1, k, opts) /\ Parsed(args).flags = FlagsOf(args, opts)
        /\ LogOf(args, opts, Parsed(args).log)
  BY <1>3, <1>4, <1>5 DEF Understood
<1>7. opts \in Starts(args, k)
  BY <1>6 DEF Starts, Reads, Named
<1>8. IsCommand(args, k)
  BY <1>2, <1>4, <1>6, <1>7 DEF IsCommand
<1>9. \A m \in 1..Len(args) : IsCommand(args, m) => m = k
  <2>. SUFFICES ASSUME NEW m \in 1..Len(args), IsCommand(args, m), m # k PROVE FALSE
    OBVIOUS
  <2>1. m < k \/ k < m
    BY <1>2
  <2>2. k \in Nat \ {0} /\ m \in Nat \ {0}
    BY <1>2
  <2>. QED  BY <1>8, <2>1, <2>2, CommandUnique
<1>10. UNION Starts(args, k) = opts
  <2>1. k \in Nat \ {0}
    BY <1>2
  <2>. QED  BY <1>7, <2>1, StartsUnique
<1>11. MeantFlags(args, k) = Parsed(args).flags
  BY <1>6, <1>10 DEF MeantFlags, FlagsOf
<1>12. MeantLog(args, k) = Parsed(args).log
  <2>. DEFINE outputs == {i \in UNION Starts(args, k) : args[i] = "output"}
              i == CHOOSE i \in outputs : \A j \in outputs : j <= i
  <2>1. MeantLog(args, k) = IF outputs = {} THEN None ELSE args[i + 1]
    BY DEF MeantLog
  <2>. HIDE DEF i
  <2>0. \A j : j \in outputs <=> j \in opts /\ args[j] = "output"
    BY <1>10
  <2>2. CASE outputs = {}
    <3>1. \A j \in opts : args[j] # "output"
      BY <2>0, <2>2
    <3>. QED  BY <1>6, <2>1, <2>2, <3>1 DEF LogOf
  <2>3. CASE outputs # {}
    <3>1. outputs \subseteq 0..(k - 1) /\ k - 1 \in Nat
      <4>1. k - 1 \in Nat /\ 1..(k - 1) \subseteq 0..(k - 1)
        BY <1>2
      <4>2. outputs \subseteq opts
        BY <2>0
      <4>. QED  BY <1>6, <4>1, <4>2
    <3>2. \E j \in outputs : \A l \in outputs : l <= j
      <4>. HIDE DEF outputs
      <4>. QED  BY <2>3, <3>1, GreatestUpTo
    <3>3. i \in outputs /\ \A j \in outputs : j <= i
      <4>. HIDE DEF outputs
      <4>. QED  BY <3>2 DEF i
    <3>4. i \in opts /\ args[i] = "output" /\ \A j \in opts : args[j] = "output" => j <= i
      BY <2>0, <3>3
    <3>5. Parsed(args).log = args[i + 1]
      BY <1>6, <3>4 DEF LogOf
    <3>. QED  BY <2>1, <2>3, <3>5
  <2>. QED  BY <2>2, <2>3
<1>. QED  BY <1>4, <1>8, <1>9, <1>11, <1>12

-----------------------------------------------------------------------------
(* The inductive invariant: the environment of a process says what users   *)
(* asked for, and its tracer what the environment says.                    *)

Informed(r) ==
  /\ r.args = r.meant
  /\ r.env.flags = r.asked.flags /\ r.env.log = r.asked.log
  /\ r.env.enable => ~Conflicting(r.env.flags)
  /\ r.program # "finetrace" => r.env.enable
  /\ r.state = "aborted" => r.env.enable /\ ~Asserted(r.env)
  /\ r.state = "running" /\ r.env.enable => Asserted(r.env) /\ r.tracer = ReadArgs(r.env)

IInv ==
  /\ process \in [Processes -> ProcessType \cup {None}]
  /\ \A p \in Processes : process[p] # None => Informed(process[p])

\* A program that is started knows what is in the environment.
LEMMA ImageInformed ==
  ASSUME NEW command \in Seq(STRING), command # <<>>, NEW env \in EnvType, NEW asked \in ToldType,
         NEW images \in Nat,
         env.flags = asked.flags, env.log = asked.log,
         env.enable => ~Conflicting(env.flags),
         Head(command) # "finetrace" => env.enable
  PROVE  LET r == Image(command, env, asked, Tail(command), images)
         IN  r \in ProcessType /\ Informed(r)
<1>1. Head(command) \in STRING /\ Tail(command) \in Seq(STRING)
  BY HeadTailProperties
<1>2. Image(command, env, asked, Tail(command), images) \in ProcessType
  BY <1>1 DEF Image, ProcessType
<1>3. Informed(Image(command, env, asked, Tail(command), images))
  BY DEF Image, Informed
<1>. QED  BY <1>2, <1>3

LEMMA StartInv ==
  ASSUME IInv, NEW p \in Processes, NEW command \in Commands, NEW shell \in Shells,
         Start(p, command, shell)
  PROVE  IInv'
<1>. DEFINE env == [flags |-> shell.flags, log |-> shell.log, enable |-> FALSE]
            r == Image(command, env, shell, Tail(command), 1)
<1>1. command \in Seq(STRING) /\ command # <<>> /\ shell \in ToldType
  BY CommandAssumption, ShellAssumption
<1>2. env \in EnvType
  BY <1>1 DEF EnvType, ToldType
<1>3. env.flags = shell.flags /\ env.log = shell.log /\ env.enable = FALSE
  OBVIOUS
<1>4. Head(command) = "finetrace" /\ process' = [process EXCEPT ![p] = r]
  BY DEF Start
<1>5. r \in ProcessType /\ Informed(r)
  <2>. HIDE DEF env
  <2>. QED  BY <1>1, <1>2, <1>3, <1>4, ImageInformed
<1>. HIDE DEF r
<1>. QED  BY <1>4, <1>5 DEF IInv

\* The tracer reads the environment, or aborts the process.
LEMMA LoadInv ==
  ASSUME IInv, NEW p \in Processes, Load(p)
  PROVE  IInv'
<1>. DEFINE old == process[p]
            state == IF old.env.enable /\ ~Asserted(old.env) THEN "aborted" ELSE "running"
            tracer == IF old.env.enable /\ Asserted(old.env) THEN ReadArgs(old.env) ELSE None
            r == [old EXCEPT !.state = state, !.tracer = tracer]
<1>1. old # None /\ old \in ProcessType /\ Informed(old) /\ process' = [process EXCEPT ![p] = r]
  BY DEF Load, IInv
<1>2. old.env \in EnvType
  BY <1>1 DEF ProcessType
<1>3. tracer \in TracerType \cup {None}
  <2>1. ReadArgs(old.env) \in TracerType
    BY <1>2 DEF EnvType, TracerType, ReadArgs, Flags
  <2>. QED  BY <2>1
<1>4. /\ state \in {"aborted", "running"}
      /\ state = "aborted" => old.env.enable /\ ~Asserted(old.env)
      /\ state = "running" /\ old.env.enable =>
           Asserted(old.env) /\ tracer = ReadArgs(old.env)
  OBVIOUS
<1>. HIDE DEF old
<1>5. /\ r \in ProcessType /\ r.args = old.args /\ r.meant = old.meant /\ r.env = old.env
      /\ r.asked = old.asked /\ r.program = old.program /\ r.state = state /\ r.tracer = tracer
  <2>. HIDE DEF tracer, state
  <2>. QED  BY <1>1, <1>3, <1>4 DEF ProcessType
<1>. HIDE DEF r, tracer, state
<1>6. Informed(r)
  BY <1>1, <1>4, <1>5 DEF Informed
<1>. QED  BY <1>1, <1>5, <1>6 DEF IInv

\* The loader hands on what its command line says.
LEMMA LaunchInv ==
  ASSUME IInv, NEW p \in Processes, Launch(p)
  PROVE  IInv'
<1>. DEFINE me == process[p]
            parsed == Parsed(me.args)
            meant == {k \in 1..Len(me.meant) : IsCommand(me.meant, k)}
            k == CHOOSE k \in meant : TRUE
            command == SubSeq(me.args, parsed.app_index, Len(me.args))
            env == [SetEnv(me.env, parsed) EXCEPT !.enable = TRUE]
            asked == IF meant = {} THEN me.asked
                     ELSE [flags |-> me.asked.flags \cup MeantFlags(me.meant, k),
                           log |-> IF MeantLog(me.meant, k) = None THEN me.asked.log
                                   ELSE MeantLog(me.meant, k)]
            rest == IF meant = {} THEN <<>> ELSE SubSeq(me.meant, k + 1, Len(me.meant))
            r == Image(command, env, asked, rest, me.images + 1)
<1>1. me # None /\ me \in ProcessType /\ Informed(me)
  BY DEF Launch, Loader, Running, IInv
<1>2. process' = [process EXCEPT ![p] = r] /\ Succeeds(me.env, parsed, me.args)
  BY DEF Launch
<1>3. /\ me.args \in Seq(STRING) /\ me.meant = me.args /\ me.images + 1 \in Nat
      /\ me.env \in EnvType /\ me.asked \in ToldType
      /\ me.env.flags = me.asked.flags /\ me.env.log = me.asked.log
  BY <1>1 DEF ProcessType, Informed
<1>4. parsed.app_index \in 1..Len(me.args) /\ ~Conflicting(SetEnv(me.env, parsed).flags)
  BY <1>2 DEF Succeeds, Conflict
<1>5. parsed \in ResultType
  <2>1. Len(me.args) \in Nat
    BY <1>3, LenProperties
  <2>2. PICK f : parsed = f[1] /\ \A i \in 1..(Len(me.args) + 1) : f[i] = Result(me.args, i, f)
    BY <1>3, ParsedResult
  <2>3. 1 \in 1..(Len(me.args) + 1) /\ parsed.app_index > 0
    BY <1>4, <2>1
  <2>. HIDE DEF me, parsed
  <2>. QED  BY <1>3, <2>2, <2>3, ResultTypes
<1>6. /\ meant = {parsed.app_index} /\ MeantFlags(me.meant, parsed.app_index) = parsed.flags
      /\ MeantLog(me.meant, parsed.app_index) = parsed.log
  BY <1>3, <1>4, ParsedAsMeant
<1>. HIDE DEF me, parsed, meant
<1>7. k = parsed.app_index /\ meant # {}
  BY <1>6
<1>. HIDE DEF k
<1>8. /\ asked.flags = me.asked.flags \cup parsed.flags
      /\ asked.log = IF parsed.log = None THEN me.asked.log ELSE parsed.log
      /\ asked \in ToldType
  BY <1>3, <1>5, <1>6, <1>7 DEF ToldType, ResultType
<1>9. /\ env.flags = me.env.flags \cup parsed.flags
      /\ env.log = IF parsed.log = None THEN me.env.log ELSE parsed.log
      /\ env.enable = TRUE /\ env \in EnvType
      /\ ~Conflicting(env.flags)
  BY <1>3, <1>4, <1>5 DEF EnvType, ResultType, SetEnv
<1>10. /\ command \in Seq(STRING) /\ command # <<>>
      /\ rest = Tail(command)
  <2>1. Len(me.args) \in Nat /\ \A i \in 1..Len(me.args) : me.args[i] \in STRING
    BY <1>3, LenProperties, ElementOfSeq
  <2>2. /\ parsed.app_index \in Int /\ \A i \in parsed.app_index..Len(me.args) : me.args[i] \in STRING
        /\ parsed.app_index \in 1..Len(me.args) /\ Len(me.args) \in parsed.app_index..Len(me.args)
        /\ parsed.app_index <= Len(me.args)
    BY <1>4, <2>1
  <2>3. /\ command \in Seq(STRING) /\ Len(command) = Len(me.args) - parsed.app_index + 1
    BY <2>1, <2>2, SubSeqProperties
  <2>4. command # <<>>
    <3>1. Len(command) # 0
      BY <2>1, <2>2, <2>3
    <3>. HIDE DEF command
    <3>. QED  BY <3>1
  <2>5. Tail(command) = SubSeq(me.args, parsed.app_index + 1, Len(me.args))
    BY <1>3, <2>2, HeadTailOfSubSeq
  <2>. QED  BY <1>3, <1>7, <2>3, <2>4, <2>5
<1>11. r \in ProcessType /\ Informed(r)
  <2>. HIDE DEF command, env, asked, rest
  <2>1. env.flags = asked.flags /\ env.log = asked.log
    BY <1>3, <1>8, <1>9
  <2>. QED  BY <1>3, <1>8, <1>9, <1>10, <2>1, ImageInformed
<1>. HIDE DEF r
<1>. QED  BY <1>2, <1>11 DEF IInv

\* A program started by an application inherits the environment.
LEMMA InheritInv ==
  ASSUME IInv, NEW p \in Processes, NEW q \in Processes, NEW command \in Commands, MayStart(p),
         process' = [process EXCEPT ![q] =
           Image(command, process[p].env, process[p].asked, Tail(command), process[p].images + 1)]
  PROVE  IInv'
<1>. DEFINE me == process[p]
            r == Image(command, me.env, me.asked, Tail(command), me.images + 1)
<1>1. me # None /\ me \in ProcessType /\ Informed(me) /\ me.program # "finetrace"
  BY DEF MayStart, Application, Running, IInv
<1>2. command \in Seq(STRING) /\ command # <<>>
  BY CommandAssumption
<1>3. process' = [process EXCEPT ![q] = r]
  OBVIOUS
<1>. HIDE DEF me
<1>4. /\ me.env \in EnvType /\ me.asked \in ToldType /\ me.images + 1 \in Nat
      /\ me.env.flags = me.asked.flags /\ me.env.log = me.asked.log
      /\ me.env.enable => ~Conflicting(me.env.flags)
      /\ me.env.enable
  BY <1>1 DEF ProcessType, Informed
<1>5. r \in ProcessType /\ Informed(r)
  BY <1>2, <1>4, ImageInformed
<1>. HIDE DEF r
<1>. QED  BY <1>3, <1>5 DEF IInv

LEMMA StepInv == IInv /\ [Next]_process => IInv'
<1>. SUFFICES ASSUME IInv, [Next]_process PROVE IInv'
  OBVIOUS
<1>1. ASSUME NEW p \in Processes, NEW command \in Commands, NEW shell \in Shells,
             Start(p, command, shell)
      PROVE  IInv'
  BY <1>1, StartInv
<1>2. ASSUME NEW p \in Processes, Load(p) PROVE IInv'
  BY <1>2, LoadInv
<1>3. ASSUME NEW p \in Processes, Launch(p) PROVE IInv'
  BY <1>3, LaunchInv
<1>4. ASSUME NEW p \in Processes, NEW q \in Processes, NEW command \in Commands,
             Spawn(p, q, command)
      PROVE  IInv'
  BY <1>4, InheritInv DEF Spawn
<1>5. ASSUME NEW p \in Processes, NEW command \in Commands, Exec(p, command) PROVE IInv'
  BY <1>5, InheritInv DEF Exec
<1>6. ASSUME NEW p \in Processes, Exit(p) PROVE IInv'
  BY <1>6 DEF Exit, IInv
<1>7. ASSUME NEW p \in Processes, GiveUp(p) PROVE IInv'
  BY <1>7 DEF GiveUp, IInv
<1>8. CASE UNCHANGED process
  BY <1>8 DEF IInv
<1>. QED  BY <1>1, <1>2, <1>3, <1>4, <1>5, <1>6, <1>7, <1>8 DEF Next

LEMMA Invariance == Spec => []IInv
<1>1. Init => IInv
  BY DEF Init, IInv
<1>. QED  BY <1>1, StepInv, PTL DEF Spec

-----------------------------------------------------------------------------
(* The theorems.                                                           *)

\* Whatever the variables a user has set, the command lines and the programs on
\* the way to a process, it is aborted when its tracer is created only if it was
\* asked to log into a file without a name (the assertions of ReadArgs and
\* TraceOptions): those of Create never see options that conflict.
THEOREM Consistent == Spec => []OptionsConsistent
<1>1. IInv => OptionsConsistent
  <2>. SUFFICES ASSUME IInv, NEW p \in Processes, process[p] # None,
                       process[p].state = "aborted"
                PROVE  Unnamed(process[p].asked)
    BY DEF OptionsConsistent
  <2>. DEFINE me == process[p]
  <2>1. Informed(me) /\ me.state = "aborted"
    BY DEF IInv
  <2>. HIDE DEF me
  <2>2. /\ me.env.enable /\ ~Conflicting(me.env.flags) /\ ~Asserted(me.env)
        /\ me.env.flags = me.asked.flags /\ me.env.log = me.asked.log
    BY <2>1 DEF Informed
  <2>3. ~Conflicting(ReadArgs(me.env).flags)
    BY <2>2 DEF ReadArgs, Conflicting
  <2>. QED  BY <2>2, <2>3 DEF Asserted, Unnamed, me
<1>. QED  BY <1>1, Invariance, PTL

\* An application is traced with the options of the user's environment and of the
\* loaders' command lines on the way to it, those in front of the first argument
\* that is neither an option nor the name of a log file, and is given the
\* arguments behind it.  None runs that was asked to log into a file without a name.
THEOREM Reach == Spec => []OptionsReach
<1>1. IInv => OptionsReach
  <2>. SUFFICES ASSUME IInv, NEW p \in Processes, Application(p)
                PROVE  LET me == process[p]
                       IN  /\ me.tracer # None
                           /\ me.args = me.meant
                           /\ me.tracer.flags =
                                IF me.asked.flags = {} THEN {"HOST_TIMING", "DEVICE_TIMING"}
                                ELSE me.asked.flags
                           /\ me.tracer.log =
                                IF "LOG_TO_FILE" \in me.asked.flags THEN me.asked.log ELSE None
                           /\ ~Unnamed(me.asked)
    BY DEF OptionsReach
  <2>. DEFINE me == process[p]
  <2>1. /\ me \in ProcessType /\ Informed(me) /\ me.state = "running"
        /\ me.program # "finetrace"
    BY DEF Application, Running, IInv
  <2>. HIDE DEF me
  <2>2. /\ me.tracer = ReadArgs(me.env) /\ Asserted(me.env) /\ me.args = me.meant
        /\ me.env.flags = me.asked.flags /\ me.env.log = me.asked.log
    BY <2>1 DEF Informed
  <2>3. ReadArgs(me.env) \in TracerType
    <3>1. me.env \in EnvType
      BY <2>1 DEF ProcessType
    <3>. QED  BY <3>1 DEF EnvType, TracerType, ReadArgs, Flags
  <2>4. me.tracer # None /\ ~Unnamed(me.asked)
    BY <2>2, <2>3, NoneAssumption DEF Asserted, Unnamed
  <2>. QED  BY <2>2, <2>4 DEF me, ReadArgs
<1>. QED  BY <1>1, Invariance, PTL
=============================================================================
