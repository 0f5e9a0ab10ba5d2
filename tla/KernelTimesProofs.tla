------------------------- MODULE KernelTimesProofs -------------------------
(***************************************************************************)
(* Proofs about KernelTimes for devices with any frequencies and valid     *)
(* bits, words of any width, and any times: the times reported are the     *)
(* true ones, and the assertions on them fail in the cases listed only.    *)
(***************************************************************************)
EXTENDS KernelTimes, WellFoundedInduction, TLAPS

-----------------------------------------------------------------------------
(* Quotients and remainders.                                               *)

\* A product with a factor in between: multiplication is monotonic.
LEMMA Monotonic ==
  ASSUME NEW a \in Nat, NEW b \in Nat, NEW c \in Nat, a <= b
  PROVE  /\ a * c \in Nat /\ b * c \in Nat /\ a * c <= b * c
  OBVIOUS

LEMMA Distributes ==
  ASSUME NEW a \in Int, NEW b \in Int, NEW c \in Int
  PROVE  /\ (a + b) * c = a * c + b * c /\ (a - b) * c = a * c - b * c
         /\ a * c \in Int /\ b * c \in Int
  OBVIOUS

\* What is left of a number once multiples of the divisor are taken off.
LEMMA Division ==
  ASSUME NEW a \in Nat, NEW b \in Nat \ {0}
  PROVE  /\ a \div b \in Nat /\ a % b \in 0..(b - 1)
         /\ a = b * (a \div b) + (a % b)
  OBVIOUS

LEMMA Remainder ==
  ASSUME NEW b \in Nat \ {0}, NEW q \in Int, NEW r \in 0..(b - 1)
  PROVE  (b * q + r) % b = r /\ (b * q + r) \div b = q
  OBVIOUS

LEMMA Remains ==
  ASSUME NEW b \in Nat \ {0}, NEW r \in 0..(b - 1)
  PROVE  r % b = r
<1>1. (b * 0 + r) % b = r
  BY Remainder
<1>2. b * 0 + r = r
  OBVIOUS
<1>. QED  BY <1>1, <1>2

\* Multiples of the divisor leave the remainder as it is.
LEMMA Congruent ==
  ASSUME NEW m \in Nat \ {0}, NEW a \in Nat, NEW k \in Int
  PROVE  (a + m * k) % m = a % m
<1>. DEFINE q == a \div m
            r == a % m
<1>1. q \in Nat /\ r \in 0..(m - 1) /\ a = m * q + r
  BY Division
<1>. HIDE DEF q, r
<1>2. m * (q + k) = m * q + m * k /\ m * q \in Int /\ m * k \in Int
  BY <1>1
<1>3. a + m * k = m * (q + k) + r
  BY <1>1, <1>2
<1>4. q + k \in Int
  BY <1>1
<1>5. (a + m * k) % m = r
  BY <1>1, <1>3, <1>4, Remainder
<1>. QED  BY <1>5 DEF r

\* The quotient times its divisor is the number rounded down.
LEMMA Quotient ==
  ASSUME NEW a \in Nat, NEW b \in Nat \ {0}
  PROVE  /\ a \div b \in Nat
         /\ (a \div b) * b \in Nat
         /\ (a \div b) * b <= a /\ a - b < (a \div b) * b
<1>1. a = b * (a \div b) + (a % b) /\ a % b \in 0..(b - 1) /\ a \div b \in Nat
  BY Division
<1>2. b * (a \div b) = (a \div b) * b /\ (a \div b) * b \in Nat
  BY <1>1
<1>. QED  BY <1>1, <1>2

\* The lower bits of a word are those of the number.
LEMMA LowerBits ==
  ASSUME NEW a \in Nat, NEW b \in Nat \ {0}, NEW q \in Nat \ {0}
  PROVE  (a % (q * b)) % b = a % b
<1>. DEFINE w == q * b
            k == a \div w
            r == a % w
            j == r \div b
            s == r % b
<1>1. w \in Nat \ {0}
  OBVIOUS
<1>. HIDE DEF w
<1>2. k \in Nat /\ r \in 0..(w - 1) /\ a = w * k + r
  BY <1>1, Division
<1>. HIDE DEF k, r
<1>3. j \in Nat /\ s \in 0..(b - 1) /\ r = b * j + s
  <2>1. r \in Nat
    BY <1>1, <1>2
  <2>. QED  BY <2>1, Division DEF j, s
<1>. HIDE DEF j, s
<1>4. a = b * (q * k + j) + s
  <2>1. w * k = b * (q * k)
    BY <1>2 DEF w
  <2>2. q * k \in Nat
    BY <1>2
  <2>3. b * (q * k + j) = b * (q * k) + b * j
    BY <2>2, <1>3
  <2>. QED  BY <1>2, <1>3, <2>1, <2>3
<1>5. q * k + j \in Int
  BY <1>2, <1>3
<1>6. a % b = s
  <2>. DEFINE m == q * k + j
  <2>1. m \in Int /\ a = b * m + s
    BY <1>4, <1>5
  <2>. HIDE DEF m
  <2>. QED  BY <2>1, <1>3, Remainder
<1>. QED  BY <1>6 DEF s, r, w

-----------------------------------------------------------------------------
(* Powers of two.                                                          *)

NatOrder == {pair \in Nat \X Nat : pair[1] < pair[2]}

LEMMA LeastNat ==
  ASSUME NEW S, S \subseteq Nat, S # {}
  PROVE  \E m \in S : \A n \in S : m <= n
<1>1. IsWellFoundedOn(NatOrder, Nat)
  BY NatLessThanWellFounded DEF OpToRel, NatOrder
<1>2. PICK m \in S : \A n \in S : ~(<<n, m>> \in NatOrder)
  BY <1>1, WFMin, Zenon
<1>3. \A n \in S : ~(n < m)
  BY <1>2 DEF NatOrder
<1>. QED  BY <1>3

Doubles(f, n) == IF n = 0 THEN 1 ELSE 2 * f[n - 1]

\* There is a table of the powers up to any one, ...
LEMMA TablesExist ==
  ASSUME NEW last \in Nat
  PROVE  \E f : f = [n \in 0..last |-> Doubles(f, n)]
<1>. DEFINE Good(m) == \E f : f = [n \in 0..m |-> Doubles(f, n)]
            bad == {m \in 0..last : ~Good(m)}
<1>1. SUFFICES ASSUME bad # {} PROVE FALSE
  BY DEF bad
<1>2. PICK m \in bad : \A n \in bad : m <= n
  <2>1. bad \subseteq Nat
    OBVIOUS
  <2>. HIDE DEF bad
  <2>. QED  BY <1>1, <2>1, LeastNat
<1>3. m \in 0..last /\ ~Good(m)
  BY <1>2
<1>4. CASE m = 0
  <2>. DEFINE g == [n \in 0..0 |-> 1]
  <2>1. g = [n \in 0..0 |-> Doubles(g, n)]
    BY DEF Doubles
  <2>. QED  BY <1>3, <1>4, <2>1
<1>5. CASE m # 0
  <2>1. m - 1 \in 0..last /\ ~(m <= m - 1)
    BY <1>3, <1>5
  <2>2. Good(m - 1)
    BY <1>2, <2>1
  <2>3. PICK f : f = [n \in 0..(m - 1) |-> Doubles(f, n)]
    BY <2>2
  <2>. DEFINE g == [n \in 0..m |-> IF n = m THEN 2 * f[m - 1] ELSE f[n]]
  <2>4. \A n \in 0..m : g[n] = Doubles(g, n)
    <3>1. SUFFICES ASSUME NEW n \in 0..m PROVE g[n] = Doubles(g, n)
      OBVIOUS
    <3>2. CASE n = m
      BY <3>2, <1>3, <1>5 DEF Doubles
    <3>3. CASE n # m
      <4>1. n \in 0..(m - 1) /\ (n # 0 => n - 1 \in 0..(m - 1))
        BY <3>1, <3>3, <1>3
      <4>2. f[n] = Doubles(f, n)
        BY <2>3, <4>1
      <4>3. g[n] = f[n] /\ (n # 0 => g[n - 1] = f[n - 1])
        BY <4>1, <3>3, <1>3
      <4>. QED  BY <4>2, <4>3 DEF Doubles
    <3>. QED  BY <3>2, <3>3
  <2>5. g = [n \in 0..m |-> Doubles(g, n)]
    BY <2>4
  <2>. HIDE DEF g
  <2>. QED  BY <2>5, <1>3
<1>. QED  BY <1>4, <1>5

\* ... so that Bit is one.
LEMMA BitTable ==
  Bit = [n \in 0..WordBits |-> IF n = 0 THEN 1 ELSE 2 * Bit[n - 1]]
<1>1. PICK f : f = [n \in 0..WordBits |-> Doubles(f, n)]
  BY TablesExist, TimersAssumption
<1>2. f = [n \in 0..WordBits |-> IF n = 0 THEN 1 ELSE 2 * f[n - 1]]
  BY <1>1 DEF Doubles
<1>. QED  BY <1>2, Zenon DEF Bit

\* The width of a counter divides the word's, and is less if it has fewer bits.
LEMMA Widths ==
  /\ \A n \in 0..WordBits : Bit[n] \in Nat \ {0}
  /\ \A n \in 0..WordBits : \E q \in Nat \ {0} :
       Bit[WordBits] = q * Bit[n] /\ (n # WordBits => q # 1)
<1>. DEFINE Good(m) == /\ Bit[m] \in Nat \ {0}
                       /\ \A n \in 0..m : \E q \in Nat \ {0} :
                            Bit[m] = q * Bit[n] /\ (n # m => q # 1)
            bad == {m \in 0..WordBits : ~Good(m)}
<1>0. WordBits \in Nat \ {0}
  BY TimersAssumption
<1>1. SUFFICES ASSUME bad # {} PROVE FALSE
  BY <1>0 DEF bad
<1>2. PICK m \in bad : \A n \in bad : m <= n
  <2>1. bad \subseteq Nat
    BY <1>0
  <2>. HIDE DEF bad
  <2>. QED  BY <1>1, <2>1, LeastNat
<1>3. m \in 0..WordBits /\ ~Good(m)
  BY <1>2
<1>4. CASE m = 0
  <2>1. Bit[0] = 1
    BY <1>0, BitTable
  <2>. QED  BY <1>3, <1>4, <2>1
<1>5. CASE m # 0
  <2>1. m - 1 \in 0..WordBits /\ ~(m <= m - 1)
    BY <1>0, <1>3, <1>5
  <2>2. Good(m - 1)
    BY <1>2, <2>1
  <2>3. Bit[m] = 2 * Bit[m - 1]
    BY <1>0, <1>3, <1>5, BitTable
  <2>4. Bit[m] \in Nat \ {0}
    BY <2>2, <2>3
  <2>5. ASSUME NEW n \in 0..m
        PROVE  \E q \in Nat \ {0} : Bit[m] = q * Bit[n] /\ (n # m => q # 1)
    <3>1. CASE n = m
      <4>1. Bit[m] = 1 * Bit[n]
        BY <2>4, <3>1
      <4>. QED  BY <4>1, <3>1
    <3>2. CASE n # m
      <4>1. n \in 0..(m - 1)
        BY <3>2, <2>5, <1>3, <1>0
      <4>2. PICK q \in Nat \ {0} : Bit[m - 1] = q * Bit[n]
        BY <4>1, <2>2
      <4>3. n \in 0..WordBits /\ n < m
        BY <4>1, <1>3, <1>0
      <4>4. Bit[n] \in Nat \ {0}
        BY <4>3, <1>2, <2>1
      <4>5. Bit[m] = (2 * q) * Bit[n] /\ 2 * q \in Nat \ {0} /\ 2 * q # 1
        BY <4>2, <4>4, <2>3
      <4>. QED  BY <4>5
    <3>. QED  BY <3>1, <3>2
  <2>. QED  BY <1>3, <2>4, <2>5
<1>. QED  BY <1>4, <1>5

-----------------------------------------------------------------------------
(* What the counter of a device shows.                                     *)

DeviceOK(d) ==
  /\ d \in Devices
  /\ d.backend = "ze" => [frequency |-> d.frequency, valid_bits |-> d.valid_bits] \in Timers

Period(d) == Bit[d.valid_bits]
Counted(d, time) == (time * d.frequency) \div NSEC_IN_SEC
Reading(d, time) == (Counted(d, time) + d.offset) % Period(d)

LEMMA ZeDevice ==
  ASSUME NEW d, DeviceOK(d), d.backend = "ze"
  PROVE  /\ d.frequency \in 1..NSEC_IN_SEC /\ d.valid_bits \in 1..WordBits
         /\ d.offset \in Nat /\ Period(d) \in Nat \ {0}
<1>1. d.frequency \in 1..NSEC_IN_SEC /\ d.valid_bits \in 1..WordBits
  BY TimersAssumption DEF DeviceOK
<1>2. d.offset \in Nat
  BY TimersAssumption DEF DeviceOK, Devices
<1>3. d.valid_bits \in 0..WordBits
  BY <1>1, TimersAssumption
<1>. QED  BY <1>1, <1>2, <1>3, Widths DEF Period

LEMMA ClDevice ==
  ASSUME NEW d, DeviceOK(d), d.backend # "ze"
  PROVE  d.backend \in {"cl_gpu", "cl_cpu"} /\ d.offset \in Nat
BY TimersAssumption DEF DeviceOK, Devices

\* A word holds something, and a second some nanoseconds.
LEMMA WordSize ==
  Bit[WordBits] \in Nat \ {0} /\ NSEC_IN_SEC \in Nat \ {0}
BY TimersAssumption, Widths

LEMMA WordOfSmall ==
  ASSUME NEW x \in Nat, x < Bit[WordBits]
  PROVE  Word(x) = x
<1>1. x \in 0..(Bit[WordBits] - 1)
  BY WordSize
<1>. QED  BY <1>1, WordSize, Remains DEF Word

\* The mask keeps the valid bits.
LEMMA Mask ==
  ASSUME DeviceOK(device), device.backend = "ze"
  PROVE  TimerMask + 1 = Period(device)
<1>1. device.valid_bits \in 0..WordBits /\ Period(device) \in Nat \ {0}
  BY ZeDevice, TimersAssumption
<1>2. CASE device.valid_bits = WordBits
  BY <1>1, <1>2 DEF TimerMask, Period
<1>3. CASE device.valid_bits # WordBits
  <2>1. PICK q \in Nat \ {0} : Bit[WordBits] = q * Bit[device.valid_bits] /\ q # 1
    BY <1>1, <1>3, Widths
  <2>2. 2 * Period(device) <= q * Period(device) /\ Bit[WordBits] = q * Period(device)
    BY <1>1, <2>1, Monotonic DEF Period
  <2>3. Period(device) < Bit[WordBits]
    BY <2>2, <1>1, WordSize
  <2>4. Word(Period(device)) = Period(device)
    BY <2>3, <1>1, WordOfSmall
  <2>. QED  BY <1>1, <1>3, <2>4 DEF TimerMask, Period
<1>. QED  BY <1>2, <1>3

LEMMA CountedType ==
  ASSUME NEW d, DeviceOK(d), d.backend = "ze", NEW time \in Nat
  PROVE  Counted(d, time) \in Nat /\ Reading(d, time) \in 0..(Period(d) - 1)
<1>1. time * d.frequency \in Nat
  BY ZeDevice, TimersAssumption
<1>2. Counted(d, time) \in Nat
  BY <1>1, WordSize, Division DEF Counted
<1>3. Counted(d, time) + d.offset \in Nat
  BY <1>2, ZeDevice
<1>. QED  BY <1>2, <1>3, ZeDevice, Division DEF Reading

\* The driver's stamp of a command and the collector's masked reading of the
\* clock are the same at any time.
LEMMA Readings ==
  ASSUME DeviceOK(device), device.backend = "ze", NEW time \in Nat
  PROVE  /\ KernelTicks(time) = Reading(device, time)
         /\ GlobalTicks(time) % (TimerMask + 1) = Reading(device, time)
<1>. DEFINE c == Counted(device, time) + device.offset
<1>1. c \in Nat
  BY CountedType, ZeDevice
<1>2. device.valid_bits \in 0..WordBits /\ Period(device) \in Nat \ {0}
  BY ZeDevice, TimersAssumption
<1>3. PICK q \in Nat \ {0} : Bit[WordBits] = q * Period(device)
  BY <1>2, Widths DEF Period
<1>4. GlobalTicks(time) = c % (q * Period(device))
  BY <1>3 DEF GlobalTicks, Word, Counted
<1>. HIDE DEF c
<1>5. GlobalTicks(time) % Period(device) = c % Period(device)
  BY <1>1, <1>2, <1>4, LowerBits
<1>. QED  BY <1>5, Mask DEF KernelTicks, Reading, Period, c

-----------------------------------------------------------------------------
(* What ComputeDuration makes of two readings.                             *)

LEMMA NanosecondsType ==
  ASSUME DeviceOK(device), device.backend = "ze", NEW x \in Int
  PROVE  Nanoseconds(x) \in Nat
<1>1. Word(x) \in Nat
  BY WordSize DEF Word
<1>2. Word(x) * NSEC_IN_SEC \in Nat
  BY <1>1, WordSize
<1>. DEFINE y == Word(x) * NSEC_IN_SEC
<1>3. Word(y) \in Nat
  <2>1. y \in Nat
    BY <1>2
  <2>. HIDE DEF y
  <2>. QED  BY <2>1, WordSize, Division DEF Word
<1>. QED  BY <1>3, ZeDevice, Division DEF Nanoseconds

\* If the counter went on by some ticks, from one to a period, and they make
\* no more nanoseconds than a word holds, these are they.
LEMMA Duration ==
  ASSUME DeviceOK(device), device.backend = "ze",
         NEW start \in 0..(Period(device) - 1), NEW ticks \in 1..Period(device),
         ticks * NSEC_IN_SEC < Bit[WordBits]
  PROVE  ComputeDuration(start, (start + ticks) % Period(device))
           = (ticks * NSEC_IN_SEC) \div device.frequency
<1>. DEFINE p == Period(device)
            w == Bit[WordBits]
            end == (start + ticks) % p
<1>1. /\ p \in Nat \ {0} /\ w \in Nat \ {0} /\ device.valid_bits \in 0..WordBits
      /\ start \in 0..(p - 1) /\ ticks \in 1..p
  BY ZeDevice, WordSize, TimersAssumption
<1>2. ticks * NSEC_IN_SEC \in Nat /\ ticks <= ticks * NSEC_IN_SEC /\ ticks < w
  <2>1. ticks \in Nat
    BY <1>1
  <2>2. 1 * ticks <= NSEC_IN_SEC * ticks /\ NSEC_IN_SEC * ticks = ticks * NSEC_IN_SEC
    BY <2>1, WordSize, Monotonic
  <2>. QED  BY <2>1, <2>2, WordSize
<1>. HIDE DEF p, w
<1>3. ASSUME NEW x \in Int, Word(x) = ticks
      PROVE  Nanoseconds(x) = (ticks * NSEC_IN_SEC) \div device.frequency
  BY <1>2, <1>3, WordOfSmall DEF Nanoseconds
<1>4. Word(ticks) = ticks
  BY <1>1, <1>2, WordOfSmall DEF w
<1>5. CASE start + ticks < p
  <2>1. start + ticks \in 0..(p - 1)
    BY <1>1, <1>5
  <2>2. end = start + ticks
    BY <1>1, <2>1, Remains
  <2>3. start < end /\ end - start = ticks
    BY <1>1, <2>2
  <2>. QED  BY <1>1, <1>3, <1>4, <2>3 DEF ComputeDuration, p
<1>6. CASE ~(start + ticks < p)
  <2>1. p * 1 + (start + ticks - p) = start + ticks /\ start + ticks - p \in 0..(p - 1)
    BY <1>1, <1>6
  <2>2. end = start + ticks - p
    <3>. DEFINE r == start + ticks - p
    <3>. HIDE DEF r
    <3>0. r \in 0..(p - 1)
      BY <2>1 DEF r
    <3>1. (p * 1 + r) % p = r
      BY <1>1, <3>0, Remainder
    <3>2. p * 1 + r = start + ticks
      BY <2>1 DEF r
    <3>. QED  BY <3>1, <3>2 DEF r
  <2>3. ~(start < end) /\ end \in Int /\ start \in Int
    BY <1>1, <2>2
  <2>4. TimerMask + 1 = p
    BY Mask DEF p
  <2>5. CASE device.valid_bits = WordBits
    <3>1. p = w
      BY <2>5 DEF p, w, Period
    <3>2. Word(p) = 0
      <4>1. w * 1 + 0 = w /\ 0 \in 0..(w - 1)
        BY <1>1
      <4>. QED  BY <1>1, <3>1, <4>1, Remainder DEF Word, w
    <3>3. Word(ticks - w) = ticks
      <4>1. w * (-1) + ticks = ticks - w /\ ticks \in 0..(w - 1)
        BY <1>1, <1>2
      <4>. QED  BY <1>1, <4>1, Remainder DEF Word, w
    <3>4. Word(TimerMask + 1) + end - start = ticks - w
      BY <1>1, <2>2, <2>4, <3>1, <3>2
    <3>5. ticks - w \in Int
      BY <1>1
    <3>. QED  BY <1>3, <2>3, <3>3, <3>4, <3>5 DEF ComputeDuration, p
  <2>6. CASE device.valid_bits # WordBits
    <3>1. PICK q \in Nat \ {0} : w = q * p /\ q # 1
      BY <1>1, <2>6, Widths DEF p, w, Period
    <3>2. 2 * p <= q * p
      BY <1>1, <3>1, Monotonic
    <3>3. Word(p) = p
      BY <1>1, <3>1, <3>2, WordOfSmall DEF w
    <3>4. Word(TimerMask + 1) + end - start = ticks
      BY <1>1, <2>2, <2>4, <3>3
    <3>. QED  BY <1>1, <1>3, <1>4, <2>3, <3>4 DEF ComputeDuration, p
  <2>. QED  BY <2>5, <2>6
<1>. QED  BY <1>5, <1>6

\* The reading goes on by what the counter does.
LEMMA ReadingsApart ==
  ASSUME NEW d, DeviceOK(d), d.backend = "ze", NEW p \in Nat, NEW q \in Nat,
         NEW ticks \in Nat, NEW k \in Int,
         Counted(d, q) - Counted(d, p) = ticks + Period(d) * k
  PROVE  Reading(d, q) = (Reading(d, p) + ticks) % Period(d)
<1>. DEFINE m == Period(d)
            cp == Counted(d, p) + d.offset
            cq == Counted(d, q) + d.offset
            j == cp \div m
            r == cp % m
<1>1. m \in Nat \ {0} /\ cp \in Nat /\ cq \in Nat
  BY ZeDevice, CountedType
<1>2. cq = cp + (ticks + m * k)
  BY CountedType, ZeDevice
<1>. HIDE DEF m, cp, cq
<1>3. j \in Nat /\ r \in 0..(m - 1) /\ cp = m * j + r
  BY <1>1, Division
<1>. HIDE DEF j, r
<1>4. m * (j + k) = m * j + m * k /\ m * j \in Int /\ m * k \in Int /\ j + k \in Int
  BY <1>1, <1>3
<1>5. cq = (r + ticks) + m * (j + k)
  BY <1>2, <1>3, <1>4
<1>6. r + ticks \in Nat
  BY <1>1, <1>3
<1>7. cq % m = (r + ticks) % m
  BY <1>1, <1>4, <1>5, <1>6, Congruent
<1>. QED  BY <1>7 DEF cq, cp, m, r, Reading

\* The duration the collector computes between two times.
Between(p, q) == ComputeDuration(Reading(device, p), Reading(device, q))

LEMMA BetweenType ==
  ASSUME DeviceOK(device), device.backend = "ze", NEW p \in Nat, NEW q \in Nat
  PROVE  Between(p, q) \in Nat
<1>1. Reading(device, p) \in Int /\ Reading(device, q) \in Int
  BY CountedType, ZeDevice
<1>2. TimerMask + 1 \in Int /\ Word(TimerMask + 1) \in Int
  BY Mask, ZeDevice, WordSize DEF Word
<1>. QED  BY <1>1, <1>2, NanosecondsType DEF Between, ComputeDuration

LEMMA ElapsedType ==
  ASSUME DeviceOK(device), device.backend = "ze",
         NEW p \in Nat, NEW q \in Nat, p <= q
  PROVE  /\ Elapsed(p, q) = Counted(device, q) - Counted(device, p)
         /\ Elapsed(p, q) \in Int
BY CountedType DEF Elapsed, Counted

LEMMA Measured ==
  ASSUME DeviceOK(device), device.backend = "ze",
         NEW p \in Nat, NEW q \in Nat, p <= q, Measurable(p, q)
  PROVE  Between(p, q) = (Elapsed(p, q) * NSEC_IN_SEC) \div device.frequency
<1>. DEFINE ticks == Elapsed(p, q)
<1>1. ticks \in 1..Period(device) /\ ticks * NSEC_IN_SEC < Bit[WordBits]
  BY DEF Measurable, Period
<1>2. Counted(device, q) - Counted(device, p) = ticks + Period(device) * 0
  BY <1>1, ElapsedType, ZeDevice
<1>. HIDE DEF ticks
<1>3. ticks \in Nat /\ Reading(device, p) \in 0..(Period(device) - 1)
  BY <1>1, CountedType
<1>4. Reading(device, q) = (Reading(device, p) + ticks) % Period(device)
  BY <1>2, <1>3, ReadingsApart
<1>5. Between(p, q) = (ticks * NSEC_IN_SEC) \div device.frequency
  BY <1>1, <1>3, <1>4, Duration DEF Between
<1>. QED  BY <1>5 DEF ticks

\* A tick is at least a nanosecond, and no interval is of no ticks.
LEMMA Positive ==
  ASSUME DeviceOK(device), device.backend = "ze",
         NEW p \in Nat, NEW q \in Nat, p <= q, ~Overflows(p, q)
  PROVE  Between(p, q) >= 1
<1>. DEFINE e == Elapsed(p, q)
            m == Period(device)
            f == device.frequency
            r == e % m
            ticks == IF r = 0 THEN m ELSE r
            w == Bit[WordBits]
            n == ticks * NSEC_IN_SEC
<1>1. /\ e \in Int /\ m \in Nat \ {0} /\ w \in Nat \ {0}
      /\ e = Counted(device, q) - Counted(device, p)
      /\ f \in 1..NSEC_IN_SEC /\ NSEC_IN_SEC \in Nat \ {0}
  BY ElapsedType, ZeDevice, WordSize
<1>2. ~(n >= w)
  BY DEF Overflows, Period
<1>. HIDE DEF e, m, w, f
<1>. DEFINE j == e \div m
<1>3. r \in 0..(m - 1) /\ e = m * j + r /\ j \in Int
  BY <1>1
<1>. HIDE DEF r, j
<1>4. ticks \in 1..m /\ \E k \in Int : e = ticks + m * k
  <2>1. m * (j - 1) = m * j - m /\ m * j \in Int /\ j - 1 \in Int
    BY <1>1, <1>3
  <2>2. CASE r = 0
    <3>1. e = m + m * (j - 1)
      BY <1>1, <1>3, <2>1, <2>2
    <3>2. ticks = m
      BY <2>2
    <3>. HIDE DEF ticks
    <3>3. ticks \in 1..m
      BY <1>1, <3>2
    <3>4. e = ticks + m * (j - 1)
      BY <3>1, <3>2
    <3>. QED  BY <2>1, <3>3, <3>4, Zenon
  <2>3. CASE r # 0
    <3>1. ticks = r
      BY <2>3
    <3>. HIDE DEF ticks
    <3>2. ticks \in 1..m
      BY <1>1, <1>3, <2>3, <3>1
    <3>3. e = ticks + m * j
      BY <1>1, <1>3, <3>1
    <3>. QED  BY <1>3, <3>2, <3>3, Zenon
  <2>. QED  BY <2>2, <2>3
<1>. HIDE DEF ticks
<1>5. PICK k \in Int : e = ticks + m * k
  BY <1>4
<1>6. ticks \in Nat \ {0} /\ n \in Nat /\ n < w /\ f <= n
  <2>1. ticks \in Nat \ {0} /\ n \in Nat
    BY <1>1, <1>4
  <2>2. 1 * NSEC_IN_SEC <= ticks * NSEC_IN_SEC
    BY <1>1, <2>1, Monotonic
  <2>. QED  BY <1>1, <1>2, <2>1, <2>2
<1>7. Reading(device, q) = (Reading(device, p) + ticks) % Period(device)
  BY <1>1, <1>5, <1>6, ReadingsApart DEF m
<1>8. Between(p, q) = n \div f
  BY <1>4, <1>6, <1>7, CountedType, Duration DEF Between, m, w, f
<1>. HIDE DEF n
<1>9. n \div f >= 1
  <2>1. n \div f \in Nat /\ n = f * (n \div f) + (n % f) /\ n % f < f
    BY <1>1, <1>6, Division
  <2>2. n \div f # 0
    BY <1>1, <1>6, <2>1
  <2>. QED  BY <2>1, <2>2
<1>. QED  BY <1>8, <1>9

\* What is left of a time when it is counted in whole ticks.
Rest(time) == (time * device.frequency) % NSEC_IN_SEC

\* A measurable interval is reported a tick short or long, and up to a
\* nanosecond short.
LEMMA Rounded ==
  ASSUME DeviceOK(device), device.backend = "ze",
         NEW p \in Nat, NEW q \in Nat, p <= q, Measurable(p, q)
  PROVE  /\ Rest(p) \in 0..(NSEC_IN_SEC - 1) /\ Rest(q) \in 0..(NSEC_IN_SEC - 1)
         /\ p * device.frequency \in Nat /\ q * device.frequency \in Nat
         /\ Between(p, q) * device.frequency \in Nat
         /\ \E lost \in 0..(device.frequency - 1) :
              Between(p, q) * device.frequency
                = q * device.frequency - p * device.frequency - Rest(q) + Rest(p) - lost
<1>. DEFINE f == device.frequency
            n == NSEC_IN_SEC
            cp == Counted(device, p)
            cq == Counted(device, q)
            product == (cq - cp) * n
            between == Between(p, q)
            pf == p * f
            qf == q * f
            rp == Rest(p)
            rq == Rest(q)
<1>1. f \in 1..n /\ n \in Nat \ {0} /\ cp \in Nat /\ cq \in Nat
  BY ZeDevice, WordSize, CountedType
<1>2. pf \in Nat /\ qf \in Nat
  BY <1>1
<1>3. cp = pf \div n /\ cq = qf \div n /\ rp = pf % n /\ rq = qf % n
  BY DEF Counted, Rest
<1>4. between = product \div f /\ cq - cp \in Nat
  BY Measured, ElapsedType DEF Measurable
<1>. HIDE DEF f, n, cp, cq, between, pf, qf, rp, rq
<1>5. rp \in 0..(n - 1) /\ rq \in 0..(n - 1) /\ pf = n * cp + rp /\ qf = n * cq + rq
  BY <1>1, <1>2, <1>3, Division
<1>6. product \in Nat /\ product = n * cq - n * cp
  BY <1>1, <1>4
<1>. HIDE DEF product
<1>7. between * f \in Nat /\ between * f <= product /\ product - f < between * f
  <2>1. f \in Nat \ {0} /\ between = product \div f
    BY <1>1, <1>4
  <2>. QED  BY <1>6, <2>1, Quotient
<1>8. product = qf - pf - rq + rp
  <2>1. n * cq \in Int /\ n * cp \in Int
    BY <1>1
  <2>. QED  BY <1>2, <1>5, <1>6, <2>1
<1>9. \E lost \in 0..(f - 1) : between * f = qf - pf - rq + rp - lost
  <2>. DEFINE lost == product - between * f
  <2>1. lost \in 0..(f - 1)
    BY <1>1, <1>6, <1>7
  <2>2. between * f = qf - pf - rq + rp - lost
    BY <1>2, <1>5, <1>6, <1>7, <1>8
  <2>. HIDE DEF lost
  <2>. QED  BY <2>1, <2>2
<1>. QED  BY <1>2, <1>5, <1>7, <1>9 DEF f, n, between, pf, qf, rp, rq

-----------------------------------------------------------------------------
(* The command in each stage, as the times at which it got there tell.     *)

ZeSubmitted(d, x, y) ==
  [stage |-> "submitted", append_time |-> x,
   host_sync |-> y, device_sync |-> Reading(d, y), stamp |-> <<>>,
   at |-> [appended |-> x, submitted |-> y]]

ZeStarted(d, x, y, a) ==
  [stage |-> "started", append_time |-> x,
   host_sync |-> y, device_sync |-> Reading(d, y), stamp |-> [started |-> Reading(d, a)],
   at |-> [appended |-> x, submitted |-> y, started |-> a]]

ZeRun(d, x, y, a, e, stage) ==
  [stage |-> stage, append_time |-> x,
   host_sync |-> y, device_sync |-> Reading(d, y),
   stamp |-> [started |-> Reading(d, a), ended |-> Reading(d, e)],
   at |-> [appended |-> x, submitted |-> y, started |-> a, ended |-> e]]

ZeShape(d, n, c) ==
  \/ c = [stage |-> "none"]
  \/ \E x \in 1..n : c = [stage |-> "appended", append_time |-> x, at |-> [appended |-> x]]
  \/ \E x, y \in 1..n : x <= y /\ c = ZeSubmitted(d, x, y)
  \/ \E x, y, a \in 1..n : x <= y /\ y <= a /\ c = ZeStarted(d, x, y, a)
  \/ \E x, y, a, e \in 1..n, stage \in {"ended", "reported"} :
       x <= y /\ y <= a /\ a <= e /\ c = ZeRun(d, x, y, a, e, stage)

\* The clocks were read at t, which took a gap.
ClRun(d, t, gap, stage, stamp, at) ==
  [stage |-> stage, device_sync |-> t + d.offset, host_sync |-> t - gap, gap |-> gap,
   stamp |-> stamp, at |-> at]

ClQueued(d, n, c, t, gap) ==
  \E q \in t..n :
    c = ClRun(d, t, gap, "appended", [appended |-> q + d.offset], [appended |-> q])

ClSubmitted(d, n, c, t, gap) ==
  \E q, s \in t..n :
    /\ q <= s
    /\ c = ClRun(d, t, gap, "submitted",
         [appended |-> q + d.offset, submitted |-> s + d.offset],
         [appended |-> q, submitted |-> s])

ClStarted(d, n, c, t, gap) ==
  \E q, s, a \in t..n :
    /\ q <= s /\ s <= a
    /\ c = ClRun(d, t, gap, "started",
         [appended |-> q + d.offset, submitted |-> s + d.offset, started |-> a + d.offset],
         [appended |-> q, submitted |-> s, started |-> a])

ClEnded(d, n, c, t, gap) ==
  \E q, s, a, e \in t..n, stage \in {"ended", "reported"} :
    /\ q <= s /\ s <= a /\ a <= e
    /\ c = ClRun(d, t, gap, stage,
         [appended |-> q + d.offset, submitted |-> s + d.offset,
          started |-> a + d.offset, ended |-> e + d.offset],
         [appended |-> q, submitted |-> s, started |-> a, ended |-> e])

ClShape(d, n, c) ==
  \/ c = [stage |-> "none"]
  \/ \E t \in 0..n, gap \in Nat :
       \/ c = ClRun(d, t, gap, "entered", <<>>, <<>>)
       \/ ClQueued(d, n, c, t, gap)
       \/ ClSubmitted(d, n, c, t, gap)
       \/ ClStarted(d, n, c, t, gap)
       \/ ClEnded(d, n, c, t, gap)

Shape(d, n, c) == IF d.backend = "ze" THEN ZeShape(d, n, c) ELSE ClShape(d, n, c)

IInv ==
  /\ DeviceOK(device) /\ stages \in BOOLEAN /\ aborted \in BOOLEAN
  /\ now \in Nat \ {0}
  /\ Shape(device, now, command)
  /\ TimesFaithful
  /\ AbortsOnlyOnExtremes

-----------------------------------------------------------------------------
(* A run that ended, as it is reported.                                    *)

LEMMA ZeTimesOfRun ==
  ASSUME NEW x, NEW y, NEW a, NEW e, NEW stage
  PROVE  ZeTimes(ZeRun(device, x, y, a, e, stage))
           = [appended |-> x, submitted |-> y, started |-> y + Between(y, a),
              ended |-> y + Between(y, a) + Between(a, e)]
BY DEF ZeTimes, ZeRun, Between

LEMMA CloseWithin ==
  ASSUME NEW a \in Int, NEW b \in Int, NEW f, f = device.frequency,
         NEW n, n = NSEC_IN_SEC, (a - b) * f \in (-(n + 2 * f))..(n + 2 * f)
  PROVE  Close(a, b)
BY DEF Close

LEMMA ZeFaithful ==
  ASSUME DeviceOK(device), device.backend = "ze",
         NEW y \in Nat, NEW a \in Nat, NEW e \in Nat, y <= a, a <= e, Measurable(y, a)
  PROVE  /\ Close(y + Between(y, a), a)
         /\ Measurable(a, e) => Close(y + Between(y, a) + Between(a, e), e)
<1>. DEFINE f == device.frequency
            n == NSEC_IN_SEC
            b1 == Between(y, a)
            b2 == Between(a, e)
<1>1. f \in 1..n /\ n \in Nat \ {0} /\ b1 \in Nat /\ b2 \in Nat
  BY ZeDevice, WordSize, BetweenType
<1>2. PICK lost1 \in 0..(f - 1) : b1 * f = a * f - y * f - Rest(a) + Rest(y) - lost1
  BY Rounded
<1>3. Rest(y) \in 0..(n - 1) /\ Rest(a) \in 0..(n - 1) /\ a * f \in Nat /\ y * f \in Nat
  BY Rounded
<1>0. f = device.frequency /\ n = NSEC_IN_SEC
  OBVIOUS
<1>. HIDE DEF f, n, b1, b2
<1>4. (y + b1 - a) * f \in (-(n + 2 * f))..(n + 2 * f)
  <2>1. (y + b1 - a) * f = y * f + b1 * f - a * f
    BY <1>1
  <2>. QED  BY <1>1, <1>2, <1>3, <2>1
<1>5. ASSUME Measurable(a, e)
      PROVE  (y + b1 + b2 - e) * f \in (-(n + 2 * f))..(n + 2 * f)
  <2>1. PICK lost2 \in 0..(f - 1) : b2 * f = e * f - a * f - Rest(e) + Rest(a) - lost2
    BY <1>5, Rounded DEF f, b2
  <2>2. Rest(e) \in 0..(n - 1) /\ e * f \in Nat
    BY <1>5, Rounded DEF f, n
  <2>3. (y + b1 + b2 - e) * f = y * f + b1 * f + b2 * f - e * f
    BY <1>1
  <2>. QED  BY <1>1, <1>2, <1>3, <2>1, <2>2, <2>3
<1>6. Close(y + b1, a)
  BY <1>0, <1>1, <1>4, CloseWithin
<1>7. ASSUME Measurable(a, e) PROVE Close(y + b1 + b2, e)
  BY <1>0, <1>1, <1>5, <1>7, CloseWithin
<1>. QED  BY <1>6, <1>7 DEF b1, b2

LEMMA ZeExtremes ==
  ASSUME DeviceOK(device), device.backend = "ze",
         NEW x \in Nat \ {0}, NEW y \in Nat, NEW a \in Nat, NEW e \in Nat,
         x <= y, y <= a, a <= e, NEW c, c = ZeRun(device, x, y, a, e, "ended"),
         ~Plausible(c, ZeTimes(c))
  PROVE  stages /\ (Overflows(y, a) \/ Overflows(a, e))
<1>1. Between(y, a) \in Nat /\ Between(a, e) \in Nat
  BY BetweenType
<1>2. /\ ~Overflows(y, a) => Between(y, a) >= 1
      /\ ~Overflows(a, e) => Between(a, e) >= 1
  BY Positive
<1>. QED  BY <1>1, <1>2, ZeTimesOfRun DEF Plausible, PlausibleZe, PlausibleCl, PlausibleStages

LEMMA ClTimesOfRun ==
  ASSUME NEW d, d.offset \in Int, NEW t \in Int, NEW gap \in Int, NEW stage,
         NEW q \in Int, NEW s \in Int, NEW a \in Int, NEW e \in Int
  PROVE  ClTimes(ClRun(d, t, gap, stage,
              [appended |-> q + d.offset, submitted |-> s + d.offset,
               started |-> a + d.offset, ended |-> e + d.offset],
              [appended |-> q, submitted |-> s, started |-> a, ended |-> e]))
           = [appended |-> q - gap, submitted |-> s - gap,
              started |-> a - gap, ended |-> e - gap]
<1>. DEFINE c == ClRun(d, t, gap, stage,
              [appended |-> q + d.offset, submitted |-> s + d.offset,
               started |-> a + d.offset, ended |-> e + d.offset],
              [appended |-> q, submitted |-> s, started |-> a, ended |-> e])
<1>1. /\ c.host_sync = t - gap /\ c.device_sync = t + d.offset
      /\ c.stamp.appended = q + d.offset /\ c.stamp.submitted = s + d.offset
      /\ c.stamp.started = a + d.offset /\ c.stamp.ended = e + d.offset
  BY DEF ClRun
<1>. HIDE DEF c
<1>2. ClTimes(c) = [appended |-> q - gap, submitted |-> s - gap,
                    started |-> a - gap, ended |-> e - gap]
  BY <1>1 DEF ClTimes
<1>. QED  BY <1>2 DEF c

-----------------------------------------------------------------------------
(* The invariant.                                                          *)

\* What an action that neither reports nor aborts has to leave.
LEMMA Unreported ==
  ASSUME IInv, device' = device, stages' = stages, aborted' = FALSE,
         command'.stage # "reported", now' \in Nat \ {0},
         Shape(device, now', command')
  PROVE  IInv'
BY DEF IInv, TimesFaithful, AbortsOnlyOnExtremes

LEMMA Initially ==
  ASSUME Init
  PROVE  IInv
<1>1. DeviceOK(device) /\ stages \in BOOLEAN /\ aborted = FALSE /\ command = [stage |-> "none"]
  BY DEF Init, DeviceOK
<1>2. now \in Nat \ {0}
  <2>1. PICK longest \in ReadGaps : \A gap \in ReadGaps : gap <= longest
    BY TimersAssumption
  <2>2. \A gap \in ReadGaps : longest >= gap
    BY <2>1, TimersAssumption
  <2>3. Max(ReadGaps) \in ReadGaps
    BY <2>1, <2>2 DEF Max
  <2>4. Max(ReadGaps) \in Nat
    BY <2>3, TimersAssumption
  <2>5. now = 1 + Max(ReadGaps)
    BY DEF Init
  <2>. QED  BY <2>4, <2>5
<1>. QED  BY <1>1, <1>2 DEF IInv, Shape, ZeShape, ClShape, TimesFaithful, AbortsOnlyOnExtremes

LEMMA AppendCommandKeeps ==
  ASSUME IInv, AppendCommand
  PROVE  IInv'
<1>1. /\ command' = [stage |-> "appended", append_time |-> now, at |-> [appended |-> now]]
      /\ UNCHANGED <<device, stages, now, aborted>> /\ aborted = FALSE /\ device.backend = "ze"
      /\ now \in Nat \ {0}
  BY DEF AppendCommand, IInv
<1>2. now \in 1..now
  BY <1>1
<1>3. Shape(device, now, command')
  BY <1>1, <1>2 DEF Shape, ZeShape
<1>. QED  BY <1>1, <1>3, Unreported

LEMMA SubmittedShape ==
  ASSUME IInv, device.backend = "ze", NEW x \in 1..now
  PROVE  /\ Submitted(x, x) = ZeSubmitted(device, x, now)
         /\ ZeShape(device, now, Submitted(x, x))
<1>1. now \in Nat \ {0} /\ now \in 1..now /\ x <= now /\ DeviceOK(device)
  BY DEF IInv
<1>2. DeviceSync = Reading(device, now)
  BY <1>1, Readings DEF DeviceSync
<1>3. Submitted(x, x) = ZeSubmitted(device, x, now)
  BY <1>2 DEF Submitted, ZeSubmitted
<1>. QED  BY <1>1, <1>3 DEF ZeShape

LEMMA AppendImmediateKeeps ==
  ASSUME IInv, AppendImmediate
  PROVE  IInv'
<1>1. /\ command' = Submitted(now, now) /\ UNCHANGED <<device, stages, now, aborted>>
      /\ aborted = FALSE /\ device.backend = "ze" /\ now \in 1..now /\ now \in Nat \ {0}
  BY DEF AppendImmediate, IInv
<1>2. ZeShape(device, now, command') /\ command'.stage = "submitted"
  BY <1>1, SubmittedShape DEF ZeSubmitted
<1>. QED  BY <1>1, <1>2, Unreported DEF Shape

LEMMA ExecuteKeeps ==
  ASSUME IInv, Execute
  PROVE  IInv'
<1>1. /\ command' = Submitted(command.append_time, command.at.appended)
      /\ UNCHANGED <<device, stages, now, aborted>> /\ aborted = FALSE
      /\ device.backend = "ze" /\ now \in Nat \ {0} /\ ZeShape(device, now, command)
      /\ command.stage \in {"appended", "reported"}
  BY DEF Execute, IInv, Shape
<1>2. \E x \in 1..now : command.append_time = x /\ command.at.appended = x
  BY <1>1 DEF ZeShape, ZeSubmitted, ZeStarted, ZeRun
<1>3. ZeShape(device, now, command') /\ command'.stage = "submitted"
  BY <1>1, <1>2, SubmittedShape DEF ZeSubmitted
<1>. QED  BY <1>1, <1>3, Unreported DEF Shape

\* Both clocks are read before the driver works on the command.
LEMMA EnqueueKeeps ==
  ASSUME IInv, Enqueue
  PROVE  IInv'
<1>1. PICK gap \in IF device.backend = "cl_cpu" THEN ReadGaps ELSE {0} :
         /\ now' = now + gap
         /\ command' = [stage |-> "entered", device_sync |-> ClTicks(now),
                        host_sync |-> IF device.backend = "cl_cpu"
                                      THEN Raw(now - MonotonicLag, gap) ELSE now,
                        gap |-> gap, stamp |-> <<>>, at |-> <<>>]
  BY DEF Enqueue
<1>2. /\ UNCHANGED <<device, stages, aborted>> /\ aborted = FALSE
      /\ device.backend # "ze" /\ now \in Nat \ {0} /\ DeviceOK(device)
  BY DEF Enqueue, IInv
<1>3. gap \in Nat
  BY TimersAssumption
<1>4. device.backend # "cl_cpu" => gap = 0
  OBVIOUS
<1>5. Raw(now - MonotonicLag, gap) = now - gap
  BY <1>2, <1>3, TimersAssumption DEF Raw
<1>6. command' = ClRun(device, now, gap, "entered", <<>>, <<>>)
  BY <1>1, <1>2, <1>4, <1>5 DEF ClTicks, ClRun
<1>7. now \in 0..now' /\ now' \in Nat \ {0}
  BY <1>1, <1>2, <1>3
<1>8. ClShape(device, now', command')
  BY <1>3, <1>6, <1>7 DEF ClShape
<1>9. command'.stage = "entered"
  BY <1>6 DEF ClRun
<1>. QED  BY <1>2, <1>7, <1>8, <1>9, Unreported DEF Shape

LEMMA ResetKeeps ==
  ASSUME IInv, Reset
  PROVE  IInv'
<1>1. /\ command' = [stage |-> "none"] /\ UNCHANGED <<device, stages, now, aborted>>
      /\ aborted = FALSE /\ device.backend = "ze" /\ now \in Nat \ {0}
  BY DEF Reset, IInv
<1>. QED  BY <1>1, Unreported DEF Shape, ZeShape

\* Later, the command still is what it was.
LEMMA ShapeLater ==
  ASSUME NEW d, NEW n \in Nat, NEW m \in Nat, n <= m, NEW c, Shape(d, n, c)
  PROVE  Shape(d, m, c)
<1>1. \A i \in 1..n : i \in 1..m
  OBVIOUS
<1>2. \A t \in 0..n : t \in 0..m /\ \A i \in t..n : i \in t..m
  OBVIOUS
<1>3. ASSUME ZeShape(d, n, c) PROVE ZeShape(d, m, c)
  BY <1>1, <1>3, Zenon DEF ZeShape
<1>4. ASSUME ClShape(d, n, c) PROVE ClShape(d, m, c)
  <2>1. CASE c = [stage |-> "none"]
    BY <2>1 DEF ClShape
  <2>2. CASE c # [stage |-> "none"]
    <3>1. PICK t \in 0..n, gap \in Nat :
            \/ c = ClRun(d, t, gap, "entered", <<>>, <<>>)
            \/ ClQueued(d, n, c, t, gap) \/ ClSubmitted(d, n, c, t, gap)
            \/ ClStarted(d, n, c, t, gap) \/ ClEnded(d, n, c, t, gap)
      BY <1>4, <2>2 DEF ClShape
    <3>2. t \in 0..m /\ \A i \in t..n : i \in t..m
      BY <1>2
    <3>3. /\ ClQueued(d, n, c, t, gap) => ClQueued(d, m, c, t, gap)
          /\ ClSubmitted(d, n, c, t, gap) => ClSubmitted(d, m, c, t, gap)
          /\ ClStarted(d, n, c, t, gap) => ClStarted(d, m, c, t, gap)
      BY <3>2, Zenon DEF ClQueued, ClSubmitted, ClStarted
    <3>4. ClEnded(d, n, c, t, gap) => ClEnded(d, m, c, t, gap)
      BY <3>2, Zenon DEF ClEnded
    <3>. QED  BY <3>1, <3>2, <3>3, <3>4 DEF ClShape
  <2>. QED  BY <2>1, <2>2
<1>. QED  BY <1>3, <1>4 DEF Shape

LEMMA Unseen ==
  ASSUME IInv, UNCHANGED <<device, stages, command, reported, aborted>>
  PROVE  TimesFaithful' /\ AbortsOnlyOnExtremes'
<1>1. TimesFaithful /\ AbortsOnlyOnExtremes
  BY DEF IInv
<1>2. TimesFaithful' <=> TimesFaithful
  BY DEF TimesFaithful, Measurable, Close, Elapsed
<1>3. AbortsOnlyOnExtremes' <=> AbortsOnlyOnExtremes
  BY DEF AbortsOnlyOnExtremes, Overflows, Elapsed
<1>. QED  BY <1>1, <1>2, <1>3

LEMMA TickKeeps ==
  ASSUME IInv, Tick
  PROVE  IInv'
<1>1. /\ UNCHANGED <<device, stages, command, reported, aborted>> /\ now' = now + 1
      /\ now \in Nat \ {0} /\ Shape(device, now, command)
  BY DEF Tick, IInv
<1>2. Shape(device, now', command)
  BY <1>1, ShapeLater
<1>3. TimesFaithful' /\ AbortsOnlyOnExtremes'
  BY <1>1, Unseen
<1>. QED  BY <1>1, <1>2, <1>3 DEF IInv

\* The command with another stage reached, at a time a clock shows as ticks.
Extended(f, next, value) ==
  [s \in DOMAIN f \cup {next} |-> IF s = next THEN value ELSE f[s]]

Reaching(c, next, ticks, time) ==
  [c EXCEPT !.stage = next, !.stamp = Extended(c.stamp, next, ticks),
            !.at = Extended(c.at, next, time)]

LEMMA ExtendedNone ==
  ASSUME NEW v
  PROVE  /\ Extended(<<>>, "appended", v) = [appended |-> v]
         /\ Extended(<<>>, "started", v) = [started |-> v]
BY DEF Extended

LEMMA ExtendedStarted ==
  ASSUME NEW a, NEW v
  PROVE  Extended([started |-> a], "ended", v) = [started |-> a, ended |-> v]
BY DEF Extended

LEMMA ExtendedOne ==
  ASSUME NEW q, NEW v
  PROVE  Extended([appended |-> q], "submitted", v) = [appended |-> q, submitted |-> v]
BY DEF Extended

LEMMA ExtendedTwo ==
  ASSUME NEW q, NEW s, NEW v
  PROVE  Extended([appended |-> q, submitted |-> s], "started", v)
           = [appended |-> q, submitted |-> s, started |-> v]
BY DEF Extended

LEMMA ExtendedThree ==
  ASSUME NEW q, NEW s, NEW a, NEW v
  PROVE  Extended([appended |-> q, submitted |-> s, started |-> a], "ended", v)
           = [appended |-> q, submitted |-> s, started |-> a, ended |-> v]
BY DEF Extended

LEMMA ZeReaching ==
  ASSUME NEW d, NEW x, NEW y, NEW a, NEW e
  PROVE  /\ Reaching(ZeSubmitted(d, x, y), "started", Reading(d, a), a) = ZeStarted(d, x, y, a)
         /\ Reaching(ZeStarted(d, x, y, a), "ended", Reading(d, e), e)
              = ZeRun(d, x, y, a, e, "ended")
<1>1. ASSUME NEW stage, NEW sync, NEW stamp, NEW at, NEW next, NEW ticks, NEW time
      PROVE  Reaching([stage |-> stage, append_time |-> x, host_sync |-> y,
                       device_sync |-> sync, stamp |-> stamp, at |-> at], next, ticks, time)
               = [stage |-> next, append_time |-> x, host_sync |-> y, device_sync |-> sync,
                  stamp |-> Extended(stamp, next, ticks), at |-> Extended(at, next, time)]
  <2>. DEFINE c == [stage |-> stage, append_time |-> x, host_sync |-> y,
                    device_sync |-> sync, stamp |-> stamp, at |-> at]
              r == Reaching(c, next, ticks, time)
  <2>1. c.stamp = stamp /\ c.at = at
    OBVIOUS
  <2>2. c = [stage |-> stage, append_time |-> x, host_sync |-> y,
             device_sync |-> sync, stamp |-> stamp, at |-> at]
    OBVIOUS
  <2>. HIDE DEF c
  <2>3. r = [c EXCEPT !.stage = next, !.stamp = Extended(stamp, next, ticks),
                      !.at = Extended(at, next, time)]
    BY <2>1 DEF Reaching
  <2>. HIDE DEF r
  <2>4. r = [stage |-> next, append_time |-> x, host_sync |-> y, device_sync |-> sync,
             stamp |-> Extended(stamp, next, ticks), at |-> Extended(at, next, time)]
    BY <2>2, <2>3
  <2>. QED  BY <2>4 DEF r, c
<1>2. Reaching(ZeSubmitted(d, x, y), "started", Reading(d, a), a) = ZeStarted(d, x, y, a)
  <2>1. /\ Extended(<<>>, "started", Reading(d, a)) = [started |-> Reading(d, a)]
        /\ Extended([appended |-> x, submitted |-> y], "started", a)
             = [appended |-> x, submitted |-> y, started |-> a]
    BY ExtendedNone, ExtendedTwo, Zenon
  <2>. QED  BY <1>1, <2>1 DEF ZeSubmitted, ZeStarted
<1>3. Reaching(ZeStarted(d, x, y, a), "ended", Reading(d, e), e) = ZeRun(d, x, y, a, e, "ended")
  <2>1. /\ Extended([started |-> Reading(d, a)], "ended", Reading(d, e))
             = [started |-> Reading(d, a), ended |-> Reading(d, e)]
        /\ Extended([appended |-> x, submitted |-> y, started |-> a], "ended", e)
             = [appended |-> x, submitted |-> y, started |-> a, ended |-> e]
    BY ExtendedStarted, ExtendedThree
  <2>. QED  BY <1>1, <2>1 DEF ZeStarted, ZeRun
<1>. QED  BY <1>2, <1>3

LEMMA ClReaching ==
  ASSUME NEW d, NEW t, NEW gap, NEW stage, NEW stamp, NEW at, NEW next, NEW ticks, NEW time
  PROVE  Reaching(ClRun(d, t, gap, stage, stamp, at), next, ticks, time)
           = ClRun(d, t, gap, next, Extended(stamp, next, ticks), Extended(at, next, time))
<1>. DEFINE c == ClRun(d, t, gap, stage, stamp, at)
            r == Reaching(c, next, ticks, time)
<1>1. c.stamp = stamp /\ c.at = at
  BY DEF ClRun
<1>2. c = ClRun(d, t, gap, stage, stamp, at)
  OBVIOUS
<1>. HIDE DEF c
<1>3. r = [c EXCEPT !.stage = next, !.stamp = Extended(stamp, next, ticks),
                    !.at = Extended(at, next, time)]
  BY <1>1 DEF Reaching
<1>. HIDE DEF r
<1>4. r = ClRun(d, t, gap, next, Extended(stamp, next, ticks), Extended(at, next, time))
  BY <1>2, <1>3 DEF ClRun
<1>. QED  BY <1>4 DEF r, c

LEMMA AdvanceStep ==
  ASSUME Advance
  PROVE  /\ command.stage \in DOMAIN NextStage /\ aborted = FALSE
         /\ command' = Reaching(command, NextStage[command.stage],
              IF device.backend = "ze" THEN KernelTicks(now) ELSE ClTicks(now), now)
         /\ UNCHANGED <<device, stages, now, aborted>>
BY DEF Advance, Reaching, Extended

LEMMA ZeAdvanceKeeps ==
  ASSUME IInv, Advance, device.backend = "ze"
  PROVE  IInv'
<1>1. /\ ZeShape(device, now, command) /\ now \in 1..now /\ now \in Nat \ {0}
      /\ DeviceOK(device)
  BY DEF IInv, Shape
<1>2. command.stage \in {"submitted", "started"}
  BY AdvanceStep DEF NextStage
<1>3. KernelTicks(now) = Reading(device, now)
  BY <1>1, Readings
<1>4. CASE command.stage = "submitted"
  <2>1. PICK x, y \in 1..now : x <= y /\ command = ZeSubmitted(device, x, y)
    BY <1>1, <1>4 DEF ZeShape, ZeStarted, ZeRun
  <2>2. command' = Reaching(command, "started", Reading(device, now), now)
    BY <1>3, <1>4, AdvanceStep DEF NextStage
  <2>3. command' = ZeStarted(device, x, y, now)
    BY <2>1, <2>2, ZeReaching
  <2>4. y <= now
    BY <1>1
  <2>5. ZeShape(device, now, command')
    BY <1>1, <2>1, <2>3, <2>4 DEF ZeShape
  <2>6. command'.stage = "started"
    BY <2>3 DEF ZeStarted
  <2>. QED  BY <1>1, <2>5, <2>6, AdvanceStep, Unreported DEF Shape
<1>5. CASE command.stage = "started"
  <2>1. PICK x, y, a \in 1..now : x <= y /\ y <= a /\ command = ZeStarted(device, x, y, a)
    BY <1>1, <1>5 DEF ZeShape, ZeSubmitted, ZeRun
  <2>2. command' = Reaching(command, "ended", Reading(device, now), now)
    BY <1>3, <1>5, AdvanceStep DEF NextStage
  <2>3. command' = ZeRun(device, x, y, a, now, "ended")
    BY <2>1, <2>2, ZeReaching
  <2>4. a <= now
    BY <1>1
  <2>5. ZeShape(device, now, command')
    BY <1>1, <2>1, <2>3, <2>4 DEF ZeShape
  <2>6. command'.stage = "ended"
    BY <2>3 DEF ZeRun
  <2>. QED  BY <1>1, <2>5, <2>6, AdvanceStep, Unreported DEF Shape
<1>. QED  BY <1>2, <1>4, <1>5

\* The stage of a command of OpenCL tells which of the alternatives it is.
LEMMA ClStages ==
  ASSUME NEW d, NEW n \in Nat, NEW c, ClShape(d, n, c), c.stage # "none"
  PROVE  \E t \in 0..n, gap \in Nat :
           /\ c.stage = "entered" => c = ClRun(d, t, gap, "entered", <<>>, <<>>)
           /\ c.stage = "appended" => ClQueued(d, n, c, t, gap)
           /\ c.stage = "submitted" => ClSubmitted(d, n, c, t, gap)
           /\ c.stage = "started" => ClStarted(d, n, c, t, gap)
           /\ c.stage \in {"ended", "reported"} => ClEnded(d, n, c, t, gap)
<1>1. c # [stage |-> "none"]
  OBVIOUS
<1>2. PICK t \in 0..n, gap \in Nat :
        \/ c = ClRun(d, t, gap, "entered", <<>>, <<>>)
        \/ ClQueued(d, n, c, t, gap) \/ ClSubmitted(d, n, c, t, gap)
        \/ ClStarted(d, n, c, t, gap) \/ ClEnded(d, n, c, t, gap)
  BY <1>1 DEF ClShape
<1>3. /\ c = ClRun(d, t, gap, "entered", <<>>, <<>>) => c.stage = "entered"
      /\ ClQueued(d, n, c, t, gap) => c.stage = "appended"
      /\ ClSubmitted(d, n, c, t, gap) => c.stage = "submitted"
      /\ ClStarted(d, n, c, t, gap) => c.stage = "started"
      /\ ClEnded(d, n, c, t, gap) => c.stage \in {"ended", "reported"}
  BY DEF ClRun, ClQueued, ClSubmitted, ClStarted, ClEnded
<1>. QED  BY <1>2, <1>3

LEMMA ClAdvanceKeeps ==
  ASSUME IInv, Advance, device.backend # "ze"
  PROVE  IInv'
<1>1. /\ ClShape(device, now, command) /\ now \in Nat \ {0}
  BY DEF IInv, Shape
<1>2. command.stage \in {"entered", "appended", "submitted", "started"}
  BY AdvanceStep DEF NextStage
<1>3. ClTicks(now) = now + device.offset
  BY DEF ClTicks
<1>4. PICK t \in 0..now, gap \in Nat :
        /\ command.stage = "entered" => command = ClRun(device, t, gap, "entered", <<>>, <<>>)
        /\ command.stage = "appended" => ClQueued(device, now, command, t, gap)
        /\ command.stage = "submitted" => ClSubmitted(device, now, command, t, gap)
        /\ command.stage = "started" => ClStarted(device, now, command, t, gap)
  BY <1>1, <1>2, ClStages
<1>5. now \in t..now /\ \A i \in t..now : i <= now
  BY <1>1
<1>. SUFFICES ClShape(device, now, command') /\ command'.stage # "reported"
  BY <1>1, AdvanceStep, Unreported DEF Shape
<1>6. CASE command.stage = "entered"
  <2>1. command' = Reaching(command, "appended", now + device.offset, now)
    BY <1>3, <1>6, AdvanceStep DEF NextStage
  <2>2. command' = ClRun(device, t, gap, "appended", [appended |-> now + device.offset],
                         [appended |-> now])
    <3>1. command' = ClRun(device, t, gap, "appended",
            Extended(<<>>, "appended", now + device.offset),
            Extended(<<>>, "appended", now))
      BY <1>4, <1>6, <2>1, ClReaching
    <3>2. /\ Extended(<<>>, "appended", now + device.offset)
               = [appended |-> now + device.offset]
          /\ Extended(<<>>, "appended", now)
               = [appended |-> now]
      BY ExtendedNone, Zenon
    <3>. QED  BY <3>1, <3>2
  <2>3. ClQueued(device, now, command', t, gap)
    BY <1>5, <2>2, Zenon DEF ClQueued
  <2>. QED  BY <2>2, <2>3 DEF ClShape, ClRun
<1>7. CASE command.stage = "appended"
  <2>1. command' = Reaching(command, "submitted", now + device.offset, now)
    BY <1>3, <1>7, AdvanceStep DEF NextStage
  <2>2. PICK q \in t..now : command
          = ClRun(device, t, gap, "appended", [appended |-> q + device.offset], [appended |-> q])
    BY <1>4, <1>7 DEF ClQueued
  <2>3. command' = ClRun(device, t, gap, "submitted",
          [appended |-> q + device.offset, submitted |-> now + device.offset],
          [appended |-> q, submitted |-> now])
    <3>1. command' = ClRun(device, t, gap, "submitted",
            Extended([appended |-> q + device.offset], "submitted", now + device.offset),
            Extended([appended |-> q], "submitted", now))
      BY <2>1, <2>2, ClReaching
    <3>2. /\ Extended([appended |-> q + device.offset], "submitted", now + device.offset)
               = [appended |-> q + device.offset, submitted |-> now + device.offset]
          /\ Extended([appended |-> q], "submitted", now)
               = [appended |-> q, submitted |-> now]
      BY ExtendedOne, Zenon
    <3>. QED  BY <3>1, <3>2
  <2>4. ClSubmitted(device, now, command', t, gap)
    BY <1>5, <2>3, Zenon DEF ClSubmitted
  <2>. QED  BY <2>3, <2>4 DEF ClShape, ClRun
<1>8. CASE command.stage = "submitted"
  <2>1. command' = Reaching(command, "started", now + device.offset, now)
    BY <1>3, <1>8, AdvanceStep DEF NextStage
  <2>2. PICK q, s \in t..now : q <= s /\ command = ClRun(device, t, gap, "submitted",
          [appended |-> q + device.offset, submitted |-> s + device.offset],
          [appended |-> q, submitted |-> s])
    BY <1>4, <1>8 DEF ClSubmitted
  <2>3. command' = ClRun(device, t, gap, "started",
          [appended |-> q + device.offset, submitted |-> s + device.offset,
           started |-> now + device.offset],
          [appended |-> q, submitted |-> s, started |-> now])
    <3>1. command' = ClRun(device, t, gap, "started",
            Extended([appended |-> q + device.offset, submitted |-> s + device.offset],
                     "started", now + device.offset),
            Extended([appended |-> q, submitted |-> s], "started", now))
      BY <2>1, <2>2, ClReaching
    <3>2. /\ Extended([appended |-> q + device.offset, submitted |-> s + device.offset],
                      "started", now + device.offset)
               = [appended |-> q + device.offset, submitted |-> s + device.offset,
               started |-> now + device.offset]
          /\ Extended([appended |-> q, submitted |-> s], "started", now)
               = [appended |-> q, submitted |-> s, started |-> now]
      BY ExtendedTwo, Zenon
    <3>. QED  BY <3>1, <3>2
  <2>4. ClStarted(device, now, command', t, gap)
    BY <1>5, <2>2, <2>3, Zenon DEF ClStarted
  <2>. QED  BY <2>3, <2>4 DEF ClShape, ClRun
<1>9. CASE command.stage = "started"
  <2>1. command' = Reaching(command, "ended", now + device.offset, now)
    BY <1>3, <1>9, AdvanceStep DEF NextStage
  <2>2. PICK q, s, a \in t..now : q <= s /\ s <= a
          /\ command = ClRun(device, t, gap, "started",
               [appended |-> q + device.offset, submitted |-> s + device.offset,
                started |-> a + device.offset],
               [appended |-> q, submitted |-> s, started |-> a])
    BY <1>4, <1>9 DEF ClStarted
  <2>3. command' = ClRun(device, t, gap, "ended",
          [appended |-> q + device.offset, submitted |-> s + device.offset,
           started |-> a + device.offset, ended |-> now + device.offset],
          [appended |-> q, submitted |-> s, started |-> a, ended |-> now])
    <3>1. command' = ClRun(device, t, gap, "ended",
            Extended([appended |-> q + device.offset, submitted |-> s + device.offset,
                started |-> a + device.offset], "ended", now + device.offset),
            Extended([appended |-> q, submitted |-> s, started |-> a], "ended", now))
      BY <2>1, <2>2, ClReaching
    <3>2. /\ Extended([appended |-> q + device.offset, submitted |-> s + device.offset,
                started |-> a + device.offset], "ended", now + device.offset)
               = [appended |-> q + device.offset, submitted |-> s + device.offset,
               started |-> a + device.offset, ended |-> now + device.offset]
          /\ Extended([appended |-> q, submitted |-> s, started |-> a], "ended", now)
               = [appended |-> q, submitted |-> s, started |-> a, ended |-> now]
      BY ExtendedThree
    <3>. QED  BY <3>1, <3>2
  <2>4. ClEnded(device, now, command', t, gap)
    <3>1. "ended" \in {"ended", "reported"}
      OBVIOUS
    <3>. QED  BY <1>5, <2>2, <2>3, <3>1, Zenon DEF ClEnded
  <2>. QED  BY <2>3, <2>4 DEF ClShape, ClRun
<1>. QED  BY <1>2, <1>6, <1>7, <1>8, <1>9

\* A run that ended, once it is reported or has made an assertion fail.
LEMMA ZeProcessKeeps ==
  ASSUME IInv, Process, device.backend = "ze"
  PROVE  IInv'
<1>1. /\ ZeShape(device, now, command) /\ now \in Nat \ {0} /\ DeviceOK(device)
      /\ command.stage = "ended" /\ UNCHANGED <<device, stages, now>> /\ aborted = FALSE
      /\ stages \in BOOLEAN
  BY DEF IInv, Shape, Process
<1>2. PICK x, y, a, e \in 1..now : x <= y /\ y <= a /\ a <= e
                                 /\ command = ZeRun(device, x, y, a, e, "ended")
  BY <1>1 DEF ZeShape, ZeSubmitted, ZeStarted, ZeRun
<1>3. /\ x \in Nat \ {0} /\ y \in Nat /\ a \in Nat /\ e \in Nat
  BY <1>1
<1>4. Times(command) = ZeTimes(command)
  BY <1>1 DEF Times, Process
<1>5. CASE Plausible(command, Times(command))
  <2>1. /\ reported' = ZeTimes(command) /\ aborted' = FALSE
        /\ command' = [command EXCEPT !.stage = "reported"]
    BY <1>1, <1>4, <1>5 DEF Process
  <2>2. command' = ZeRun(device, x, y, a, e, "reported")
    BY <1>2, <2>1 DEF ZeRun
  <2>3. ZeShape(device, now, command')
    BY <1>2, <2>2 DEF ZeShape
  <2>4. reported' = [appended |-> x, submitted |-> y, started |-> y + Between(y, a),
                     ended |-> y + Between(y, a) + Between(a, e)]
    BY <1>2, <2>1, ZeTimesOfRun
  <2>5. command'.at = [appended |-> x, submitted |-> y, started |-> a, ended |-> e]
    BY <2>2 DEF ZeRun
  <2>6. device' = device /\ device'.backend = "ze"
    BY <1>1, <2>1 DEF Process
  <2>7. /\ reported'.started = y + Between(y, a)
        /\ reported'.ended = y + Between(y, a) + Between(a, e)
        /\ reported'.appended = x /\ reported'.submitted = y
    BY <2>4
  <2>. DEFINE b == y + Between(y, a)
              z == y + Between(y, a) + Between(a, e)
  <2>8. Measurable(y, a) => Close(b, a) /\ (Measurable(a, e) => Close(z, e))
    BY <1>1, <1>2, <1>3, ZeFaithful
  <2>. HIDE DEF b, z
  <2>9. Measurable(y, a)' => Close(reported'.started, a)
                            /\ (Measurable(a, e)' => Close(reported'.ended, e))
    BY <1>1, <2>7, <2>8 DEF Measurable, Elapsed, b, z
  <2>10. TimesFaithful'
    BY <2>5, <2>6, <2>7, <2>9 DEF TimesFaithful, Close, Measurable, Elapsed
  <2>. QED  BY <1>1, <2>1, <2>3, <2>10 DEF IInv, Shape, AbortsOnlyOnExtremes
<1>6. CASE ~Plausible(command, Times(command))
  <2>1. aborted' = TRUE /\ UNCHANGED <<command, reported>>
    BY <1>1, <1>6 DEF Process
  <2>2. stages /\ (Overflows(y, a) \/ Overflows(a, e))
    BY <1>1, <1>2, <1>3, <1>4, <1>6, ZeExtremes
  <2>3. command.at.submitted = y /\ command.at.started = a /\ command.at.ended = e
    BY <1>2 DEF ZeRun
  <2>4. (Overflows(y, a)' <=> Overflows(y, a)) /\ (Overflows(a, e)' <=> Overflows(a, e))
    BY <1>1 DEF Overflows, Elapsed
  <2>5. AbortsOnlyOnExtremes'
    BY <1>1, <2>1, <2>2, <2>3, <2>4 DEF AbortsOnlyOnExtremes
  <2>6. TimesFaithful'
    BY <1>1, <2>1 DEF TimesFaithful
  <2>. QED  BY <1>1, <2>1, <2>5, <2>6 DEF IInv
<1>. QED  BY <1>5, <1>6

LEMMA ClProcessKeeps ==
  ASSUME IInv, Process, device.backend # "ze"
  PROVE  IInv'
<1>1. /\ ClShape(device, now, command) /\ now \in Nat \ {0} /\ DeviceOK(device)
      /\ command.stage = "ended" /\ UNCHANGED <<device, stages, now>> /\ aborted = FALSE
      /\ stages \in BOOLEAN /\ device.offset \in Nat
  BY ClDevice DEF IInv, Shape, Process
<1>2. PICK t \in 0..now, gap \in Nat : ClEnded(device, now, command, t, gap)
  BY <1>1, ClStages
<1>3. PICK q, s, a, e \in t..now : /\ q <= s /\ s <= a /\ a <= e
        /\ command = ClRun(device, t, gap, "ended",
             [appended |-> q + device.offset, submitted |-> s + device.offset,
              started |-> a + device.offset, ended |-> e + device.offset],
             [appended |-> q, submitted |-> s, started |-> a, ended |-> e])
  <2>1. PICK q, s, a, e \in t..now, stage \in {"ended", "reported"} :
          /\ q <= s /\ s <= a /\ a <= e
          /\ command = ClRun(device, t, gap, stage,
               [appended |-> q + device.offset, submitted |-> s + device.offset,
                started |-> a + device.offset, ended |-> e + device.offset],
               [appended |-> q, submitted |-> s, started |-> a, ended |-> e])
    BY <1>2 DEF ClEnded
  <2>2. stage = "ended"
    BY <1>1, <2>1 DEF ClRun
  <2>. QED  BY <2>1, <2>2
<1>4. q \in Int /\ s \in Int /\ a \in Int /\ e \in Int /\ t \in Int /\ device.offset \in Int
  BY <1>1
<1>5. Times(command) = [appended |-> q - gap, submitted |-> s - gap,
                        started |-> a - gap, ended |-> e - gap]
  <2>1. ClTimes(ClRun(device, t, gap, "ended",
             [appended |-> q + device.offset, submitted |-> s + device.offset,
              started |-> a + device.offset, ended |-> e + device.offset],
             [appended |-> q, submitted |-> s, started |-> a, ended |-> e]))
          = [appended |-> q - gap, submitted |-> s - gap,
             started |-> a - gap, ended |-> e - gap]
    BY <1>4, ClTimesOfRun
  <2>2. Times(command) = ClTimes(command)
    BY <1>1 DEF Times, Process
  <2>. QED  BY <1>3, <2>1, <2>2
<1>6. CASE Plausible(command, Times(command))
  <2>1. /\ reported' = Times(command) /\ aborted' = FALSE
        /\ command' = [command EXCEPT !.stage = "reported"]
    BY <1>1, <1>6 DEF Process
  <2>2. command' = ClRun(device, t, gap, "reported",
             [appended |-> q + device.offset, submitted |-> s + device.offset,
              started |-> a + device.offset, ended |-> e + device.offset],
             [appended |-> q, submitted |-> s, started |-> a, ended |-> e])
    BY <1>3, <2>1 DEF ClRun
  <2>3. ClEnded(device, now, command', t, gap)
    <3>1. "reported" \in {"ended", "reported"}
      OBVIOUS
    <3>. QED  BY <1>3, <2>2, <3>1, Zenon DEF ClEnded
  <2>4. ClShape(device, now, command')
    BY <2>3 DEF ClShape
  <2>5. /\ command'.at = [appended |-> q, submitted |-> s, started |-> a, ended |-> e]
        /\ command'.gap = gap
    BY <2>2 DEF ClRun
  <2>6. TimesFaithful'
    BY <1>1, <1>5, <2>1, <2>5 DEF TimesFaithful
  <2>. QED  BY <1>1, <2>1, <2>4, <2>6 DEF IInv, Shape, AbortsOnlyOnExtremes
<1>7. CASE ~Plausible(command, Times(command))
  <2>1. aborted' = TRUE /\ UNCHANGED <<command, reported>>
    BY <1>1, <1>7 DEF Process
  <2>2. command.at = [appended |-> q, submitted |-> s, started |-> a, ended |-> e]
    BY <1>3 DEF ClRun
  <2>3. (a = e) \/ (stages /\ (q = s \/ s = a))
    <3>1. /\ command.device_sync = t + device.offset
          /\ command.stamp.appended = q + device.offset
          /\ command.stamp.submitted = s + device.offset
          /\ command.stamp.started = a + device.offset
          /\ command.stamp.ended = e + device.offset
      BY <1>3 DEF ClRun
    <3>2. t <= q
      BY <1>4
    <3>. QED  BY <1>1, <1>3, <1>4, <1>5, <1>7, <3>1, <3>2 DEF Plausible, PlausibleZe, PlausibleCl, PlausibleStages
  <2>4. AbortsOnlyOnExtremes'
    BY <1>1, <2>1, <2>2, <2>3 DEF AbortsOnlyOnExtremes
  <2>5. TimesFaithful'
    BY <1>1, <2>1 DEF TimesFaithful
  <2>. QED  BY <1>1, <2>1, <2>4, <2>5 DEF IInv
<1>. QED  BY <1>6, <1>7

LEMMA Inductive ==
  ASSUME IInv, [Next]_vars
  PROVE  IInv'
<1>1. ASSUME Advance PROVE IInv'
  BY <1>1, ZeAdvanceKeeps, ClAdvanceKeeps
<1>2. ASSUME Process PROVE IInv'
  BY <1>2, ZeProcessKeeps, ClProcessKeeps
<1>3. ASSUME UNCHANGED vars PROVE IInv'
  <2>1. TimesFaithful' /\ AbortsOnlyOnExtremes'
    BY <1>3, Unseen DEF vars
  <2>. QED  BY <1>3, <2>1 DEF IInv, vars
<1>. QED  BY <1>1, <1>2, <1>3, AppendCommandKeeps, AppendImmediateKeeps, ExecuteKeeps,
             EnqueueKeeps, ResetKeeps, TickKeeps DEF Next

LEMMA Invariance == Spec => []IInv
<1>1. Init => IInv
  BY Initially
<1>2. IInv /\ [Next]_vars => IInv'
  BY Inductive
<1>. QED  BY <1>1, <1>2, PTL DEF Spec

-----------------------------------------------------------------------------
(* The theorems.                                                           *)

\* A command is reported where it was: appended and submitted at their times,
\* started and ended within a tick and the rounding, however often the counter
\* wrapped, as long as a wrapping counter and a word can tell; with OpenCL all
\* four times early by what reading the clocks took (GetHostTime,
\* ComputeDuration, ComputeHostTimestamps, ConvertClockMonotonicToRaw).
THEOREM Faithful == Spec => []TimesFaithful
<1>1. IInv => TimesFaithful
  BY DEF IInv
<1>. QED  BY <1>1, Invariance, PTL

\* The assertions on the times fail for an interval of OpenCL of no length and,
\* when stages are shown, one of Level Zero that overflows a word: in no other
\* case (ProcessCall, ProcessKernelInstance, the callbacks of the stages).
THEOREM Extremes == Spec => []AbortsOnlyOnExtremes
<1>1. IInv => AbortsOnlyOnExtremes
  BY DEF IInv
<1>. QED  BY <1>1, Invariance, PTL

=============================================================================
