--------------------------- MODULE ObjectAgeProofs ---------------------------
(***************************************************************************)
(* The access times of ObjectAge for every width of the clocks: the        *)
(* inductive invariant says what the field of an object holds, by the      *)
(* policy it was written under; the rest is arithmetic: the rounding to a  *)
(* whole tick, and the turn of a clock.                                    *)
(***************************************************************************)
EXTENDS ObjectAge, TLAPS

-----------------------------------------------------------------------------
(* Division.                                                               *)

LEMMA DivMod ==
  ASSUME NEW a \in Int, NEW m \in Nat \ {0}
  PROVE  /\ a \div m \in Int /\ a % m \in 0 .. m - 1
         /\ a = m * (a \div m) + (a % m)
  OBVIOUS

LEMMA LessTimes ==
  ASSUME NEW m \in Nat \ {0}, NEW p \in Int, NEW q \in Int, p < q
  PROVE  m * p + m <= m * q
<1>1. m * (q - p - 1) >= 0
  OBVIOUS
<1>2. m * (q - p - 1) = m * q - m * p - m
  OBVIOUS
<1> QED
  BY <1>1, <1>2

\* A quotient and a remainder are unique.
LEMMA DivUnique ==
  ASSUME NEW m \in Nat \ {0}, NEW q \in Int, NEW r \in 0 .. m - 1,
         NEW a, a = m * q + r
  PROVE  a \div m = q /\ a % m = r
<1> DEFINE p == a \div m
           s == a % m
<1>1. a \in Int
  OBVIOUS
<1>2. p \in Int /\ s \in 0 .. m - 1 /\ a = m * p + s
  BY <1>1, DivMod
<1> HIDE DEF p, s
<1>3. ~(p < q)
  <2> SUFFICES ASSUME p < q PROVE FALSE
    OBVIOUS
  <2>1. m * p + m <= m * q
    BY <1>2, LessTimes
  <2> DEFINE x == m * p
             y == m * q
  <2>2. x \in Int /\ y \in Int
    BY <1>2
  <2> HIDE DEF x, y
  <2>3. x + m <= y /\ x + s = y + r
    BY <1>2, <2>1 DEF x, y
  <2> QED
    BY <1>2, <2>2, <2>3
<1>4. ~(q < p)
  <2> SUFFICES ASSUME q < p PROVE FALSE
    OBVIOUS
  <2>1. m * q + m <= m * p
    BY <1>2, LessTimes
  <2> DEFINE x == m * p
             y == m * q
  <2>2. x \in Int /\ y \in Int
    BY <1>2
  <2> HIDE DEF x, y
  <2>3. y + m <= x /\ x + s = y + r
    BY <1>2, <2>1 DEF x, y
  <2> QED
    BY <1>2, <2>2, <2>3
<1>5. p = q
  BY <1>2, <1>3, <1>4
<1>6. s = r
  <2> DEFINE x == m * q
  <2>1. x \in Int /\ x + s = x + r
    BY <1>2, <1>5
  <2> HIDE DEF x
  <2> QED
    BY <1>2, <2>1
<1> QED
  BY <1>5, <1>6 DEF p, s

LEMMA DivMonotone ==
  ASSUME NEW a \in Int, NEW b \in Int, NEW m \in Nat \ {0}, a <= b
  PROVE  a \div m <= b \div m
<1> DEFINE p == a \div m
           q == b \div m
           x == m * p
           y == m * q
<1>1. /\ p \in Int /\ a % m \in 0 .. m - 1 /\ a = x + (a % m)
      /\ q \in Int /\ b % m \in 0 .. m - 1 /\ b = y + (b % m)
  BY DivMod
<1>2. q < p => y + m <= x
  <2> HIDE DEF p, q
  <2> QED
    BY <1>1, LessTimes
<1>3. x \in Int /\ y \in Int
  <2> HIDE DEF p, q
  <2> QED
    BY <1>1
<1> HIDE DEF p, q, x, y
<1>4. ~(q < p)
  BY <1>1, <1>2, <1>3
<1>5. p <= q
  BY <1>1, <1>4
<1> QED
  BY <1>5 DEF p, q

LEMMA DivNat ==
  ASSUME NEW a \in Nat, NEW m \in Nat \ {0}
  PROVE  a \div m \in Nat
<1>1. 0 \div m = 0
  BY DivUnique
<1>2. 0 \div m <= a \div m
  BY DivMonotone
<1> QED
  BY <1>1, <1>2, DivMod

\* Two readings of a clock with m values, less than a turn apart.
LEMMA ClockDifference ==
  ASSUME NEW m \in Nat \ {0}, NEW s \in Nat, NEW t \in Nat, s <= t, t - s < m
  PROVE  /\ t % m >= s % m => t - s = (t % m) - (s % m)
         /\ t % m < s % m => t - s = (t % m) - (s % m) + m
<1> DEFINE p == s \div m
           q == t \div m
           b == s % m
           c == t % m
           x == m * p
           y == m * q
<1>1. /\ p \in Int /\ b \in 0 .. m - 1 /\ s = x + b
      /\ q \in Int /\ c \in 0 .. m - 1 /\ t = y + c
  BY DivMod
<1>2. p <= q
  BY DivMonotone
<1>3. p + 1 < q => x + m + m <= y
  <2> HIDE DEF p, q
  <2>1. p + 1 < q => m * (p + 1) + m <= m * q
    BY <1>1, LessTimes
  <2>2. m * (p + 1) = m * p + m
    BY <1>1
  <2> QED
    BY <2>1, <2>2
<1>4. (p = q => y = x) /\ (q = p + 1 => y = x + m) /\ x \in Int /\ y \in Int
  <2> HIDE DEF p, q
  <2> QED
    BY <1>1
<1> HIDE DEF p, q, b, c, x, y
<1>5. ~(p + 1 < q)
  BY <1>1, <1>3, <1>4
<1>6. q = p \/ q = p + 1
  BY <1>1, <1>2, <1>5
<1>7. (c >= b => t - s = c - b) /\ (c < b => t - s = c - b + m)
  BY <1>1, <1>4, <1>6
<1> QED
  BY <1>7 DEF b, c

\* Rounding two times down changes their difference by less than a tick.
LEMMA RoundedDifference ==
  ASSUME NEW m \in Nat \ {0}, NEW s \in Nat, NEW t \in Nat
  PROVE  /\ m * (t \div m - s \div m) \in t - s - m + 1 .. t - s + m - 1
         /\ m * (t \div m - s \div m - 1) = m * (t \div m - s \div m) - m
<1> DEFINE p == s \div m
           q == t \div m
           b == s % m
           c == t % m
           x == m * p
           y == m * q
<1>1. /\ p \in Int /\ b \in 0 .. m - 1 /\ s = x + b
      /\ q \in Int /\ c \in 0 .. m - 1 /\ t = y + c
  BY DivMod
<1>2. m * (q - p) = y - x /\ m * (q - p - 1) = y - x - m /\ x \in Int /\ y \in Int
  <2> HIDE DEF p, q
  <2> QED
    BY <1>1
<1> HIDE DEF p, q, b, c, x, y
<1>3. y - x \in t - s - m + 1 .. t - s + m - 1
  BY <1>1, <1>2
<1>4. /\ m * (q - p) \in t - s - m + 1 .. t - s + m - 1
      /\ m * (q - p - 1) = m * (q - p) - m
  BY <1>2, <1>3
<1> QED
  BY <1>4 DEF p, q

\* Between two times as many ticks begin as whole ticks pass, or one more.
LEMMA WholeDifference ==
  ASSUME NEW m \in Nat \ {0}, NEW s \in Nat, NEW t \in Nat, s <= t
  PROVE  /\ (t - s) \div m \in Nat
         /\ t \div m - s \div m \in (t - s) \div m .. (t - s) \div m + 1
<1> DEFINE w == (t - s) \div m
           d == t \div m - s \div m
           x == m * w
           y == m * d
           c == (t - s) % m
<1>1. t - s \in Nat
  OBVIOUS
<1>2. w \in Nat /\ c \in 0 .. m - 1 /\ t - s = x + c
  <2> DEFINE a == t - s
  <2>1. a \in Nat
    BY <1>1
  <2> HIDE DEF a
  <2>2. a \div m \in Nat
    BY <2>1, DivNat
  <2>3. a % m \in 0 .. m - 1 /\ a = m * (a \div m) + (a % m)
    BY <2>1, DivMod
  <2> QED
    BY <2>2, <2>3 DEF a
<1>3. d \in Int /\ y \in t - s - m + 1 .. t - s + m - 1
  BY DivMod, RoundedDifference
<1>4. /\ d < w => y + m <= x
      /\ w + 1 < d => x + m + m <= y
  <2> HIDE DEF w, d
  <2>1. d < w => m * d + m <= m * w
    BY <1>2, <1>3, LessTimes
  <2>2. w + 1 < d => m * (w + 1) + m <= m * d
    BY <1>2, <1>3, LessTimes
  <2>3. m * (w + 1) = m * w + m
    BY <1>2
  <2> QED
    BY <2>1, <2>2, <2>3
<1>5. x \in Int /\ y \in Int
  <2> HIDE DEF w, d
  <2> QED
    BY <1>2, <1>3
<1> HIDE DEF w, d, x, y, c
<1>6. ~(d < w) /\ ~(w + 1 < d)
  BY <1>2, <1>3, <1>4, <1>5
<1>7. w \in Nat /\ d \in w .. w + 1
  BY <1>2, <1>3, <1>6
<1> QED
  BY <1>7 DEF w, d

-----------------------------------------------------------------------------
(* What the field of an object holds.                                      *)

\* The tick and the minute of a time, as the field keeps them.
ClockOf(t) == (t \div Resolution) % LruMod

Minute(t) == (t \div MinuteLength) % LdtMod

AgeInv ==
  /\ now \in Nat /\ policy \in {"lru", "lfu"} /\ decay \in Decays
  /\ lru \in [Obj -> 0 .. LruMod - 1]
  /\ seen \in [Obj -> [time : Nat, as : {"lru", "lfu"}]]
  /\ \A o \in Obj :
       /\ seen[o].time <= now
       /\ seen[o].as = "lru" => lru[o] = ClockOf(seen[o].time)
       /\ seen[o].as = "lfu" => Ldt(o) = Minute(seen[o].time)

LEMMA Moduli ==
  /\ LdtMod \in Nat \ {0} /\ CounterMod \in Nat \ {0}
  /\ Resolution \in Nat \ {0} /\ MinuteLength \in Nat \ {0}
  /\ LruMod \in Nat \ {0}
<1>1. /\ LdtMod \in Nat \ {0} /\ CounterMod \in Nat \ {0}
      /\ Resolution \in Nat \ {0} /\ MinuteLength \in Nat \ {0}
  BY ObjectAgeAssumption
<1>2. LdtMod * CounterMod \in Nat \ {0}
  BY <1>1
<1> QED
  BY <1>1, <1>2 DEF LruMod

LEMMA MinuteType ==
  ASSUME NEW t \in Nat
  PROVE  t \div MinuteLength \in Nat /\ Minute(t) \in 0 .. LdtMod - 1
<1>1. t \div MinuteLength \in Nat
  BY Moduli, DivNat
<1> QED
  BY <1>1, Moduli, DivMod DEF Minute

LEMMA ClockType ==
  ASSUME NEW t \in Nat
  PROVE  t \div Resolution \in Nat /\ ClockOf(t) \in 0 .. LruMod - 1
<1>1. t \div Resolution \in Nat
  BY Moduli, DivNat
<1> QED
  BY <1>1, Moduli, DivMod DEF ClockOf

\* Packing a minute and a counter, and reading them back.
LEMMA Packed ==
  ASSUME NEW x \in 0 .. LdtMod - 1, NEW c \in 0 .. CounterMod - 1
  PROVE  /\ x * CounterMod + c \in 0 .. LruMod - 1
         /\ (x * CounterMod + c) \div CounterMod = x
         /\ (x * CounterMod + c) % CounterMod = c
<1>1. CounterMod * x = x * CounterMod /\ x * CounterMod \in Nat
  BY Moduli
<1>2. (x * CounterMod + c) \div CounterMod = x /\ (x * CounterMod + c) % CounterMod = c
  BY <1>1, Moduli, DivUnique
<1>3. CounterMod * x + CounterMod <= CounterMod * LdtMod
  BY Moduli, LessTimes
<1>4. CounterMod * LdtMod = LruMod
  BY Moduli DEF LruMod
<1> DEFINE y == x * CounterMod
<1>5. y \in Nat /\ y + CounterMod <= LruMod
  BY <1>1, <1>3, <1>4
<1> HIDE DEF y
<1>6. y + c \in 0 .. LruMod - 1
  BY <1>5, Moduli
<1> QED
  BY <1>2, <1>6 DEF y

LEMMA FieldParts ==
  ASSUME AgeInv, NEW o \in Obj
  PROVE  Ldt(o) \in 0 .. LdtMod - 1 /\ Counter(o) \in 0 .. CounterMod - 1
<1> DEFINE v == lru[o]
           q == v \div CounterMod
<1>1. v \in 0 .. LruMod - 1 /\ v \in Nat
  BY Moduli DEF AgeInv
<1>2. q \in Nat /\ v % CounterMod \in 0 .. CounterMod - 1
      /\ v = CounterMod * q + (v % CounterMod)
  <2> HIDE DEF v
  <2>1. q \in Nat
    BY <1>1, Moduli, DivNat
  <2>2. v \in Int
    BY <1>1
  <2>3. v % CounterMod \in 0 .. CounterMod - 1 /\ v = CounterMod * q + (v % CounterMod)
    BY <2>2, Moduli, DivMod
  <2> QED
    BY <2>1, <2>3
<1>3. LdtMod - 1 < q => CounterMod * (LdtMod - 1) + CounterMod <= CounterMod * q
  <2> HIDE DEF q
  <2> QED
    BY <1>2, Moduli, LessTimes
<1>4. CounterMod * (LdtMod - 1) + CounterMod = LruMod
  BY Moduli DEF LruMod
<1> DEFINE y == CounterMod * q
<1>5. y \in Int
  <2> HIDE DEF q
  <2> QED
    BY <1>2, Moduli
<1>6. ~(LdtMod - 1 < q)
  <2> SUFFICES ASSUME LdtMod - 1 < q PROVE FALSE
    OBVIOUS
  <2>1. LruMod <= y
    BY <1>3, <1>4
  <2>2. v = y + (v % CounterMod)
    BY <1>2
  <2> HIDE DEF v, q, y
  <2> QED
    BY <1>1, <1>2, <1>5, <2>1, <2>2, Moduli
<1>7. q \in 0 .. LdtMod - 1
  <2> HIDE DEF v, q
  <2> QED
    BY <1>2, <1>6, Moduli
<1> QED
  BY <1>2, <1>7 DEF Ldt, Counter

LEMMA ElapsedType ==
  ASSUME AgeInv, NEW ldt \in 0 .. LdtMod - 1
  PROVE  LFUTimeElapsed(ldt) \in Nat
<1> DEFINE m == LFUGetTimeInMinutes
<1>1. m \in 0 .. LdtMod - 1
  BY MinuteType DEF AgeInv, Minute, LFUGetTimeInMinutes
<1> HIDE DEF m
<1> QED
  BY <1>1, Moduli DEF LFUTimeElapsed, m

\* The decayed counter is a counter.
LEMMA DecayType ==
  ASSUME AgeInv, NEW o \in Obj
  PROVE  LFUDecrAndReturn(o) \in 0 .. CounterMod - 1
<1> DEFINE p == IF decay = 0 THEN 0 ELSE LFUTimeElapsed(Ldt(o)) \div decay
<1>1. p \in Nat
  <2>1. LFUTimeElapsed(Ldt(o)) \in Nat
    BY FieldParts, ElapsedType
  <2>2. decay \in Nat
    BY ObjectAgeAssumption DEF AgeInv
  <2> QED
    BY <2>1, <2>2, DivNat
<1>2. Counter(o) \in 0 .. CounterMod - 1
  BY FieldParts
<1> HIDE DEF p
<1>3. (IF p > Counter(o) THEN 0 ELSE Counter(o) - p) \in 0 .. CounterMod - 1
  BY <1>1, <1>2, Moduli
<1> QED
  BY <1>3 DEF LFUDecrAndReturn, p

-----------------------------------------------------------------------------
(* The steps.                                                              *)

LEMMA StampInv ==
  ASSUME AgeInv, NEW o \in Obj, NEW v \in 0 .. LruMod - 1, Stamp(o, v),
         policy = "lru" => v = LRU_CLOCK,
         policy = "lfu" => v \div CounterMod = LFUGetTimeInMinutes
  PROVE  AgeInv'
<1>1. /\ now' = now /\ policy' = policy /\ decay' = decay
      /\ lru' = [lru EXCEPT ![o] = v]
      /\ seen' = [seen EXCEPT ![o] = [time |-> now, as |-> policy]]
  BY DEF Stamp
<1>2. /\ lru' \in [Obj -> 0 .. LruMod - 1]
      /\ seen' \in [Obj -> [time : Nat, as : {"lru", "lfu"}]]
  BY <1>1 DEF AgeInv
<1>3. ASSUME NEW p \in Obj
      PROVE  /\ seen'[p].time <= now
             /\ seen'[p].as = "lru" => lru'[p] = ClockOf(seen'[p].time)
             /\ seen'[p].as = "lfu" => lru'[p] \div CounterMod = Minute(seen'[p].time)
  <2>1. CASE p = o
    <3>1. lru'[p] = v /\ seen'[p].time = now /\ seen'[p].as = policy
      BY <1>1, <2>1 DEF AgeInv
    <3> QED
      BY <3>1 DEF AgeInv, LRU_CLOCK, ClockOf, LFUGetTimeInMinutes, Minute
  <2>2. CASE p # o
    <3>1. lru'[p] = lru[p] /\ seen'[p] = seen[p]
      BY <1>1, <2>2 DEF AgeInv
    <3> QED
      BY <3>1 DEF AgeInv, Ldt
  <2> QED
    BY <2>1, <2>2
<1> QED
  BY <1>1, <1>2, <1>3 DEF AgeInv, Ldt

LEMMA ClockField ==
  ASSUME AgeInv
  PROVE  LRU_CLOCK \in 0 .. LruMod - 1
  BY ClockType DEF AgeInv, ClockOf, LRU_CLOCK

LEMMA LfuField ==
  ASSUME AgeInv, NEW c \in 0 .. CounterMod - 1
  PROVE  Lfu(c) \in 0 .. LruMod - 1 /\ Lfu(c) \div CounterMod = LFUGetTimeInMinutes
<1>1. LFUGetTimeInMinutes \in 0 .. LdtMod - 1
  BY MinuteType DEF AgeInv, Minute, LFUGetTimeInMinutes
<1> QED
  BY <1>1, Packed DEF Lfu

LEMMA InitAge == Init => AgeInv
<1> SUFFICES ASSUME Init PROVE AgeInv
  OBVIOUS
<1>1. InitVal \in 0 .. CounterMod - 1
  BY ObjectAgeAssumption
<1>2. LFUGetTimeInMinutes \in 0 .. LdtMod - 1 /\ LFUGetTimeInMinutes = Minute(0)
  BY MinuteType DEF Init, Minute, LFUGetTimeInMinutes
<1>3. Lfu(InitVal) \in 0 .. LruMod - 1 /\ Lfu(InitVal) \div CounterMod = Minute(0)
  BY <1>1, <1>2, Packed DEF Lfu
<1>4. LRU_CLOCK \in 0 .. LruMod - 1 /\ LRU_CLOCK = ClockOf(0)
  BY ClockType DEF Init, ClockOf, LRU_CLOCK
<1> DEFINE f == IF policy = "lfu" THEN Lfu(InitVal) ELSE LRU_CLOCK
<1>5. lru = [o \in Obj |-> f] /\ f \in 0 .. LruMod - 1
  BY <1>3, <1>4 DEF Init
<1>6. \A o \in Obj : lru[o] = f /\ seen[o].time = 0 /\ seen[o].as = policy
  BY <1>5 DEF Init
<1>7. /\ seen \in [Obj -> [time : Nat, as : {"lru", "lfu"}]]
      /\ now = 0 /\ policy \in {"lru", "lfu"} /\ decay \in Decays
  BY DEF Init
<1> HIDE DEF f
<1>8. lru \in [Obj -> 0 .. LruMod - 1]
  BY <1>5
<1>9. ASSUME NEW o \in Obj
      PROVE  /\ seen[o].as = "lru" => lru[o] = ClockOf(seen[o].time)
             /\ seen[o].as = "lfu" => Ldt(o) = Minute(seen[o].time)
  BY <1>3, <1>4, <1>6 DEF f, Ldt
<1> QED
  BY <1>6, <1>7, <1>8, <1>9 DEF AgeInv

LEMMA NextAge == AgeInv /\ [Next]_vars => AgeInv'
<1> SUFFICES ASSUME AgeInv, [Next]_vars PROVE AgeInv'
  OBVIOUS
<1>1. CASE Tick
  <2>1. now \in Nat /\ now' = now + 1 /\ now' \in Nat /\ \A t \in Nat : t <= now => t <= now'
    BY <1>1 DEF Tick, AgeInv
  <2> QED
    BY <1>1, <2>1 DEF Tick, AgeInv, Ldt
<1>2. CASE RcSetConfig
  BY <1>2 DEF RcSetConfig, AgeInv, Ldt
<1>3. ASSUME NEW o \in Obj, Create(o)
      PROVE  AgeInv'
  <2>1. CASE policy = "lfu"
    <3>1. Stamp(o, Lfu(InitVal)) /\ InitVal \in 0 .. CounterMod - 1
      BY <1>3, <2>1, ObjectAgeAssumption DEF Create
    <3> QED
      BY <2>1, <3>1, LfuField, StampInv
  <2>2. CASE policy # "lfu"
    <3>1. Stamp(o, LRU_CLOCK)
      BY <1>3, <2>2 DEF Create
    <3> QED
      BY <2>2, <3>1, ClockField, StampInv
  <2> QED
    BY <2>1, <2>2
<1>4. ASSUME NEW o \in Obj, Access(o)
      PROVE  AgeInv'
  <2>1. CASE policy = "lru" /\ Stamp(o, LRU_CLOCK)
    BY <2>1, ClockField, StampInv
  <2>2. CASE policy = "lfu" /\ \E c \in LFULogIncr(LFUDecrAndReturn(o)) : Stamp(o, Lfu(c))
    <3>1. PICK c \in LFULogIncr(LFUDecrAndReturn(o)) : Stamp(o, Lfu(c))
      BY <2>2
    <3>2. c \in 0 .. CounterMod - 1
      <4>1. LFUDecrAndReturn(o) \in 0 .. CounterMod - 1
        BY DecayType
      <4> QED
        BY <3>1, <4>1, Moduli DEF LFULogIncr
    <3> QED
      BY <2>2, <3>1, <3>2, LfuField, StampInv
  <2> QED
    BY <1>4, <2>1, <2>2 DEF Access
<1>5. CASE UNCHANGED vars
  BY <1>5 DEF vars, AgeInv, Ldt
<1> QED
  BY <1>1, <1>2, <1>3, <1>4, <1>5 DEF Next

-----------------------------------------------------------------------------
(* The theorems.                                                           *)

\* The ticks that estimateObjectIdleTime counts.
IdleTicks(o) ==
  IF LRU_CLOCK >= lru[o] THEN LRU_CLOCK - lru[o] ELSE LRU_CLOCK + (LruMod - 1 - lru[o])

LEMMA IdleEstimate ==
  ASSUME AgeInv, NEW o \in Obj, Clocked(o)
  PROVE  /\ estimateObjectIdleTime(o) = Resolution * IdleTicks(o)
         /\ IdleTicks(o) \in Ticks(o) - 1 .. Ticks(o) /\ Ticks(o) \in Nat
<1> DEFINE s == seen[o].time \div Resolution
           t == now \div Resolution
           c == t % LruMod
           b == s % LruMod
<1>1. /\ seen[o].time \in Nat /\ now \in Nat /\ seen[o].time <= now
      /\ t - s < LruMod /\ lru[o] = b
  BY DEF AgeInv, Clocked, Ticks, ClockOf
<1>2. s \in Nat /\ t \in Nat /\ s <= t
  BY <1>1, Moduli, DivNat, DivMonotone
<1>3. IdleTicks(o) = IF c >= b THEN c - b ELSE c + (LruMod - 1 - b)
  BY <1>1 DEF IdleTicks, LRU_CLOCK
<1>4. Ticks(o) = t - s
  BY DEF Ticks
<1> HIDE DEF s, t
<1>5. /\ c >= b => t - s = c - b
      /\ c < b => t - s = c - b + LruMod
  BY <1>1, <1>2, Moduli, ClockDifference
<1>6. c \in 0 .. LruMod - 1 /\ b \in 0 .. LruMod - 1
  BY <1>2, Moduli, DivMod
<1>7. estimateObjectIdleTime(o) = Resolution * IdleTicks(o)
  BY DEF estimateObjectIdleTime, IdleTicks
<1> HIDE DEF c, b
<1> QED
  BY <1>2, <1>3, <1>4, <1>5, <1>6, <1>7, Moduli

\* The minutes that LFUTimeElapsed counts.
LEMMA MinutesElapsed ==
  ASSUME AgeInv, NEW o \in Obj, Counted(o)
  PROVE  /\ LFUTimeElapsed(Ldt(o)) \in Nat /\ Minutes(o) \in Nat
         /\ LFUTimeElapsed(Ldt(o)) \in Minutes(o) - 1 .. Minutes(o)
<1> DEFINE s == seen[o].time \div MinuteLength
           t == now \div MinuteLength
           e == LFUTimeElapsed(Ldt(o))
<1>1. seen[o].time \in Nat /\ now \in Nat /\ seen[o].time <= now /\ Minutes(o) = t - s
  BY DEF AgeInv, Minutes
<1>2. s \in Nat /\ t \in Nat /\ s <= t
  BY <1>1, Moduli, DivNat, DivMonotone
<1>3. Ldt(o) = s % LdtMod /\ LFUGetTimeInMinutes = t % LdtMod /\ t - s < LdtMod
  BY DEF AgeInv, Minute, LFUGetTimeInMinutes, Counted, Minutes
<1>4. e = IF t % LdtMod >= s % LdtMod THEN (t % LdtMod) - (s % LdtMod)
          ELSE LdtMod - 1 - (s % LdtMod) + (t % LdtMod)
  BY <1>3 DEF LFUTimeElapsed
<1>5. e \in Nat
  BY FieldParts, ElapsedType
<1> HIDE DEF s, t, e
<1>6. e \in t - s - 1 .. t - s
  <2>1. /\ t % LdtMod >= s % LdtMod => t - s = (t % LdtMod) - (s % LdtMod)
        /\ t % LdtMod < s % LdtMod => t - s = (t % LdtMod) - (s % LdtMod) + LdtMod
    BY <1>2, <1>3, Moduli, ClockDifference
  <2>2. t % LdtMod \in Int /\ s % LdtMod \in Int
    BY <1>2, Moduli, DivMod
  <2> QED
    BY <1>2, <1>4, <2>1, <2>2, Moduli
<1>7. t - s \in Nat
  BY <1>2
<1> QED
  BY <1>1, <1>5, <1>6, <1>7 DEF e

\* More minutes leave less of a counter.
LEMMA CounterMonotone ==
  ASSUME AgeInv, NEW o \in Obj, decay # 0, NEW m \in Nat, NEW n \in Nat, m <= n
  PROVE  CounterAfter(o, n) <= CounterAfter(o, m) /\ CounterAfter(o, n) \in Nat
<1> DEFINE p == m \div decay
           q == n \div decay
           c == Counter(o)
<1>1. decay \in Nat \ {0} /\ c \in 0 .. CounterMod - 1
  BY ObjectAgeAssumption, FieldParts DEF AgeInv
<1>2. p \in Nat /\ q \in Nat /\ p <= q /\ c \in Nat
  BY <1>1, Moduli, DivNat, DivMonotone
<1>3. /\ CounterAfter(o, m) = IF p > c THEN 0 ELSE c - p
      /\ CounterAfter(o, n) = IF q > c THEN 0 ELSE c - q
  BY DEF CounterAfter
<1> HIDE DEF p, q, c
<1> QED
  BY <1>2, <1>3

\* Whatever the resolution and the width of the clock and the length of a run,
\* through any changes of policy: the idle time of an object differs from the
\* real one by less than a tick for the rounding, and by one more tick at the
\* wrap (evict.c:63-70).
THEOREM IdleIsNear == Spec => []IdleIsClose
<1>1. ASSUME AgeInv, NEW o \in Obj, Clocked(o)
      PROVE  estimateObjectIdleTime(o)
               \in Idle(o) - 2 * Resolution + 1 .. Idle(o) + Resolution - 1
  <2> DEFINE e == IdleTicks(o)
             d == Ticks(o)
             x == Resolution * d
             y == Resolution * e
  <2>1. estimateObjectIdleTime(o) = y /\ e \in d - 1 .. d /\ d \in Nat
    BY <1>1, IdleEstimate
  <2>2. /\ seen[o].time \in Nat /\ now \in Nat /\ Idle(o) = now - seen[o].time
        /\ d = now \div Resolution - seen[o].time \div Resolution
    BY <1>1 DEF AgeInv, Idle, Ticks
  <2>3. x \in Idle(o) - Resolution + 1 .. Idle(o) + Resolution - 1
        /\ Resolution * (d - 1) = x - Resolution
    <3> DEFINE s == seen[o].time
    <3>1. s \in Nat /\ now \in Nat /\ Idle(o) = now - s
          /\ d = now \div Resolution - s \div Resolution
      BY <2>2
    <3> HIDE DEF s, d
    <3>2. /\ Resolution * (now \div Resolution - s \div Resolution)
               \in now - s - Resolution + 1 .. now - s + Resolution - 1
          /\ Resolution * (now \div Resolution - s \div Resolution - 1)
               = Resolution * (now \div Resolution - s \div Resolution) - Resolution
      BY <3>1, Moduli, RoundedDifference
    <3> QED
      BY <3>1, <3>2
  <2>4. (e = d => y = x) /\ (e = d - 1 => y = x - Resolution)
    BY <2>3
  <2>5. e = d \/ e = d - 1
    BY <2>1, <2>2
  <2>6. Idle(o) \in Int
    BY <2>2
  <2> HIDE DEF d, e, x, y
  <2> QED
    BY <2>1, <2>3, <2>4, <2>5, <2>6, Moduli
<1>2. AgeInv => IdleIsClose
  BY <1>1 DEF IdleIsClose
<1> QED
  BY <1>2, InitAge, NextAge, PTL DEF Spec

\* Neither rounding nor the wrap of the clock ever turns the order of eviction
\* around.
THEOREM OrderSurvivesWrap == Spec => []LruOrder
<1>1. ASSUME AgeInv, NEW o \in Obj, NEW p \in Obj, Clocked(o), Clocked(p),
             seen[o].time < seen[p].time
      PROVE  estimateObjectIdleTime(o) >= estimateObjectIdleTime(p)
  <2> DEFINE s == seen[o].time \div Resolution
             t == seen[p].time \div Resolution
             n == now \div Resolution
             e == IdleTicks(o)
             f == IdleTicks(p)
  <2>1. seen[o].time \in Nat /\ seen[p].time \in Nat /\ now \in Nat
    BY <1>1 DEF AgeInv
  <2>2. s \in Nat /\ t \in Nat /\ n \in Nat /\ s <= t
    BY <1>1, <2>1, Moduli, DivNat, DivMonotone
  <2>3. /\ e \in n - s - 1 .. n - s /\ f \in n - t - 1 .. n - t
        /\ estimateObjectIdleTime(o) = Resolution * e
        /\ estimateObjectIdleTime(p) = Resolution * f
    BY <1>1, IdleEstimate DEF Ticks
  <2>4. s = t => e = f
    <3>1. lru[o] = ClockOf(seen[o].time) /\ lru[p] = ClockOf(seen[p].time)
      BY <1>1 DEF AgeInv, Clocked
    <3>2. s = t => lru[o] = lru[p]
      BY <3>1 DEF ClockOf
    <3> QED
      BY <3>2 DEF IdleTicks
  <2> HIDE DEF s, t, n, e, f
  <2>5. e >= f /\ e \in Int /\ f \in Int
    BY <2>2, <2>3, <2>4
  <2>6. Resolution * e >= Resolution * f
    <3>1. f = e \/ f < e
      BY <2>5
    <3>2. f < e => Resolution * f + Resolution <= Resolution * e
      BY <2>5, Moduli, LessTimes
    <3> DEFINE x == Resolution * e
               y == Resolution * f
    <3>3. x \in Int /\ y \in Int
      BY <2>5, Moduli
    <3>4. f = e => x = y
      OBVIOUS
    <3> HIDE DEF x, y
    <3>5. x >= y
      BY <3>1, <3>2, <3>3, <3>4, Moduli DEF x, y
    <3> QED
      BY <3>5 DEF x, y
  <2> QED
    BY <2>3, <2>6
<1>2. AgeInv => LruOrder
  BY <1>1 DEF LruOrder
<1> QED
  BY <1>2, InitAge, NextAge, PTL DEF Spec

\* Whatever the widths, a counter decays by the whole minutes since the access
\* or by one minute more or less (evict.c:290-297, 325-331), also when the
\* minutes wrap in between.
THEOREM DecayIsNear == Spec => []DecayIsClose
<1>1. ASSUME AgeInv, NEW o \in Obj, Counted(o), decay # 0,
             NEW w, w = Idle(o) \div MinuteLength
      PROVE  LFUDecrAndReturn(o) \in
               CounterAfter(o, w + 1) .. CounterAfter(o, IF w = 0 THEN 0 ELSE w - 1)
  <2> DEFINE e == LFUTimeElapsed(Ldt(o))
             d == Minutes(o)
             v == IF w = 0 THEN 0 ELSE w - 1
  <2>1. e \in Nat /\ d \in Nat /\ e \in d - 1 .. d
    BY <1>1, MinutesElapsed
  <2>2. /\ seen[o].time \in Nat /\ now \in Nat /\ seen[o].time <= now
        /\ Idle(o) = now - seen[o].time
        /\ d = now \div MinuteLength - seen[o].time \div MinuteLength
    BY <1>1 DEF AgeInv, Idle, Minutes
  <2>3. w \in Nat /\ d \in w .. w + 1
    <3> DEFINE s == seen[o].time
    <3>1. s \in Nat /\ now \in Nat /\ s <= now /\ w = (now - s) \div MinuteLength
          /\ d = now \div MinuteLength - s \div MinuteLength
      BY <1>1, <2>2
    <3> HIDE DEF s, d
    <3>2. /\ (now - s) \div MinuteLength \in Nat
          /\ now \div MinuteLength - s \div MinuteLength
               \in (now - s) \div MinuteLength .. (now - s) \div MinuteLength + 1
      BY <3>1, Moduli, WholeDifference
    <3> QED
      BY <3>1, <3>2
  <2>4. LFUDecrAndReturn(o) = CounterAfter(o, e)
    BY <1>1 DEF LFUDecrAndReturn, CounterAfter
  <2> HIDE DEF e, d
  <2>5. v \in Nat /\ w + 1 \in Nat /\ v <= e /\ e <= w + 1
    BY <2>1, <2>3
  <2> HIDE DEF v
  <2>6. CounterAfter(o, w + 1) <= CounterAfter(o, e) /\ CounterAfter(o, w + 1) \in Nat
    BY <1>1, <2>1, <2>5, CounterMonotone
  <2>7. CounterAfter(o, e) <= CounterAfter(o, v) /\ CounterAfter(o, e) \in Nat
    BY <1>1, <2>1, <2>5, CounterMonotone
  <2>8. CounterAfter(o, v) \in Nat
    BY <1>1, <2>5, CounterMonotone
  <2> DEFINE x == CounterAfter(o, w + 1)
             y == CounterAfter(o, e)
             z == CounterAfter(o, v)
  <2>9. y \in x .. z
    <3> HIDE DEF x, y, z
    <3> QED
      BY <2>6, <2>7, <2>8 DEF x, y, z
  <2> QED
    BY <2>4, <2>9 DEF v
<1>2. AgeInv => DecayIsClose
  BY <1>1 DEF DecayIsClose
<1> QED
  BY <1>2, InitAge, NextAge, PTL DEF Spec

=============================================================================
