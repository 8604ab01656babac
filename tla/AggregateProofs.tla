--------------------------- MODULE AggregateProofs ---------------------------
(***************************************************************************)
(* The hash and set commands, for any values, widths, limits and           *)
(* arguments: an intset stays sorted and holds its integers exactly,       *)
(* a ziplist names no field twice, no empty hash or set stays.             *)
(***************************************************************************)
EXTENDS Aggregates, SequenceTheorems, FiniteSetTheorems, WellFoundedInduction, TLAPS

-----------------------------------------------------------------------------
(* Least elements.                                                         *)

\* A set of naturals has a least element: of the intervals that reach an
\* element of it, one is contained in no other.
LEMMA LeastNatural ==
  ASSUME NEW A \in SUBSET Nat, NEW m \in A
  PROVE  \E n \in A : \A i \in A : n <= i
<1> DEFINE U == 0 .. m
           R == StrictSubsetOrdering(U)
           T == {0 .. i : i \in {j \in A : j <= m}}
<1>1. m \in Nat /\ IsFiniteSet(U)
  BY FS_Interval
<1>2. T \subseteq SUBSET U /\ T # {}
  <2>1. \A i \in A : i <= m => 0 .. i \subseteq U
    BY <1>1
  <2>2. 0 .. m \in T
    BY <1>1
  <2> QED
    BY <2>1, <2>2
<1>3. T \subseteq FiniteSubsetsOf(U)
  <2>1. \A X \in SUBSET U : IsFiniteSet(X)
    BY <1>1, FS_Subset
  <2> QED
    BY <1>2, <2>1 DEF FiniteSubsetsOf
<1> HIDE DEF R
<1>4. IsWellFoundedOn(R, FiniteSubsetsOf(U))
  BY FS_StrictSubsetOrderingWellFounded DEF R
<1> HIDE DEF T
<1>5. PICK X \in T : \A Y \in T : ~(<<Y, X>> \in R)
  BY <1>2, <1>3, <1>4, WFMin
<1>6. PICK n \in A : n <= m /\ X = 0 .. n
  BY <1>5 DEF T
<1>7. ASSUME NEW i \in A, i < n PROVE FALSE
  <2>1. i \in Nat /\ n \in Nat /\ i <= m
    BY <1>1, <1>6, <1>7
  <2>2. 0 .. i \in T
    BY <1>7, <2>1 DEF T
  <2>3. 0 .. i \subseteq X /\ 0 .. i # X
    <3>1. n \in X /\ ~(n \in 0 .. i)
      BY <1>6, <1>7, <2>1
    <3> QED
      BY <1>6, <1>7, <2>1, <3>1
  <2>4. <<0 .. i, X>> \in R
    BY <1>2, <1>5, <2>2, <2>3 DEF R, StrictSubsetOrdering
  <2> QED
    BY <1>5, <2>2, <2>4
<1> QED
  BY <1>7

LEMMA MinIs ==
  ASSUME NEW T \in SUBSET Nat, T # {}
  PROVE  Min(T) \in T /\ \A y \in T : Min(T) <= y
<1>1. PICK m \in T : TRUE
  OBVIOUS
<1>2. \E x \in T : \A y \in T : x <= y
  BY LeastNatural
<1> QED
  BY <1>2 DEF Min

-----------------------------------------------------------------------------
(* Digits: an integer that fits a width is the sum of its units.           *)

Digits == 0 .. Unit - 1

Half(e) == Power[e] \div 2

LEMMA UnitIs == Unit \in Nat /\ Unit >= 2 /\ Unit = 2 * (Unit \div 2) /\ Unit \div 2 \in Nat
  BY IntSetAssumption

LEMMA PowerIs ==
  /\ Power[0] = 1 /\ Power[1] = Unit /\ Power[2] = Unit * Unit
  /\ Power[3] = Unit * (Unit * Unit) /\ Power[4] = Unit * (Unit * (Unit * Unit))
<1> DEFINE E(f) == f = [n \in 0 .. 4 |-> IF n = 0 THEN 1 ELSE Unit * f[n - 1]]
           w1 == Unit * 1
           w2 == Unit * w1
           w3 == Unit * w2
           g == [n \in 0 .. 4 |-> IF n = 0 THEN 1 ELSE IF n = 1 THEN w1
                                  ELSE IF n = 2 THEN w2 ELSE IF n = 3 THEN w3
                                  ELSE Unit * w3]
<1>1. E(g)
  <2> HIDE DEF w1, w2, w3
  <2>1. /\ g[0] = 1 /\ g[1] = w1 /\ g[2] = w2 /\ g[3] = w3 /\ g[4] = Unit * w3
    OBVIOUS
  <2>2. ASSUME NEW n \in 0 .. 4 PROVE g[n] = IF n = 0 THEN 1 ELSE Unit * g[n - 1]
    <3>1. n = 0 \/ n = 1 \/ n = 2 \/ n = 3 \/ n = 4
      OBVIOUS
    <3> HIDE DEF g
    <3>2. g[1] = Unit * g[0] /\ g[2] = Unit * g[1] /\ g[3] = Unit * g[2]
      BY <2>1 DEF w1, w2, w3
    <3> QED
      BY <2>1, <3>1, <3>2
  <2>3. g = [n \in 0 .. 4 |-> g[n]]
    OBVIOUS
  <2> HIDE DEF g
  <2> QED
    BY <2>2, <2>3
<1>2. E(Power)
  <2> HIDE DEF g
  <2>1. \E f : E(f)
    BY <1>1
  <2> QED
    BY <2>1 DEF Power
<1>3. Unit \in Int
  BY UnitIs
<1>4. /\ Power[0] = 1 /\ Power[1] = Unit * 1 /\ Power[2] = Unit * Power[1]
      /\ Power[3] = Unit * Power[2] /\ Power[4] = Unit * Power[3]
  BY <1>2
<1> QED
  BY <1>3, <1>4

LEMMA Quotient ==
  ASSUME NEW v \in Int, NEW u \in Nat, u > 0
  PROVE  v = u * (v \div u) + (v % u) /\ v % u \in 0 .. u - 1 /\ v \div u \in Int
  OBVIOUS

LEMMA QuotientIs ==
  ASSUME NEW v \in Int, NEW u \in Nat, u > 0, NEW q \in Int, NEW r \in 0 .. u - 1,
         v = u * q + r
  PROVE  v \div u = q
  OBVIOUS

LEMMA Twice ==
  ASSUME NEW v \in Int, NEW a \in Nat, NEW b \in Nat, a > 0, b > 0
  PROVE  v \div (a * b) = (v \div a) \div b
<1> DEFINE q == v \div a
           r == v % a
           p == q \div b
           t == q % b
<1>1. v = a * q + r /\ r \in 0 .. a - 1 /\ q \in Int
  BY Quotient
<1>2. q = b * p + t /\ t \in 0 .. b - 1 /\ p \in Int
  BY <1>1, Quotient
<1> HIDE DEF q, r, p, t
<1>3. v = (a * b) * p + (a * t + r)
  BY <1>1, <1>2
<1>4. a * t + r \in 0 .. a * b - 1
  <2>1. a * t <= a * (b - 1) /\ a * t \in Nat
    BY <1>2
  <2> QED
    BY <1>1, <2>1
<1>5. a * b \in Nat /\ a * b > 0
  OBVIOUS
<1>6. v \div (a * b) = p
  BY <1>1, <1>2, <1>3, <1>4, <1>5, QuotientIs
<1> QED
  BY <1>6 DEF p, q

LEMMA PowerType ==
  ASSUME NEW e \in Width
  PROVE  /\ Power[e] \in Nat /\ Half(e) \in Nat /\ Power[e] = 2 * Half(e) /\ Half(e) > 0
<1> DEFINE a == Unit \div 2
<1>1. Unit \in Nat /\ Unit = 2 * a /\ a \in Nat /\ a > 0
  BY UnitIs
<1> HIDE DEF a
<1>2. \E h \in Nat : Power[e] = 2 * h /\ h > 0
  <2>1. CASE e = 1
    BY <1>1, <2>1, PowerIs
  <2>2. CASE e = 2
    <3>1. Unit * Unit = 2 * (a * Unit) /\ a * Unit \in Nat /\ a * Unit > 0
      BY <1>1
    <3> QED
      BY <2>2, <3>1, PowerIs
  <2>3. CASE e = 4
    <3> DEFINE b == Unit * (Unit * Unit)
    <3>1. b \in Nat /\ b > 0
      BY <1>1
    <3> HIDE DEF b
    <3>2. Unit * b = 2 * (a * b) /\ a * b \in Nat /\ a * b > 0
      BY <1>1, <3>1
    <3> QED
      BY <2>3, <3>2, PowerIs DEF b
  <2> QED
    BY <2>1, <2>2, <2>3 DEF Width
<1>3. PICK h \in Nat : Power[e] = 2 * h /\ h > 0
  BY <1>2
<1>4. Half(e) = h
  BY <1>3 DEF Half
<1> QED
  BY <1>3, <1>4

LEMMA HalvesGrow == Half(1) <= Half(2) /\ Half(2) <= Half(4) /\ Half(1) <= Half(4)
<1>1. /\ Half(1) \in Nat /\ Power[1] = 2 * Half(1) /\ Half(2) \in Nat /\ Power[2] = 2 * Half(2)
      /\ Half(4) \in Nat /\ Power[4] = 2 * Half(4)
  BY PowerType DEF Width
<1>2. Unit \in Nat /\ Unit >= 2
  BY UnitIs
<1>3. Unit <= Unit * Unit /\ Unit * Unit \in Nat
  BY <1>2
<1>4. Unit * Unit <= Unit * (Unit * Unit) /\ Unit * (Unit * Unit) \in Nat
  BY <1>2, <1>3
<1>5. Unit * (Unit * Unit) <= Unit * (Unit * (Unit * Unit))
      /\ Unit * (Unit * (Unit * Unit)) \in Nat
  BY <1>2, <1>4
<1> DEFINE p2 == Unit * Unit
           p3 == Unit * p2
           p4 == Unit * p3
<1>6. Power[1] <= p2 /\ p2 <= p3 /\ p3 <= p4 /\ Power[2] = p2 /\ Power[4] = p4
      /\ p2 \in Nat /\ p3 \in Nat /\ p4 \in Nat
  BY <1>3, <1>4, <1>5, PowerIs
<1> HIDE DEF p2, p3, p4
<1> QED
  BY <1>1, <1>6

\* What the units behind the p-th are worth, were they one integer.
Worth(c, p, e) ==
  IF e = 1 THEN c[p + 1]
  ELSE IF e = 2 THEN c[p + 1] + Unit * c[p + 2]
  ELSE c[p + 1] + Unit * (c[p + 2] + Unit * (c[p + 3] + Unit * c[p + 4]))

Signed(u, e) == IF u >= Half(e) THEN u - Power[e] ELSE u

\* One more digit in front.
LEMMA Below ==
  ASSUME NEW x \in Digits, NEW b \in Nat, NEW y \in 0 .. b - 1, b > 0
  PROVE  x + Unit * y \in 0 .. Unit * b - 1
<1>1. Unit \in Nat /\ Unit >= 2 /\ x \in 0 .. Unit - 1
  BY UnitIs DEF Digits
<1>2. Unit * y <= Unit * (b - 1) /\ Unit * y \in Nat
  BY <1>1
<1> QED
  BY <1>1, <1>2

LEMMA WorthType ==
  ASSUME NEW c, NEW p, NEW e \in Width, \A i \in 1 .. e : c[p + i] \in Digits
  PROVE  Worth(c, p, e) \in 0 .. Power[e] - 1
<1>1. Unit \in Nat /\ Unit >= 2 /\ Digits = 0 .. Unit - 1
  BY UnitIs DEF Digits
<1> DEFINE p2 == Unit * Unit
           p3 == Unit * p2
           p4 == Unit * p3
<1>2. p2 \in Nat /\ p2 > 0 /\ p3 \in Nat /\ p3 > 0
  BY <1>1
<1>3. Power[1] = Unit /\ Power[2] = p2 /\ Power[4] = p4
  BY PowerIs
<1>7. \A x, y \in Digits : x + Unit * y \in 0 .. p2 - 1
  <2>1. ASSUME NEW x \in Digits, NEW y \in Digits
        PROVE  x + Unit * y \in 0 .. Unit * Unit - 1
    <3>1. y \in 0 .. Unit - 1
      BY <1>1
    <3> QED
      BY <1>1, <3>1, Below
  <2> QED
    BY <2>1
<1>4. CASE e = 1
  BY <1>1, <1>3, <1>4 DEF Worth
<1>5. CASE e = 2
  <2>1. c[p + 1] \in Digits /\ c[p + 2] \in Digits
    BY <1>5
  <2>2. c[p + 1] + Unit * c[p + 2] \in 0 .. p2 - 1
    BY <1>7, <2>1
  <2> QED
    BY <1>3, <1>5, <2>2 DEF Worth
<1>6. CASE e = 4
  <2>1. c[p + 1] \in Digits /\ c[p + 2] \in Digits /\ c[p + 3] \in Digits /\ c[p + 4] \in Digits
    BY <1>6
  <2>2. c[p + 3] + Unit * c[p + 4] \in 0 .. p2 - 1
    BY <1>7, <2>1
  <2> HIDE DEF p2
  <2>3. c[p + 2] + Unit * (c[p + 3] + Unit * c[p + 4]) \in 0 .. p3 - 1
    BY <1>2, <2>1, <2>2, Below
  <2> HIDE DEF p3
  <2>4. c[p + 1] + Unit * (c[p + 2] + Unit * (c[p + 3] + Unit * c[p + 4])) \in 0 .. p4 - 1
    BY <1>2, <2>1, <2>3, Below
  <2> QED
    BY <1>3, <1>6, <2>4 DEF Worth
<1> QED
  BY <1>4, <1>5, <1>6 DEF Width

LEMMA SignedType ==
  ASSUME NEW e \in Width, NEW u \in 0 .. Power[e] - 1
  PROVE  Fits(Signed(u, e), e) /\ Signed(u, e) \in Int
<1>1. Power[e] \in Nat /\ Half(e) \in Nat /\ Power[e] = 2 * Half(e)
  BY PowerType
<1>2. Fits(Signed(u, e), e) <=> Signed(u, e) \in -Half(e) .. Half(e) - 1
  BY DEF Fits, Half
<1> QED
  BY <1>1, <1>2 DEF Signed

DigitOf(v, i) == (v \div Power[i]) % Unit

\* The digits of v, each with what is left of v behind it.
LEMMA Split4 ==
  ASSUME NEW v \in Int
  PROVE  \E q1, q2, q3, q4 \in Int :
           /\ \A i \in 0 .. 3 : DigitOf(v, i) \in Digits
           /\ v = DigitOf(v, 0) + Unit * q1 /\ q1 = DigitOf(v, 1) + Unit * q2
           /\ q2 = DigitOf(v, 2) + Unit * q3 /\ q3 = DigitOf(v, 3) + Unit * q4
           /\ q1 = v \div Power[1] /\ q2 = v \div Power[2] /\ q4 = v \div Power[4]
<1> DEFINE p2 == Unit * Unit
           p3 == Unit * p2
           p4 == Unit * p3
           q1 == v \div Unit
           q2 == q1 \div Unit
           q3 == q2 \div Unit
           q4 == q3 \div Unit
<1>1. Unit \in Nat /\ Unit > 0 /\ Digits = 0 .. Unit - 1
  BY UnitIs DEF Digits
<1>2. p2 \in Nat /\ p2 > 0 /\ p3 \in Nat /\ p3 > 0
  BY <1>1
<1>3. Power[0] = 1 /\ Power[1] = Unit /\ Power[2] = p2 /\ Power[3] = p3 /\ Power[4] = p4
  BY PowerIs
<1>4. v = Unit * q1 + (v % Unit) /\ v % Unit \in Digits /\ q1 \in Int
  BY <1>1, Quotient
<1>5. q1 = Unit * q2 + (q1 % Unit) /\ q1 % Unit \in Digits /\ q2 \in Int
  BY <1>1, <1>4, Quotient
<1>6. q2 = Unit * q3 + (q2 % Unit) /\ q2 % Unit \in Digits /\ q3 \in Int
  BY <1>1, <1>5, Quotient
<1>7. q3 = Unit * q4 + (q3 % Unit) /\ q3 % Unit \in Digits /\ q4 \in Int
  BY <1>1, <1>6, Quotient
<1>8. v \div p2 = q2
  BY <1>1, Twice
<1>9. \A w \in Int : w \div p2 = (w \div Unit) \div Unit
  BY <1>1, Twice
<1>10. \A w \in Int : w \div p3 = (w \div Unit) \div p2
  <2> HIDE DEF p2
  <2> QED
    BY <1>1, <1>2, Twice
<1>11. \A w \in Int : w \div p4 = (w \div Unit) \div p3
  <2> HIDE DEF p3
  <2> QED
    BY <1>1, <1>2, Twice
<1>12. v \div p3 = q3
  <2>1. v \div p3 = q1 \div p2
    BY <1>10
  <2>2. q1 \div p2 = q3
    BY <1>4, <1>9
  <2> QED
    BY <2>1, <2>2
<1>13. v \div p4 = q4
  <2>1. v \div p4 = q1 \div p3
    BY <1>11
  <2>2. q1 \div p3 = q2 \div p2
    BY <1>4, <1>10
  <2>3. q2 \div p2 = q4
    BY <1>5, <1>9
  <2> QED
    BY <2>1, <2>2, <2>3
<1>14. v \div 1 = v
  OBVIOUS
<1>15. /\ DigitOf(v, 0) = v % Unit /\ DigitOf(v, 1) = q1 % Unit
       /\ DigitOf(v, 2) = q2 % Unit /\ DigitOf(v, 3) = q3 % Unit
  <2> HIDE DEF q2, q3, p2, p3
  <2> QED
    BY <1>3, <1>8, <1>12, <1>14 DEF DigitOf
<1>16. q1 = v \div Power[1] /\ q2 = v \div Power[2] /\ q4 = v \div Power[4]
  <2> HIDE DEF q2, q3, q4, p2, p3, p4
  <2> QED
    BY <1>3, <1>8, <1>13
<1> HIDE DEF q1, q2, q3, q4, p2, p3, p4
<1>17. \A i \in 0 .. 3 : DigitOf(v, i) \in Digits
  <2>1. \A i \in 0 .. 3 : i = 0 \/ i = 1 \/ i = 2 \/ i = 3
    OBVIOUS
  <2> QED
    BY <1>4, <1>5, <1>6, <1>7, <1>15, <2>1
<1>18. /\ v = DigitOf(v, 0) + Unit * q1 /\ q1 = DigitOf(v, 1) + Unit * q2
       /\ q2 = DigitOf(v, 2) + Unit * q3 /\ q3 = DigitOf(v, 3) + Unit * q4
  <2> DEFINE m1 == Unit * q1
             m2 == Unit * q2
             m3 == Unit * q3
             m4 == Unit * q4
             r0 == v % Unit
             r1 == q1 % Unit
             r2 == q2 % Unit
             r3 == q3 % Unit
  <2>1. m1 \in Int /\ m2 \in Int /\ m3 \in Int /\ m4 \in Int
    BY <1>1, <1>4, <1>5, <1>6, <1>7
  <2>2. r0 \in Digits /\ r1 \in Digits /\ r2 \in Digits /\ r3 \in Digits
    BY <1>4, <1>5, <1>6, <1>7
  <2>3. v = m1 + r0 /\ q1 = m2 + r1 /\ q2 = m3 + r2 /\ q3 = m4 + r3
    BY <1>4, <1>5, <1>6, <1>7
  <2>4. /\ DigitOf(v, 0) = r0 /\ DigitOf(v, 1) = r1
        /\ DigitOf(v, 2) = r2 /\ DigitOf(v, 3) = r3
    BY <1>15
  <2> HIDE DEF m1, m2, m3, m4, r0, r1, r2, r3
  <2>5. r0 \in Int /\ r1 \in Int /\ r2 \in Int /\ r3 \in Int
    BY <1>1, <2>2
  <2>6. v = r0 + m1 /\ q1 = r1 + m2 /\ q2 = r2 + m3 /\ q3 = r3 + m4
    BY <2>1, <2>3, <2>5
  <2> QED
    BY <2>4, <2>6 DEF m1, m2, m3, m4
<1> QED
  BY <1>4, <1>5, <1>6, <1>7, <1>16, <1>17, <1>18


LEMMA FitsIs ==
  ASSUME NEW e \in Width, NEW v \in Int
  PROVE  Fits(v, e) <=> v >= -Half(e) /\ v < Half(e)
<1>1. Half(e) \in Nat
  BY PowerType
<1> QED
  BY <1>1 DEF Fits, Half

\* What fits a width is not changed by being stored at it.
LEMMA ExactDigits ==
  ASSUME NEW e \in Width, NEW v \in Int, Fits(v, e), NEW c, NEW p,
         \A i \in 1 .. e : c[p + i] = DigitOf(v, i - 1)
  PROVE  Signed(Worth(c, p, e), e) = v
<1> DEFINE P == Power[e]
           H == Half(e)
           q == v \div P
<1>1. P \in Nat /\ H \in Nat /\ P = 2 * H /\ H > 0
  BY PowerType
<1>2. v >= -H /\ v < H
  BY FitsIs
<1>3. IF v >= 0 THEN q = 0 ELSE q = -1
  <2> HIDE DEF P, H
  <2>1. CASE v >= 0
    <3>1. v = P * 0 + v /\ v \in 0 .. P - 1 /\ P > 0
      BY <1>1, <1>2, <2>1
    <3> QED
      BY <1>1, <2>1, <3>1, QuotientIs
  <2>2. CASE v < 0
    <3>1. v = P * (-1) + (v + P) /\ v + P \in 0 .. P - 1 /\ P > 0
      BY <1>1, <1>2, <2>2
    <3>2. q = -1
      BY <1>1, <3>1, QuotientIs
    <3> QED
      BY <2>2, <3>2
  <2> QED
    BY <2>1, <2>2
<1>4. Worth(c, p, e) = v - P * q
  <2>1. PICK q1, q2, q3, q4 \in Int :
           /\ \A i \in 0 .. 3 : DigitOf(v, i) \in Digits
           /\ v = DigitOf(v, 0) + Unit * q1 /\ q1 = DigitOf(v, 1) + Unit * q2
           /\ q2 = DigitOf(v, 2) + Unit * q3 /\ q3 = DigitOf(v, 3) + Unit * q4
           /\ q1 = v \div Power[1] /\ q2 = v \div Power[2] /\ q4 = v \div Power[4]
    BY Split4
  <2>2. Unit \in Nat /\ Digits = 0 .. Unit - 1
    BY UnitIs DEF Digits
  <2> DEFINE d0 == DigitOf(v, 0)
             d1 == DigitOf(v, 1)
             d2 == DigitOf(v, 2)
             d3 == DigitOf(v, 3)
  <2>3. d0 \in Int /\ d1 \in Int /\ d2 \in Int /\ d3 \in Int
    BY <2>1, <2>2
  <2>4. v = d0 + Unit * q1 /\ q1 = d1 + Unit * q2 /\ q2 = d2 + Unit * q3 /\ q3 = d3 + Unit * q4
    BY <2>1
  <2>5. CASE e = 1
    <3>1. c[p + 1] = d0 /\ P = Unit /\ q = q1
      <4>1. 1 \in 1 .. e /\ 1 - 1 = 0
        BY <2>5
      <4> QED
        BY <2>1, <2>5, <4>1, PowerIs
    <3> HIDE DEF d0, d1, d2, d3, P, q
    <3> QED
      BY <2>2, <2>3, <2>4, <2>5, <3>1 DEF Worth
  <2>6. CASE e = 2
    <3>1. c[p + 1] = d0 /\ c[p + 2] = d1 /\ P = Unit * Unit /\ q = q2
      <4>1. 1 \in 1 .. e /\ 1 - 1 = 0 /\ 2 \in 1 .. e /\ 2 - 1 = 1
        BY <2>6
      <4> QED
        BY <2>1, <2>6, <4>1, PowerIs
    <3> HIDE DEF d0, d1, d2, d3, P, q
    <3>2. v = d0 + Unit * (d1 + Unit * q2)
      BY <2>4
    <3>3. v = (d0 + Unit * d1) + (Unit * Unit) * q2
      BY <2>2, <2>3, <3>2
    <3>4. Worth(c, p, e) = d0 + Unit * d1
      BY <2>6, <3>1 DEF Worth
    <3>5. d0 + Unit * d1 \in Int /\ (Unit * Unit) * q2 \in Int
      BY <2>2, <2>3
    <3> QED
      BY <3>1, <3>3, <3>4, <3>5
  <2>7. CASE e = 4
    <3>1. /\ c[p + 1] = d0 /\ c[p + 2] = d1 /\ c[p + 3] = d2 /\ c[p + 4] = d3
          /\ P = Unit * (Unit * (Unit * Unit)) /\ q = q4
      <4>1. /\ 1 \in 1 .. e /\ 1 - 1 = 0 /\ 2 \in 1 .. e /\ 2 - 1 = 1
            /\ 3 \in 1 .. e /\ 3 - 1 = 2 /\ 4 \in 1 .. e /\ 4 - 1 = 3
        BY <2>7
      <4> QED
        BY <2>1, <2>7, <4>1, PowerIs
    <3> HIDE DEF d0, d1, d2, d3, P, q
    <3> DEFINE w == d0 + Unit * (d1 + Unit * (d2 + Unit * d3))
    <3>2. v = d0 + Unit * (d1 + Unit * (d2 + Unit * (d3 + Unit * q4)))
      BY <2>4
    <3>3. v = w + (Unit * (Unit * (Unit * Unit))) * q4
      BY <2>2, <2>3, <3>2
    <3>4. Worth(c, p, e) = w
      BY <2>7, <3>1 DEF Worth
    <3>5. w \in Int /\ (Unit * (Unit * (Unit * Unit))) * q4 \in Int
      BY <2>2, <2>3
    <3> HIDE DEF w
    <3> QED
      BY <3>1, <3>3, <3>4, <3>5
  <2> QED
    BY <2>5, <2>6, <2>7 DEF Width
<1> HIDE DEF q, P, H
<1>5. CASE v >= 0
  <2>1. Worth(c, p, e) = v /\ v < H
    BY <1>1, <1>2, <1>3, <1>4, <1>5
  <2> QED
    BY <1>1, <2>1 DEF Signed, H
<1>6. CASE v < 0
  <2>1. Worth(c, p, e) = v + P /\ v + P >= H
    BY <1>1, <1>2, <1>3, <1>4, <1>6
  <2> QED
    BY <1>1, <2>1 DEF Signed, H, P
<1> QED
  BY <1>5, <1>6

LEMMA GetIs ==
  ASSUME NEW is, NEW pos \in Nat, NEW e \in Width,
         \A i \in 1 .. e : is.contents[pos * e + i] \in Digits
  PROVE  _intsetGetEncoded(is, pos, e) = Signed(Worth(is.contents, pos * e, e), e)
<1> DEFINE c == is.contents
           p == pos * e
           E(f) == f = [i \in 0 .. e |-> IF i = e THEN 0
                                         ELSE c[pos * e + i + 1] + Unit * f[i + 1]]
           h == CHOOSE f : E(f)
<1>1. _intsetGetEncoded(is, pos, e) = Signed(h[0], e)
  BY DEF _intsetGetEncoded, Signed, Half
<1>2. p \in Nat /\ Unit \in Nat /\ \A i \in 1 .. e : c[p + i] \in Int
  BY UnitIs DEF Width, Digits
<1> HIDE DEF c
<1>3. ASSUME NEW i \in 0 .. e PROVE pos * e + i + 1 = p + (i + 1)
  BY <1>2
<1> HIDE DEF p
<1> DEFINE w4 == c[p + 4]
           w3 == c[p + 3] + Unit * w4
           w2 == c[p + 2] + Unit * w3
           g == [i \in 0 .. e |->
                   IF i = e THEN 0 ELSE IF i = e - 1 THEN c[p + e] + Unit * 0
                   ELSE IF i = e - 2 THEN c[p + (e - 1)] + Unit * (c[p + e] + Unit * 0)
                   ELSE IF i = 1 THEN c[p + 2] + Unit * (c[p + 3] + Unit * (c[p + 4] + Unit * 0))
                   ELSE c[p + 1] + Unit * (c[p + 2] + Unit * (c[p + 3] + Unit * (c[p + 4] + Unit * 0)))]
<1>4. E(g)
  <2>1. ASSUME NEW i \in 0 .. e
        PROVE  g[i] = IF i = e THEN 0 ELSE c[pos * e + i + 1] + Unit * g[i + 1]
    <3>1. pos * e + i + 1 = p + (i + 1)
      BY <1>3
    <3>2. CASE e = 1
      <4>1. i = 0 \/ i = 1
        BY <3>2
      <4>2. g[0] = c[p + 1] + Unit * 0 /\ g[1] = 0
        BY <3>2
      <4> HIDE DEF g
      <4> QED
        BY <3>1, <3>2, <4>1, <4>2
    <3>3. CASE e = 2
      <4>1. i = 0 \/ i = 1 \/ i = 2
        BY <3>3
      <4>2. g[0] = c[p + 1] + Unit * (c[p + 2] + Unit * 0) /\ g[1] = c[p + 2] + Unit * 0 /\ g[2] = 0
        BY <3>3
      <4> HIDE DEF g
      <4> QED
        BY <3>1, <3>3, <4>1, <4>2
    <3>4. CASE e = 4
      <4>1. i = 0 \/ i = 1 \/ i = 2 \/ i = 3 \/ i = 4
        BY <3>4
      <4>2. /\ g[4] = 0 /\ g[3] = c[p + 4] + Unit * 0 /\ g[2] = c[p + 3] + Unit * g[3]
            /\ g[1] = c[p + 2] + Unit * g[2] /\ g[0] = c[p + 1] + Unit * g[1]
        BY <3>4
      <4> HIDE DEF g
      <4> QED
        BY <3>1, <3>4, <4>1, <4>2
    <3> QED
      BY <3>2, <3>3, <3>4 DEF Width
  <2>2. g = [i \in 0 .. e |-> g[i]]
    OBVIOUS
  <2> HIDE DEF g
  <2> QED
    BY <2>1, <2>2
<1>5. E(h)
  <2> HIDE DEF g
  <2>1. \E f : E(f)
    BY <1>4
  <2> QED
    BY <2>1
<1> HIDE DEF h, g
<1>6. ASSUME NEW i \in 0 .. e
      PROVE  h[i] = IF i = e THEN 0 ELSE c[p + (i + 1)] + Unit * h[i + 1]
  BY <1>3, <1>5
<1>7. h[0] = Worth(c, p, e)
  <2>1. CASE e = 1
    <3>1. h[0] = c[p + 1] + Unit * h[1] /\ h[1] = 0
      BY <1>6, <2>1
    <3>2. c[p + 1] \in Int
      BY <1>2, <2>1
    <3> QED
      BY <1>2, <2>1, <3>1, <3>2 DEF Worth
  <2>2. CASE e = 2
    <3>1. h[0] = c[p + 1] + Unit * h[1] /\ h[1] = c[p + 2] + Unit * h[2] /\ h[2] = 0
      BY <1>6, <2>2
    <3>2. c[p + 1] \in Int /\ c[p + 2] \in Int
      BY <1>2, <2>2
    <3>3. h[1] = c[p + 2]
      BY <1>2, <3>1, <3>2
    <3> QED
      BY <2>2, <3>1, <3>3 DEF Worth
  <2>3. CASE e = 4
    <3>1. /\ h[0] = c[p + 1] + Unit * h[1] /\ h[1] = c[p + 2] + Unit * h[2]
          /\ h[2] = c[p + 3] + Unit * h[3] /\ h[3] = c[p + 4] + Unit * h[4] /\ h[4] = 0
      BY <1>6, <2>3
    <3>2. c[p + 4] \in Int
      BY <1>2, <2>3
    <3>3. h[3] = c[p + 4]
      BY <1>2, <3>1, <3>2
    <3> QED
      BY <2>3, <3>1, <3>3 DEF Worth
  <2> QED
    BY <2>1, <2>2, <2>3 DEF Width
<1> QED
  BY <1>1, <1>7 DEF c, p


-----------------------------------------------------------------------------
(* The memory of an intset.                                                *)

Raw == [encoding : Width, length : Nat, contents : Seq(Digits)]

LEMMA BlockIs ==
  ASSUME NEW pos \in Nat, NEW e \in Width
  PROVE  pos * e \in Nat /\ (pos + 1) * e = pos * e + e /\ e \in 1 .. 4
<1>1. e = 1 \/ e = 2 \/ e = 4
  BY DEF Width
<1> QED
  BY <1>1

LEMMA BlockOrder ==
  ASSUME NEW a \in Nat, NEW b \in Nat, a < b, NEW e \in Width
  PROVE  a * e + e <= b * e
<1>1. e = 1 \/ e = 2 \/ e = 4
  BY DEF Width
<1> QED
  BY <1>1

LEMMA BlockDigits ==
  ASSUME NEW is \in Raw, NEW pos \in Nat, NEW e \in Width,
         pos * e + e <= Len(is.contents)
  PROVE  \A i \in 1 .. e : pos * e + i \in 1 .. Len(is.contents)
                           /\ is.contents[pos * e + i] \in Digits
<1>1. pos * e \in Nat /\ e \in 1 .. 4
  BY BlockIs
<1>2. is.contents \in Seq(Digits) /\ Len(is.contents) \in Nat
  BY DEF Raw
<1>3. ASSUME NEW i \in 1 .. e PROVE pos * e + i \in 1 .. Len(is.contents)
  BY <1>1, <1>2
<1> QED
  BY <1>2, <1>3

LEMMA GetFits ==
  ASSUME NEW is \in Raw, NEW pos \in Nat, NEW e \in Width,
         pos * e + e <= Len(is.contents)
  PROVE  _intsetGetEncoded(is, pos, e) \in Int /\ Fits(_intsetGetEncoded(is, pos, e), e)
<1>1. \A i \in 1 .. e : is.contents[pos * e + i] \in Digits
  BY BlockDigits
<1>2. _intsetGetEncoded(is, pos, e) = Signed(Worth(is.contents, pos * e, e), e)
  BY <1>1, GetIs
<1>3. Worth(is.contents, pos * e, e) \in 0 .. Power[e] - 1
  BY <1>1, WorthType
<1> QED
  BY <1>2, <1>3, SignedType

\* An integer is read from its own units only.
LEMMA GetSame ==
  ASSUME NEW is \in Raw, NEW js \in Raw, NEW pos \in Nat, NEW at \in Nat, NEW e \in Width,
         pos * e + e <= Len(is.contents), at * e + e <= Len(js.contents),
         \A i \in 1 .. e : is.contents[pos * e + i] = js.contents[at * e + i]
  PROVE  _intsetGetEncoded(is, pos, e) = _intsetGetEncoded(js, at, e)
<1> DEFINE c == is.contents
           d == js.contents
           p == pos * e
           q == at * e
<1>1. /\ _intsetGetEncoded(is, pos, e) = Signed(Worth(c, p, e), e)
      /\ _intsetGetEncoded(js, at, e) = Signed(Worth(d, q, e), e)
  BY BlockDigits, GetIs
<1>2. \A i \in 1 .. e : c[p + i] = d[q + i]
  OBVIOUS
<1> HIDE DEF c, d, p, q
<1>3. Worth(c, p, e) = Worth(d, q, e)
  <2>1. CASE e = 1
    <3>1. c[p + 1] = d[q + 1]
      BY <1>2, <2>1
    <3> QED
      BY <2>1, <3>1 DEF Worth
  <2>2. CASE e = 2
    <3>1. c[p + 1] = d[q + 1] /\ c[p + 2] = d[q + 2]
      BY <1>2, <2>2
    <3> QED
      BY <2>2, <3>1 DEF Worth
  <2>3. CASE e = 4
    <3>1. /\ c[p + 1] = d[q + 1] /\ c[p + 2] = d[q + 2]
          /\ c[p + 3] = d[q + 3] /\ c[p + 4] = d[q + 4]
      BY <1>2, <2>3
    <3> QED
      BY <2>3, <3>1 DEF Worth
  <2> QED
    BY <2>1, <2>2, <2>3 DEF Width
<1> QED
  BY <1>1, <1>3

\* What _intsetSet does to the memory.
IsSet(is, js, pos, v) ==
  LET e == is.encoding IN
  /\ js \in Raw /\ js.encoding = e /\ js.length = is.length
  /\ Len(js.contents) = Len(is.contents)
  /\ Fits(v, e) => _intsetGetEncoded(js, pos, e) = v
  /\ \A i \in 1 .. Len(is.contents) :
       i <= pos * e \/ i > pos * e + e => js.contents[i] = is.contents[i]

LEMMA SetIs ==
  ASSUME NEW is \in Raw, NEW pos \in Nat, NEW v \in Int,
         pos * is.encoding + is.encoding <= Len(is.contents)
  PROVE  IsSet(is, _intsetSet(is, pos, v), pos, v)
<1> DEFINE e == is.encoding
           c == is.contents
           p == pos * e
           n == Len(c)
           value(i) == IF i \in p + 1 .. p + e THEN DigitOf(v, i - p - 1) ELSE c[i]
           d == [i \in 1 .. n |-> value(i)]
           js == _intsetSet(is, pos, v)
<1>1. e \in Width /\ c \in Seq(Digits) /\ n \in Nat /\ DOMAIN c = 1 .. n
  BY DEF Raw
<1>2. p \in Nat /\ (pos + 1) * e = p + e /\ e \in 1 .. 4
  BY <1>1, BlockIs
<1>3. js = [is EXCEPT !.contents = d]
  BY <1>1, <1>2 DEF _intsetSet, DigitOf
<1>4. \A i \in 0 .. 3 : DigitOf(v, i) \in Digits
  BY Split4
<1>5. ASSUME NEW i \in 1 .. n PROVE value(i) \in Digits
  <2>1. CASE i \in p + 1 .. p + e
    <3>1. i - p - 1 \in 0 .. 3
      <4> HIDE DEF p, e, n
      <4> QED
        BY <1>2, <2>1
    <3> QED
      BY <1>4, <2>1, <3>1
  <2>2. CASE i \notin p + 1 .. p + e
    BY <1>1, <2>2
  <2> QED
    BY <2>1, <2>2
<1>6. d \in Seq(Digits) /\ Len(d) = n /\ \A i \in 1 .. n : d[i] = value(i)
  <2> HIDE DEF value
  <2>1. d \in [1 .. n -> Digits]
    BY <1>5
  <2> QED
    BY <1>1, <2>1
<1> HIDE DEF d
<1>7. js \in Raw /\ js.encoding = e /\ js.length = is.length /\ js.contents = d
  BY <1>3, <1>6 DEF Raw
<1>8. p + e <= n
  OBVIOUS
<1> HIDE DEF js, p, e, c, n
<1>9. ASSUME Fits(v, e) PROVE _intsetGetEncoded(js, pos, e) = v
  <2>1. \A i \in 1 .. e : d[p + i] = DigitOf(v, i - 1) /\ d[p + i] \in Digits
    <3>1. ASSUME NEW i \in 1 .. e PROVE d[p + i] = DigitOf(v, i - 1) /\ d[p + i] \in Digits
      <4>1. p + i \in 1 .. n /\ p + i \in p + 1 .. p + e /\ (p + i) - p - 1 = i - 1
            /\ i - 1 \in 0 .. 3
        BY <1>1, <1>2, <1>8
      <4> QED
        BY <1>4, <1>6, <4>1
    <3> QED
      BY <3>1
  <2>2. Signed(Worth(d, p, e), e) = v
    BY <1>1, <1>9, <2>1, ExactDigits
  <2> QED
    BY <1>1, <1>7, <2>1, <2>2, GetIs DEF p
<1>10. \A i \in 1 .. n : i <= p \/ i > p + e => d[i] = c[i]
  BY <1>1, <1>2, <1>6
<1> QED
  BY <1>6, <1>7, <1>9, <1>10 DEF IsSet, js, p, e, c, n


Sized(is) == is \in Raw /\ Len(is.contents) = is.length * is.encoding

IsResized(is, js, len) ==
  LET e == is.encoding IN
  /\ js \in Raw /\ js.encoding = e /\ js.length = is.length
  /\ Len(js.contents) = len * e
  /\ \A i \in 1 .. len * e : i <= Len(is.contents) => js.contents[i] = is.contents[i]

LEMMA ResizeIs ==
  ASSUME NEW is \in Raw, NEW len \in Nat
  PROVE  IsResized(is, intsetResize(is, len), len)
<1> DEFINE e == is.encoding
           c == is.contents
           n == len * e
           value(i) == IF i \in DOMAIN c THEN c[i] ELSE 0
           d == [i \in 1 .. n |-> value(i)]
           js == intsetResize(is, len)
<1>1. e \in Width /\ c \in Seq(Digits) /\ Len(c) \in Nat /\ DOMAIN c = 1 .. Len(c)
  BY DEF Raw
<1>2. n \in Nat
  BY <1>1, BlockIs
<1>3. js = [is EXCEPT !.contents = d]
  BY DEF intsetResize
<1>4. 0 \in Digits
  BY UnitIs DEF Digits
<1>5. \A i \in 1 .. n : value(i) \in Digits
  BY <1>1, <1>4
<1>6. d \in Seq(Digits) /\ Len(d) = n /\ \A i \in 1 .. n : d[i] = value(i)
  <2> HIDE DEF value, n
  <2>1. d \in [1 .. n -> Digits]
    BY <1>5
  <2> QED
    BY <1>2, <2>1
<1> HIDE DEF d
<1>7. js \in Raw /\ js.encoding = e /\ js.length = is.length /\ js.contents = d
  BY <1>3, <1>6 DEF Raw
<1>8. \A i \in 1 .. n : i <= Len(c) => d[i] = c[i]
  <2> HIDE DEF n, c
  <2> QED
    BY <1>1, <1>2, <1>6
<1> HIDE DEF js
<1> QED
  BY <1>6, <1>7, <1>8 DEF IsResized, js

\* What memmove does: the integers from "from" to the end move to "to".
IsMoved(is, js, from, to) ==
  LET e == is.encoding IN
  /\ js \in Raw /\ js.encoding = e /\ js.length = is.length
  /\ Len(js.contents) = Len(is.contents)
  /\ \A i \in 1 .. Len(is.contents) :
       js.contents[i] = IF i > to * e /\ i <= (to + is.length - from) * e
                        THEN is.contents[i - (to - from) * e] ELSE is.contents[i]

LEMMA MoveIs ==
  ASSUME NEW is \in Raw, NEW from \in Nat, NEW to \in Nat, from <= is.length,
         is.length * is.encoding <= Len(is.contents),
         (to + is.length - from) * is.encoding <= Len(is.contents)
  PROVE  IsMoved(is, intsetMoveTail(is, from, to), from, to)
<1> DEFINE e == is.encoding
           c == is.contents
           n == Len(c)
           lo == to * e
           hi == (to + is.length - from) * e
           by == (to - from) * e
           value(i) == IF i \in lo + 1 .. hi THEN c[i - by] ELSE c[i]
           d == [i \in 1 .. n |-> value(i)]
           js == intsetMoveTail(is, from, to)
<1>1. e \in Width /\ c \in Seq(Digits) /\ n \in Nat /\ DOMAIN c = 1 .. n /\ is.length \in Nat
  BY DEF Raw
<1>2. lo \in Nat /\ hi \in Nat /\ by \in Int /\ hi - by = is.length * e /\ lo - by = from * e
      /\ from * e \in Nat
  <2>1. e = 1 \/ e = 2 \/ e = 4
    BY <1>1 DEF Width
  <2> HIDE DEF e
  <2>2. from <= is.length
    OBVIOUS
  <2>3. CASE e = 1
    BY <1>1, <2>2, <2>3, SMTT(40)
  <2>4. CASE e = 2
    BY <1>1, <2>2, <2>4
  <2>5. CASE e = 4
    BY <1>1, <2>2, <2>5
  <2> QED
    BY <2>1, <2>3, <2>4, <2>5
<1>3. js = [is EXCEPT !.contents = d]
  BY <1>1 DEF intsetMoveTail
<1>4. hi <= n /\ is.length * e <= n
  OBVIOUS
<1>5. ASSUME NEW i \in 1 .. n PROVE value(i) \in Digits
  <2>1. CASE i \in lo + 1 .. hi
    <3>1. i - by \in 1 .. n
      <4> HIDE DEF lo, hi, by, e, n
      <4> QED
        BY <1>1, <1>2, <1>4, <2>1
    <3>2. c[i - by] \in Digits
      BY <1>1, <3>1
    <3> QED
      BY <2>1, <3>2
  <2>2. CASE i \notin lo + 1 .. hi
    BY <1>1, <2>2
  <2> QED
    BY <2>1, <2>2
<1>6. d \in Seq(Digits) /\ Len(d) = n /\ \A i \in 1 .. n : d[i] = value(i)
  <2> HIDE DEF value, n
  <2>1. d \in [1 .. n -> Digits]
    BY <1>5
  <2> QED
    BY <1>1, <2>1
<1> HIDE DEF d
<1>7. js \in Raw /\ js.encoding = e /\ js.length = is.length /\ js.contents = d
  BY <1>3, <1>6 DEF Raw
<1>8. \A i \in 1 .. n : d[i] = IF i > lo /\ i <= hi THEN c[i - by] ELSE c[i]
  <2> HIDE DEF n, c, lo, hi, by
  <2> QED
    BY <1>1, <1>2, <1>6
<1> HIDE DEF js
<1> QED
  BY <1>6, <1>7, <1>8 DEF IsMoved, js

\* js holds what is holds, and v at position "at".
Inserted(is, js, at, v) ==
  /\ Sized(js) /\ js.length = is.length + 1
  /\ \A i \in 0 .. is.length :
       _intsetGet(js, i) = IF i < at THEN _intsetGet(is, i)
                           ELSE IF i = at THEN v ELSE _intsetGet(is, i - 1)

\* js holds what is holds but the integer at position "at".
Removed(is, js, at) ==
  /\ Sized(js) /\ js.length = is.length - 1
  /\ \A i \in 0 .. js.length - 1 :
       _intsetGet(js, i) = IF i < at THEN _intsetGet(is, i) ELSE _intsetGet(is, i + 1)

LEMMA SetLength ==
  ASSUME NEW is \in Raw, NEW n \in Nat
  PROVE  LET js == [is EXCEPT !.length = n] IN
         /\ js \in Raw /\ js.length = n /\ js.encoding = is.encoding
         /\ js.contents = is.contents
         /\ \A pos, e : _intsetGetEncoded(js, pos, e) = _intsetGetEncoded(is, pos, e)
<1> DEFINE js == [is EXCEPT !.length = n]
<1>1. /\ js \in Raw /\ js.length = n /\ js.encoding = is.encoding
      /\ js.contents = is.contents
  BY DEF Raw
<1> HIDE DEF js
<1>2. ASSUME NEW pos, NEW e
      PROVE  _intsetGetEncoded(js, pos, e) = _intsetGetEncoded(is, pos, e)
  BY <1>1 DEF _intsetGetEncoded
<1> QED
  BY <1>1, <1>2 DEF js


\* Setting one integer leaves the others as they are.
LEMMA SetOthers ==
  ASSUME NEW is \in Raw, NEW js, NEW pos \in Nat, NEW v, IsSet(is, js, pos, v),
         NEW i \in Nat, i # pos, i * is.encoding + is.encoding <= Len(is.contents)
  PROVE  _intsetGetEncoded(js, i, is.encoding) = _intsetGetEncoded(is, i, is.encoding)
<1> DEFINE e == is.encoding
           p == i * e
           q == pos * e
           n == Len(is.contents)
<1>1. e \in Width /\ n \in Nat
  BY DEF Raw
<1>2. js \in Raw /\ Len(js.contents) = n
  BY DEF IsSet
<1>3. p \in Nat /\ q \in Nat /\ e \in 1 .. 4 /\ p + e <= n
  BY <1>1, BlockIs
<1>4. p + e <= q \/ q + e <= p
  BY <1>1, BlockOrder
<1> HIDE DEF e, p, q, n
<1>5. ASSUME NEW k \in 1 .. e PROVE is.contents[p + k] = js.contents[p + k]
  <2>1. p + k \in 1 .. n /\ (p + k <= q \/ p + k > q + e)
    BY <1>1, <1>3, <1>4
  <2> QED
    BY <2>1 DEF IsSet, e, p, q, n
<1>6. is.encoding \in Width /\ i * is.encoding + is.encoding <= Len(js.contents)
  BY <1>1, <1>2, <1>3 DEF e, p, n
<1>7. \A k \in 1 .. is.encoding :
         is.contents[i * is.encoding + k] = js.contents[i * is.encoding + k]
  BY <1>5 DEF e, p
<1> QED
  BY <1>2, <1>6, <1>7, GetSame

LEMMA InsertIs ==
  ASSUME NEW is, Sized(is), NEW at \in 0 .. is.length, NEW v \in Int, Fits(v, is.encoding)
  PROVE  LET big == intsetResize(is, is.length + 1)
             gap == IF at < is.length THEN intsetMoveTail(big, at, at + 1) ELSE big
         IN  Inserted(is, [_intsetSet(gap, at, v) EXCEPT !.length = @ + 1], at, v)
<1> DEFINE n == is.length
           e == is.encoding
           c == is.contents
           big == intsetResize(is, n + 1)
           moved == intsetMoveTail(big, at, at + 1)
           gap == IF at < n THEN moved ELSE big
           set == _intsetSet(gap, at, v)
           js == [set EXCEPT !.length = n + 1]
           Get(s, i) == _intsetGetEncoded(s, i, e)
<1>1. is \in Raw /\ n \in Nat /\ e \in Width /\ Len(c) = n * e
  BY DEF Sized, Raw
<1>2. n * e \in Nat /\ (n + 1) * e = n * e + e /\ e \in 1 .. 4 /\ at \in Nat
      /\ at * e \in Nat /\ (at + 1) * e = at * e + e
  <2>1. at \in Nat
    BY <1>1
  <2> QED
    BY <1>1, <2>1, BlockIs
<1>3. IsResized(is, big, n + 1)
  BY <1>1, ResizeIs
<1>4. /\ big \in Raw /\ big.encoding = e /\ big.length = n /\ Len(big.contents) = n * e + e
      /\ \A i \in 1 .. n * e : big.contents[i] = c[i]
  <2> HIDE DEF big
  <2>1. \A i \in 1 .. n * e : i \in 1 .. n * e + e /\ i <= Len(c)
    BY <1>1, <1>2
  <2> QED
    BY <1>2, <1>3, <2>1 DEF IsResized
<1> HIDE DEF big
<1>5. ASSUME NEW i \in Nat, i < n
      PROVE  i * e \in Nat /\ i * e + e <= n * e
  BY <1>1, <1>5, BlockIs, BlockOrder
<1>6. ASSUME NEW i \in Nat, i < n PROVE Get(big, i) = Get(is, i)
  <2>1. i * e \in Nat /\ i * e + e <= n * e
    BY <1>5, <1>6
  <2> HIDE DEF e, n, c
  <2>2. ASSUME NEW k \in 1 .. e PROVE is.contents[i * e + k] = big.contents[i * e + k]
    <3>1. i * e + k \in 1 .. n * e
      BY <1>2, <2>1
    <3> QED
      BY <1>4, <3>1 DEF c
  <2>3. i * e + e <= Len(is.contents) /\ i * e + e <= Len(big.contents)
    BY <1>1, <1>2, <1>4, <2>1 DEF c
  <2> QED
    BY <1>1, <1>4, <2>2, <2>3, GetSame, ZenonT(40)
<1>7. /\ gap \in Raw /\ gap.encoding = e /\ gap.length = n /\ Len(gap.contents) = n * e + e
      /\ \A i \in Nat : /\ i < at => Get(gap, i) = Get(is, i)
                        /\ at < i /\ i <= n => Get(gap, i) = Get(is, i - 1)
  <2>1. CASE at < n
    <3>1. IsMoved(big, moved, at, at + 1)
      <4>1. n * e <= Len(big.contents) /\ at <= n /\ at + 1 \in Nat
        BY <1>1, <1>2, <1>4, SMTT(40)
      <4>2. at + 1 + n - at = n + 1
        BY <1>1, <1>2
      <4>3. (at + 1 + n - at) * e <= Len(big.contents)
        BY <1>2, <1>4, <4>2
      <4> HIDE DEF e, n
      <4> QED
        BY <1>2, <1>4, <4>1, <4>3, MoveIs
    <3> HIDE DEF moved
    <3>2. /\ moved \in Raw /\ moved.encoding = e /\ moved.length = n
          /\ Len(moved.contents) = n * e + e
      BY <1>4, <3>1 DEF IsMoved
    <3>3. ASSUME NEW i \in 1 .. n * e + e
          PROVE  /\ i <= at * e + e => moved.contents[i] = big.contents[i]
                 /\ i > at * e + e => moved.contents[i] = big.contents[i - e]
      <4>1. at + 1 + n - at = n + 1 /\ at + 1 - at = 1
        BY <1>1, <1>2
      <4>2. (at + 1 + n - at) * e = n * e + e /\ (at + 1 - at) * e = e
        BY <1>2, <4>1
      <4> HIDE DEF e, n
      <4>3. moved.contents[i] = IF i > at * e + e /\ i <= n * e + e
                                THEN big.contents[i - e] ELSE big.contents[i]
        BY <1>2, <1>4, <3>1, <4>2 DEF IsMoved
      <4> QED
        BY <1>2, <4>3
    <3>4. ASSUME NEW i \in Nat, i < at PROVE Get(moved, i) = Get(big, i)
      <4>1. i * e \in Nat /\ i * e + e <= at * e /\ at * e + e <= n * e
        BY <1>1, <1>2, <2>1, <3>4, BlockIs, BlockOrder
      <4> HIDE DEF e, n
      <4>2. ASSUME NEW k \in 1 .. e PROVE big.contents[i * e + k] = moved.contents[i * e + k]
        <5>1. i * e + k \in 1 .. n * e + e /\ i * e + k <= at * e + e
          BY <1>2, <4>1
        <5> QED
          BY <3>3, <5>1
      <4>3. i * e + e <= n * e + e
        BY <1>2, <4>1
      <4> QED
        BY <1>1, <1>4, <3>2, <4>2, <4>3, GetSame, SMTT(40)
    <3>5. ASSUME NEW i \in Nat, at < i, i <= n PROVE Get(moved, i) = Get(big, i - 1)
      <4>1. i - 1 \in Nat /\ i - 1 < n /\ (i - 1) + 1 = i
        BY <1>1, <1>2, <3>5
      <4>2. i * e \in Nat /\ (i - 1) * e \in Nat /\ i * e = (i - 1) * e + e
            /\ (i - 1) * e + e <= n * e
        BY <1>1, <4>1, <1>5, BlockIs
      <4>3. at * e + e <= i * e
        BY <1>1, <1>2, <3>5, BlockOrder
      <4> HIDE DEF e, n
      <4>4. ASSUME NEW k \in 1 .. e
            PROVE  moved.contents[i * e + k] = big.contents[(i - 1) * e + k]
        <5>1. /\ i * e + k \in 1 .. n * e + e /\ i * e + k > at * e + e
              /\ (i * e + k) - e = (i - 1) * e + k
          BY <1>2, <4>2, <4>3
        <5> QED
          BY <3>3, <5>1
      <4>5. i * e + e <= n * e + e /\ (i - 1) * e + e <= n * e + e
        BY <1>2, <4>2
      <4> QED
        BY <1>1, <1>4, <3>2, <4>1, <4>4, <4>5, GetSame
    <3>6. ASSUME NEW i \in Nat
          PROVE  /\ i < at => Get(moved, i) = Get(is, i)
                 /\ at < i /\ i <= n => Get(moved, i) = Get(is, i - 1)
      <4>1. i < at => i < n
        BY <1>1, <1>2, <2>1
      <4>2. at < i /\ i <= n => i - 1 \in Nat /\ i - 1 < n
        BY <1>1, <1>2
      <4> HIDE DEF n, e
      <4> QED
        BY <1>6, <3>4, <3>5, <4>1, <4>2
    <3> QED
      BY <2>1, <3>2, <3>6
  <2>2. CASE ~(at < n)
    <3>1. \A i \in Nat : i < at => i < n
      BY <1>1, <1>2
    <3>2. \A i \in Nat : ~(at < i /\ i <= n)
      BY <1>1, <1>2, <2>2
    <3> QED
      BY <1>4, <1>6, <2>2, <3>1, <3>2
  <2> QED
    BY <2>1, <2>2
<1> HIDE DEF gap
<1>8. at * e + e <= n * e + e
  <2>1. at < n => at * e + e <= n * e
    BY <1>1, <1>2, BlockOrder
  <2>2. at < n \/ at = n
    BY <1>1
  <2> QED
    BY <1>2, <2>1, <2>2
<1>9. IsSet(gap, set, at, v)
  BY <1>2, <1>7, <1>8, SetIs
<1> HIDE DEF set
<1>10. set \in Raw /\ set.encoding = e /\ set.length = n /\ Len(set.contents) = n * e + e
       /\ Get(set, at) = v
  BY <1>7, <1>9 DEF IsSet
<1>11. /\ js \in Raw /\ js.length = n + 1 /\ js.encoding = e
       /\ js.contents = set.contents /\ \A i : Get(js, i) = Get(set, i)
  <2>1. n + 1 \in Nat
    BY <1>1
  <2> HIDE DEF n
  <2> QED
    BY <1>10, <2>1, SetLength
<1>12. [set EXCEPT !.length = @ + 1] = js
  BY <1>10
<1> HIDE DEF js
<1>13. Sized(js)
  BY <1>2, <1>10, <1>11 DEF Sized
<1>14. ASSUME NEW i \in 0 .. n, i # at PROVE Get(set, i) = Get(gap, i)
  <2>1. i \in Nat /\ (i < n \/ i = n)
    BY <1>1
  <2>2. i * e + e <= n * e + e
    <3>1. i < n => i * e + e <= n * e
      BY <1>5, <2>1
    <3> QED
      BY <1>2, <2>1, <3>1
  <2> QED
    BY <1>2, <1>7, <1>9, <1>14, <2>1, <2>2, SetOthers
<1>15. ASSUME NEW i \in 0 .. n
       PROVE  _intsetGet(js, i) = IF i < at THEN _intsetGet(is, i)
                                  ELSE IF i = at THEN v ELSE _intsetGet(is, i - 1)
  <2>1. i \in Nat /\ i <= n /\ (i < at \/ i = at \/ at < i)
    BY <1>1, <1>2
  <2>2. _intsetGet(js, i) = Get(set, i) /\ \A k : _intsetGet(is, k) = Get(is, k)
    BY <1>11 DEF _intsetGet
  <2>3. CASE i < at
    <3>1. i # at
      BY <1>2, <2>1, <2>3
    <3> QED
      BY <1>7, <1>14, <2>1, <2>2, <2>3, <3>1
  <2>4. CASE i = at
    <3>1. ~(i < at)
      BY <1>2, <2>4
    <3> QED
      BY <1>10, <2>2, <2>4, <3>1
  <2>5. CASE at < i
    <3>1. i # at /\ ~(i < at)
      BY <1>2, <2>1, <2>5
    <3> QED
      BY <1>7, <1>14, <2>1, <2>2, <2>5, <3>1
  <2> QED
    BY <2>1, <2>3, <2>4, <2>5
<1> QED
  BY <1>1, <1>11, <1>12, <1>13, <1>15 DEF Inserted, big, moved, gap, set


LEMMA RemoveIs ==
  ASSUME NEW is, Sized(is), NEW at \in 0 .. is.length - 1
  PROVE  LET closed == IF at < is.length - 1 THEN intsetMoveTail(is, at + 1, at) ELSE is
         IN  Removed(is, [intsetResize(closed, is.length - 1) EXCEPT !.length = @ - 1], at)
<1> DEFINE n == is.length
           e == is.encoding
           c == is.contents
           moved == intsetMoveTail(is, at + 1, at)
           closed == IF at < n - 1 THEN moved ELSE is
           cut == intsetResize(closed, n - 1)
           js == [cut EXCEPT !.length = n - 1]
           Get(s, i) == _intsetGetEncoded(s, i, e)
<1>1. is \in Raw /\ n \in Nat /\ e \in Width /\ Len(c) = n * e
  BY DEF Sized, Raw
<1>2. at \in Nat /\ at < n /\ n - 1 \in Nat /\ (n - 1) + 1 = n
  BY <1>1
<1>3. /\ n * e \in Nat /\ e \in 1 .. 4 /\ (n - 1) * e \in Nat /\ n * e = (n - 1) * e + e
      /\ at * e \in Nat /\ (at + 1) * e = at * e + e
  BY <1>1, <1>2, BlockIs
<1>4. /\ closed \in Raw /\ closed.encoding = e /\ closed.length = n /\ Len(closed.contents) = n * e
      /\ \A i \in Nat : /\ i < at => Get(closed, i) = Get(is, i)
                        /\ at <= i /\ i < n - 1 => Get(closed, i) = Get(is, i + 1)
  <2>1. CASE at < n - 1
    <3>1. IsMoved(is, moved, at + 1, at)
      <4>1. at + 1 \in Nat /\ at + 1 <= n /\ at + n - (at + 1) = n - 1
        BY <1>1, <1>2, <2>1
      <4>2. (at + n - (at + 1)) * e <= Len(is.contents) /\ n * e <= Len(is.contents)
        BY <1>1, <1>3, <4>1, SMTT(40)
      <4> HIDE DEF n, e
      <4> QED
        BY <1>1, <1>2, <4>1, <4>2, MoveIs DEF n, e
    <3> HIDE DEF moved
    <3>2. moved \in Raw /\ moved.encoding = e /\ moved.length = n /\ Len(moved.contents) = n * e
      BY <1>1, <3>1 DEF IsMoved
    <3>3. ASSUME NEW i \in 1 .. n * e
          PROVE  /\ i <= at * e => moved.contents[i] = c[i]
                 /\ i > at * e /\ i <= (n - 1) * e => moved.contents[i] = c[i + e]
      <4>1. at + n - (at + 1) = n - 1 /\ at - (at + 1) = -1
        BY <1>1, <1>2
      <4>2. (at - (at + 1)) * e = -e
        BY <1>3, <4>1
      <4>3. moved.contents[i] = IF i > at * e /\ i <= (at + n - (at + 1)) * e
                                THEN c[i - (at - (at + 1)) * e] ELSE c[i]
        BY <1>1, <3>1 DEF IsMoved
      <4> HIDE DEF e, n, c
      <4>4. moved.contents[i] = IF i > at * e /\ i <= (n - 1) * e THEN c[i - (-e)] ELSE c[i]
        BY <4>1, <4>2, <4>3
      <4>5. i - (-e) = i + e
        BY <1>3
      <4> QED
        BY <1>3, <4>4, <4>5
    <3>4. ASSUME NEW i \in Nat, i < at PROVE Get(moved, i) = Get(is, i)
      <4>1. i * e \in Nat /\ i * e + e <= at * e /\ at * e + e <= n * e
        BY <1>1, <1>2, <3>4, BlockIs, BlockOrder
      <4> HIDE DEF e, n, c
      <4>2. ASSUME NEW k \in 1 .. e PROVE is.contents[i * e + k] = moved.contents[i * e + k]
        <5>1. i * e + k \in 1 .. n * e /\ i * e + k <= at * e
          BY <1>3, <4>1
        <5> QED
          BY <3>3, <5>1 DEF c
      <4>3. i * e + e <= n * e
        BY <1>3, <4>1
      <4> QED
        BY <1>1, <3>2, <4>2, <4>3, GetSame DEF c
    <3>5. ASSUME NEW i \in Nat, at <= i, i < n - 1 PROVE Get(moved, i) = Get(is, i + 1)
      <4>1. i + 1 \in Nat /\ i + 1 < n /\ i < n
        BY <1>1, <1>2, <3>5
      <4>2. i * e \in Nat /\ (i + 1) * e = i * e + e /\ i * e + e <= (n - 1) * e
            /\ (i + 1) * e + e <= n * e
        BY <1>1, <1>2, <3>5, <4>1, BlockIs, BlockOrder
      <4>3. at * e <= i * e
        <5>1. at < i => at * e + e <= i * e
          BY <1>1, <1>2, BlockOrder
        <5>2. at < i \/ at = i
          BY <1>2, <3>5
        <5> QED
          BY <1>3, <4>2, <5>1, <5>2
      <4> HIDE DEF e, n, c
      <4>4. ASSUME NEW k \in 1 .. e
            PROVE  moved.contents[i * e + k] = is.contents[(i + 1) * e + k]
        <5>1. /\ i * e + k \in 1 .. n * e /\ i * e + k > at * e /\ i * e + k <= (n - 1) * e
              /\ (i * e + k) + e = (i + 1) * e + k
          BY <1>3, <4>2, <4>3
        <5> QED
          BY <3>3, <5>1 DEF c
      <4>5. i * e + e <= n * e
        BY <1>3, <4>2
      <4>6. i * e + e <= Len(moved.contents) /\ (i + 1) * e + e <= Len(is.contents)
        BY <1>1, <3>2, <4>2, <4>5 DEF c
      <4> DEFINE k == i + 1
      <4>7. k \in Nat /\ Get(is, i + 1) = Get(is, k)
            /\ \A m \in 1 .. e : moved.contents[i * e + m] = is.contents[k * e + m]
        BY <4>1, <4>4
      <4>8. k * e + e <= Len(is.contents)
        BY <4>6
      <4> HIDE DEF k
      <4> QED
        BY <1>1, <3>2, <4>6, <4>7, <4>8, GetSame
    <3> HIDE DEF n, e
    <3> QED
      BY <2>1, <3>2, <3>4, <3>5
  <2>2. CASE ~(at < n - 1)
    <3>1. \A i \in Nat : ~(at <= i /\ i < n - 1)
      BY <1>1, <1>2, <2>2
    <3> QED
      BY <1>1, <2>2, <3>1
  <2> QED
    BY <2>1, <2>2
<1> HIDE DEF closed
<1>5. IsResized(closed, cut, n - 1)
  BY <1>2, <1>4, ResizeIs
<1> HIDE DEF cut
<1>6. /\ cut \in Raw /\ cut.encoding = e /\ cut.length = n /\ Len(cut.contents) = (n - 1) * e
      /\ \A i \in 1 .. (n - 1) * e : cut.contents[i] = closed.contents[i]
  <2>1. \A i \in 1 .. (n - 1) * e : i <= n * e
    <3> HIDE DEF n, e
    <3> QED
      BY <1>3
  <2> HIDE DEF n, e
  <2> QED
    BY <1>4, <1>5, <2>1 DEF IsResized
<1>7. ASSUME NEW i \in Nat, i < n - 1 PROVE Get(cut, i) = Get(closed, i)
  <2>1. i * e \in Nat /\ i * e + e <= (n - 1) * e
    BY <1>1, <1>2, <1>7, BlockIs, BlockOrder
  <2> HIDE DEF n, e
  <2>2. ASSUME NEW k \in 1 .. e PROVE cut.contents[i * e + k] = closed.contents[i * e + k]
    <3>1. i * e + k \in 1 .. (n - 1) * e
      BY <1>3, <2>1
    <3> QED
      BY <1>6, <3>1
  <2>3. i * e + e <= n * e
    BY <1>3, <2>1
  <2> QED
    BY <1>1, <1>4, <1>6, <2>1, <2>2, <2>3, GetSame
<1>8. /\ js \in Raw /\ js.length = n - 1 /\ js.encoding = e
      /\ js.contents = cut.contents /\ \A i : Get(js, i) = Get(cut, i)
  <2> HIDE DEF n
  <2> QED
    BY <1>2, <1>6, SetLength
<1>9. [cut EXCEPT !.length = @ - 1] = js
  BY <1>6
<1> HIDE DEF js
<1>10. Sized(js)
  BY <1>6, <1>8 DEF Sized
<1>11. ASSUME NEW i \in 0 .. js.length - 1
       PROVE  _intsetGet(js, i) = IF i < at THEN _intsetGet(is, i) ELSE _intsetGet(is, i + 1)
  <2>1. i \in Nat /\ i < n - 1 /\ (i < at \/ (at <= i /\ ~(i < at)))
    BY <1>2, <1>8
  <2>2. _intsetGet(js, i) = Get(closed, i) /\ \A k : _intsetGet(is, k) = Get(is, k)
    BY <1>7, <1>8, <2>1 DEF _intsetGet
  <2> HIDE DEF n, e
  <2> QED
    BY <1>4, <2>1, <2>2
<1> QED
  BY <1>1, <1>8, <1>9, <1>10, <1>11 DEF Removed, moved, closed, cut


-----------------------------------------------------------------------------
(* The binary search.                                                      *)

Sorted(is) ==
  \A i, j \in 0 .. is.length - 1 : i < j => _intsetGet(is, i) < _intsetGet(is, j)

IntsetOK(is) == Sized(is) /\ Sorted(is)

LEMMA GetInt ==
  ASSUME NEW is, Sized(is), NEW i \in 0 .. is.length - 1
  PROVE  _intsetGet(is, i) \in Int /\ Fits(_intsetGet(is, i), is.encoding)
<1> DEFINE n == is.length
           e == is.encoding
<1>1. is \in Raw /\ n \in Nat /\ e \in Width /\ Len(is.contents) = n * e
  BY DEF Sized, Raw
<1>2. i \in Nat /\ i < n
  BY <1>1
<1>3. i * e + e <= Len(is.contents)
  BY <1>1, <1>2, BlockOrder
<1> QED
  BY <1>1, <1>2, <1>3, GetFits DEF _intsetGet

\* What a search for v returns.
Locates(is, v, r) ==
  IF r[1]
  THEN r[2] \in 0 .. is.length - 1 /\ _intsetGet(is, r[2]) = v
  ELSE /\ r[2] \in 0 .. is.length
       /\ \A i \in 0 .. is.length - 1 :
            IF i < r[2] THEN _intsetGet(is, i) < v ELSE v < _intsetGet(is, i)

LEMMA FoundIs ==
  ASSUME NEW is, NEW at \in 0 .. is.length - 1
  PROVE  Locates(is, _intsetGet(is, at), <<TRUE, at>>)
<1> DEFINE r == <<TRUE, at>>
<1>1. r[1] = TRUE /\ r[2] = at
  OBVIOUS
<1> HIDE DEF r
<1> QED
  BY <1>1 DEF Locates, r

LEMMA NotFoundIs ==
  ASSUME NEW is, NEW at \in 0 .. is.length, NEW v,
         \A i \in 0 .. is.length - 1 :
            IF i < at THEN _intsetGet(is, i) < v ELSE v < _intsetGet(is, i)
  PROVE  Locates(is, v, <<FALSE, at>>)
<1> DEFINE r == <<FALSE, at>>
<1>1. r[1] = FALSE /\ r[2] = at
  OBVIOUS
<1> HIDE DEF r
<1> QED
  BY <1>1 DEF Locates, r

Ranges(n) == (0 .. n) \X (-1 .. n - 1)

\* A round of the loop; g is what is left to do.
Round(is, v, g, r) ==
  IF r[2] < r[1] THEN <<FALSE, r[1]>>
  ELSE LET mid == (r[1] + r[2]) \div 2
           cur == _intsetGet(is, mid)
       IN  IF v > cur THEN g[<<mid + 1, r[2]>>]
           ELSE IF v < cur THEN g[<<r[1], mid - 1>>]
           ELSE <<TRUE, mid>>

LEMMA Narrower ==
  ASSUME NEW n \in Nat, NEW r \in Ranges(n), r[2] >= r[1]
  PROVE  LET mid == (r[1] + r[2]) \div 2
             right == <<mid + 1, r[2]>>
             left == <<r[1], mid - 1>>
         IN  /\ mid \in 0 .. n - 1 /\ r[1] <= mid /\ mid <= r[2]
             /\ right \in Ranges(n) /\ right[2] - right[1] < r[2] - r[1]
             /\ left \in Ranges(n) /\ left[2] - left[1] < r[2] - r[1]
<1>1. PICK a \in 0 .. n, b \in -1 .. n - 1 : r = <<a, b>>
  BY DEF Ranges
<1>2. r[1] = a /\ r[2] = b
  BY <1>1
<1> DEFINE mid == (a + b) \div 2
<1>3. a <= b /\ b \in Nat
  BY <1>2
<1>4. a <= mid /\ mid <= b /\ mid \in Nat
  BY <1>3
<1> HIDE DEF mid
<1>5. mid + 1 \in 0 .. n /\ mid - 1 \in -1 .. n - 1 /\ mid \in 0 .. n - 1
  BY <1>3, <1>4
<1>6. <<mid + 1, b>> \in Ranges(n) /\ <<a, mid - 1>> \in Ranges(n)
  BY <1>5 DEF Ranges
<1> QED
  BY <1>2, <1>3, <1>4, <1>5, <1>6 DEF mid

LEMMA SearchExists ==
  ASSUME NEW is, NEW v, NEW n \in Nat
  PROVE  \E g : g = [r \in Ranges(n) |-> Round(is, v, g, r)]
<1> DEFINE Upto(g, k) == \A r \in Ranges(n) : r[2] - r[1] < k => g[r] = Round(is, v, g, r)
           Has(k) == \E g : Upto(g, k)
           Bad == {k \in Nat : ~Has(k)}
<1>1. Has(0)
  <2> DEFINE g == [r \in Ranges(n) |-> <<FALSE, r[1]>>]
  <2>1. ASSUME NEW r \in Ranges(n), r[2] - r[1] < 0 PROVE g[r] = Round(is, v, g, r)
    <3>1. r[1] \in Int /\ r[2] \in Int
      BY DEF Ranges
    <3>2. r[2] < r[1]
      BY <2>1, <3>1
    <3> QED
      BY <3>2 DEF Round
  <2> QED
    BY <2>1
<1>2. ASSUME NEW k \in Nat, Has(k) PROVE Has(k + 1)
  <2>1. PICK g : Upto(g, k)
    BY <1>2
  <2> DEFINE f == [r \in Ranges(n) |-> IF r[2] - r[1] < k THEN g[r] ELSE Round(is, v, g, r)]
  <2>2. ASSUME NEW r \in Ranges(n) PROVE f[r] = IF r[2] - r[1] < k THEN g[r] ELSE Round(is, v, g, r)
    OBVIOUS
  <2> HIDE DEF f
  <2>3. ASSUME NEW r \in Ranges(n), r[2] - r[1] < k + 1 PROVE f[r] = Round(is, v, f, r)
    <3>1. f[r] = Round(is, v, g, r)
      BY <2>1, <2>2
    <3>2. Round(is, v, g, r) = Round(is, v, f, r)
      <4>1. r[1] \in Int /\ r[2] \in Int
        BY DEF Ranges
      <4>2. CASE r[2] < r[1]
        BY <4>2 DEF Round
      <4>3. CASE ~(r[2] < r[1])
        <5> DEFINE mid == (r[1] + r[2]) \div 2
                   right == <<mid + 1, r[2]>>
                   left == <<r[1], mid - 1>>
        <5>1. /\ right \in Ranges(n) /\ right[2] - right[1] < r[2] - r[1]
              /\ left \in Ranges(n) /\ left[2] - left[1] < r[2] - r[1]
          BY <4>1, <4>3, Narrower
        <5>2. right[1] \in Int /\ right[2] \in Int /\ left[1] \in Int /\ left[2] \in Int
          BY <4>1
        <5> HIDE DEF right, left
        <5>3. right[2] - right[1] < k /\ left[2] - left[1] < k
          BY <2>3, <4>1, <5>1, <5>2
        <5>4. f[right] = g[right] /\ f[left] = g[left]
          BY <2>2, <5>1, <5>3
        <5> USE DEF right, left
        <5>5. f[<<mid + 1, r[2]>>] = g[<<mid + 1, r[2]>>] /\ f[<<r[1], mid - 1>>] = g[<<r[1], mid - 1>>]
          BY <5>4
        <5> HIDE DEF right, left
        <5> QED
          BY <4>3, <5>5 DEF Round
      <4> QED
        BY <4>2, <4>3
    <3> QED
      BY <3>1, <3>2
  <2> QED
    BY <2>3
<1> HIDE DEF Has
<1>3. ASSUME NEW m \in Bad PROVE FALSE
  <2>1. PICK k \in Bad : \A i \in Bad : k <= i
    BY LeastNatural
  <2>2. k # 0
    BY <1>1
  <2>3. k - 1 \in Nat /\ (k - 1) + 1 = k /\ ~(k <= k - 1)
    BY <2>2
  <2>4. Has(k - 1)
    BY <2>1, <2>3
  <2> QED
    BY <1>2, <2>3, <2>4
<1>4. Has(n + 1)
  BY <1>3
<1>5. PICK g : Upto(g, n + 1)
  BY <1>4 DEF Has
<1>6. ASSUME NEW r \in Ranges(n) PROVE g[r] = Round(is, v, g, r)
  <2>1. r[1] \in 0 .. n /\ r[2] \in -1 .. n - 1
    BY DEF Ranges
  <2>2. r[2] - r[1] < n + 1
    BY <2>1
  <2> QED
    BY <1>5, <2>2
<1> DEFINE f == [r \in Ranges(n) |-> g[r]]
<1>7. ASSUME NEW r \in Ranges(n) PROVE g[r] = Round(is, v, f, r)
  <2>1. r[1] \in Int /\ r[2] \in Int
    BY DEF Ranges
  <2>2. CASE r[2] < r[1]
    BY <1>6, <2>2 DEF Round
  <2>3. CASE ~(r[2] < r[1])
    <3> DEFINE mid == (r[1] + r[2]) \div 2
    <3>1. <<mid + 1, r[2]>> \in Ranges(n) /\ <<r[1], mid - 1>> \in Ranges(n)
      BY <2>1, <2>3, Narrower
    <3> HIDE DEF mid
    <3>2. f[<<mid + 1, r[2]>>] = g[<<mid + 1, r[2]>>] /\ f[<<r[1], mid - 1>>] = g[<<r[1], mid - 1>>]
      BY <3>1
    <3> HIDE DEF f
    <3> QED
      BY <1>6, <3>2 DEF Round, mid
  <2> QED
    BY <2>2, <2>3
<1>8. f = [r \in Ranges(n) |-> Round(is, v, f, r)]
  <2>1. f = [r \in Ranges(n) |-> f[r]] /\ \A r \in Ranges(n) : f[r] = g[r]
    OBVIOUS
  <2> HIDE DEF f
  <2> QED
    BY <1>7, <2>1
<1> QED
  BY <1>8

LEMMA SearchFinds ==
  ASSUME NEW is, IntsetOK(is), NEW v \in Int, NEW g,
         g = [r \in Ranges(is.length) |-> Round(is, v, g, r)]
  PROVE  \A r \in Ranges(is.length) :
           (\A i \in 0 .. is.length - 1 : /\ i < r[1] => _intsetGet(is, i) < v
                                          /\ i > r[2] => v < _intsetGet(is, i))
           => Locates(is, v, g[r])
<1> DEFINE n == is.length
           Between(r) == \A i \in 0 .. n - 1 : /\ i < r[1] => _intsetGet(is, i) < v
                                               /\ i > r[2] => v < _intsetGet(is, i)
           Wrong(r) == Between(r) /\ ~Locates(is, v, g[r])
           Size(r) == r[2] - r[1] + n + 1
           Bad == {Size(r) : r \in {x \in Ranges(n) : Wrong(x)}}
<1>1. n \in Nat /\ \A r \in Ranges(n) : r[1] \in 0 .. n /\ r[2] \in -1 .. n - 1
  BY DEF IntsetOK, Sized, Raw, Ranges
<1>2. \A i \in 0 .. n - 1 : _intsetGet(is, i) \in Int
  BY GetInt DEF IntsetOK
<1>3. \A i, j \in 0 .. n - 1 : i < j => _intsetGet(is, i) < _intsetGet(is, j)
  BY DEF IntsetOK, Sorted
<1> HIDE DEF Between
<1>4. ASSUME NEW r \in Ranges(n), Wrong(r),
             \A x \in Ranges(n) : x[2] - x[1] < r[2] - r[1] => ~Wrong(x)
      PROVE  FALSE
  <2>5. Between(r)
    BY <1>4
  <2>1. r[1] \in 0 .. n /\ r[2] \in -1 .. n - 1
    BY <1>1
  <2>2. g[r] = Round(is, v, g, r)
    OBVIOUS
  <2>3. CASE r[2] < r[1]
    <3>1. g[r] = <<FALSE, r[1]>>
      BY <2>2, <2>3 DEF Round
    <3>2. \A i \in 0 .. n - 1 : IF i < r[1] THEN _intsetGet(is, i) < v
                                ELSE v < _intsetGet(is, i)
      <4>1. ASSUME NEW i \in 0 .. n - 1
            PROVE  IF i < r[1] THEN _intsetGet(is, i) < v ELSE v < _intsetGet(is, i)
        <5>1. /\ i < r[1] => _intsetGet(is, i) < v
              /\ i > r[2] => v < _intsetGet(is, i)
          BY <2>5 DEF Between
        <5>2. i < r[1] \/ i > r[2]
          BY <2>1, <2>3
        <5> QED
          BY <5>1, <5>2
      <4> QED
        BY <4>1
    <3>3. Locates(is, v, g[r])
      BY <2>1, <3>1, <3>2, NotFoundIs
    <3> QED
      BY <1>4, <3>3
  <2>4. CASE ~(r[2] < r[1])
    <3> DEFINE mid == (r[1] + r[2]) \div 2
               right == <<mid + 1, r[2]>>
               left == <<r[1], mid - 1>>
               cur == _intsetGet(is, mid)
    <3>1. /\ mid \in 0 .. n - 1 /\ r[1] <= mid /\ mid <= r[2]
          /\ right \in Ranges(n) /\ right[2] - right[1] < r[2] - r[1]
          /\ left \in Ranges(n) /\ left[2] - left[1] < r[2] - r[1]
      <4>1. r[2] >= r[1]
        BY <2>1, <2>4
      <4> QED
        BY <1>1, <4>1, Narrower
    <3>2. right[1] = mid + 1 /\ right[2] = r[2] /\ left[1] = r[1] /\ left[2] = mid - 1
      BY SMTT(40)
    <3>3. g[r] = IF v > cur THEN g[right] ELSE IF v < cur THEN g[left] ELSE <<TRUE, mid>>
      BY <2>2, <2>4 DEF Round
    <3> HIDE DEF mid, right, left
    <3>4. cur \in Int
      BY <1>2, <3>1
    <3>5. CASE v > cur
      <4>1. Between(right)
        <5>1. ASSUME NEW i \in 0 .. n - 1
              PROVE  /\ i < mid + 1 => _intsetGet(is, i) < v
                     /\ i > r[2] => v < _intsetGet(is, i)
          <6>1. i < mid => _intsetGet(is, i) < cur
            BY <1>3, <3>1
          <6>2. i < mid + 1 => i < mid \/ i = mid
            BY <1>1, <3>1
          <6>3. _intsetGet(is, i) \in Int
            BY <1>2
          <6>4. i > r[2] => v < _intsetGet(is, i)
            BY <2>5 DEF Between
          <6> QED
            BY <3>4, <3>5, <6>1, <6>2, <6>3, <6>4
        <5> QED
          BY <3>2, <5>1 DEF Between
      <4>2. ~Wrong(right)
        BY <1>4, <3>1
      <4> QED
        BY <1>4, <3>3, <3>5, <4>1, <4>2
    <3>6. CASE v < cur
      <4>1. Between(left)
        <5>1. ASSUME NEW i \in 0 .. n - 1
              PROVE  /\ i < r[1] => _intsetGet(is, i) < v
                     /\ i > mid - 1 => v < _intsetGet(is, i)
          <6>1. mid < i => cur < _intsetGet(is, i)
            BY <1>3, <3>1
          <6>2. i > mid - 1 => mid < i \/ i = mid
            BY <1>1, <3>1
          <6>3. _intsetGet(is, i) \in Int
            BY <1>2
          <6>4. i < r[1] => _intsetGet(is, i) < v
            BY <2>5 DEF Between
          <6> QED
            BY <3>4, <3>6, <6>1, <6>2, <6>3, <6>4
        <5> QED
          BY <3>2, <5>1 DEF Between
      <4>2. ~Wrong(left)
        BY <1>4, <3>1
      <4>3. ~(v > cur)
        BY <3>4, <3>6
      <4> QED
        BY <1>4, <3>3, <3>6, <4>1, <4>2, <4>3
    <3>7. CASE ~(v > cur) /\ ~(v < cur)
      <4>1. v = cur
        BY <3>4, <3>7
      <4>3. g[r] = <<TRUE, mid>>
        BY <3>3, <3>7
      <4>2. Locates(is, v, g[r])
        BY <3>1, <4>1, <4>3, FoundIs
      <4> QED
        BY <1>4, <4>2
    <3> QED
      BY <3>5, <3>6, <3>7
  <2> QED
    BY <2>3, <2>4
<1> HIDE DEF Wrong
<1>5. ASSUME NEW r \in Ranges(n), Wrong(r) PROVE FALSE
  <2>1. Bad \in SUBSET Nat /\ Size(r) \in Bad
    <3>1. \A x \in Ranges(n) : Size(x) \in Nat
      <4>1. ASSUME NEW x \in Ranges(n) PROVE Size(x) \in Nat
        <5>1. x[1] \in 0 .. n /\ x[2] \in -1 .. n - 1
          BY <1>1
        <5> HIDE DEF n
        <5> QED
          BY <1>1, <5>1
      <4> QED
        BY <4>1
    <3> QED
      BY <1>5, <3>1
  <2>2. PICK k \in Bad : \A i \in Bad : k <= i
    BY <2>1, LeastNatural
  <2>3. PICK y \in Ranges(n) : Wrong(y) /\ k = Size(y)
    OBVIOUS
  <2>4. ASSUME NEW x \in Ranges(n), x[2] - x[1] < y[2] - y[1] PROVE ~Wrong(x)
    <3>1. x[1] \in Int /\ x[2] \in Int /\ y[1] \in Int /\ y[2] \in Int
      BY <1>1
    <3>2. Wrong(x) => Size(y) <= Size(x)
      BY <2>2, <2>3
    <3> HIDE DEF n
    <3> QED
      BY <1>1, <2>4, <3>1, <3>2
  <2> QED
    BY <1>4, <2>3, <2>4
<1> QED
  BY <1>5 DEF Wrong, Between


LEMMA SearchIs ==
  ASSUME NEW is, IntsetOK(is), NEW v \in Int
  PROVE  Locates(is, v, intsetSearch(is, v))
<1> DEFINE n == is.length
           E(g) == g = [r \in Ranges(n) |-> Round(is, v, g, r)]
           h == CHOOSE g : E(g)
<1>1. n \in Nat
  BY DEF IntsetOK, Sized, Raw
<1>2. intsetSearch(is, v) =
        IF n = 0 THEN <<FALSE, 0>>
        ELSE IF v > _intsetGet(is, n - 1) THEN <<FALSE, n>>
        ELSE IF v < _intsetGet(is, 0) THEN <<FALSE, 0>>
        ELSE h[<<0, n - 1>>]
  BY DEF intsetSearch, Round, Ranges
<1>3. E(h)
  <2>1. \E g : E(g)
    BY <1>1, SearchExists
  <2> QED
    BY <2>1
<1> HIDE DEF h
<1>4. \A i \in 0 .. n - 1 : _intsetGet(is, i) \in Int
  BY GetInt DEF IntsetOK
<1>5. \A i, j \in 0 .. n - 1 : i < j => _intsetGet(is, i) < _intsetGet(is, j)
  BY DEF IntsetOK, Sorted
<1>6. CASE n = 0
  <2>1. \A i \in 0 .. n - 1 : FALSE
    BY <1>6
  <2>2. 0 \in 0 .. is.length
    BY <1>6
  <2>3. Locates(is, v, <<FALSE, 0>>)
    BY <2>1, <2>2, NotFoundIs
  <2> QED
    BY <1>2, <1>6, <2>3
<1>7. CASE n # 0
  <2>1. 0 \in 0 .. n - 1 /\ n - 1 \in 0 .. n - 1 /\ 0 \in 0 .. n /\ n \in 0 .. n
    BY <1>1, <1>7
  <2> HIDE DEF n
  <2>2. CASE v > _intsetGet(is, n - 1)
    <3>1. ASSUME NEW i \in 0 .. n - 1
          PROVE  IF i < n THEN _intsetGet(is, i) < v ELSE v < _intsetGet(is, i)
      <4>1. i < n /\ (i < n - 1 \/ i = n - 1)
        BY <1>1
      <4>2. _intsetGet(is, i) \in Int /\ _intsetGet(is, n - 1) \in Int
        BY <1>4, <2>1
      <4>3. i < n - 1 => _intsetGet(is, i) < _intsetGet(is, n - 1)
        BY <1>5, <2>1
      <4> QED
        BY <2>2, <4>1, <4>2, <4>3
    <3>2. Locates(is, v, <<FALSE, n>>)
      BY <2>1, <3>1, NotFoundIs DEF n
    <3> QED
      BY <1>2, <1>7, <2>2, <3>2
  <2>3. CASE ~(v > _intsetGet(is, n - 1)) /\ v < _intsetGet(is, 0)
    <3>1. ASSUME NEW i \in 0 .. n - 1
          PROVE  IF i < 0 THEN _intsetGet(is, i) < v ELSE v < _intsetGet(is, i)
      <4>1. ~(i < 0) /\ (0 < i \/ i = 0)
        BY <1>1
      <4>2. _intsetGet(is, i) \in Int /\ _intsetGet(is, 0) \in Int
        BY <1>4, <2>1
      <4>3. 0 < i => _intsetGet(is, 0) < _intsetGet(is, i)
        BY <1>5, <2>1
      <4> QED
        BY <2>3, <4>1, <4>2, <4>3
    <3>2. Locates(is, v, <<FALSE, 0>>)
      BY <2>1, <3>1, NotFoundIs DEF n
    <3> QED
      BY <1>2, <1>7, <2>3, <3>2
  <2>4. CASE ~(v > _intsetGet(is, n - 1)) /\ ~(v < _intsetGet(is, 0))
    <3> DEFINE r == <<0, n - 1>>
    <3>1. r \in Ranges(n) /\ r[1] = 0 /\ r[2] = n - 1
      BY <2>1 DEF Ranges
    <3> HIDE DEF r
    <3>2. \A i \in 0 .. n - 1 : /\ i < r[1] => _intsetGet(is, i) < v
                                /\ i > r[2] => v < _intsetGet(is, i)
      BY <1>1, <3>1
    <3>3. Locates(is, v, h[r])
      BY <1>3, <3>1, <3>2, SearchFinds DEF n
    <3> QED
      BY <1>2, <1>7, <2>4, <3>3 DEF r
  <2> QED
    BY <2>2, <2>3, <2>4
<1> QED
  BY <1>6, <1>7

-----------------------------------------------------------------------------
(* Widths.                                                                 *)

\* The integers of a long long.
Longs == LLMin .. LLMax

LEMMA LongsFit == Longs \subseteq Int /\ \A v \in Longs : Fits(v, 4)
<1>1. Half(4) \in Nat /\ Power[4] = 2 * Half(4)
  BY PowerType DEF Width
<1>2. LLMax \in Nat /\ 2 * (LLMax + 1) = Power[4]
  BY ValuesAssumption, SetTypeAssumption
<1>3. Half(4) = LLMax + 1
  BY <1>1, <1>2
<1>4. ASSUME NEW v \in Longs PROVE v \in Int /\ v >= -Half(4) /\ v < Half(4)
  BY <1>2, <1>3 DEF Longs, LLMin
<1>5. 4 \in Width
  BY DEF Width
<1> QED
  BY <1>4, <1>5, FitsIs

LEMMA FitsLong ==
  ASSUME NEW e \in Width, NEW v \in Int, Fits(v, e)
  PROVE  v \in Longs
<1>1. Half(4) \in Nat /\ Power[4] = 2 * Half(4)
  BY PowerType DEF Width
<1>2. LLMax \in Nat /\ 2 * (LLMax + 1) = Power[4]
  BY ValuesAssumption, SetTypeAssumption
<1>3. Half(4) = LLMax + 1
  BY <1>1, <1>2
<1>4. Half(e) \in Nat /\ Half(e) <= Half(4)
  BY PowerType, HalvesGrow DEF Width
<1>5. v >= -Half(e) /\ v < Half(e)
  BY FitsIs
<1> QED
  BY <1>2, <1>3, <1>4, <1>5 DEF Longs, LLMin

\* What fits a width fits a larger one.
LEMMA FitsMore ==
  ASSUME NEW e \in Width, NEW w \in Width, e <= w, NEW v \in Int, Fits(v, e)
  PROVE  Fits(v, w)
<1>1. Half(e) \in Nat /\ Half(w) \in Nat /\ Half(e) <= Half(w)
  BY PowerType, HalvesGrow DEF Width
<1>2. v >= -Half(e) /\ v < Half(e)
  BY FitsIs
<1>3. v >= -Half(w) /\ v < Half(w)
  BY <1>1, <1>2
<1> QED
  BY <1>3, FitsIs

LEMMA EncodingIs ==
  ASSUME NEW v \in Longs
  PROVE  /\ _intsetValueEncoding(v) \in Width /\ Fits(v, _intsetValueEncoding(v))
         /\ \A e \in Width : Fits(v, e) <=> _intsetValueEncoding(v) <= e
<1> DEFINE T == {w \in Width : Fits(v, w)} \cup {4}
           m == Min(T)
<1>1. v \in Int /\ Fits(v, 4) /\ 4 \in Width /\ Width \subseteq Nat
  BY LongsFit DEF Width
<1>2. T \subseteq Nat /\ T # {} /\ \A w \in T : w \in Width /\ Fits(v, w)
  BY <1>1
<1> HIDE DEF T
<1>3. m \in T /\ \A y \in T : m <= y
  BY <1>2, MinIs
<1> HIDE DEF m
<1>4. m \in Width /\ Fits(v, m)
  BY <1>2, <1>3
<1>5. ASSUME NEW e \in Width PROVE Fits(v, e) <=> m <= e
  <2>1. Fits(v, e) => e \in T
    BY DEF T
  <2> QED
    BY <1>1, <1>3, <1>4, <2>1, FitsMore
<1>6. _intsetValueEncoding(v) = m
  BY DEF _intsetValueEncoding, m, T
<1> QED
  BY <1>4, <1>5, <1>6


-----------------------------------------------------------------------------
(* Folds: FoldLeft chooses a function on the sets of positions.  Such a    *)
(* function exists for any operation that stays in a set, and its values   *)
(* on the initial intervals are the rounds of the loop.                    *)

LEMMA MaxIs ==
  ASSUME NEW m \in Nat, NEW T \in SUBSET (1 .. m), T # {}
  PROVE  Max(T) \in T /\ \A y \in T : Max(T) >= y
<1> DEFINE A == {m - y : y \in T}
<1>1. PICK y \in T : TRUE
  OBVIOUS
<1>2. A \in SUBSET Nat /\ m - y \in A
  OBVIOUS
<1>3. PICK n \in A : \A i \in A : n <= i
  BY <1>2, LeastNatural
<1>4. PICK x \in T : n = m - x
  OBVIOUS
<1>5. ASSUME NEW z \in T PROVE x >= z
  <2>1. m - z \in A /\ x \in Nat /\ z \in Nat
    OBVIOUS
  <2>2. m - x <= m - z
    BY <1>3, <1>4, <2>1
  <2> QED
    BY <2>1, <2>2
<1>6. \E x1 \in T : \A z \in T : x1 >= z
  BY <1>5
<1> QED
  BY <1>6 DEF Max

LEMMA MaxIsTop ==
  ASSUME NEW m \in Nat, NEW T \in SUBSET (1 .. m + 1), m + 1 \in T
  PROVE  Max(T) = m + 1
<1>1. m + 1 \in Nat /\ T # {}
  OBVIOUS
<1>2. Max(T) \in T /\ Max(T) >= m + 1
  BY <1>1, MaxIs
<1>3. Max(T) \in 1 .. m + 1
  BY <1>2
<1> QED
  BY <1>2, <1>3

\* g folds the step function st over s.
Folds(g, st, base, s, m) ==
  g = [T \in SUBSET (1 .. m) |->
         IF T = {} THEN base ELSE st[<<g[T \ {Max(T)}], s[Max(T)]>>]]

HasFold(X, st, base, s, n) ==
  \E g \in [SUBSET (1 .. n) -> X] : Folds(g, st, base, s, n)

LEMMA FoldExists ==
  ASSUME NEW X, NEW Y, NEW st \in [X \X Y -> X], NEW base \in X,
         NEW n \in Nat, NEW s, \A i \in 1 .. n : s[i] \in Y
  PROVE  HasFold(X, st, base, s, n)
<1> DEFINE Has(m) == \E g \in [SUBSET (1 .. m) -> X] : Folds(g, st, base, s, m)
           Bad == {m \in Nat : m <= n /\ ~Has(m)}
<1>1. Has(0)
  <2> DEFINE g == [T \in SUBSET (1 .. 0) |-> base]
  <2>1. \A T \in SUBSET (1 .. 0) : T = {}
    OBVIOUS
  <2>2. g = [T \in SUBSET (1 .. 0) |->
               IF T = {} THEN base ELSE st[<<g[T \ {Max(T)}], s[Max(T)]>>]]
    BY <2>1
  <2>3. g \in [SUBSET (1 .. 0) -> X]
    OBVIOUS
  <2> HIDE DEF g
  <2> QED
    BY <2>2, <2>3 DEF Folds
<1>2. ASSUME NEW m \in Nat, m + 1 <= n, Has(m) PROVE Has(m + 1)
  <2>1. PICK g \in [SUBSET (1 .. m) -> X] : Folds(g, st, base, s, m)
    BY <1>2
  <2> DEFINE last(T) == st[<<g[T \ {m + 1}], s[m + 1]>>]
             value(T) == IF m + 1 \in T THEN last(T) ELSE g[T]
             f == [T \in SUBSET (1 .. m + 1) |-> value(T)]
  <2>2. \A T \in SUBSET (1 .. m + 1) :
          /\ T \ {m + 1} \in SUBSET (1 .. m)
          /\ m + 1 \notin T => T \in SUBSET (1 .. m)
    OBVIOUS
  <2>3. s[m + 1] \in Y
    BY <1>2
  <2>4. \A T \in SUBSET (1 .. m + 1) : last(T) \in X
    BY <2>2, <2>3
  <2>5. \A T \in SUBSET (1 .. m + 1) : value(T) \in X
    BY <2>2, <2>4
  <2>6. f \in [SUBSET (1 .. m + 1) -> X]
    BY <2>5
  <2>7. ASSUME NEW T \in SUBSET (1 .. m + 1)
        PROVE  value(T) = IF T = {} THEN base
                          ELSE st[<<f[T \ {Max(T)}], s[Max(T)]>>]
    <3>1. CASE m + 1 \in T
      <4>1. Max(T) = m + 1 /\ T # {}
        BY <3>1, MaxIsTop
      <4>2. T \ {m + 1} \in SUBSET (1 .. m + 1) /\ m + 1 \notin T \ {m + 1}
        OBVIOUS
      <4>3. f[T \ {m + 1}] = g[T \ {m + 1}]
        BY <4>2
      <4> QED
        BY <3>1, <4>1, <4>3
    <3>2. CASE m + 1 \notin T
      <4>1. T \in SUBSET (1 .. m)
        BY <2>2, <3>2
      <4>2. g[T] = IF T = {} THEN base ELSE st[<<g[T \ {Max(T)}], s[Max(T)]>>]
        BY <2>1, <4>1 DEF Folds
      <4>3. T \ {Max(T)} \in SUBSET (1 .. m + 1) /\ m + 1 \notin T \ {Max(T)}
        BY <3>2
      <4>4. f[T \ {Max(T)}] = g[T \ {Max(T)}]
        BY <4>3
      <4> HIDE DEF f
      <4> QED
        BY <3>2, <4>2, <4>4
    <3> QED
      BY <3>1, <3>2
  <2>8. f = [T \in SUBSET (1 .. m + 1) |->
               IF T = {} THEN base ELSE st[<<f[T \ {Max(T)}], s[Max(T)]>>]]
    <3> HIDE DEF value
    <3>1. f = [T \in SUBSET (1 .. m + 1) |-> value(T)]
      OBVIOUS
    <3> HIDE DEF f
    <3> QED
      BY <2>7, <3>1, Zenon
  <2> HIDE DEF f
  <2> QED
    BY <2>6, <2>8 DEF Folds
<1>3. ASSUME NEW m \in Bad PROVE FALSE
  <2> HIDE DEF Has
  <2>1. PICK k \in Bad : \A i \in Bad : k <= i
    BY LeastNatural
  <2>2. k # 0
    BY <1>1
  <2>3. k - 1 \in Nat /\ (k - 1) + 1 = k /\ k - 1 <= n /\ ~(k <= k - 1)
    BY <2>2
  <2>4. Has(k - 1)
    BY <2>1, <2>3
  <2>5. k <= n
    BY <2>1
  <2>6. Has((k - 1) + 1)
    BY <1>2, <2>3, <2>4, <2>5
  <2> QED
    BY <2>3, <2>6
<1> HIDE DEF Has
<1>4. Has(n)
  BY <1>3
<1> QED
  BY <1>4 DEF Has, HasFold

\* The rounds of a loop are the values of its fold on initial intervals.
LEMMA Rounds ==
  ASSUME NEW k \in Nat \ {0}
  PROVE  1 .. k # {} /\ Max(1 .. k) = k /\ (1 .. k) \ {k} = 1 .. (k - 1) /\ 1 .. 0 = {}
<1>1. k - 1 \in Nat /\ (k - 1) + 1 = k /\ k \in 1 .. k
  OBVIOUS
<1>2. 1 .. k \in SUBSET (1 .. (k - 1) + 1) /\ (k - 1) + 1 \in 1 .. k
  BY <1>1
<1>3. Max(1 .. k) = (k - 1) + 1
  BY <1>1, <1>2, MaxIsTop
<1> QED
  BY <1>1, <1>3

\* What holds at the start and is kept by every round holds at the end.
LEMMA Through ==
  ASSUME NEW n \in Nat, NEW p, NEW Good, p[0] \in Good[0],
         \A k \in 1 .. n : p[k - 1] \in Good[k - 1] => p[k] \in Good[k]
  PROVE  \A k \in 0 .. n : p[k] \in Good[k]
<1> DEFINE Bad == {k \in Nat : k <= n /\ p[k] \notin Good[k]}
<1>1. ASSUME NEW m \in Bad PROVE FALSE
  <2>1. PICK j \in Bad : \A i \in Bad : j <= i
    BY LeastNatural
  <2>2. j # 0
    OBVIOUS
  <2>3. j \in 1 .. n /\ j - 1 \in Nat /\ j - 1 <= n /\ ~(j <= j - 1)
    BY <2>2
  <2>4. p[j - 1] \in Good[j - 1]
    BY <2>1, <2>3
  <2> QED
    BY <2>3, <2>4
<1> QED
  BY <1>1


-----------------------------------------------------------------------------
(* The upgrade in place: the integers move from back to front.             *)

\* Of the integers of is, the last k have moved, p places up, in s.
Moving(is, s, w, p, k) ==
  /\ s \in Raw /\ s.encoding = w /\ s.length = is.length
  /\ Len(s.contents) = is.length * w + w
  /\ \A j \in 0 .. is.length - 1 :
       IF j < is.length - k
       THEN _intsetGetEncoded(s, j, is.encoding) = _intsetGet(is, j)
       ELSE _intsetGetEncoded(s, j + p, w) = _intsetGet(is, j)

LEMMA MoveOne ==
  ASSUME NEW is, Sized(is), NEW w \in Width, is.encoding < w, NEW p \in {0, 1},
         NEW k \in 1 .. is.length, NEW s, Moving(is, s, w, p, k - 1)
  PROVE  LET pos == is.length - k IN
         Moving(is, _intsetSet(s, pos + p, _intsetGetEncoded(s, pos, is.encoding)), w, p, k)
<1> DEFINE n == is.length
           o == is.encoding
           pos == n - k
           x == _intsetGetEncoded(s, pos, o)
           t == _intsetSet(s, pos + p, x)
<1>1. is \in Raw /\ n \in Nat /\ o \in Width /\ Len(is.contents) = n * o /\ o <= w
  BY DEF Sized, Raw, Width
<1>2. /\ s \in Raw /\ s.encoding = w /\ s.length = n /\ Len(s.contents) = n * w + w
      /\ \A j \in 0 .. n - 1 :
           IF j < n - (k - 1) THEN _intsetGetEncoded(s, j, o) = _intsetGet(is, j)
           ELSE _intsetGetEncoded(s, j + p, w) = _intsetGet(is, j)
  BY DEF Moving
<1>3. pos \in 0 .. n - 1 /\ pos + p \in Nat /\ pos + p <= n /\ pos < n - (k - 1) /\ pos \in Nat
  BY <1>1
<1> HIDE DEF pos
<1>4. x = _intsetGet(is, pos)
  BY <1>2, <1>3
<1>5. x \in Int /\ Fits(x, w)
  <2>1. x \in Int /\ Fits(x, o)
    BY <1>3, <1>4, GetInt
  <2> QED
    BY <1>1, <2>1, FitsMore
<1> HIDE DEF x
<1>6. n * w \in Nat /\ (pos + p) * w + w <= n * w + w /\ (pos + p) * w \in Nat /\ w \in 1 .. 4
  <2>1. pos + p < n => (pos + p) * w + w <= n * w
    BY <1>1, <1>3, BlockOrder
  <2>2. pos + p < n \/ pos + p = n
    BY <1>1, <1>3
  <2>3. n * w \in Nat /\ w \in 1 .. 4
    BY <1>1, BlockIs
  <2>4. (pos + p) * w \in Nat
    BY <1>3, BlockIs
  <2> HIDE DEF n
  <2> QED
    BY <2>1, <2>2, <2>3, <2>4
<1>7. IsSet(s, t, pos + p, x)
  BY <1>2, <1>3, <1>5, <1>6, SetIs
<1> HIDE DEF t
<1>8. /\ t \in Raw /\ t.encoding = w /\ t.length = n /\ Len(t.contents) = n * w + w
      /\ _intsetGetEncoded(t, pos + p, w) = x
      /\ \A i \in 1 .. n * w + w : i <= (pos + p) * w => t.contents[i] = s.contents[i]
  BY <1>2, <1>5, <1>7 DEF IsSet
<1>9. ASSUME NEW j \in 0 .. n - 1
      PROVE  IF j < n - k THEN _intsetGetEncoded(t, j, o) = _intsetGet(is, j)
             ELSE _intsetGetEncoded(t, j + p, w) = _intsetGet(is, j)
  <2>1. j \in Nat /\ j < n /\ (j < pos \/ j = pos \/ pos < j) /\ n - k = pos
    BY <1>1, <1>3 DEF pos
  <2>2. CASE j < pos
    <3>1. _intsetGetEncoded(s, j, o) = _intsetGet(is, j)
      <4>1. j < n - (k - 1)
        BY <1>1, <2>1, <2>2
      <4> QED
        BY <1>2, <4>1
    <3>2. j * o + o <= (pos + p) * w /\ j * o \in Nat /\ o \in 1 .. 4
      <4>1. j * o + o <= pos * o /\ j * o \in Nat /\ pos * o \in Nat /\ o \in 1 .. 4
        BY <1>1, <1>3, <2>1, <2>2, BlockOrder, BlockIs
      <4>2. pos * o <= pos * w /\ pos * w \in Nat
        <5>1. (o = 1 \/ o = 2 \/ o = 4) /\ (w = 1 \/ w = 2 \/ w = 4)
          BY <1>1 DEF Width
        <5>2. o <= w /\ pos \in Nat
          BY <1>1, <1>3
        <5> HIDE DEF o
        <5> QED
          BY <5>1, <5>2
      <4>3. pos * w <= (pos + p) * w
        <5>1. p = 0 \/ p = 1
          OBVIOUS
        <5>2. (pos + 1) * w = pos * w + w
          BY <1>3, BlockIs
        <5>3. pos + 0 = pos
          BY <1>3
        <5> QED
          BY <1>6, <4>2, <5>1, <5>2, <5>3
      <4> HIDE DEF o
      <4> QED
        BY <1>6, <4>1, <4>2, <4>3
    <3> HIDE DEF n, o
    <3>3. ASSUME NEW i \in 1 .. o PROVE t.contents[j * o + i] = s.contents[j * o + i]
      <4>1. j * o + i \in 1 .. n * w + w /\ j * o + i <= (pos + p) * w
        BY <1>6, <3>2
      <4> QED
        BY <1>8, <4>1
    <3>4. j * o + o <= n * w + w
      BY <1>6, <3>2
    <3>5. _intsetGetEncoded(t, j, o) = _intsetGetEncoded(s, j, o)
      BY <1>1, <1>2, <1>8, <2>1, <3>3, <3>4, GetSame
    <3> QED
      BY <2>1, <2>2, <3>1, <3>5
  <2>3. CASE j = pos
    <3>1. ~(j < n - k)
      BY <1>3, <2>1, <2>3
    <3> QED
      BY <1>4, <1>8, <2>3, <3>1
  <2>4. CASE pos < j
    <3>1. ~(j < n - k) /\ ~(j < n - (k - 1)) /\ j + p \in Nat /\ j + p # pos + p
      <4> HIDE DEF n
      <4> QED
        BY <1>1, <1>3, <2>1, <2>4 DEF pos
    <3>2. _intsetGetEncoded(s, j + p, w) = _intsetGet(is, j)
      BY <1>2, <3>1
    <3>3. (j + p) * w + w <= n * w + w
      <4>1. j + p <= n
        BY <1>1, <2>1
      <4>2. j + p < n => (j + p) * w + w <= n * w
        BY <1>1, <3>1, BlockOrder
      <4>3. j + p < n \/ j + p = n
        BY <1>1, <3>1, <4>1
      <4> HIDE DEF n
      <4>4. (j + p) * w \in Nat
        BY <3>1, BlockIs
      <4> QED
        BY <1>6, <4>2, <4>3, <4>4
    <3> DEFINE i == j + p
    <3>4. i \in Nat /\ i # pos + p /\ i * s.encoding + s.encoding <= Len(s.contents)
      BY <1>2, <3>1, <3>3
    <3> HIDE DEF i
    <3>5. _intsetGetEncoded(t, i, w) = _intsetGetEncoded(s, i, w)
      BY <1>2, <1>3, <1>7, <3>4, SetOthers
    <3> QED
      BY <3>1, <3>2, <3>5 DEF i
  <2> QED
    BY <2>1, <2>2, <2>3, <2>4
<1> QED
  BY <1>8, <1>9 DEF Moving, pos, x, t


\* The rounds of the loop.
LEMMA UpgradeRounds ==
  ASSUME NEW is, Sized(is), NEW w \in Width, is.encoding < w, NEW shift \in {0, 1},
         NEW wide \in Raw, wide.encoding = w, Len(wide.contents) = is.length * w + w
  PROVE  \E p : /\ p[0] = wide
                /\ \A k \in 1 .. is.length :
                     p[k] = _intsetSet(p[k - 1], is.length - k + shift,
                              _intsetGetEncoded(p[k - 1], is.length - k, is.encoding))
                /\ FoldLeft(LAMBDA s, pos : _intsetSet(s, pos + shift,
                                              _intsetGetEncoded(s, pos, is.encoding)),
                            wide, BackToFront(is)) = p[is.length]
<1> DEFINE n == is.length
           o == is.encoding
           b == BackToFront(is)
           Op(s, pos) == _intsetSet(s, pos + shift, _intsetGetEncoded(s, pos, o))
           Equation(g) == g = [T \in SUBSET (1 .. n) |->
                                 IF T = {} THEN wide
                                 ELSE Op(g[T \ {Max(T)}], b[Max(T)])]
           h == CHOOSE g : Equation(g)
           X == {s \in Raw : s.encoding = w /\ Len(s.contents) = n * w + w}
           Y == 0 .. n - 1
           st == [x \in X \X Y |-> Op(x[1], x[2])]
<1>1. n \in Nat /\ o \in Width /\ o <= w
  BY DEF Sized, Raw, Width
<1>2. DOMAIN b = 1 .. n /\ \A i \in 1 .. n : b[i] = n - i /\ b[i] \in Y
  BY <1>1 DEF BackToFront
<1> HIDE DEF b
<1>3. FoldLeft(LAMBDA s, pos : _intsetSet(s, pos + shift, _intsetGetEncoded(s, pos, o)),
               wide, b) = h[1 .. n]
  <2>1. FoldLeft(LAMBDA s, pos : _intsetSet(s, pos + shift, _intsetGetEncoded(s, pos, o)), wide, b)
          = LET g == CHOOSE g : g = [T \in SUBSET DOMAIN b |->
                                       IF T = {} THEN wide
                                       ELSE Op(g[T \ {Max(T)}], b[Max(T)])]
            IN  g[DOMAIN b]
    BY DEF FoldLeft, MapThenFoldSet
  <2> QED
    BY <1>2, <2>1
<1>4. ASSUME NEW s \in X, NEW pos \in Y PROVE Op(s, pos) \in X
  <2>1. pos \in Nat /\ pos + shift \in Nat /\ pos + shift <= n /\ pos < n
    BY <1>1
  <2>2. n * w \in Nat /\ (pos + shift) * w + w <= n * w + w
    <3>1. pos + shift < n => (pos + shift) * w + w <= n * w
      BY <1>1, <2>1, BlockOrder
    <3>2. pos + shift < n \/ pos + shift = n
      BY <1>1, <2>1
    <3>3. n * w \in Nat /\ (pos + shift) * w \in Nat /\ w \in 1 .. 4
      BY <1>1, <2>1, BlockIs
    <3> HIDE DEF n
    <3> QED
      BY <3>1, <3>2, <3>3
  <2>3. pos * o + o <= n * w + w
    <3>1. pos * o + o <= n * o
      BY <1>1, <2>1, BlockOrder
    <3>2. n * o <= n * w /\ n * o \in Nat /\ w \in 1 .. 4
      <4>1. (o = 1 \/ o = 2 \/ o = 4) /\ (w = 1 \/ w = 2 \/ w = 4)
        BY <1>1 DEF Width
      <4> HIDE DEF o, n
      <4> QED
        BY <1>1, <4>1
    <3>3. pos * o \in Nat /\ o \in 1 .. 4
      BY <1>1, <2>1, BlockIs
    <3> HIDE DEF n, o
    <3> QED
      BY <2>2, <3>1, <3>2, <3>3
  <2>4. s \in Raw /\ s.encoding = w /\ Len(s.contents) = n * w + w
    OBVIOUS
  <2> HIDE DEF n, o
  <2>5. _intsetGetEncoded(s, pos, o) \in Int
    BY <1>1, <2>1, <2>3, <2>4, GetFits
  <2>6. IsSet(s, Op(s, pos), pos + shift, _intsetGetEncoded(s, pos, o))
    BY <2>1, <2>2, <2>4, <2>5, SetIs
  <2> HIDE DEF Op
  <2> QED
    BY <2>4, <2>6 DEF IsSet
<1>5. st \in [X \X Y -> X]
  <2> HIDE DEF X, Y, Op
  <2> QED
    BY <1>4
<1>6. \E g : Equation(g)
  <2>1. wide \in X
    OBVIOUS
  <2> HIDE DEF st, n, X, Y, Op
  <2>2. PICK g \in [SUBSET (1 .. n) -> X] : Folds(g, st, wide, b, n)
    <3>1. HasFold(X, st, wide, b, n)
      BY <1>1, <1>2, <1>5, <2>1, FoldExists
    <3> QED
      BY <3>1 DEF HasFold
  <2>3. ASSUME NEW T \in SUBSET (1 .. n), T # {}
        PROVE  st[<<g[T \ {Max(T)}], b[Max(T)]>>] = Op(g[T \ {Max(T)}], b[Max(T)])
    <3>1. Max(T) \in 1 .. n
      BY <1>1, <2>3, MaxIs
    <3>2. g[T \ {Max(T)}] \in X /\ b[Max(T)] \in Y
      BY <1>2, <3>1
    <3> QED
      BY <3>2 DEF st
  <2>4. Equation(g)
    BY <2>2, <2>3 DEF Folds
  <2> QED
    BY <2>4
<1>7. Equation(h)
  BY <1>6
<1> HIDE DEF h, Op
<1> DEFINE p == [k \in 0 .. n |-> h[1 .. k]]
<1>8. p[0] = wide
  BY <1>1, <1>7, Rounds
<1>9. ASSUME NEW k \in 1 .. n PROVE p[k] = Op(p[k - 1], n - k)
  <2>1. /\ 1 .. k # {} /\ Max(1 .. k) = k /\ (1 .. k) \ {k} = 1 .. (k - 1)
        /\ k \in 0 .. n /\ k - 1 \in 0 .. n /\ 1 .. k \in SUBSET (1 .. n)
    BY <1>1, Rounds
  <2> QED
    BY <1>2, <1>7, <2>1, ZenonT(40)
<1>10. p[n] = h[1 .. n]
  BY <1>1
<1> HIDE DEF p
<1> QED
  BY <1>3, <1>8, <1>9, <1>10 DEF Op, b

LEMMA UpgradeIs ==
  ASSUME NEW is, IntsetOK(is), NEW v \in Longs, is.encoding < _intsetValueEncoding(v)
  PROVE  Inserted(is, intsetUpgradeAndAdd(is, v), IF v < 0 THEN 0 ELSE is.length, v)
<1> DEFINE n == is.length
           o == is.encoding
           w == _intsetValueEncoding(v)
           shift == IF v < 0 THEN 1 ELSE 0
           at == IF v < 0 THEN 0 ELSE n
           tall == [is EXCEPT !.encoding = w]
           wide == intsetResize(tall, n + 1)
           moved == FoldLeft(LAMBDA s, pos : _intsetSet(s, pos + shift, _intsetGetEncoded(s, pos, o)),
                             wide, BackToFront(is))
           set == _intsetSet(moved, at, v)
           js == [set EXCEPT !.length = n + 1]
<1>1. /\ is \in Raw /\ n \in Nat /\ o \in Width /\ Len(is.contents) = n * o /\ Sized(is)
      /\ v \in Int /\ w \in Width /\ Fits(v, w) /\ o < w
  BY EncodingIs, LongsFit DEF IntsetOK, Sized, Raw
<1>2. intsetUpgradeAndAdd(is, v) = [_intsetSet(moved, IF shift = 1 THEN 0 ELSE n, v) EXCEPT !.length = @ + 1]
  BY DEF intsetUpgradeAndAdd
<1>3. shift \in {0, 1} /\ at \in Nat /\ (IF shift = 1 THEN 0 ELSE n) = at
  BY <1>1
<1> HIDE DEF w
<1>4. tall \in Raw /\ tall.encoding = w /\ tall.length = n /\ tall.contents = is.contents
  BY <1>1 DEF Raw
<1> HIDE DEF tall
<1>5. IsResized(tall, wide, n + 1)
  BY <1>1, <1>4, ResizeIs
<1> HIDE DEF wide
<1>6. /\ n * w \in Nat /\ (n + 1) * w = n * w + w /\ w \in 1 .. 4
      /\ n * o \in Nat /\ o \in 1 .. 4 /\ n * o <= n * w
  <2>1. n * w \in Nat /\ (n + 1) * w = n * w + w /\ w \in 1 .. 4 /\ n * o \in Nat /\ o \in 1 .. 4
    BY <1>1, BlockIs
  <2>2. (o = 1 \/ o = 2 \/ o = 4) /\ (w = 1 \/ w = 2 \/ w = 4)
    BY <1>1 DEF Width
  <2> HIDE DEF n, o
  <2> QED
    BY <1>1, <2>1, <2>2
<1>7. /\ wide \in Raw /\ wide.encoding = w /\ wide.length = n /\ Len(wide.contents) = n * w + w
      /\ \A i \in 1 .. n * o : wide.contents[i] = is.contents[i]
  <2> HIDE DEF n, o
  <2>1. \A i \in 1 .. n * o : i \in 1 .. (n + 1) * w /\ i <= Len(tall.contents)
    BY <1>1, <1>4, <1>6
  <2> QED
    BY <1>4, <1>5, <1>6, <2>1 DEF IsResized
<1>8. Moving(is, wide, w, shift, 0)
  <2>1. ASSUME NEW j \in 0 .. n - 1
        PROVE  j < n - 0 /\ _intsetGetEncoded(wide, j, o) = _intsetGet(is, j)
    <3>1. j \in Nat /\ j < n /\ j < n - 0
      BY <1>1
    <3>2. j * o \in Nat /\ j * o + o <= n * o
      BY <1>1, <3>1, BlockIs, BlockOrder
    <3> HIDE DEF n, o
    <3>3. ASSUME NEW i \in 1 .. o PROVE wide.contents[j * o + i] = is.contents[j * o + i]
      <4>1. j * o + i \in 1 .. n * o
        BY <1>6, <3>2
      <4> QED
        BY <1>7, <4>1
    <3>4. j * o + o <= n * w + w
      BY <1>6, <3>2
    <3>5. _intsetGetEncoded(wide, j, o) = _intsetGetEncoded(is, j, o)
      <4>1. j * o + o <= Len(is.contents) /\ j * o + o <= Len(wide.contents)
        BY <1>1, <1>7, <3>2, <3>4
      <4>2. is \in Raw /\ wide \in Raw /\ o \in Width /\ j \in Nat
        BY <1>1, <1>7, <3>1
      <4> QED
        BY <3>3, <4>1, <4>2, GetSame
    <3> QED
      BY <3>1, <3>5 DEF _intsetGet, o
  <2> HIDE DEF shift
  <2> QED
    BY <1>7, <2>1 DEF Moving
<1> HIDE DEF shift
<1>9. Moving(is, moved, w, shift, n)
  <2>1. PICK p : /\ p[0] = wide
                 /\ \A k \in 1 .. n :
                      p[k] = _intsetSet(p[k - 1], n - k + shift,
                                        _intsetGetEncoded(p[k - 1], n - k, o))
                 /\ moved = p[n]
    BY <1>1, <1>3, <1>7, UpgradeRounds, ZenonT(40)
  <2> HIDE DEF moved
  <2> DEFINE Good == [k \in 0 .. n |-> {s \in Raw : Moving(is, s, w, shift, k)}]
  <2>2. p[0] \in Good[0]
    BY <1>1, <1>7, <1>8, <2>1
  <2>3. ASSUME NEW k \in 1 .. n, p[k - 1] \in Good[k - 1] PROVE p[k] \in Good[k]
    <3>1. k - 1 \in 0 .. n /\ k \in 0 .. n
      BY <1>1
    <3>2. Moving(is, p[k - 1], w, shift, k - 1)
      BY <2>3, <3>1
    <3>3. Moving(is, p[k], w, shift, k)
      BY <1>1, <1>3, <2>1, <3>2, MoveOne
    <3>4. p[k] \in Raw
      BY <3>3 DEF Moving
    <3> QED
      BY <3>1, <3>3, <3>4
  <2>4. \A k \in 0 .. n : p[k] \in Good[k]
    <3> HIDE DEF Good
    <3> QED
      BY <1>1, <2>2, <2>3, Through
  <2>5. n \in 0 .. n
    BY <1>1
  <2> QED
    BY <2>1, <2>4, <2>5
<1> HIDE DEF moved
<1>10. /\ moved \in Raw /\ moved.encoding = w /\ moved.length = n
       /\ Len(moved.contents) = n * w + w
       /\ \A j \in 0 .. n - 1 : _intsetGetEncoded(moved, j + shift, w) = _intsetGet(is, j)
  <2>1. \A j \in 0 .. n - 1 : ~(j < n - n)
    BY <1>1
  <2> QED
    BY <1>9, <2>1 DEF Moving
<1>11. IsSet(moved, set, at, v)
  <2>1. at * w + w <= n * w + w
    <3>1. at = 0 \/ at = n
      OBVIOUS
    <3>2. 0 * w = 0
      BY <1>6
    <3> HIDE DEF at, n
    <3> QED
      BY <1>6, <3>1, <3>2
  <2> HIDE DEF at
  <2> QED
    BY <1>1, <1>3, <1>10, <2>1, SetIs
<1> HIDE DEF set
<1>12. /\ set \in Raw /\ set.encoding = w /\ set.length = n /\ Len(set.contents) = n * w + w
       /\ _intsetGetEncoded(set, at, w) = v
  BY <1>1, <1>10, <1>11 DEF IsSet
<1>13. /\ js \in Raw /\ js.length = n + 1 /\ js.encoding = w
       /\ js.contents = set.contents
       /\ \A i : _intsetGetEncoded(js, i, w) = _intsetGetEncoded(set, i, w)
  <2>1. n + 1 \in Nat
    BY <1>1
  <2> HIDE DEF n
  <2> QED
    BY <1>12, <2>1, SetLength
<1>14. [set EXCEPT !.length = @ + 1] = js
  BY <1>12
<1> HIDE DEF js
<1>15. Sized(js)
  BY <1>6, <1>12, <1>13 DEF Sized
<1>16. ASSUME NEW j \in 0 .. n - 1
       PROVE  j + shift # at /\ _intsetGet(js, j + shift) = _intsetGet(is, j)
  <2> DEFINE i == j + shift
  <2>1. i \in Nat /\ i <= n /\ i # at
    BY <1>1, <1>3 DEF shift
  <2>2. i * w + w <= n * w + w
    <3>1. i < n => i * w + w <= n * w
      BY <1>1, <2>1, BlockOrder
    <3>2. i < n \/ i = n
      BY <1>1, <2>1
    <3> HIDE DEF i, n
    <3>3. i * w \in Nat
      BY <1>1, <2>1, BlockIs
    <3> QED
      BY <1>6, <3>1, <3>2, <3>3
  <2>3. _intsetGetEncoded(moved, i, w) = _intsetGet(is, j)
    BY <1>10
  <2> HIDE DEF i, at
  <2>4. _intsetGetEncoded(set, i, w) = _intsetGetEncoded(moved, i, w)
    BY <1>3, <1>10, <1>11, <2>1, <2>2, SetOthers
  <2>5. _intsetGet(js, i) = _intsetGetEncoded(set, i, w)
    BY <1>13 DEF _intsetGet
  <2> QED
    BY <2>1, <2>3, <2>4, <2>5 DEF i
<1>17. ASSUME NEW i \in 0 .. n
       PROVE  _intsetGet(js, i) = IF i < at THEN _intsetGet(is, i)
                                  ELSE IF i = at THEN v ELSE _intsetGet(is, i - 1)
  <2>1. CASE i = at
    <3>1. ~(i < at)
      BY <1>1, <1>3, <2>1
    <3>2. _intsetGet(js, i) = v
      BY <1>12, <1>13, <2>1 DEF _intsetGet
    <3> QED
      BY <2>1, <3>1, <3>2
  <2>2. CASE i # at /\ v < 0
    <3>1. i - 1 \in 0 .. n - 1 /\ (i - 1) + shift = i /\ ~(i < at)
      BY <1>1, <2>2 DEF shift
    <3> HIDE DEF at
    <3> QED
      BY <1>16, <2>2, <3>1
  <2>3. CASE i # at /\ ~(v < 0)
    <3>1. i \in 0 .. n - 1 /\ i + shift = i /\ i < at
      BY <1>1, <2>3 DEF shift
    <3> HIDE DEF at
    <3> QED
      BY <1>16, <3>1
  <2> QED
    BY <2>1, <2>2, <2>3
<1> HIDE DEF at
<1>18. intsetUpgradeAndAdd(is, v) = js
  BY <1>2, <1>3, <1>14 DEF set
<1> QED
  BY <1>1, <1>13, <1>15, <1>17, <1>18 DEF Inserted, at


-----------------------------------------------------------------------------
(* An intset as a set.                                                     *)

Held(is) == {_intsetGet(is, i) : i \in 0 .. is.length - 1}

LEMMA InsertedKeeps ==
  ASSUME NEW is, IntsetOK(is), NEW js, NEW at \in 0 .. is.length, NEW v \in Int,
         Inserted(is, js, at, v),
         \A i \in 0 .. is.length - 1 :
            IF i < at THEN _intsetGet(is, i) < v ELSE v < _intsetGet(is, i)
  PROVE  IntsetOK(js) /\ Held(js) = Held(is) \cup {v} /\ v \notin Held(is)
<1> DEFINE n == is.length
           G(i) == _intsetGet(is, i)
           J(i) == _intsetGet(js, i)
<1>1. n \in Nat /\ \A i \in 0 .. n - 1 : G(i) \in Int
  BY GetInt DEF IntsetOK, Sized, Raw
<1>2. Sized(js) /\ js.length = n + 1
      /\ \A i \in 0 .. n : J(i) = IF i < at THEN G(i) ELSE IF i = at THEN v ELSE G(i - 1)
  BY DEF Inserted
<1>3. \A i, j \in 0 .. n - 1 : i < j => G(i) < G(j)
  BY DEF IntsetOK, Sorted
<1>4. \A i \in 0 .. n - 1 : IF i < at THEN G(i) < v ELSE v < G(i)
  OBVIOUS
<1>5. at \in 0 .. n /\ js.length - 1 = n
  BY <1>1, <1>2
<1> HIDE DEF n, G, J
<1>6. ASSUME NEW i \in 0 .. n, NEW j \in 0 .. n, i < j PROVE J(i) < J(j)
  <2>1. i < at => i \in 0 .. n - 1 /\ J(i) = G(i) /\ G(i) < v /\ G(i) \in Int
    BY <1>1, <1>2, <1>4, <1>5
  <2>2. i > at => i - 1 \in 0 .. n - 1 /\ J(i) = G(i - 1)
    BY <1>1, <1>2, <1>5
  <2>3. j < at => j \in 0 .. n - 1 /\ J(j) = G(j)
    BY <1>1, <1>2, <1>5
  <2>4. j > at => j - 1 \in 0 .. n - 1 /\ J(j) = G(j - 1) /\ v < G(j - 1) /\ G(j - 1) \in Int
    BY <1>1, <1>2, <1>4, <1>5
  <2>5. i = at => J(i) = v
    BY <1>1, <1>2, <1>5
  <2>6. j = at => J(j) = v
    BY <1>1, <1>2, <1>5
  <2>7. CASE j < at
    <3>1. i < at
      BY <1>1, <1>5, <1>6, <2>7
    <3> QED
      BY <1>3, <1>6, <2>1, <2>3, <2>7, <3>1
  <2>8. CASE j = at
    BY <1>6, <2>1, <2>6, <2>8
  <2>9. CASE j > at /\ i < at
    BY <2>1, <2>4, <2>9
  <2>10. CASE j > at /\ i = at
    BY <2>4, <2>5, <2>10
  <2>11. CASE j > at /\ i > at
    <3>1. i - 1 < j - 1
      BY <1>1, <1>6
    <3> QED
      BY <1>3, <2>2, <2>4, <2>11, <3>1
  <2>12. j < at \/ j = at \/ (j > at /\ (i < at \/ i = at \/ i > at))
    BY <1>1, <1>5
  <2> QED
    BY <2>7, <2>8, <2>9, <2>10, <2>11, <2>12
<1>7. IntsetOK(js)
  BY <1>2, <1>5, <1>6 DEF IntsetOK, Sorted, J
<1>8. Held(is) = {G(i) : i \in 0 .. n - 1} /\ Held(js) = {J(i) : i \in 0 .. n}
  BY <1>5 DEF Held, G, J, n
<1>9. Held(js) \subseteq Held(is) \cup {v}
  <2>1. ASSUME NEW i \in 0 .. n PROVE J(i) \in Held(is) \cup {v}
    <3>1. (i < at => i \in 0 .. n - 1) /\ (~(i < at) /\ i # at => i - 1 \in 0 .. n - 1)
      BY <1>1, <1>5
    <3> QED
      BY <1>2, <1>8, <3>1
  <2> QED
    BY <1>8, <2>1
<1>10. Held(is) \cup {v} \subseteq Held(js)
  <2>1. v = J(at)
    BY <1>1, <1>2, <1>5
  <2>2. ASSUME NEW i \in 0 .. n - 1 PROVE G(i) \in Held(js)
    <3>1. CASE i < at
      <4>1. i \in 0 .. n /\ J(i) = G(i)
        BY <1>1, <1>2, <3>1
      <4> QED
        BY <1>8, <4>1
    <3>2. CASE ~(i < at)
      <4> DEFINE j == i + 1
      <4>1. j \in 0 .. n /\ ~(j < at) /\ j # at /\ j - 1 = i
        BY <1>1, <1>5, <3>2
      <4> HIDE DEF j
      <4>2. J(j) = G(i)
        BY <1>2, <4>1
      <4> QED
        BY <1>8, <4>1, <4>2
    <3> QED
      BY <3>1, <3>2
  <2> QED
    BY <1>5, <1>8, <2>1, <2>2
<1>11. v \notin Held(is)
  <2>1. \A i \in 0 .. n - 1 : v # G(i)
    <3>1. ASSUME NEW i \in 0 .. n - 1 PROVE v # G(i)
      BY <1>1, <1>4
    <3> QED
      BY <3>1
  <2> QED
    BY <1>8, <2>1
<1> QED
  BY <1>7, <1>9, <1>10, <1>11

LEMMA RemovedKeeps ==
  ASSUME NEW is, IntsetOK(is), NEW js, NEW at \in 0 .. is.length - 1, Removed(is, js, at)
  PROVE  IntsetOK(js) /\ Held(js) = Held(is) \ {_intsetGet(is, at)}
<1> DEFINE n == is.length
           G(i) == _intsetGet(is, i)
           J(i) == _intsetGet(js, i)
<1>1. n \in Nat /\ \A i \in 0 .. n - 1 : G(i) \in Int
  BY GetInt DEF IntsetOK, Sized, Raw
<1>2. Sized(js) /\ js.length = n - 1
      /\ \A i \in 0 .. js.length - 1 : J(i) = IF i < at THEN G(i) ELSE G(i + 1)
  BY DEF Removed
<1>3. \A i, j \in 0 .. n - 1 : i < j => G(i) < G(j)
  BY DEF IntsetOK, Sorted
<1>4. at \in 0 .. n - 1 /\ js.length - 1 = n - 2
  BY <1>1, <1>2
<1>5. Held(is) = {G(i) : i \in 0 .. n - 1} /\ Held(js) = {J(i) : i \in 0 .. n - 2}
  BY <1>4 DEF Held
<1> HIDE DEF n, G, J
<1>6. ASSUME NEW i \in 0 .. n - 2
      PROVE  /\ i < at => i \in 0 .. n - 1 /\ J(i) = G(i)
             /\ i >= at => i + 1 \in 0 .. n - 1 /\ J(i) = G(i + 1)
  BY <1>1, <1>2, <1>4
<1>7. ASSUME NEW i \in 0 .. n - 2, NEW j \in 0 .. n - 2, i < j PROVE J(i) < J(j)
  <2>1. CASE j < at
    <3>1. i < at
      BY <1>1, <1>4, <1>7, <2>1
    <3> QED
      BY <1>3, <1>6, <1>7, <2>1, <3>1
  <2>2. CASE j >= at /\ i < at
    <3>1. i < j + 1
      BY <1>7
    <3> QED
      BY <1>3, <1>6, <2>2, <3>1
  <2>3. CASE j >= at /\ i >= at
    <3>1. i + 1 < j + 1
      BY <1>7
    <3> QED
      BY <1>3, <1>6, <2>3, <3>1
  <2>4. j < at \/ (j >= at /\ (i < at \/ i >= at))
    BY <1>1, <1>4
  <2> QED
    BY <2>1, <2>2, <2>3, <2>4
<1>8. IntsetOK(js)
  BY <1>2, <1>4, <1>7 DEF IntsetOK, Sorted, J
<1>9. ASSUME NEW i \in 0 .. n - 1, NEW j \in 0 .. n - 1, i # j PROVE G(i) # G(j)
  <2>1. i < j \/ j < i
    BY <1>1, <1>9
  <2>2. G(i) \in Int /\ G(j) \in Int
    BY <1>1
  <2> QED
    BY <1>3, <2>1, <2>2
<1>10. ASSUME NEW i \in 0 .. n - 2 PROVE J(i) \in Held(is) \ {G(at)}
  <2>1. CASE i < at
    <3>1. i # at
      BY <1>1, <1>4, <2>1
    <3> QED
      BY <1>4, <1>5, <1>6, <1>9, <2>1, <3>1
  <2>2. CASE i >= at
    <3>1. i + 1 # at
      BY <1>1, <1>4, <2>2
    <3> QED
      BY <1>4, <1>5, <1>6, <1>9, <2>2, <3>1
  <2>3. i < at \/ i >= at
    BY <1>1, <1>4
  <2> QED
    BY <2>1, <2>2, <2>3
<1>11. ASSUME NEW i \in 0 .. n - 1, i # at PROVE G(i) \in Held(js)
  <2>1. CASE i < at
    <3>1. i \in 0 .. n - 2
      BY <1>1, <1>4, <2>1
    <3> QED
      BY <1>5, <1>6, <2>1, <3>1
  <2>2. CASE i > at
    <3> DEFINE j == i - 1
    <3>1. j \in 0 .. n - 2 /\ j >= at /\ j + 1 = i
      BY <1>1, <1>4, <2>2
    <3> HIDE DEF j
    <3>2. J(j) = G(i)
      BY <1>6, <3>1
    <3> QED
      BY <1>5, <3>1, <3>2
  <2>3. i < at \/ i > at
    BY <1>1, <1>4, <1>11
  <2> QED
    BY <2>1, <2>2, <2>3
<1>12. Held(js) \subseteq Held(is) \ {G(at)}
  BY <1>5, <1>10
<1>13. Held(is) \ {G(at)} \subseteq Held(js)
  <2>1. ASSUME NEW x \in Held(is), x # G(at) PROVE x \in Held(js)
    <3>1. PICK i \in 0 .. n - 1 : x = G(i)
      BY <1>5
    <3> QED
      BY <1>11, <2>1, <3>1
  <2> QED
    BY <2>1
<1> QED
  BY <1>8, <1>12, <1>13 DEF G


LEMMA HeldIs ==
  ASSUME NEW is, IntsetOK(is)
  PROVE  /\ Held(is) \subseteq Longs /\ IsFiniteSet(Held(is))
         /\ Cardinality(Held(is)) = is.length /\ is.length \in Nat
<1> DEFINE n == is.length
           f == [i \in 0 .. n - 1 |-> _intsetGet(is, i)]
<1>1. n \in Nat /\ is.encoding \in Width
  BY DEF IntsetOK, Sized, Raw
<1>2. \A i \in 0 .. n - 1 : _intsetGet(is, i) \in Int /\ Fits(_intsetGet(is, i), is.encoding)
  BY GetInt DEF IntsetOK
<1>3. Held(is) \subseteq Longs
  BY <1>1, <1>2, FitsLong DEF Held
<1>4. IsFiniteSet(0 .. n - 1) /\ Cardinality(0 .. n - 1) = n
  <2>1. 0 \in Int /\ n - 1 \in Int
    BY <1>1
  <2>2. IsFiniteSet(0 .. n - 1) /\ Cardinality(0 .. n - 1) = IF 0 > n - 1 THEN 0 ELSE n - 1 - 0 + 1
    BY <2>1, FS_Interval
  <2> HIDE DEF n
  <2> QED
    BY <1>1, <2>2
<1>5. \A i, j \in 0 .. n - 1 : f[i] = f[j] => i = j
  <2>1. ASSUME NEW i \in 0 .. n - 1, NEW j \in 0 .. n - 1, i # j
        PROVE  _intsetGet(is, i) # _intsetGet(is, j)
    <3>1. i < j \/ j < i
      BY <1>1, <2>1
    <3>2. \A a, b \in 0 .. n - 1 : a < b => _intsetGet(is, a) < _intsetGet(is, b)
      BY DEF IntsetOK, Sorted
    <3> QED
      BY <1>2, <3>1, <3>2
  <2> QED
    BY <2>1
<1>6. f \in Bijection(0 .. n - 1, Held(is))
  <2>1. f \in [0 .. n - 1 -> Held(is)]
    BY DEF Held
  <2>2. \A x \in Held(is) : \E i \in 0 .. n - 1 : f[i] = x
    BY DEF Held
  <2> HIDE DEF f
  <2> QED
    BY <1>5, <2>1, <2>2 DEF Bijection, Injection, Surjection, IsInjective
<1>7. ExistsBijection(0 .. n - 1, Held(is))
  BY <1>6 DEF ExistsBijection
<1> QED
  BY <1>1, <1>3, <1>4, <1>7, FS_Bijection

LEMMA NewIs == IntsetOK(intsetNew) /\ Held(intsetNew) = {} /\ intsetNew.length = 0
<1>1. /\ intsetNew \in Raw /\ intsetNew.length = 0 /\ Len(intsetNew.contents) = 0
      /\ intsetNew.encoding = 1
  BY DEF intsetNew, Raw, Width
<1>2. 0 .. 0 - 1 = {}
  OBVIOUS
<1> QED
  BY <1>1, <1>2 DEF IntsetOK, Sized, Sorted, Held

LEMMA FindIs ==
  ASSUME NEW is, IntsetOK(is), NEW v \in Longs
  PROVE  /\ intsetFind(is, v) <=> v \in Held(is)
         /\ ~intsetSearch(is, v)[1] => v \notin Held(is)
         /\ intsetFind(is, v) => /\ intsetSearch(is, v)[2] \in 0 .. is.length - 1
                                 /\ _intsetGet(is, intsetSearch(is, v)[2]) = v
<1> DEFINE r == intsetSearch(is, v)
           n == is.length
<1>1. v \in Int
  BY LongsFit
<1>2. Locates(is, v, r)
  BY <1>1, SearchIs
<1>3. is.encoding \in Width /\ n \in Nat
  BY DEF IntsetOK, Sized, Raw
<1>4. \A i \in 0 .. n - 1 : _intsetGet(is, i) \in Int /\ Fits(_intsetGet(is, i), is.encoding)
  BY GetInt DEF IntsetOK
<1> HIDE DEF r
<1>5. r[1] => r[2] \in 0 .. n - 1 /\ _intsetGet(is, r[2]) = v
  BY <1>2 DEF Locates
<1>6. ~r[1] => v \notin Held(is)
  <2>1. ASSUME ~r[1], NEW i \in 0 .. n - 1 PROVE v # _intsetGet(is, i)
    <3>1. IF i < r[2] THEN _intsetGet(is, i) < v ELSE v < _intsetGet(is, i)
      BY <1>2, <2>1 DEF Locates
    <3> QED
      BY <1>1, <1>4, <3>1
  <2> QED
    BY <2>1 DEF Held
<1>7. v \in Held(is) => _intsetValueEncoding(v) <= is.encoding
  <2>1. v \in Held(is) => Fits(v, is.encoding)
    BY <1>4 DEF Held
  <2> QED
    BY <1>3, <2>1, EncodingIs
<1>8. intsetFind(is, v) <=> _intsetValueEncoding(v) <= is.encoding /\ r[1]
  BY DEF intsetFind, r
<1>9. r[1] => v \in Held(is)
  BY <1>5 DEF Held
<1> QED
  BY <1>5, <1>6, <1>7, <1>8, <1>9 DEF r

LEMMA AddIs ==
  ASSUME NEW is, IntsetOK(is), NEW v \in Longs
  PROVE  LET r == intsetAdd(is, v) IN
         /\ IntsetOK(r[1]) /\ Held(r[1]) = Held(is) \cup {v}
         /\ r[2] \in BOOLEAN /\ (r[2] <=> v \notin Held(is))
<1> DEFINE n == is.length
           w == _intsetValueEncoding(v)
           at == intsetSearch(is, v)
           big == intsetResize(is, n + 1)
           gap == IF at[2] < n THEN intsetMoveTail(big, at[2], at[2] + 1) ELSE big
           put == [_intsetSet(gap, at[2], v) EXCEPT !.length = @ + 1]
           up == intsetUpgradeAndAdd(is, v)
<1>1. v \in Int /\ w \in Width /\ Fits(v, w)
  BY EncodingIs, LongsFit
<1>2. is.encoding \in Width /\ n \in Nat /\ Sized(is)
  BY DEF IntsetOK, Sized, Raw
<1>3. intsetAdd(is, v) = IF w > is.encoding THEN <<up, TRUE>>
                         ELSE IF at[1] THEN <<is, FALSE>> ELSE <<put, TRUE>>
  BY DEF intsetAdd
<1>4. Fits(v, is.encoding) <=> w <= is.encoding
  BY <1>2, EncodingIs
<1>5. \A i \in 0 .. n - 1 : _intsetGet(is, i) \in Int /\ Fits(_intsetGet(is, i), is.encoding)
  BY GetInt DEF IntsetOK
<1>6. is.encoding \in Nat /\ w \in Nat
  BY <1>1, <1>2 DEF Width
<1>7. CASE w > is.encoding
  <2> DEFINE k == IF v < 0 THEN 0 ELSE n
  <2>1. Inserted(is, up, k, v)
    BY <1>6, <1>7, UpgradeIs
  <2>2. k \in 0 .. n
    BY <1>2
  <2>3. ASSUME NEW i \in 0 .. n - 1
        PROVE  IF i < k THEN _intsetGet(is, i) < v ELSE v < _intsetGet(is, i)
    <3> DEFINE x == _intsetGet(is, i)
               h == Half(is.encoding)
    <3>1. x \in Int /\ x >= -h /\ x < h /\ h \in Nat
      BY <1>2, <1>5, FitsIs, PowerType
    <3>2. ~(v >= -h /\ v < h)
      <4>1. ~Fits(v, is.encoding)
        BY <1>4, <1>6, <1>7
      <4> QED
        BY <1>1, <1>2, <4>1, FitsIs
    <3> HIDE DEF x, h
    <3>3. IF v < 0 THEN v < x ELSE x < v
      BY <1>1, <3>1, <3>2
    <3>4. IF v < 0 THEN ~(i < k) ELSE i < k
      BY <1>2
    <3> QED
      BY <3>3, <3>4 DEF x
  <2> HIDE DEF k, up
  <2>4. IntsetOK(up) /\ Held(up) = Held(is) \cup {v} /\ v \notin Held(is)
    BY <1>1, <2>1, <2>2, <2>3, InsertedKeeps
  <2>5. intsetAdd(is, v) = <<up, TRUE>>
    BY <1>3, <1>7
  <2> QED
    BY <2>4, <2>5
<1>8. CASE ~(w > is.encoding) /\ at[1]
  <2>1. intsetAdd(is, v) = <<is, FALSE>>
    BY <1>3, <1>8
  <2>2. v \in Held(is)
    <3>1. intsetFind(is, v)
      BY <1>6, <1>8 DEF intsetFind
    <3> QED
      BY <3>1, FindIs
  <2>3. Held(is) = Held(is) \cup {v}
    BY <2>2
  <2> QED
    BY <2>1, <2>2, <2>3
<1>9. CASE ~(w > is.encoding) /\ ~at[1]
  <2>1. intsetAdd(is, v) = <<put, TRUE>>
    BY <1>3, <1>9
  <2>2. Locates(is, v, at)
    BY <1>1, SearchIs
  <2> HIDE DEF at
  <2> DEFINE k == at[2]
  <2>3. /\ k \in 0 .. n
        /\ \A i \in 0 .. n - 1 :
             IF i < k THEN _intsetGet(is, i) < v ELSE v < _intsetGet(is, i)
    BY <1>9, <2>2 DEF Locates
  <2>4. Fits(v, is.encoding)
    BY <1>4, <1>6, <1>9
  <2> HIDE DEF k
  <2>5. Inserted(is, [_intsetSet(IF k < n THEN intsetMoveTail(big, k, k + 1) ELSE big, k, v)
                        EXCEPT !.length = @ + 1], k, v)
    BY <1>1, <1>2, <2>3, <2>4, InsertIs
  <2>6. Inserted(is, put, k, v)
    BY <2>5 DEF k
  <2> HIDE DEF put
  <2>7. IntsetOK(put) /\ Held(put) = Held(is) \cup {v} /\ v \notin Held(is)
    BY <1>1, <2>3, <2>6, InsertedKeeps
  <2> QED
    BY <2>1, <2>7
<1> QED
  BY <1>7, <1>8, <1>9

LEMMA DropIs ==
  ASSUME NEW is, IntsetOK(is), NEW v \in Longs
  PROVE  LET js == intsetRemove(is, v)[1] IN
         IntsetOK(js) /\ Held(js) = Held(is) \ {v}
<1> DEFINE n == is.length
           pos == intsetSearch(is, v)[2]
           closed == IF pos < n - 1 THEN intsetMoveTail(is, pos + 1, pos) ELSE is
           js == [intsetResize(closed, n - 1) EXCEPT !.length = @ - 1]
<1>1. intsetRemove(is, v) = IF ~intsetFind(is, v) THEN <<is, FALSE>> ELSE <<js, TRUE>>
  BY DEF intsetRemove
<1>2. CASE ~intsetFind(is, v)
  <2>1. v \notin Held(is)
    BY <1>2, FindIs
  <2>2. intsetRemove(is, v) = <<is, FALSE>> /\ Held(is) = Held(is) \ {v}
    BY <1>1, <1>2, <2>1
  <2> QED
    BY <2>2
<1>3. CASE intsetFind(is, v)
  <2>1. pos \in 0 .. n - 1 /\ _intsetGet(is, pos) = v
    BY <1>3, FindIs
  <2>2. Sized(is)
    BY DEF IntsetOK
  <2>3. Removed(is, js, pos)
    <3> HIDE DEF pos
    <3> QED
      BY <2>1, <2>2, RemoveIs
  <2> HIDE DEF js, pos
  <2>4. IntsetOK(js) /\ Held(js) = Held(is) \ {v}
    BY <2>1, <2>3, RemovedKeeps
  <2>5. intsetRemove(is, v) = <<js, TRUE>>
    BY <1>1, <1>3
  <2> QED
    BY <2>4, <2>5
<1> QED
  BY <1>2, <1>3


-----------------------------------------------------------------------------
(* Set objects.                                                            *)

IsIntset(s) ==
  /\ s = IntsetObject(s.is) /\ IntsetOK(s.is) /\ s.is.length <= MaxIntsetEntries

IsTable(s) == s = SetObject(s.ht) /\ s.ht \subseteq Strings /\ IsFiniteSet(s.ht)

SetOK(s) == IsIntset(s) \/ IsTable(s)

Spelled(N) == {<<"num", n>> : n \in N}

LEMMA NumbersAre ==
  /\ Numbers \subseteq Strings
  /\ \A v \in Strings : IsNumber(v) <=> v \in Numbers
  /\ \A v \in Numbers : v = <<"num", v[2]>> /\ v[2] \in Longs
  /\ \A n \in Longs : <<"num", n>> \in Numbers
  BY DEF Strings, Numbers, IsNumber, Longs

LEMMA IntsetMembers ==
  ASSUME NEW is, IntsetOK(is)
  PROVE  setTypeMembers(IntsetObject(is)) = Spelled(Held(is))
<1> DEFINE f == intsetElements(is)
<1>1. is.length \in Nat
  BY DEF IntsetOK, Sized, Raw
<1>2. ToSet(f) = Held(is)
  <2>1. DOMAIN f = 1 .. is.length /\ \A i \in 1 .. is.length : f[i] = _intsetGet(is, i - 1)
    BY DEF intsetElements
  <2> HIDE DEF f
  <2>2. ToSet(f) = {f[i] : i \in DOMAIN f}
    BY DEF ToSet
  <2>3. ASSUME NEW x \in ToSet(f) PROVE x \in Held(is)
    <3>1. PICK i \in 1 .. is.length : x = f[i]
      BY <2>1, <2>2
    <3>2. i - 1 \in 0 .. is.length - 1 /\ x = _intsetGet(is, i - 1)
      BY <1>1, <2>1, <3>1
    <3> QED
      BY <3>2 DEF Held
  <2>4. ASSUME NEW x \in Held(is) PROVE x \in ToSet(f)
    <3>1. PICK i \in 0 .. is.length - 1 : x = _intsetGet(is, i)
      BY DEF Held
    <3>2. i + 1 \in 1 .. is.length /\ (i + 1) - 1 = i
      BY <1>1
    <3>3. f[i + 1] = x
      BY <2>1, <3>1, <3>2
    <3> QED
      BY <2>1, <2>2, <3>2, <3>3
  <2> QED
    BY <2>3, <2>4
<1>3. IntsetObject(is).enc = "intset" /\ IntsetObject(is).is = is
  BY DEF IntsetObject
<1> HIDE DEF f
<1> QED
  BY <1>2, <1>3 DEF setTypeMembers, Spelled, f

LEMMA SpelledIs ==
  ASSUME NEW N \in SUBSET Longs, IsFiniteSet(N)
  PROVE  /\ Spelled(N) \subseteq Numbers /\ IsFiniteSet(Spelled(N))
         /\ Cardinality(Spelled(N)) = Cardinality(N)
         /\ \A n : <<"num", n>> \in Spelled(N) <=> n \in N
<1> DEFINE f == [n \in N |-> <<"num", n>>]
<1>1. f \in Bijection(N, Spelled(N))
  <2>1. f \in [N -> Spelled(N)] /\ \A x \in Spelled(N) : \E n \in N : f[n] = x
    BY DEF Spelled
  <2>2. \A m, n \in N : f[m] = f[n] => m = n
    OBVIOUS
  <2> HIDE DEF f
  <2> QED
    BY <2>1, <2>2 DEF Bijection, Injection, Surjection, IsInjective
<1>2. ExistsBijection(N, Spelled(N))
  BY <1>1 DEF ExistsBijection
<1>3. IsFiniteSet(Spelled(N)) /\ Cardinality(Spelled(N)) = Cardinality(N)
  BY <1>2, FS_Bijection
<1>4. \A n : <<"num", n>> \in Spelled(N) <=> n \in N
  BY DEF Spelled
<1>5. Spelled(N) \subseteq Numbers
  BY NumbersAre DEF Spelled
<1> QED
  BY <1>3, <1>4, <1>5

LEMMA ObjectFields ==
  /\ \A is : IntsetObject(is).enc = "intset" /\ IntsetObject(is).is = is /\ IntsetObject(is).ht = {}
  /\ \A H : SetObject(H).enc = "ht" /\ SetObject(H).ht = H
  BY DEF IntsetObject, SetObject

LEMMA IntsetIs ==
  ASSUME NEW is, IntsetOK(is), is.length <= MaxIntsetEntries
  PROVE  SetOK(IntsetObject(is))
  BY ObjectFields DEF SetOK, IsIntset

LEMMA TableIs ==
  ASSUME NEW H \in SUBSET Strings, IsFiniteSet(H)
  PROVE  SetOK(SetObject(H)) /\ setTypeMembers(SetObject(H)) = H
  BY ObjectFields DEF SetOK, IsTable, setTypeMembers

\* The size is the number of members.
LEMMA MembersAre ==
  ASSUME NEW s, SetOK(s)
  PROVE  /\ setTypeMembers(s) \subseteq Strings /\ IsFiniteSet(setTypeMembers(s))
         /\ setTypeSize(s) = Cardinality(setTypeMembers(s))
         /\ setTypeSize(s) \in Nat
<1>1. CASE IsIntset(s)
  <2> DEFINE is == s.is
  <2>1. s = IntsetObject(is) /\ IntsetOK(is)
    BY <1>1 DEF IsIntset
  <2> HIDE DEF is
  <2>2. setTypeMembers(s) = Spelled(Held(is))
    BY <2>1, IntsetMembers
  <2>3. Held(is) \subseteq Longs /\ IsFiniteSet(Held(is)) /\ Cardinality(Held(is)) = is.length
        /\ is.length \in Nat
    BY <2>1, HeldIs
  <2>4. setTypeSize(s) = is.length
    BY <2>1, ObjectFields DEF setTypeSize
  <2> QED
    BY <2>2, <2>3, <2>4, SpelledIs, NumbersAre
<1>2. CASE IsTable(s)
  <2>1. s = SetObject(s.ht) /\ s.ht \subseteq Strings /\ IsFiniteSet(s.ht) /\ s.enc = "ht"
    BY <1>2, ObjectFields DEF IsTable
  <2>2. setTypeMembers(s) = s.ht /\ setTypeSize(s) = Cardinality(s.ht)
    BY <2>1 DEF setTypeMembers, setTypeSize
  <2> QED
    BY <2>1, <2>2, FS_CardinalityType
<1> QED
  BY <1>1, <1>2 DEF SetOK

LEMMA CreateIs ==
  ASSUME NEW v \in Strings
  PROVE  SetOK(setTypeCreate(v)) /\ setTypeMembers(setTypeCreate(v)) = {}
<1>1. MaxIntsetEntries \in Nat /\ IsFiniteSet({})
  BY SetTypeAssumption, FS_EmptySet
<1>2. SetOK(IntsetObject(intsetNew)) /\ setTypeMembers(IntsetObject(intsetNew)) = {}
  <2>1. SetOK(IntsetObject(intsetNew))
    BY <1>1, NewIs, IntsetIs
  <2>2. setTypeMembers(IntsetObject(intsetNew)) = Spelled({})
    BY NewIs, IntsetMembers
  <2> QED
    BY <2>1, <2>2 DEF Spelled
<1>3. SetOK(SetObject({})) /\ setTypeMembers(SetObject({})) = {}
  BY <1>1, TableIs
<1> QED
  BY <1>2, <1>3 DEF setTypeCreate

LEMMA SetAddIs ==
  ASSUME NEW s, SetOK(s), NEW v \in Strings
  PROVE  SetOK(setTypeAdd(s, v)) /\ setTypeMembers(setTypeAdd(s, v)) = setTypeMembers(s) \cup {v}
<1>1. setTypeMembers(s) \subseteq Strings /\ IsFiniteSet(setTypeMembers(s))
  BY MembersAre
<1>2. setTypeMembers(s) \cup {v} \subseteq Strings /\ IsFiniteSet(setTypeMembers(s) \cup {v})
  BY <1>1, FS_AddElement
<1> DEFINE all == setTypeMembers(s) \cup {v}
<1>3. SetOK(SetObject(all)) /\ setTypeMembers(SetObject(all)) = all
  BY <1>2, TableIs
<1>4. CASE IsTable(s)
  <2>1. s.enc = "ht" /\ setTypeMembers(s) = s.ht
    BY <1>4, ObjectFields DEF IsTable, setTypeMembers
  <2>2. setTypeAdd(s, v) = SetObject(all)
    BY <2>1 DEF setTypeAdd
  <2> QED
    BY <1>3, <2>2
<1>5. CASE IsIntset(s) /\ ~IsNumber(v)
  <2>1. s.enc = "intset"
    BY <1>5, ObjectFields DEF IsIntset
  <2>2. setTypeMembers(setTypeConvert(s)) = setTypeMembers(s)
    BY <1>1, TableIs DEF setTypeConvert
  <2>3. setTypeAdd(s, v) = SetObject(all)
    BY <1>5, <2>1, <2>2 DEF setTypeAdd
  <2> QED
    BY <1>3, <2>3
<1>6. CASE IsIntset(s) /\ IsNumber(v)
  <2> DEFINE is == s.is
             n == v[2]
             r == intsetAdd(is, n)
             js == r[1]
  <2>1. s = IntsetObject(is) /\ s.enc = "intset" /\ IntsetOK(is) /\ is.length <= MaxIntsetEntries
    BY <1>6, ObjectFields DEF IsIntset
  <2>2. v = <<"num", n>> /\ n \in Longs
    BY <1>6, NumbersAre
  <2> HIDE DEF is, n
  <2>3. IntsetOK(js) /\ Held(js) = Held(is) \cup {n} /\ (r[2] <=> n \notin Held(is))
    BY <2>1, <2>2, AddIs
  <2>4. setTypeMembers(s) = Spelled(Held(is)) /\ setTypeMembers(IntsetObject(js)) = Spelled(Held(js))
    BY <2>1, <2>3, IntsetMembers
  <2>5. Spelled(Held(js)) = Spelled(Held(is)) \cup {v}
    BY <2>2, <2>3 DEF Spelled
  <2>6. setTypeAdd(s, v) = IF r[2] /\ js.length > MaxIntsetEntries
                           THEN setTypeConvert(IntsetObject(js)) ELSE IntsetObject(js)
    BY <1>6, <2>1 DEF setTypeAdd, is, n
  <2>7. setTypeConvert(IntsetObject(js)) = SetObject(all)
    BY <2>4, <2>5 DEF setTypeConvert
  <2>8. js.length \in Nat /\ MaxIntsetEntries \in Nat /\ js.length = Cardinality(Held(js))
        /\ is.length = Cardinality(Held(is))
    BY <2>1, <2>3, HeldIs, SetTypeAssumption
  <2>9. ~r[2] => js.length <= MaxIntsetEntries
    <3>1. ~r[2] => Held(js) = Held(is)
      BY <2>3
    <3> QED
      BY <2>1, <2>8, <3>1
  <2> HIDE DEF r, js
  <2>10. CASE r[2] /\ js.length > MaxIntsetEntries
    BY <1>3, <2>6, <2>7, <2>10
  <2>11. CASE ~(r[2] /\ js.length > MaxIntsetEntries)
    <3>1. js.length <= MaxIntsetEntries
      BY <2>8, <2>9, <2>11
    <3>2. SetOK(IntsetObject(js))
      BY <2>3, <3>1, IntsetIs
    <3>3. setTypeAdd(s, v) = IntsetObject(js)
      BY <2>6, <2>11
    <3> QED
      BY <2>4, <2>5, <3>2, <3>3
  <2> QED
    BY <2>10, <2>11
<1> QED
  BY <1>4, <1>5, <1>6 DEF SetOK

LEMMA SetRemoveIs ==
  ASSUME NEW s, SetOK(s), NEW v \in Strings
  PROVE  /\ SetOK(setTypeRemove(s, v))
         /\ setTypeMembers(setTypeRemove(s, v)) = setTypeMembers(s) \ {v}
<1>1. setTypeMembers(s) \subseteq Strings /\ IsFiniteSet(setTypeMembers(s))
  BY MembersAre
<1>2. CASE IsTable(s)
  <2>1. s.enc = "ht" /\ setTypeMembers(s) = s.ht
    BY <1>2, ObjectFields DEF IsTable, setTypeMembers
  <2>2. setTypeRemove(s, v) = SetObject(s.ht \ {v})
    BY <2>1 DEF setTypeRemove
  <2>3. s.ht \ {v} \in SUBSET Strings /\ IsFiniteSet(s.ht \ {v})
    BY <1>1, <2>1, FS_RemoveElement
  <2> QED
    BY <2>1, <2>2, <2>3, TableIs
<1>3. CASE IsIntset(s)
  <2> DEFINE is == s.is
             n == v[2]
             js == intsetRemove(is, n)[1]
  <2>1. s = IntsetObject(is) /\ s.enc = "intset" /\ IntsetOK(is) /\ is.length <= MaxIntsetEntries
    BY <1>3, ObjectFields DEF IsIntset
  <2>2. setTypeMembers(s) = Spelled(Held(is)) /\ Held(is) \subseteq Longs /\ IsFiniteSet(Held(is))
    <3> HIDE DEF is
    <3> QED
      BY <2>1, IntsetMembers, HeldIs
  <2>3. CASE IsNumber(v)
    <3>1. v = <<"num", n>> /\ n \in Longs
      BY <2>3, NumbersAre
    <3>2. setTypeRemove(s, v) = IntsetObject(js)
      BY <2>1, <2>3 DEF setTypeRemove
    <3> HIDE DEF is, n
    <3>3. IntsetOK(js) /\ Held(js) = Held(is) \ {n}
      BY <2>1, <3>1, DropIs
    <3> HIDE DEF js
    <3>4. js.length <= MaxIntsetEntries
      <4>1. js.length = Cardinality(Held(js)) /\ is.length = Cardinality(Held(is))
            /\ js.length \in Nat /\ is.length \in Nat
        BY <2>1, <3>3, HeldIs
      <4>2. Cardinality(Held(js)) <= Cardinality(Held(is))
        BY <2>2, <3>3, FS_Subset
      <4> QED
        BY <2>1, <4>1, <4>2, SetTypeAssumption
    <3>5. setTypeMembers(IntsetObject(js)) = Spelled(Held(js))
      BY <3>3, IntsetMembers
    <3>6. Spelled(Held(js)) = Spelled(Held(is)) \ {v}
      BY <3>1, <3>3 DEF Spelled
    <3> QED
      BY <2>2, <3>2, <3>3, <3>4, <3>5, <3>6, IntsetIs
  <2>4. CASE ~IsNumber(v)
    <3>1. setTypeRemove(s, v) = s
      BY <2>1, <2>4 DEF setTypeRemove
    <3>2. v \notin setTypeMembers(s)
      <4>1. v \notin Numbers
        BY <2>4, NumbersAre
      <4> HIDE DEF is
      <4>2. setTypeMembers(s) \subseteq Numbers
        BY <2>2, SpelledIs
      <4> QED
        BY <4>1, <4>2
    <3> QED
      BY <3>1, <3>2
  <2> QED
    BY <2>3, <2>4
<1> QED
  BY <1>2, <1>3 DEF SetOK

LEMMA IsMemberIs ==
  ASSUME NEW s, SetOK(s), NEW v \in Strings
  PROVE  setTypeIsMember(s, v) <=> v \in setTypeMembers(s)
<1>1. CASE IsTable(s)
  <2>1. s.enc = "ht"
    BY <1>1, ObjectFields DEF IsTable
  <2> QED
    BY <2>1 DEF setTypeIsMember, setTypeMembers
<1>2. CASE IsIntset(s)
  <2> DEFINE is == s.is
             n == v[2]
  <2>1. s = IntsetObject(is) /\ s.enc = "intset" /\ IntsetOK(is)
    BY <1>2, ObjectFields DEF IsIntset
  <2>2. setTypeIsMember(s, v) <=> IsNumber(v) /\ intsetFind(is, n)
    BY <2>1 DEF setTypeIsMember
  <2>3. IsNumber(v) => v = <<"num", n>> /\ n \in Longs
    BY NumbersAre
  <2> HIDE DEF is, n
  <2>4. setTypeMembers(s) = Spelled(Held(is)) /\ Held(is) \subseteq Longs /\ IsFiniteSet(Held(is))
    BY <2>1, IntsetMembers, HeldIs
  <2>5. IsNumber(v) => (intsetFind(is, n) <=> n \in Held(is))
    BY <2>1, <2>3, FindIs
  <2>6. IsNumber(v) => (v \in Spelled(Held(is)) <=> n \in Held(is))
    BY <2>3, <2>4, SpelledIs
  <2>7. ~IsNumber(v) => v \notin Spelled(Held(is))
    BY <2>4, SpelledIs, NumbersAre
  <2> QED
    BY <2>2, <2>4, <2>5, <2>6, <2>7
<1> QED
  BY <1>1, <1>2 DEF SetOK


-----------------------------------------------------------------------------
(* Hash objects.                                                           *)

\* A prefix and the rest of a sequence.
LEMMA Pieces ==
  ASSUME NEW S, NEW s \in Seq(S), NEW k \in 0 .. Len(s), NEW m \in 1 .. Len(s) + 1
  PROVE  /\ SubSeq(s, 1, k) \in Seq(S) /\ Len(SubSeq(s, 1, k)) = k
         /\ \A j \in 1 .. k : SubSeq(s, 1, k)[j] = s[j]
         /\ SubSeq(s, m, Len(s)) \in Seq(S) /\ Len(SubSeq(s, m, Len(s))) = Len(s) - m + 1
         /\ \A j \in 1 .. Len(s) - m + 1 : SubSeq(s, m, Len(s))[j] = s[m + j - 1]
<1> DEFINE n == Len(s)
           a == SubSeq(s, 1, k)
           b == SubSeq(s, m, n)
<1>1. n \in Nat /\ k \in Int /\ 1 \in Int /\ m \in Int /\ n \in Int
  OBVIOUS
<1>2. (\A j \in 1 .. k : s[j] \in S) /\ (\A j \in m .. n : s[j] \in S)
  OBVIOUS
<1>3. /\ a \in Seq(S) /\ Len(a) = IF 1 <= k THEN k - 1 + 1 ELSE 0
      /\ \A j \in 1 .. k - 1 + 1 : a[j] = s[1 + j - 1]
  BY <1>1, <1>2, SubSeqProperties
<1>4. /\ b \in Seq(S) /\ Len(b) = IF m <= n THEN n - m + 1 ELSE 0
      /\ \A j \in 1 .. n - m + 1 : b[j] = s[m + j - 1]
  BY <1>1, <1>2, SubSeqProperties
<1> HIDE DEF a, b
<1>5. Len(a) = k /\ \A j \in 1 .. k : a[j] = s[j]
  <2>1. \A j \in 1 .. k : j \in 1 .. k - 1 + 1 /\ 1 + j - 1 = j
    BY <1>1
  <2>2. Len(a) = k
    BY <1>1, <1>3
  <2> QED
    BY <1>3, <2>1, <2>2
<1>6. Len(b) = n - m + 1
  <2> HIDE DEF n
  <2>1. m <= n + 1
    BY DEF n
  <2> QED
    BY <1>1, <1>4, <2>1
<1> QED
  BY <1>3, <1>4, <1>5, <1>6 DEF a, b

LEMMA RemoveAtIs ==
  ASSUME NEW S, NEW s \in Seq(S), NEW i \in 1 .. Len(s)
  PROVE  /\ RemoveAt(s, i) \in Seq(S) /\ Len(RemoveAt(s, i)) = Len(s) - 1
         /\ \A j \in 1 .. Len(s) - 1 :
              RemoveAt(s, i)[j] = IF j < i THEN s[j] ELSE s[j + 1]
<1> DEFINE n == Len(s)
           a == SubSeq(s, 1, i - 1)
           b == SubSeq(s, i + 1, n)
           r == RemoveAt(s, i)
<1>1. n \in Nat /\ i \in 1 .. n /\ i - 1 \in 0 .. n /\ i + 1 \in 1 .. n + 1
  OBVIOUS
<1>2. /\ a \in Seq(S) /\ Len(a) = i - 1 /\ \A j \in 1 .. i - 1 : a[j] = s[j]
      /\ b \in Seq(S) /\ Len(b) = n - (i + 1) + 1
      /\ \A j \in 1 .. n - (i + 1) + 1 : b[j] = s[(i + 1) + j - 1]
  BY <1>1, Pieces
<1>3. r = a \o b
  BY DEF RemoveAt
<1> HIDE DEF a, b, r
<1>4. /\ r \in Seq(S) /\ Len(r) = Len(a) + Len(b)
      /\ \A j \in 1 .. Len(a) + Len(b) : r[j] = IF j <= Len(a) THEN a[j] ELSE b[j - Len(a)]
  BY <1>2, <1>3, ConcatProperties
<1>5. Len(a) = i - 1 /\ Len(b) = n - i
  BY <1>1, <1>2
<1> HIDE DEF n
<1>6. Len(a) + Len(b) = n - 1
  BY <1>1, <1>5
<1>7. ASSUME NEW j \in 1 .. n - 1 PROVE r[j] = IF j < i THEN s[j] ELSE s[j + 1]
  <2>1. CASE j < i
    <3>1. j \in 1 .. i - 1 /\ j <= Len(a)
      BY <1>1, <1>5, <2>1
    <3> QED
      BY <1>2, <1>4, <1>6, <2>1, <3>1
  <2>2. CASE j >= i
    <3>1. ~(j <= Len(a)) /\ j - Len(a) = j - i + 1 /\ ~(j < i)
      BY <1>1, <1>5, <2>2
    <3>2. j - i + 1 \in 1 .. n - (i + 1) + 1 /\ (i + 1) + (j - i + 1) - 1 = j + 1
      BY <1>1, <2>2
    <3> QED
      BY <1>2, <1>4, <1>6, <3>1, <3>2
  <2> QED
    BY <1>1, <2>1, <2>2
<1> QED
  BY <1>4, <1>6, <1>7 DEF n, r

LEMMA InsertAtIs ==
  ASSUME NEW S, NEW s \in Seq(S), NEW i \in 1 .. Len(s) + 1, NEW x \in S
  PROVE  /\ InsertAt(s, i, x) \in Seq(S) /\ Len(InsertAt(s, i, x)) = Len(s) + 1
         /\ \A j \in 1 .. Len(s) + 1 :
              InsertAt(s, i, x)[j] = IF j < i THEN s[j] ELSE IF j = i THEN x ELSE s[j - 1]
<1> DEFINE n == Len(s)
           a == SubSeq(s, 1, i - 1)
           b == SubSeq(s, i, n)
           c == <<x>>
           d == a \o c
           r == InsertAt(s, i, x)
<1>1. n \in Nat /\ i \in 1 .. n + 1 /\ i - 1 \in 0 .. n
  OBVIOUS
<1>2. /\ a \in Seq(S) /\ Len(a) = i - 1 /\ \A j \in 1 .. i - 1 : a[j] = s[j]
      /\ b \in Seq(S) /\ Len(b) = n - i + 1
      /\ \A j \in 1 .. n - i + 1 : b[j] = s[i + j - 1]
  BY <1>1, Pieces
<1>3. c \in Seq(S) /\ Len(c) = 1 /\ c[1] = x
  OBVIOUS
<1>4. r = d \o b
  BY DEF InsertAt
<1> HIDE DEF a, b, c, r
<1>5. /\ d \in Seq(S) /\ Len(d) = Len(a) + Len(c)
      /\ \A j \in 1 .. Len(a) + Len(c) : d[j] = IF j <= Len(a) THEN a[j] ELSE c[j - Len(a)]
  BY <1>2, <1>3, ConcatProperties
<1> HIDE DEF d
<1>6. /\ r \in Seq(S) /\ Len(r) = Len(d) + Len(b)
      /\ \A j \in 1 .. Len(d) + Len(b) : r[j] = IF j <= Len(d) THEN d[j] ELSE b[j - Len(d)]
  <2>1. d \in Seq(S) /\ b \in Seq(S)
    BY <1>2, <1>5
  <2> QED
    BY <1>4, <2>1, ConcatProperties
<1> HIDE DEF n
<1>7. Len(d) = i /\ Len(a) = i - 1 /\ Len(a) + Len(c) = i /\ Len(d) + Len(b) = n + 1
  BY <1>1, <1>2, <1>3, <1>5
<1>8. ASSUME NEW j \in 1 .. n + 1
      PROVE  r[j] = IF j < i THEN s[j] ELSE IF j = i THEN x ELSE s[j - 1]
  <2>1. CASE j < i
    <3>1. j \in 1 .. i - 1 /\ j <= Len(a) /\ j <= Len(d) /\ j \in 1 .. Len(a) + Len(c)
      BY <1>1, <1>2, <1>7, <2>1
    <3> QED
      BY <1>2, <1>5, <1>6, <1>7, <2>1, <3>1
  <2>2. CASE j = i
    <3>1. ~(j <= Len(a)) /\ j - Len(a) = 1 /\ j <= Len(d) /\ j \in 1 .. Len(a) + Len(c)
      BY <1>1, <1>7, <2>2
    <3> QED
      BY <1>3, <1>5, <1>6, <1>7, <2>2, <3>1
  <2>3. CASE j > i
    <3>1. ~(j <= Len(d)) /\ j - Len(d) = j - i /\ ~(j < i) /\ j # i
      BY <1>1, <1>7, <2>3
    <3>2. j - i \in 1 .. n - i + 1 /\ i + (j - i) - 1 = j - 1
      BY <1>1, <2>3
    <3> QED
      BY <1>2, <1>6, <1>7, <3>1, <3>2
  <2> QED
    BY <1>1, <2>1, <2>2, <2>3
<1> QED
  BY <1>6, <1>7, <1>8 DEF n, r


\* The positions of fields, and the fields.
Odd(zl) == {j \in DOMAIN zl : j % 2 = 1}

FieldsOf(zl) == {zl[j] : j \in Odd(zl)}

ZlOK(zl) ==
  /\ zl \in Seq(Strings) /\ Len(zl) % 2 = 0
  /\ \A i, j \in Odd(zl) : zl[i] = zl[j] => i = j
  /\ \A i \in DOMAIN zl : i % 2 = 0 => zl[i] \notin Long

PackedMap(zl) == [f \in FieldsOf(zl) |-> zl[FieldIndex(zl, f) + 1]]

FinMap(M) ==
  /\ M = [f \in DOMAIN M |-> M[f]]
  /\ DOMAIN M \subseteq Strings /\ IsFiniteSet(DOMAIN M)
  /\ \A f \in DOMAIN M : M[f] \in Strings

\* What the commands read of the object is the map M.
Views(h, M) ==
  /\ hashTypePairs(h) = {<<f, M[f]>> : f \in DOMAIN M}
  /\ \A f : hashTypeGetValue(h, f) = IF f \in DOMAIN M THEN M[f] ELSE NoValue
  /\ hashTypeLength(h) = Cardinality(DOMAIN M)

HashMap(h) == [f \in {p[1] : p \in hashTypePairs(h)} |-> hashTypeGetValue(h, f)]

IsPacked(h, m) == h = ZiplistHash(h.zl) /\ ZlOK(h.zl) /\ Len(h.zl) \div 2 <= m

IsTabled(h) == h = TableHash(h.ht) /\ FinMap(h.ht)

HashOK(h, m) == IsPacked(h, m) \/ IsTabled(h)

LEMMA HashFields ==
  /\ \A zl : ZiplistHash(zl).enc = "ziplist" /\ ZiplistHash(zl).zl = zl
  /\ \A M : TableHash(M).enc = "ht" /\ TableHash(M).ht = M /\ TableHash(M).zl = <<>>
  BY DEF ZiplistHash, TableHash

LEMMA OddIs ==
  ASSUME NEW zl, ZlOK(zl)
  PROVE  /\ DOMAIN zl = 1 .. Len(zl) /\ Len(zl) \in Nat
         /\ \A j \in Odd(zl) : /\ j \in Nat /\ j >= 1 /\ j + 1 \in DOMAIN zl /\ (j + 1) % 2 = 0
                               /\ j \in DOMAIN zl /\ j % 2 = 1 /\ zl[j] \in Strings
                               /\ zl[j + 1] \in Strings
  BY DEF ZlOK, Odd

LEMMA FieldIs ==
  ASSUME NEW zl, ZlOK(zl), NEW f
  PROVE  /\ f \in FieldsOf(zl) => /\ FieldIndex(zl, f) \in Odd(zl)
                                  /\ zl[FieldIndex(zl, f)] = f /\ FieldIndex(zl, f) # 0
         /\ f \notin FieldsOf(zl) => FieldIndex(zl, f) = 0
<1> DEFINE hits == {i \in DOMAIN zl : i % 2 = 1 /\ zl[i] = f}
<1>1. hits \in SUBSET Nat /\ hits \subseteq Odd(zl) /\ \A i \in hits : zl[i] = f
  BY OddIs DEF Odd
<1>2. f \in FieldsOf(zl) <=> hits # {}
  BY DEF FieldsOf, Odd
<1>3. FieldIndex(zl, f) = IF hits = {} THEN 0 ELSE Min(hits)
  BY DEF FieldIndex
<1> HIDE DEF hits
<1>4. hits # {} => Min(hits) \in hits
  BY <1>1, MinIs
<1>5. \A i \in Odd(zl) : i # 0
  BY OddIs
<1> QED
  BY <1>1, <1>2, <1>3, <1>4, <1>5

LEMMA FieldAt ==
  ASSUME NEW zl, ZlOK(zl), NEW j \in Odd(zl)
  PROVE  /\ FieldIndex(zl, zl[j]) = j /\ zl[j] \in FieldsOf(zl)
         /\ PackedMap(zl)[zl[j]] = zl[j + 1]
<1>1. zl[j] \in FieldsOf(zl)
  BY DEF FieldsOf
<1>2. FieldIndex(zl, zl[j]) \in Odd(zl) /\ zl[FieldIndex(zl, zl[j])] = zl[j]
  BY <1>1, FieldIs
<1>3. FieldIndex(zl, zl[j]) = j
  BY <1>2 DEF ZlOK
<1> QED
  BY <1>1, <1>3 DEF PackedMap

\* A map of the same fields with the same values is the map.
LEMMA MapOf ==
  ASSUME NEW zl, ZlOK(zl), NEW M, M = [f \in DOMAIN M |-> M[f]], DOMAIN M = FieldsOf(zl),
         \A j \in Odd(zl) : M[zl[j]] = zl[j + 1]
  PROVE  M = PackedMap(zl)
<1>1. ASSUME NEW f \in DOMAIN M PROVE M[f] = PackedMap(zl)[f]
  <2>1. PICK j \in Odd(zl) : f = zl[j]
    BY DEF FieldsOf
  <2> QED
    BY <2>1, FieldAt
<1>2. PackedMap(zl) = [f \in FieldsOf(zl) |-> PackedMap(zl)[f]]
  BY DEF PackedMap
<1> QED
  BY <1>1, <1>2

LEMMA Even ==
  ASSUME NEW x \in Nat, x % 2 = 0
  PROVE  x \div 2 \in Nat /\ x = 2 * (x \div 2)
  OBVIOUS

LEMMA FieldCount ==
  ASSUME NEW zl, ZlOK(zl)
  PROVE  IsFiniteSet(FieldsOf(zl)) /\ Cardinality(FieldsOf(zl)) = Len(zl) \div 2
<1> DEFINE n == Len(zl) \div 2
           g == [k \in 1 .. n |-> zl[2 * k - 1]]
<1>1. Len(zl) \in Nat /\ Len(zl) % 2 = 0 /\ DOMAIN zl = 1 .. Len(zl)
  BY SMTT(40) DEF ZlOK
<1>2. n \in Nat /\ Len(zl) = 2 * n
  BY <1>1, Even
<1> HIDE DEF n
<1>3. \A k \in 1 .. n : 2 * k - 1 \in Odd(zl)
  BY <1>1, <1>2 DEF Odd
<1>4. ASSUME NEW j \in Odd(zl) PROVE \E k \in 1 .. n : j = 2 * k - 1
  <2>1. j \in 1 .. 2 * n /\ j % 2 = 1
    BY <1>1, <1>2 DEF Odd
  <2>2. (j + 1) \div 2 \in 1 .. n /\ j = 2 * ((j + 1) \div 2) - 1
    BY <1>2, <2>1
  <2> QED
    BY <2>2
<1>5. g \in Bijection(1 .. n, FieldsOf(zl))
  <2>1. g \in [1 .. n -> FieldsOf(zl)]
    BY <1>3 DEF FieldsOf
  <2>2. ASSUME NEW x \in FieldsOf(zl) PROVE \E k \in 1 .. n : g[k] = x
    BY <1>4 DEF FieldsOf
  <2>3. ASSUME NEW k \in 1 .. n, NEW m \in 1 .. n, g[k] = g[m] PROVE k = m
    <3>1. 2 * k - 1 = 2 * m - 1
      BY <1>3, <2>3 DEF ZlOK
    <3> QED
      BY <1>2, <3>1
  <2> HIDE DEF g
  <2> QED
    BY <2>1, <2>2, <2>3 DEF Bijection, Injection, Surjection, IsInjective
<1>6. IsFiniteSet(1 .. n) /\ Cardinality(1 .. n) = n
  BY <1>2, FS_Interval
<1>7. ExistsBijection(1 .. n, FieldsOf(zl))
  BY <1>5 DEF ExistsBijection
<1> QED
  BY <1>6, <1>7, FS_Bijection DEF n

LEMMA PackedViews ==
  ASSUME NEW zl, ZlOK(zl)
  PROVE  FinMap(PackedMap(zl)) /\ Views(ZiplistHash(zl), PackedMap(zl))
<1> DEFINE h == ZiplistHash(zl)
           M == PackedMap(zl)
<1>1. h.enc = "ziplist" /\ h.zl = zl
  BY HashFields
<1> HIDE DEF h
<1>2. DOMAIN M = FieldsOf(zl) /\ M = [f \in DOMAIN M |-> M[f]]
  BY DEF PackedMap
<1>3. ASSUME NEW f \in FieldsOf(zl)
      PROVE  /\ f \in Strings /\ M[f] \in Strings
             /\ \E j \in Odd(zl) : f = zl[j] /\ M[f] = zl[j + 1]
  <2>1. PICK j \in Odd(zl) : f = zl[j]
    BY DEF FieldsOf
  <2>2. M[f] = zl[j + 1]
    BY <2>1, FieldAt
  <2> QED
    BY <2>1, <2>2, OddIs
<1>4. FinMap(M)
  BY <1>2, <1>3, FieldCount DEF FinMap
<1>5. hashTypePairs(h) = {<<f, M[f]>> : f \in DOMAIN M}
  <2>1. hashTypePairs(h) = {<<zl[i], zl[i + 1]>> : i \in Odd(zl)}
    BY <1>1 DEF hashTypePairs, Odd
  <2>2. \A j \in Odd(zl) : zl[j] \in DOMAIN M /\ M[zl[j]] = zl[j + 1]
    BY <1>2, FieldAt
  <2> HIDE DEF M
  <2> QED
    BY <1>2, <1>3, <2>1, <2>2
<1>6. ASSUME NEW f PROVE hashTypeGetValue(h, f) = IF f \in DOMAIN M THEN M[f] ELSE NoValue
  <2>1. hashTypeGetValue(h, f) = IF FieldIndex(zl, f) = 0 THEN NoValue
                                 ELSE zl[FieldIndex(zl, f) + 1]
    BY <1>1 DEF hashTypeGetValue
  <2>2. f \in FieldsOf(zl) => M[f] = zl[FieldIndex(zl, f) + 1]
    BY DEF PackedMap
  <2> QED
    BY <1>2, <2>1, <2>2, FieldIs
<1>7. hashTypeLength(h) = Cardinality(DOMAIN M)
  BY <1>1, <1>2, FieldCount DEF hashTypeLength
<1> QED
  BY <1>4, <1>5, <1>6, <1>7 DEF Views, h

LEMMA TableViews ==
  ASSUME NEW M, FinMap(M)
  PROVE  Views(TableHash(M), M)
<1> DEFINE h == TableHash(M)
<1>1. h.enc = "ht" /\ h.ht = M
  BY HashFields
<1> HIDE DEF h
<1> QED
  BY <1>1 DEF Views, hashTypePairs, hashTypeGetValue, hashTypeLength, h

LEMMA ViewsMap ==
  ASSUME NEW h, NEW M, FinMap(M), Views(h, M)
  PROVE  HashMap(h) = M
<1>1. {p[1] : p \in hashTypePairs(h)} = DOMAIN M
  <2>1. hashTypePairs(h) = {<<f, M[f]>> : f \in DOMAIN M}
    BY DEF Views
  <2>2. ASSUME NEW f \in DOMAIN M PROVE f \in {p[1] : p \in hashTypePairs(h)}
    <3>1. <<f, M[f]>> \in hashTypePairs(h) /\ <<f, M[f]>>[1] = f
      BY <2>1
    <3> QED
      BY <3>1
  <2>3. ASSUME NEW p \in hashTypePairs(h) PROVE p[1] \in DOMAIN M
    BY <2>1
  <2> QED
    BY <2>2, <2>3
<1>2. \A f \in DOMAIN M : hashTypeGetValue(h, f) = M[f]
  BY DEF Views
<1>3. HashMap(h) = [f \in DOMAIN M |-> hashTypeGetValue(h, f)]
  BY <1>1 DEF HashMap
<1> QED
  BY <1>2, <1>3 DEF FinMap


LEMMA PackedOK ==
  ASSUME NEW zl, ZlOK(zl), NEW m, Len(zl) \div 2 <= m
  PROVE  HashOK(ZiplistHash(zl), m) /\ HashMap(ZiplistHash(zl)) = PackedMap(zl)
<1>1. HashOK(ZiplistHash(zl), m)
  BY HashFields DEF HashOK, IsPacked
<1> QED
  BY <1>1, PackedViews, ViewsMap

LEMMA TableOK ==
  ASSUME NEW M, FinMap(M), NEW m
  PROVE  HashOK(TableHash(M), m) /\ HashMap(TableHash(M)) = M
<1>1. HashOK(TableHash(M), m)
  BY HashFields DEF HashOK, IsTabled
<1> QED
  BY <1>1, TableViews, ViewsMap

LEMMA HashIs ==
  ASSUME NEW m, NEW h, HashOK(h, m)
  PROVE  /\ FinMap(HashMap(h)) /\ Views(h, HashMap(h)) /\ hashTypeLength(h) \in Nat
         /\ \A f : hashTypeExists(h, f) <=> f \in DOMAIN HashMap(h)
<1>1. FinMap(HashMap(h)) /\ Views(h, HashMap(h))
  <2>1. CASE IsPacked(h, m)
    BY <2>1, PackedViews, ViewsMap DEF IsPacked
  <2>2. CASE IsTabled(h)
    BY <2>2, TableViews, ViewsMap DEF IsTabled
  <2> QED
    BY <2>1, <2>2 DEF HashOK
<1>2. hashTypeLength(h) \in Nat
  BY <1>1, FS_CardinalityType DEF Views, FinMap
<1> DEFINE M == HashMap(h)
<1> HIDE DEF M
<1>3. ASSUME NEW f PROVE hashTypeExists(h, f) <=> f \in DOMAIN M
  <2>1. hashTypeGetValue(h, f) = IF f \in DOMAIN M THEN M[f] ELSE NoValue
    BY <1>1 DEF Views, M
  <2>2. f \in DOMAIN M => M[f] # NoValue
    BY <1>1, HashTypeAssumption DEF FinMap, M
  <2> QED
    BY <2>1, <2>2 DEF hashTypeExists
<1> QED
  BY <1>1, <1>2, <1>3 DEF M

LEMMA ConvertIs ==
  ASSUME NEW zl, ZlOK(zl)
  PROVE  hashTypeConvert(ZiplistHash(zl)) = TableHash(PackedMap(zl))
<1> DEFINE h == ZiplistHash(zl)
<1>1. h.enc = "ziplist" /\ h.zl = zl
  BY HashFields
<1> HIDE DEF h
<1> QED
  BY <1>1 DEF hashTypeConvert, PackedMap, FieldsOf, Odd, h

LEMMA EmptyHash == \A m \in Nat : HashOK(createHashObject, m) /\ DOMAIN HashMap(createHashObject) = {}
<1>1. <<>> \in Seq(Strings) /\ Len(<<>>) = 0 /\ DOMAIN <<>> = {} /\ 0 \div 2 = 0 /\ 0 % 2 = 0
  OBVIOUS
<1>2. ZlOK(<<>>)
  BY <1>1 DEF ZlOK, Odd
<1>3. \A m \in Nat : Len(<<>>) \div 2 <= m
  BY <1>1
<1>4. DOMAIN PackedMap(<<>>) = {}
  BY <1>1 DEF PackedMap, FieldsOf, Odd
<1> QED
  BY <1>2, <1>3, <1>4, PackedOK DEF createHashObject

\* The one check for long arguments: afterwards the object is a table or
\* none of them is long.
LEMMA TryIs ==
  ASSUME NEW m, NEW h, HashOK(h, m), NEW args
  PROVE  LET g == hashTypeTryConversion(h, args) IN
         /\ HashOK(g, m) /\ HashMap(g) = HashMap(h)
         /\ g.enc = "ht" \/ \A i \in DOMAIN args : args[i] \notin Long
<1>1. hashTypeTryConversion(h, args) = IF \E i \in DOMAIN args : args[i] \in Long
                                       THEN hashTypeConvert(h) ELSE h
  BY DEF hashTypeTryConversion
<1>2. HashOK(hashTypeConvert(h), m) /\ HashMap(hashTypeConvert(h)) = HashMap(h)
      /\ hashTypeConvert(h).enc = "ht"
  <2>1. CASE IsPacked(h, m)
    <3> DEFINE zl == h.zl
    <3>1. h = ZiplistHash(zl) /\ ZlOK(zl) /\ Len(zl) \div 2 <= m
      BY <2>1 DEF IsPacked
    <3> HIDE DEF zl
    <3>2. hashTypeConvert(h) = TableHash(PackedMap(zl)) /\ HashMap(h) = PackedMap(zl)
      BY <3>1, ConvertIs, PackedOK
    <3>3. FinMap(PackedMap(zl))
      BY <3>1, PackedViews
    <3> QED
      BY <3>2, <3>3, TableOK, HashFields
  <2>2. CASE IsTabled(h)
    <3>1. h.enc = "ht"
      BY <2>2, HashFields DEF IsTabled
    <3>2. hashTypeConvert(h) = h
      BY <3>1 DEF hashTypeConvert
    <3> QED
      BY <3>1, <3>2
  <2> QED
    BY <2>1, <2>2 DEF HashOK
<1> QED
  BY <1>1, <1>2

With(M, f, v) == [g \in DOMAIN M \cup {f} |-> IF g = f THEN v ELSE M[g]]

Without(M, F) == [g \in DOMAIN M \ F |-> M[g]]

LEMMA WithIs ==
  ASSUME NEW M, FinMap(M), NEW f \in Strings, NEW v \in Strings
  PROVE  FinMap(With(M, f, v)) /\ DOMAIN With(M, f, v) = DOMAIN M \cup {f}
<1>1. IsFiniteSet(DOMAIN M \cup {f})
  BY FS_AddElement DEF FinMap
<1> QED
  BY <1>1 DEF With, FinMap

LEMMA WithoutIs ==
  ASSUME NEW M, FinMap(M), NEW F
  PROVE  FinMap(Without(M, F)) /\ DOMAIN Without(M, F) = DOMAIN M \ F
<1>1. IsFiniteSet(DOMAIN M \ F)
  BY FS_Difference DEF FinMap
<1> QED
  BY <1>1 DEF Without, FinMap

\* A new value in place of the old one, by RemoveAt and InsertAt.
LEMMA ReplaceIs ==
  ASSUME NEW zl, ZlOK(zl), NEW f \in FieldsOf(zl), NEW v \in Strings \ Long,
         NEW i, i = FieldIndex(zl, f),
         NEW new, new = InsertAt(RemoveAt(zl, i + 1), i + 1, v)
  PROVE  ZlOK(new) /\ Len(new) = Len(zl) /\ PackedMap(new) = With(PackedMap(zl), f, v)
<1> DEFINE n == Len(zl)
           cut == RemoveAt(zl, i + 1)
<1>1. i \in Odd(zl) /\ zl[i] = f /\ zl \in Seq(Strings)
  BY FieldIs DEF ZlOK
<1>2. n \in Nat /\ i \in 1 .. n /\ i % 2 = 1 /\ i + 1 \in 1 .. n /\ (i + 1) % 2 = 0 /\ DOMAIN zl = 1 .. n
  BY <1>1, OddIs, SMTT(40)
<1>3. /\ cut \in Seq(Strings) /\ Len(cut) = n - 1
      /\ \A j \in 1 .. n - 1 : cut[j] = IF j < i + 1 THEN zl[j] ELSE zl[j + 1]
  BY <1>1, <1>2, RemoveAtIs
<1> HIDE DEF cut
<1>4. /\ new \in Seq(Strings) /\ Len(new) = Len(cut) + 1
      /\ \A j \in 1 .. Len(cut) + 1 :
           new[j] = IF j < i + 1 THEN cut[j] ELSE IF j = i + 1 THEN v ELSE cut[j - 1]
  <2>1. i + 1 \in 1 .. Len(cut) + 1
    BY <1>2, <1>3
  <2>2. new = InsertAt(cut, i + 1, v) /\ cut \in Seq(Strings) /\ v \in Strings
    BY <1>3 DEF cut
  <2> QED
    BY <2>1, <2>2, InsertAtIs, SMTT(40)
<1>5. Len(new) = n /\ DOMAIN new = 1 .. n
  BY <1>2, <1>3, <1>4
<1> HIDE DEF n
<1>6. ASSUME NEW j \in 1 .. n PROVE new[j] = IF j = i + 1 THEN v ELSE zl[j]
  <2>1. Len(cut) + 1 = n
    BY <1>2, <1>3
  <2>2. CASE j < i + 1
    <3>1. j \in 1 .. n - 1
      BY <1>2, <2>2
    <3> QED
      BY <1>2, <1>3, <1>4, <2>1, <2>2, <3>1
  <2>3. CASE j = i + 1
    BY <1>2, <1>4, <2>1, <2>3
  <2>4. CASE j > i + 1
    <3>1. j - 1 \in 1 .. n - 1 /\ ~(j - 1 < i + 1) /\ (j - 1) + 1 = j /\ j # i + 1 /\ ~(j < i + 1)
      BY <1>2, <2>4
    <3> QED
      BY <1>3, <1>4, <2>1, <3>1
  <2> QED
    BY <1>2, <2>2, <2>3, <2>4
<1>7. Odd(new) = Odd(zl) /\ \A j \in Odd(zl) : new[j] = zl[j] /\ j \in 1 .. n
  <2>1. \A j \in 1 .. n : j % 2 = 1 => j # i + 1
    BY <1>2
  <2> QED
    BY <1>2, <1>5, <1>6, <2>1 DEF Odd
<1>8. ZlOK(new)
  <2>1. \A a, b \in Odd(new) : new[a] = new[b] => a = b
    BY <1>7 DEF ZlOK
  <2>2. \A j \in DOMAIN new : j % 2 = 0 => new[j] \notin Long
    BY <1>2, <1>5, <1>6 DEF ZlOK
  <2>3. n % 2 = 0
    BY DEF ZlOK, n
  <2> QED
    BY <1>4, <1>5, <2>1, <2>2, <2>3 DEF ZlOK
<1> DEFINE M == PackedMap(zl)
           W == With(M, f, v)
<1>9. FieldsOf(new) = FieldsOf(zl)
  BY <1>7 DEF FieldsOf
<1>10. DOMAIN W = FieldsOf(new) /\ W = [g \in DOMAIN W |-> W[g]]
       /\ \A g \in FieldsOf(zl) : W[g] = IF g = f THEN v ELSE M[g]
  <2>1. DOMAIN M = FieldsOf(zl)
    BY DEF PackedMap
  <2> HIDE DEF M
  <2> QED
    BY <1>9, <2>1 DEF With
<1> HIDE DEF W, M
<1>11. ASSUME NEW j \in Odd(new) PROVE W[new[j]] = new[j + 1]
  <2>1. j \in Odd(zl) /\ new[j] = zl[j] /\ j + 1 \in 1 .. n /\ zl[j] \in FieldsOf(zl)
        /\ M[zl[j]] = zl[j + 1] /\ j \in Nat
    BY <1>2, <1>7, FieldAt, OddIs DEF M
  <2>2. zl[j] = f <=> j = i
    BY <1>1, <2>1 DEF ZlOK
  <2>3. j + 1 = i + 1 <=> j = i
    BY <1>2, <2>1
  <2> QED
    BY <1>6, <1>10, <2>1, <2>2, <2>3
<1>12. W = PackedMap(new)
  BY <1>8, <1>10, <1>11, MapOf
<1> QED
  BY <1>5, <1>8, <1>12 DEF W, M, n


LEMMA AppendIs ==
  ASSUME NEW zl, ZlOK(zl), NEW f \in Strings, f \notin FieldsOf(zl), NEW v \in Strings \ Long,
         NEW new, new = zl \o <<f, v>>
  PROVE  ZlOK(new) /\ Len(new) = Len(zl) + 2 /\ PackedMap(new) = With(PackedMap(zl), f, v)
<1> DEFINE n == Len(zl)
           c == <<f, v>>
<1>1. n \in Nat /\ n % 2 = 0 /\ DOMAIN zl = 1 .. n /\ zl \in Seq(Strings)
  BY DEF ZlOK
<1>2. c \in Seq(Strings) /\ Len(c) = 2 /\ c[1] = f /\ c[2] = v
  OBVIOUS
<1> HIDE DEF c
<1>3. /\ new \in Seq(Strings) /\ Len(new) = Len(zl) + Len(c)
      /\ \A j \in 1 .. Len(zl) + Len(c) :
           new[j] = IF j <= Len(zl) THEN zl[j] ELSE c[j - Len(zl)]
  <2>1. new = zl \o c
    BY DEF c
  <2>2. zl \in Seq(Strings) /\ c \in Seq(Strings)
    BY <1>1, <1>2
  <2> QED
    BY <2>1, <2>2, ConcatProperties
<1>4. Len(new) = n + 2 /\ DOMAIN new = 1 .. n + 2
  BY <1>2, <1>3
<1>5. (\A j \in 1 .. n : new[j] = zl[j]) /\ new[n + 1] = f /\ new[n + 2] = v
  <2> HIDE DEF n
  <2>1. \A j \in 1 .. n : j \in 1 .. n + 2 /\ j <= n
    BY <1>1
  <2>2. n + 1 \in 1 .. n + 2 /\ n + 2 \in 1 .. n + 2 /\ ~(n + 1 <= n) /\ ~(n + 2 <= n)
        /\ (n + 1) - n = 1 /\ (n + 2) - n = 2
    BY <1>1
  <2> QED
    BY <1>2, <1>3, <2>1, <2>2 DEF n
<1> HIDE DEF n
<1>6. /\ Odd(new) = Odd(zl) \cup {n + 1} /\ \A j \in Odd(zl) : j \in 1 .. n /\ new[j] = zl[j]
      /\ \A j \in Odd(zl) : j + 1 \in 1 .. n
  <2>1. \A j \in 1 .. n + 2 : j % 2 = 1 <=> (j \in 1 .. n /\ j % 2 = 1) \/ j = n + 1
    BY <1>1, SMTT(40)
  <2>2. \A j \in Odd(zl) : j \in 1 .. n /\ j + 1 \in 1 .. n
    BY <1>1, OddIs
  <2>3. n + 1 \in 1 .. n + 2
    BY <1>1
  <2>4. Odd(new) = {j \in 1 .. n + 2 : j % 2 = 1} /\ Odd(zl) = {j \in 1 .. n : j % 2 = 1}
    BY <1>1, <1>4 DEF Odd
  <2>5. \A j \in 1 .. n : j \in 1 .. n + 2
    BY <1>1
  <2>6. Odd(new) = Odd(zl) \cup {n + 1}
    BY <2>1, <2>3, <2>4, <2>5
  <2> QED
    BY <1>5, <2>2, <2>6
<1>7. \A j \in Odd(zl) : zl[j] # f
  BY DEF FieldsOf
<1>8. ZlOK(new)
  <2>1. ASSUME NEW a \in Odd(new), NEW b \in Odd(new), new[a] = new[b] PROVE a = b
    <3>1. CASE a \in Odd(zl) /\ b \in Odd(zl)
      BY <1>6, <2>1, <3>1 DEF ZlOK
    <3>2. CASE a \in Odd(zl) /\ b = n + 1
      BY <1>5, <1>6, <1>7, <2>1, <3>2
    <3>3. CASE a = n + 1 /\ b \in Odd(zl)
      BY <1>5, <1>6, <1>7, <2>1, <3>3
    <3> QED
      BY <1>6, <3>1, <3>2, <3>3
  <2>2. ASSUME NEW j \in DOMAIN new, j % 2 = 0 PROVE new[j] \notin Long
    <3>1. j \in 1 .. n \/ j = n + 2
      <4>1. j \in 1 .. n + 2 /\ (n + 1) % 2 = 1
        BY <1>1, <1>4
      <4> QED
        BY <1>1, <2>2, <4>1
    <3>2. CASE j \in 1 .. n
      BY <1>1, <1>5, <2>2, <3>2 DEF ZlOK
    <3> QED
      BY <1>5, <3>1, <3>2
  <2>3. (n + 2) % 2 = 0
    BY <1>1
  <2> QED
    BY <1>3, <1>4, <2>1, <2>2, <2>3 DEF ZlOK
<1> DEFINE M == PackedMap(zl)
           W == With(M, f, v)
<1>9. FieldsOf(new) = FieldsOf(zl) \cup {f}
  <2>1. ASSUME NEW x \in FieldsOf(new) PROVE x \in FieldsOf(zl) \cup {f}
    <3>1. PICK j \in Odd(new) : x = new[j]
      BY DEF FieldsOf
    <3>2. CASE j \in Odd(zl)
      BY <1>6, <3>1, <3>2 DEF FieldsOf
    <3>3. CASE j = n + 1
      BY <1>5, <3>1, <3>3
    <3> QED
      BY <1>6, <3>2, <3>3
  <2>2. ASSUME NEW x \in FieldsOf(zl) PROVE x \in FieldsOf(new)
    <3>1. PICK j \in Odd(zl) : x = zl[j]
      BY DEF FieldsOf
    <3> QED
      BY <1>6, <3>1 DEF FieldsOf
  <2>3. f \in FieldsOf(new)
    BY <1>5, <1>6 DEF FieldsOf
  <2> QED
    BY <2>1, <2>2, <2>3
<1>10. DOMAIN W = FieldsOf(new) /\ W = [g \in DOMAIN W |-> W[g]] /\ W[f] = v
       /\ \A g \in FieldsOf(zl) : W[g] = M[g]
  <2>1. DOMAIN M = FieldsOf(zl)
    BY DEF PackedMap
  <2> HIDE DEF M
  <2> QED
    BY <1>9, <2>1 DEF With
<1> HIDE DEF W, M
<1>11. ASSUME NEW j \in Odd(new) PROVE W[new[j]] = new[j + 1]
  <2>1. CASE j \in Odd(zl)
    <3>1. zl[j] \in FieldsOf(zl) /\ M[zl[j]] = zl[j + 1] /\ new[j + 1] = zl[j + 1] /\ new[j] = zl[j]
      BY <1>5, <1>6, <2>1, FieldAt DEF M
    <3> QED
      BY <1>10, <3>1
  <2>2. CASE j = n + 1
    <3>1. j + 1 = n + 2
      BY <1>1, <2>2
    <3> QED
      BY <1>5, <1>10, <2>2, <3>1
  <2> QED
    BY <1>6, <2>1, <2>2
<1>12. W = PackedMap(new)
  <2>1. DOMAIN W = FieldsOf(new) /\ W = [g \in DOMAIN W |-> W[g]]
    BY <1>10
  <2>2. \A j \in Odd(new) : W[new[j]] = new[j + 1]
    BY <1>11
  <2> QED
    BY <1>8, <2>1, <2>2, MapOf, ZenonT(40)
<1> QED
  BY <1>4, <1>8, <1>12 DEF W, M, n

\* The field and the value after it go.
LEMMA CutIs ==
  ASSUME NEW zl, ZlOK(zl), NEW f \in FieldsOf(zl), NEW i, i = FieldIndex(zl, f),
         NEW new, new = RemoveAt(RemoveAt(zl, i), i)
  PROVE  /\ ZlOK(new) /\ Len(new) = Len(zl) - 2 /\ Len(zl) >= 2
         /\ PackedMap(new) = Without(PackedMap(zl), {f})
<1> DEFINE n == Len(zl)
           cut == RemoveAt(zl, i)
<1>1. i \in Odd(zl) /\ zl[i] = f /\ zl \in Seq(Strings)
  BY FieldIs DEF ZlOK
<1>2. n \in Nat /\ i \in 1 .. n /\ i % 2 = 1 /\ i + 1 \in 1 .. n /\ DOMAIN zl = 1 .. n /\ n % 2 = 0
  BY <1>1, OddIs, SMTT(40) DEF ZlOK
<1>3. /\ cut \in Seq(Strings) /\ Len(cut) = n - 1
      /\ \A j \in 1 .. n - 1 : cut[j] = IF j < i THEN zl[j] ELSE zl[j + 1]
  BY <1>1, <1>2, RemoveAtIs
<1> HIDE DEF cut
<1>4. /\ new \in Seq(Strings) /\ Len(new) = Len(cut) - 1
      /\ \A j \in 1 .. Len(cut) - 1 : new[j] = IF j < i THEN cut[j] ELSE cut[j + 1]
  <2>1. i \in 1 .. Len(cut)
    BY <1>2, <1>3
  <2>2. new = RemoveAt(cut, i)
    BY DEF cut
  <2> QED
    BY <1>3, <2>1, <2>2, RemoveAtIs
<1>5. Len(new) = n - 2 /\ DOMAIN new = 1 .. n - 2 /\ n >= 2
  BY <1>2, <1>3, <1>4
<1> HIDE DEF n
<1>6. ASSUME NEW j \in 1 .. n - 2 PROVE new[j] = IF j < i THEN zl[j] ELSE zl[j + 2]
  <2>1. Len(cut) - 1 = n - 2 /\ j \in 1 .. n - 1 /\ j + 1 \in 1 .. n - 1 /\ (j + 1) + 1 = j + 2
    BY <1>2, <1>3
  <2>2. j < i \/ (~(j < i) /\ ~(j + 1 < i))
    BY <1>2
  <2> QED
    BY <1>3, <1>4, <2>1, <2>2
<1> DEFINE at(j) == IF j < i THEN j ELSE j + 2
<1>7. ASSUME NEW j \in Odd(new)
      PROVE  /\ at(j) \in Odd(zl) /\ at(j) # i /\ new[j] = zl[at(j)]
             /\ new[j + 1] = zl[at(j) + 1]
  <2>1. j \in 1 .. n - 2 /\ j % 2 = 1
    BY <1>5 DEF Odd
  <2>2. j + 1 \in 1 .. n - 2 /\ (j < i => j + 1 < i)
    BY <1>2, <2>1
  <2>3. at(j) \in 1 .. n /\ at(j) % 2 = 1 /\ at(j) # i
    BY <1>2, <2>1
  <2>4. new[j + 1] = IF j + 1 < i THEN zl[j + 1] ELSE zl[(j + 1) + 2]
    BY <1>6, <2>2
  <2>5. j + 1 < i <=> j < i
    BY <1>2, <2>1, <2>2
  <2>6. (j + 1) + 2 = (j + 2) + 1
    BY <2>1
  <2> QED
    BY <1>2, <1>6, <2>1, <2>3, <2>4, <2>5, <2>6 DEF Odd
<1>8. ASSUME NEW k \in Odd(zl), k # i PROVE \E j \in Odd(new) : k = at(j)
  <2>1. k \in 1 .. n /\ k % 2 = 1
    BY <1>2 DEF Odd
  <2>2. CASE k < i
    <3>1. k \in 1 .. n - 2
      BY <1>2, <2>1, <2>2
    <3> QED
      BY <1>5, <2>1, <2>2, <3>1 DEF Odd
  <2>3. CASE k > i
    <3>1. k - 2 \in 1 .. n - 2 /\ (k - 2) % 2 = 1 /\ ~(k - 2 < i) /\ (k - 2) + 2 = k
      BY <1>2, <2>1, <2>3
    <3> QED
      BY <1>5, <3>1 DEF Odd
  <2> QED
    BY <1>2, <1>8, <2>1, <2>2, <2>3
<1>9. ZlOK(new)
  <2>1. ASSUME NEW a \in Odd(new), NEW b \in Odd(new), new[a] = new[b] PROVE a = b
    <3>1. at(a) = at(b)
      <4> HIDE DEF at
      <4> QED
        BY <1>7, <2>1 DEF ZlOK
    <3>2. a \in Nat /\ b \in Nat
      BY <1>5 DEF Odd
    <3> QED
      BY <1>2, <3>1, <3>2
  <2>2. ASSUME NEW j \in DOMAIN new, j % 2 = 0 PROVE new[j] \notin Long
    <3>1. j \in 1 .. n - 2 /\ j \in DOMAIN zl /\ j + 2 \in DOMAIN zl /\ (j + 2) % 2 = 0
      BY <1>2, <1>5, <2>2
    <3> QED
      BY <1>6, <2>2, <3>1 DEF ZlOK
  <2>3. (n - 2) % 2 = 0
    BY <1>2, <1>5
  <2> QED
    BY <1>4, <1>5, <2>1, <2>2, <2>3 DEF ZlOK
<1> HIDE DEF at
<1>10. FieldsOf(new) = FieldsOf(zl) \ {f}
  <2>1. \A k \in Odd(zl) : k # i => zl[k] # f
    BY <1>1 DEF ZlOK
  <2>2. ASSUME NEW x \in FieldsOf(new) PROVE x \in FieldsOf(zl) \ {f}
    BY <1>7, <2>1 DEF FieldsOf
  <2>3. ASSUME NEW x \in FieldsOf(zl) \ {f} PROVE x \in FieldsOf(new)
    <3>1. PICK k \in Odd(zl) : x = zl[k]
      BY DEF FieldsOf
    <3>2. PICK j \in Odd(new) : k = at(j)
      BY <1>1, <1>8, <3>1
    <3> QED
      BY <1>7, <3>1, <3>2 DEF FieldsOf
  <2> QED
    BY <2>2, <2>3
<1> DEFINE M == PackedMap(zl)
           W == Without(M, {f})
<1>11. DOMAIN W = FieldsOf(new) /\ W = [g \in DOMAIN W |-> W[g]]
       /\ \A g \in FieldsOf(new) : W[g] = M[g]
  <2>1. DOMAIN M = FieldsOf(zl)
    BY DEF PackedMap
  <2> HIDE DEF M
  <2> QED
    BY <1>10, <2>1 DEF Without
<1> HIDE DEF W, M
<1>12. ASSUME NEW j \in Odd(new) PROVE W[new[j]] = new[j + 1]
  <2>1. new[j] \in FieldsOf(new)
    BY DEF FieldsOf
  <2>2. M[zl[at(j)]] = zl[at(j) + 1]
    BY <1>7, FieldAt DEF M
  <2> QED
    BY <1>7, <1>11, <2>1, <2>2
<1>13. W = PackedMap(new)
  BY <1>9, <1>11, <1>12, MapOf
<1> QED
  BY <1>5, <1>9, <1>13 DEF W, M, n


\* HSET of one pair: the map with the pair.  A long value only comes to a
\* table.
LEMMA HashSetIs ==
  ASSUME NEW m \in Nat, NEW h, HashOK(h, m), NEW f \in Strings, NEW v \in Strings,
         h.enc = "ht" \/ v \notin Long
  PROVE  LET g == hashTypeSet(h, f, v, m) IN
         /\ HashOK(g, m) /\ HashMap(g) = With(HashMap(h), f, v)
         /\ h.enc = "ht" => g.enc = "ht"
<1>1. CASE IsTabled(h)
  <2> DEFINE M == h.ht
  <2>1. h = TableHash(M) /\ FinMap(M) /\ h.enc = "ht"
    BY <1>1, HashFields DEF IsTabled
  <2>2. hashTypeSet(h, f, v, m) = TableHash(With(M, f, v))
    BY <2>1 DEF hashTypeSet, With
  <2> HIDE DEF M
  <2>3. HashMap(h) = M /\ FinMap(With(M, f, v))
    BY <2>1, TableOK, WithIs
  <2> QED
    BY <2>2, <2>3, TableOK, HashFields
<1>2. CASE IsPacked(h, m)
  <2> DEFINE zl == h.zl
             i == FieldIndex(zl, f)
             new == IF i # 0 THEN InsertAt(RemoveAt(zl, i + 1), i + 1, v) ELSE zl \o <<f, v>>
  <2>1. h = ZiplistHash(zl) /\ ZlOK(zl) /\ Len(zl) \div 2 <= m /\ h.enc = "ziplist"
    BY <1>2, HashFields DEF IsPacked
  <2>2. hashTypeSet(h, f, v, m) = IF hashTypeLength(ZiplistHash(new)) > m
                                  THEN hashTypeConvert(ZiplistHash(new)) ELSE ZiplistHash(new)
    BY <2>1 DEF hashTypeSet
  <2>3. v \in Strings \ Long
    BY <2>1
  <2> HIDE DEF zl
  <2>4. ZlOK(new) /\ PackedMap(new) = With(PackedMap(zl), f, v)
    <3>1. CASE f \in FieldsOf(zl)
      <4>1. i # 0
        BY <2>1, <3>1, FieldIs
      <4>2. new = InsertAt(RemoveAt(zl, i + 1), i + 1, v)
        BY <4>1
      <4> HIDE DEF new, i
      <4> QED
        BY <2>1, <2>3, <3>1, <4>2, ReplaceIs DEF i
    <3>2. CASE f \notin FieldsOf(zl)
      <4>1. i = 0
        BY <2>1, <3>2, FieldIs
      <4>2. new = zl \o <<f, v>>
        BY <4>1
      <4> HIDE DEF new, i
      <4> QED
        BY <2>1, <2>3, <3>2, <4>2, AppendIs
    <3> QED
      BY <3>1, <3>2
  <2> HIDE DEF new
  <2>5. HashMap(h) = PackedMap(zl)
    BY <2>1, PackedOK
  <2>6. hashTypeLength(ZiplistHash(new)) = Len(new) \div 2
    BY HashFields DEF hashTypeLength
  <2>7. CASE Len(new) \div 2 > m
    <3>1. hashTypeSet(h, f, v, m) = TableHash(PackedMap(new))
      BY <2>2, <2>4, <2>6, <2>7, ConvertIs
    <3>2. FinMap(PackedMap(new))
      BY <2>4, PackedViews
    <3> QED
      BY <2>1, <2>4, <2>5, <3>1, <3>2, TableOK
  <2>8. CASE ~(Len(new) \div 2 > m)
    <3>1. Len(new) \div 2 <= m
      <4>1. Len(new) \div 2 \in Int
        BY <2>4 DEF ZlOK
      <4> QED
        BY <2>8, <4>1
    <3>2. hashTypeSet(h, f, v, m) = ZiplistHash(new)
      BY <2>2, <2>6, <2>8
    <3> QED
      BY <2>1, <2>4, <2>5, <3>1, <3>2, PackedOK
  <2> QED
    BY <2>7, <2>8
<1> QED
  BY <1>1, <1>2 DEF HashOK

LEMMA HashDeleteIs ==
  ASSUME NEW m \in Nat, NEW h, HashOK(h, m), NEW f
  PROVE  /\ HashOK(hashTypeDelete(h, f), m)
         /\ HashMap(hashTypeDelete(h, f)) = Without(HashMap(h), {f})
<1>1. CASE IsTabled(h)
  <2> DEFINE M == h.ht
  <2>1. h = TableHash(M) /\ FinMap(M) /\ h.enc = "ht"
    BY <1>1, HashFields DEF IsTabled
  <2>2. hashTypeDelete(h, f) = TableHash(Without(M, {f}))
    BY <2>1 DEF hashTypeDelete, Without, Restrict
  <2> HIDE DEF M
  <2>3. HashMap(h) = M /\ FinMap(Without(M, {f}))
    BY <2>1, TableOK, WithoutIs
  <2> QED
    BY <2>2, <2>3, TableOK
<1>2. CASE IsPacked(h, m)
  <2> DEFINE zl == h.zl
             i == FieldIndex(zl, f)
             new == RemoveAt(RemoveAt(zl, i), i)
  <2>1. h = ZiplistHash(zl) /\ ZlOK(zl) /\ Len(zl) \div 2 <= m /\ h.enc = "ziplist"
    BY <1>2, HashFields DEF IsPacked
  <2>2. hashTypeDelete(h, f) = IF i = 0 THEN h ELSE ZiplistHash(new)
    BY <2>1 DEF hashTypeDelete
  <2> HIDE DEF zl
  <2>3. HashMap(h) = PackedMap(zl) /\ DOMAIN PackedMap(zl) = FieldsOf(zl)
    BY <2>1, PackedOK DEF PackedMap
  <2>4. CASE f \in FieldsOf(zl)
    <3>1. i # 0
      BY <2>1, <2>4, FieldIs
    <3>2. hashTypeDelete(h, f) = ZiplistHash(new)
      BY <2>2, <3>1
    <3> HIDE DEF i
    <3> HIDE DEF new
    <3>3. /\ ZlOK(new) /\ Len(new) = Len(zl) - 2 /\ Len(zl) >= 2
          /\ PackedMap(new) = Without(PackedMap(zl), {f})
      BY <2>1, <2>4, CutIs DEF i, new
    <3>4. Len(new) \div 2 <= m
      <4>1. Len(zl) \in Nat /\ Len(zl) % 2 = 0
        BY <2>1 DEF ZlOK
      <4> QED
        BY <2>1, <3>3, <4>1
    <3> QED
      BY <2>3, <3>2, <3>3, <3>4, PackedOK
  <2>5. CASE f \notin FieldsOf(zl)
    <3>1. hashTypeDelete(h, f) = h
      BY <2>1, <2>2, <2>5, FieldIs
    <3>2. PackedMap(zl) = Without(PackedMap(zl), {f})
      <4>1. FinMap(PackedMap(zl))
        BY <2>1, PackedViews
      <4> QED
        BY <2>3, <2>5, <4>1 DEF FinMap, Without
    <3> QED
      BY <2>3, <3>1, <3>2
  <2> QED
    BY <2>4, <2>5
<1> QED
  BY <1>1, <1>2 DEF HashOK


-----------------------------------------------------------------------------
(* The loops over the arguments, as folds over them.                       *)

SetObjects == [enc : {"intset", "ht"}, is : Raw, ht : SUBSET Strings]

GoodSets == {s \in SetObjects : SetOK(s)}

LEMMA GoodSet == \A s : SetOK(s) <=> s \in GoodSets
<1> SUFFICES ASSUME NEW s, SetOK(s) PROVE s \in SetObjects
  BY DEF GoodSets
<1>1. CASE IsIntset(s)
  <2>1. s = IntsetObject(s.is) /\ s.is \in Raw
    BY <1>1 DEF IsIntset, IntsetOK, Sized
  <2> DEFINE is == s.is
  <2>2. IntsetObject(is) \in SetObjects
    BY <2>1 DEF IntsetObject, SetObjects
  <2> QED
    BY <2>1, <2>2
<1>2. CASE IsTable(s)
  <2>1. s = SetObject(s.ht) /\ s.ht \subseteq Strings /\ intsetNew \in Raw
    BY <1>2, NewIs DEF IsTable, IntsetOK, Sized
  <2> DEFINE H == s.ht
  <2>2. SetObject(H) \in SetObjects
    BY <2>1 DEF SetObject, SetObjects
  <2> QED
    BY <2>1, <2>2
<1> QED
  BY <1>1, <1>2 DEF SetOK

\* SADD, member by member.
LEMMA AddRounds ==
  ASSUME NEW base, SetOK(base),
         NEW s \in Seq(Strings)
  PROVE  \E p : /\ p[0] = base
                /\ \A k \in 1 .. Len(s) : p[k] = setTypeAdd(p[k - 1], s[k])
                /\ FoldLeft(setTypeAdd, base, s) = p[Len(s)]
<1> DEFINE n == Len(s)
           Op(a, x) == setTypeAdd(a, x)
           Equation(g) == g = [T \in SUBSET (1 .. n) |->
                                 IF T = {} THEN base
                                 ELSE Op(g[T \ {Max(T)}], s[Max(T)])]
           h == CHOOSE g : Equation(g)
           X == GoodSets
           Y == Strings
           st == [x \in X \X Y |-> Op(x[1], x[2])]
<1>1. n \in Nat /\ DOMAIN s = 1 .. n /\ (\A i \in 1 .. n : s[i] \in Y) /\ base \in X
  BY GoodSet
<1>2. FoldLeft(setTypeAdd, base, s) = h[1 .. n]
  <2>1. FoldLeft(setTypeAdd, base, s)
          = LET g == CHOOSE g : g = [T \in SUBSET DOMAIN s |->
                                       IF T = {} THEN base
                                       ELSE Op(g[T \ {Max(T)}], s[Max(T)])]
            IN  g[DOMAIN s]
    BY DEF FoldLeft, MapThenFoldSet
  <2> QED
    BY <1>1, <2>1
<1>3. ASSUME NEW a \in X, NEW x \in Y PROVE Op(a, x) \in X
  BY <1>3, GoodSet, SetAddIs
<1>4. st \in [X \X Y -> X]
  <2> HIDE DEF X, Y, Op
  <2> QED
    BY <1>3
<1>5. \E g : Equation(g)
  <2> HIDE DEF st, n, X, Y, Op
  <2>1. PICK g \in [SUBSET (1 .. n) -> X] : Folds(g, st, base, s, n)
    <3>1. HasFold(X, st, base, s, n)
      BY <1>1, <1>4, FoldExists
    <3> QED
      BY <3>1 DEF HasFold
  <2>2. ASSUME NEW T \in SUBSET (1 .. n), T # {}
        PROVE  st[<<g[T \ {Max(T)}], s[Max(T)]>>] = Op(g[T \ {Max(T)}], s[Max(T)])
    <3>1. Max(T) \in 1 .. n
      BY <1>1, <2>2, MaxIs
    <3>2. g[T \ {Max(T)}] \in X /\ s[Max(T)] \in Y
      BY <1>1, <3>1
    <3> QED
      BY <3>2 DEF st
  <2>3. Equation(g)
    BY <2>1, <2>2 DEF Folds
  <2> QED
    BY <2>3
<1>6. Equation(h)
  BY <1>5
<1> HIDE DEF h, Op
<1> DEFINE p == [k \in 0 .. n |-> h[1 .. k]]
<1>7. p[0] = base
  BY <1>1, <1>6, Rounds
<1>8. ASSUME NEW k \in 1 .. n PROVE p[k] = Op(p[k - 1], s[k])
  <2>1. k \in Nat \ {0} /\ k \in 0 .. n /\ k - 1 \in 0 .. n /\ 1 .. k \in SUBSET (1 .. n)
    BY <1>1
  <2>2. 1 .. k # {} /\ Max(1 .. k) = k /\ (1 .. k) \ {k} = 1 .. (k - 1)
    BY <2>1, Rounds
  <2> QED
    BY <1>6, <2>1, <2>2
<1>9. p[n] = h[1 .. n]
  BY <1>1
<1> HIDE DEF p
<1> QED
  BY <1>2, <1>7, <1>8, <1>9 DEF Op

\* SREM, member by member.
LEMMA RemRounds ==
  ASSUME NEW base, SetOK(base),
         NEW s \in Seq(Strings)
  PROVE  \E p : /\ p[0] = base
                /\ \A k \in 1 .. Len(s) : p[k] = setTypeRemove(p[k - 1], s[k])
                /\ FoldLeft(setTypeRemove, base, s) = p[Len(s)]
<1> DEFINE n == Len(s)
           Op(a, x) == setTypeRemove(a, x)
           Equation(g) == g = [T \in SUBSET (1 .. n) |->
                                 IF T = {} THEN base
                                 ELSE Op(g[T \ {Max(T)}], s[Max(T)])]
           h == CHOOSE g : Equation(g)
           X == GoodSets
           Y == Strings
           st == [x \in X \X Y |-> Op(x[1], x[2])]
<1>1. n \in Nat /\ DOMAIN s = 1 .. n /\ (\A i \in 1 .. n : s[i] \in Y) /\ base \in X
  BY GoodSet
<1>2. FoldLeft(setTypeRemove, base, s) = h[1 .. n]
  <2>1. FoldLeft(setTypeRemove, base, s)
          = LET g == CHOOSE g : g = [T \in SUBSET DOMAIN s |->
                                       IF T = {} THEN base
                                       ELSE Op(g[T \ {Max(T)}], s[Max(T)])]
            IN  g[DOMAIN s]
    BY DEF FoldLeft, MapThenFoldSet
  <2> QED
    BY <1>1, <2>1
<1>3. ASSUME NEW a \in X, NEW x \in Y PROVE Op(a, x) \in X
  BY <1>3, GoodSet, SetRemoveIs
<1>4. st \in [X \X Y -> X]
  <2> HIDE DEF X, Y, Op
  <2> QED
    BY <1>3
<1>5. \E g : Equation(g)
  <2> HIDE DEF st, n, X, Y, Op
  <2>1. PICK g \in [SUBSET (1 .. n) -> X] : Folds(g, st, base, s, n)
    <3>1. HasFold(X, st, base, s, n)
      BY <1>1, <1>4, FoldExists
    <3> QED
      BY <3>1 DEF HasFold
  <2>2. ASSUME NEW T \in SUBSET (1 .. n), T # {}
        PROVE  st[<<g[T \ {Max(T)}], s[Max(T)]>>] = Op(g[T \ {Max(T)}], s[Max(T)])
    <3>1. Max(T) \in 1 .. n
      BY <1>1, <2>2, MaxIs
    <3>2. g[T \ {Max(T)}] \in X /\ s[Max(T)] \in Y
      BY <1>1, <3>1
    <3> QED
      BY <3>2 DEF st
  <2>3. Equation(g)
    BY <2>1, <2>2 DEF Folds
  <2> QED
    BY <2>3
<1>6. Equation(h)
  BY <1>5
<1> HIDE DEF h, Op
<1> DEFINE p == [k \in 0 .. n |-> h[1 .. k]]
<1>7. p[0] = base
  BY <1>1, <1>6, Rounds
<1>8. ASSUME NEW k \in 1 .. n PROVE p[k] = Op(p[k - 1], s[k])
  <2>1. k \in Nat \ {0} /\ k \in 0 .. n /\ k - 1 \in 0 .. n /\ 1 .. k \in SUBSET (1 .. n)
    BY <1>1
  <2>2. 1 .. k # {} /\ Max(1 .. k) = k /\ (1 .. k) \ {k} = 1 .. (k - 1)
    BY <2>1, Rounds
  <2> QED
    BY <1>6, <2>1, <2>2
<1>9. p[n] = h[1 .. n]
  BY <1>1
<1> HIDE DEF p
<1> QED
  BY <1>2, <1>7, <1>8, <1>9 DEF Op


\* SADD adds the listed members, SREM takes them away.
LEMMA AddAll ==
  ASSUME NEW base, SetOK(base), NEW s \in Seq(Strings)
  PROVE  LET all == FoldLeft(setTypeAdd, base, s) IN
         SetOK(all) /\ setTypeMembers(all) = setTypeMembers(base) \cup ToSet(s)
<1> DEFINE n == Len(s)
           B == setTypeMembers(base)
           Good == [k \in 0 .. n |->
                      {x \in GoodSets : setTypeMembers(x) = B \cup {s[i] : i \in 1 .. k}}]
<1>1. n \in Nat /\ DOMAIN s = 1 .. n /\ \A i \in 1 .. n : s[i] \in Strings
  OBVIOUS
<1>2. PICK p : /\ p[0] = base
               /\ \A k \in 1 .. n : p[k] = setTypeAdd(p[k - 1], s[k])
               /\ FoldLeft(setTypeAdd, base, s) = p[n]
  BY AddRounds
<1>3. p[0] \in Good[0]
  <2>1. {s[i] : i \in 1 .. 0} = {} /\ 0 \in 0 .. n
    BY <1>1
  <2>2. base \in GoodSets
    BY GoodSet
  <2>3. setTypeMembers(base) = B \cup {s[i] : i \in 1 .. 0}
    BY <2>1
  <2> HIDE DEF B
  <2> QED
    BY <1>2, <2>1, <2>2, <2>3
<1>4. ASSUME NEW k \in 1 .. n, p[k - 1] \in Good[k - 1] PROVE p[k] \in Good[k]
  <2> DEFINE a == p[k - 1]
  <2>1. k - 1 \in 0 .. n /\ k \in 0 .. n /\ 1 .. k = 1 .. (k - 1) \cup {k}
    BY <1>1
  <2>2. SetOK(a) /\ setTypeMembers(a) = B \cup {s[i] : i \in 1 .. (k - 1)}
    BY <1>4, <2>1, GoodSet
  <2> HIDE DEF a
  <2>3. SetOK(setTypeAdd(a, s[k]))
        /\ setTypeMembers(setTypeAdd(a, s[k])) = setTypeMembers(a) \cup {s[k]}
    BY <1>1, <2>2, SetAddIs
  <2>4. {s[i] : i \in 1 .. k} = {s[i] : i \in 1 .. (k - 1)} \cup {s[k]}
    BY <2>1
  <2>5. p[k] = setTypeAdd(a, s[k])
    BY <1>2 DEF a
  <2>6. p[k] \in GoodSets /\ setTypeMembers(p[k]) = B \cup {s[i] : i \in 1 .. k}
    BY <2>2, <2>3, <2>4, <2>5, GoodSet
  <2> HIDE DEF B
  <2> QED
    BY <2>1, <2>6
<1> HIDE DEF Good
<1>5. p[n] \in Good[n]
  BY <1>1, <1>3, <1>4, Through
<1>6. ToSet(s) = {s[i] : i \in 1 .. n}
  BY <1>1 DEF ToSet
<1>7. p[n] \in GoodSets /\ setTypeMembers(p[n]) = B \cup {s[i] : i \in 1 .. n}
  <2>1. n \in 0 .. n
    BY <1>1
  <2> QED
    BY <1>5, <2>1 DEF Good
<1> QED
  BY <1>2, <1>6, <1>7, GoodSet

LEMMA RemoveAll ==
  ASSUME NEW base, SetOK(base), NEW s \in Seq(Strings)
  PROVE  LET left == FoldLeft(setTypeRemove, base, s) IN
         SetOK(left) /\ setTypeMembers(left) = setTypeMembers(base) \ ToSet(s)
<1> DEFINE n == Len(s)
           B == setTypeMembers(base)
           Good == [k \in 0 .. n |->
                      {x \in GoodSets : setTypeMembers(x) = B \ {s[i] : i \in 1 .. k}}]
<1>1. n \in Nat /\ DOMAIN s = 1 .. n /\ \A i \in 1 .. n : s[i] \in Strings
  OBVIOUS
<1>2. PICK p : /\ p[0] = base
               /\ \A k \in 1 .. n : p[k] = setTypeRemove(p[k - 1], s[k])
               /\ FoldLeft(setTypeRemove, base, s) = p[n]
  BY RemRounds
<1>3. p[0] \in Good[0]
  <2>1. {s[i] : i \in 1 .. 0} = {} /\ 0 \in 0 .. n
    BY <1>1
  <2>2. base \in GoodSets
    BY GoodSet
  <2>3. setTypeMembers(base) = B \ {s[i] : i \in 1 .. 0}
    BY <2>1
  <2> HIDE DEF B
  <2> QED
    BY <1>2, <2>1, <2>2, <2>3
<1>4. ASSUME NEW k \in 1 .. n, p[k - 1] \in Good[k - 1] PROVE p[k] \in Good[k]
  <2> DEFINE a == p[k - 1]
  <2>1. k - 1 \in 0 .. n /\ k \in 0 .. n /\ 1 .. k = 1 .. (k - 1) \cup {k}
    BY <1>1
  <2>2. SetOK(a) /\ setTypeMembers(a) = B \ {s[i] : i \in 1 .. (k - 1)}
    BY <1>4, <2>1, GoodSet
  <2> HIDE DEF a
  <2>3. SetOK(setTypeRemove(a, s[k]))
        /\ setTypeMembers(setTypeRemove(a, s[k])) = setTypeMembers(a) \ {s[k]}
    BY <1>1, <2>2, SetRemoveIs
  <2>4. {s[i] : i \in 1 .. k} = {s[i] : i \in 1 .. (k - 1)} \cup {s[k]}
    BY <2>1
  <2>5. p[k] = setTypeRemove(a, s[k])
    BY <1>2 DEF a
  <2>6. p[k] \in GoodSets /\ setTypeMembers(p[k]) = B \ {s[i] : i \in 1 .. k}
    BY <2>2, <2>3, <2>4, <2>5, GoodSet
  <2> HIDE DEF B
  <2> QED
    BY <2>1, <2>6
<1> HIDE DEF Good
<1>5. p[n] \in Good[n]
  BY <1>1, <1>3, <1>4, Through
<1>6. ToSet(s) = {s[i] : i \in 1 .. n}
  BY <1>1 DEF ToSet
<1>7. p[n] \in GoodSets /\ setTypeMembers(p[n]) = B \ {s[i] : i \in 1 .. n}
  <2>1. n \in 0 .. n
    BY <1>1
  <2> QED
    BY <1>5, <2>1 DEF Good
<1> QED
  BY <1>2, <1>6, <1>7, GoodSet


HashObjects ==
  [enc : {"ziplist", "ht"}, zl : Seq(Strings), ht : UNION {[D -> Strings] : D \in SUBSET Strings}]

GoodHashes(m) == {h \in HashObjects : HashOK(h, m)}

LEMMA GoodHash == \A m, h : HashOK(h, m) <=> h \in GoodHashes(m)
<1> SUFFICES ASSUME NEW m, NEW h, HashOK(h, m) PROVE h \in HashObjects
  BY DEF GoodHashes
<1>1. <<>> \in Seq(Strings) /\ <<>> \in UNION {[D -> Strings] : D \in SUBSET Strings}
  <2>1. <<>> \in [{} -> Strings] /\ {} \in SUBSET Strings
    OBVIOUS
  <2> QED
    BY <2>1
<1>2. CASE IsPacked(h, m)
  <2> DEFINE zl == h.zl
  <2>1. h = ZiplistHash(zl) /\ zl \in Seq(Strings)
    BY <1>2 DEF IsPacked, ZlOK
  <2> HIDE DEF zl
  <2> QED
    BY <1>1, <2>1 DEF ZiplistHash, HashObjects
<1>3. CASE IsTabled(h)
  <2> DEFINE M == h.ht
  <2>1. h = TableHash(M) /\ FinMap(M)
    BY <1>3 DEF IsTabled
  <2> HIDE DEF M
  <2>2. M \in [DOMAIN M -> Strings] /\ DOMAIN M \in SUBSET Strings
    BY <2>1 DEF FinMap
  <2>3. M \in UNION {[D -> Strings] : D \in SUBSET Strings}
    BY <2>2
  <2> QED
    BY <1>1, <2>1, <2>3 DEF TableHash, HashObjects
<1> QED
  BY <1>2, <1>3 DEF HashOK

LEMMA PairIs ==
  ASSUME NEW fv \in Strings \X Strings
  PROVE  /\ fv \in Seq(Strings) /\ Len(fv) = 2 /\ DOMAIN fv = 1 .. 2
         /\ fv[1] \in Strings /\ fv[2] \in Strings
<1> DEFINE f == fv[1]
           v == fv[2]
<1>1. fv = <<f, v>> /\ f \in Strings /\ v \in Strings
  OBVIOUS
<1> HIDE DEF f, v
<1>2. <<f, v>> \in Seq(Strings) /\ Len(<<f, v>>) = 2 /\ DOMAIN <<f, v>> = 1 .. 2
  BY <1>1
<1> QED
  BY <1>1, <1>2 DEF f, v

\* The arguments of HMSET in one sequence.
LEMMA ConcatRounds ==
  ASSUME NEW base \in Seq(Strings),
         NEW s \in Seq((Strings \X Strings))
  PROVE  \E p : /\ p[0] = base
                /\ \A k \in 1 .. Len(s) : p[k] = p[k - 1] \o s[k]
                /\ FoldLeft(LAMBDA a, fv : a \o fv, base, s) = p[Len(s)]
<1> DEFINE n == Len(s)
           Op(a, x) == a \o x
           Equation(g) == g = [T \in SUBSET (1 .. n) |->
                                 IF T = {} THEN base
                                 ELSE Op(g[T \ {Max(T)}], s[Max(T)])]
           h == CHOOSE g : Equation(g)
           X == Seq(Strings)
           Y == (Strings \X Strings)
           st == [x \in X \X Y |-> Op(x[1], x[2])]
<1>1. n \in Nat /\ DOMAIN s = 1 .. n /\ (\A i \in 1 .. n : s[i] \in Y) /\ base \in X
  OBVIOUS
<1>2. FoldLeft(LAMBDA a, fv : a \o fv, base, s) = h[1 .. n]
  <2>1. FoldLeft(LAMBDA a, fv : a \o fv, base, s)
          = LET g == CHOOSE g : g = [T \in SUBSET DOMAIN s |->
                                       IF T = {} THEN base
                                       ELSE Op(g[T \ {Max(T)}], s[Max(T)])]
            IN  g[DOMAIN s]
    BY DEF FoldLeft, MapThenFoldSet
  <2> QED
    BY <1>1, <2>1
<1>3. ASSUME NEW a \in X, NEW x \in Y PROVE Op(a, x) \in X
  <2>1. x \in Seq(Strings) /\ a \in Seq(Strings)
    BY PairIs
  <2> QED
    BY <2>1, ConcatProperties
<1>4. st \in [X \X Y -> X]
  <2> HIDE DEF X, Y, Op
  <2> QED
    BY <1>3
<1>5. \E g : Equation(g)
  <2> HIDE DEF st, n, X, Y, Op
  <2>1. PICK g \in [SUBSET (1 .. n) -> X] : Folds(g, st, base, s, n)
    <3>1. HasFold(X, st, base, s, n)
      BY <1>1, <1>4, FoldExists
    <3> QED
      BY <3>1 DEF HasFold
  <2>2. ASSUME NEW T \in SUBSET (1 .. n), T # {}
        PROVE  st[<<g[T \ {Max(T)}], s[Max(T)]>>] = Op(g[T \ {Max(T)}], s[Max(T)])
    <3>1. Max(T) \in 1 .. n
      BY <1>1, <2>2, MaxIs
    <3>2. g[T \ {Max(T)}] \in X /\ s[Max(T)] \in Y
      BY <1>1, <3>1
    <3> QED
      BY <3>2 DEF st
  <2>3. Equation(g)
    BY <2>1, <2>2 DEF Folds
  <2> QED
    BY <2>3
<1>6. Equation(h)
  BY <1>5
<1> HIDE DEF h, Op
<1> DEFINE p == [k \in 0 .. n |-> h[1 .. k]]
<1>7. p[0] = base
  BY <1>1, <1>6, Rounds
<1>8. ASSUME NEW k \in 1 .. n PROVE p[k] = Op(p[k - 1], s[k])
  <2>1. k \in Nat \ {0} /\ k \in 0 .. n /\ k - 1 \in 0 .. n /\ 1 .. k \in SUBSET (1 .. n)
    BY <1>1
  <2>2. 1 .. k # {} /\ Max(1 .. k) = k /\ (1 .. k) \ {k} = 1 .. (k - 1)
    BY <2>1, Rounds
  <2> QED
    BY <1>6, <2>1, <2>2
<1>9. p[n] = h[1 .. n]
  BY <1>1
<1> HIDE DEF p
<1> QED
  BY <1>2, <1>7, <1>8, <1>9 DEF Op

SetRun(base, s) ==
  \E p : /\ p[0] = base
         /\ \A k \in 1 .. Len(s) : p[k] = SetPair(p[k - 1], s[k])
         /\ FoldLeft(SetPair, base, s) = p[Len(s)]

\* HMSET, pair by pair.
LEMMA SetRounds ==
  ASSUME max \in Nat, NEW tabled \in BOOLEAN,
         NEW base, HashOK(base, max), tabled => base.enc = "ht",
         NEW s \in Seq({fv \in Strings \X Strings : tabled \/ fv[2] \notin Long})
  PROVE  SetRun(base, s)
<1> DEFINE n == Len(s)
           Op(a, x) == SetPair(a, x)
           Equation(g) == g = [T \in SUBSET (1 .. n) |->
                                 IF T = {} THEN base
                                 ELSE Op(g[T \ {Max(T)}], s[Max(T)])]
           h == CHOOSE g : Equation(g)
           X == {x \in GoodHashes(max) : tabled => x.enc = "ht"}
           Y == {fv \in Strings \X Strings : tabled \/ fv[2] \notin Long}
           st == [x \in X \X Y |-> Op(x[1], x[2])]
<1>1. n \in Nat /\ DOMAIN s = 1 .. n /\ (\A i \in 1 .. n : s[i] \in Y) /\ base \in X
  BY GoodHash
<1>2. FoldLeft(SetPair, base, s) = h[1 .. n]
  <2>1. FoldLeft(SetPair, base, s)
          = LET g == CHOOSE g : g = [T \in SUBSET DOMAIN s |->
                                       IF T = {} THEN base
                                       ELSE Op(g[T \ {Max(T)}], s[Max(T)])]
            IN  g[DOMAIN s]
    BY DEF FoldLeft, MapThenFoldSet
  <2> QED
    BY <1>1, <2>1
<1>3. ASSUME NEW a \in X, NEW x \in Y PROVE Op(a, x) \in X
  <2>1. HashOK(a, max) /\ (a.enc = "ht" \/ x[2] \notin Long) /\ (tabled => a.enc = "ht")
    BY <1>3, GoodHash
  <2>2. x[1] \in Strings /\ x[2] \in Strings
    BY <1>3, PairIs
  <2>3. HashOK(Op(a, x), max) /\ (a.enc = "ht" => Op(a, x).enc = "ht")
    BY <2>1, <2>2, HashSetIs DEF SetPair
  <2> HIDE DEF Op
  <2> QED
    BY <2>1, <2>3, GoodHash
<1>4. st \in [X \X Y -> X]
  <2> HIDE DEF X, Y, Op
  <2> QED
    BY <1>3
<1>5. \E g : Equation(g)
  <2> HIDE DEF st, n, X, Y, Op
  <2>1. PICK g \in [SUBSET (1 .. n) -> X] : Folds(g, st, base, s, n)
    <3>1. HasFold(X, st, base, s, n)
      BY <1>1, <1>4, FoldExists
    <3> QED
      BY <3>1 DEF HasFold
  <2>2. ASSUME NEW T \in SUBSET (1 .. n), T # {}
        PROVE  st[<<g[T \ {Max(T)}], s[Max(T)]>>] = Op(g[T \ {Max(T)}], s[Max(T)])
    <3>1. Max(T) \in 1 .. n
      BY <1>1, <2>2, MaxIs
    <3>2. g[T \ {Max(T)}] \in X /\ s[Max(T)] \in Y
      BY <1>1, <3>1
    <3> QED
      BY <3>2 DEF st
  <2>3. Equation(g)
    BY <2>1, <2>2 DEF Folds
  <2> QED
    BY <2>3
<1>6. Equation(h)
  BY <1>5
<1> HIDE DEF h, Op
<1> DEFINE p == [k \in 0 .. n |-> h[1 .. k]]
<1>7. p[0] = base
  BY <1>1, <1>6, Rounds
<1>8. ASSUME NEW k \in 1 .. n PROVE p[k] = Op(p[k - 1], s[k])
  <2>1. k \in Nat \ {0} /\ k \in 0 .. n /\ k - 1 \in 0 .. n /\ 1 .. k \in SUBSET (1 .. n)
    BY <1>1
  <2>2. 1 .. k # {} /\ Max(1 .. k) = k /\ (1 .. k) \ {k} = 1 .. (k - 1)
    BY <2>1, Rounds
  <2> QED
    BY <1>6, <2>1, <2>2
<1>9. p[n] = h[1 .. n]
  BY <1>1
<1> HIDE DEF p
<1> QED
  BY <1>2, <1>7, <1>8, <1>9 DEF Op, SetRun

DelRun(base, s) ==
  \E p : /\ p[0] = base
         /\ \A k \in 1 .. Len(s) : p[k] = DelField(p[k - 1], s[k])
         /\ FoldLeft(DelField, base, s) = p[Len(s)]

\* HDEL, field by field.
LEMMA DelRounds ==
  ASSUME NEW m \in Nat, NEW o, HashOK(o, m), NEW base, base = <<o, 0>>,
         NEW s \in Seq(Strings)
  PROVE  DelRun(base, s)
<1> DEFINE n == Len(s)
           Op(a, x) == DelField(a, x)
           Equation(g) == g = [T \in SUBSET (1 .. n) |->
                                 IF T = {} THEN base
                                 ELSE Op(g[T \ {Max(T)}], s[Max(T)])]
           h == CHOOSE g : Equation(g)
           X == GoodHashes(m) \X Nat
           Y == Strings
           st == [x \in X \X Y |-> Op(x[1], x[2])]
<1>1. n \in Nat /\ DOMAIN s = 1 .. n /\ (\A i \in 1 .. n : s[i] \in Y) /\ base \in X
  BY GoodHash
<1>2. FoldLeft(DelField, base, s) = h[1 .. n]
  <2>1. FoldLeft(DelField, base, s)
          = LET g == CHOOSE g : g = [T \in SUBSET DOMAIN s |->
                                       IF T = {} THEN base
                                       ELSE Op(g[T \ {Max(T)}], s[Max(T)])]
            IN  g[DOMAIN s]
    BY DEF FoldLeft, MapThenFoldSet
  <2> QED
    BY <1>1, <2>1
<1>3. ASSUME NEW a \in X, NEW x \in Y PROVE Op(a, x) \in X
  <2>1. a = <<a[1], a[2]>> /\ HashOK(a[1], m) /\ a[1] \in GoodHashes(m) /\ a[2] \in Nat
    BY <1>3, GoodHash
  <2>2. hashTypeDelete(a[1], x) \in GoodHashes(m)
    BY <2>1, HashDeleteIs, GoodHash
  <2> QED
    BY <2>1, <2>2 DEF DelField
<1>4. st \in [X \X Y -> X]
  <2> HIDE DEF X, Y, Op
  <2> QED
    BY <1>3
<1>5. \E g : Equation(g)
  <2> HIDE DEF st, n, X, Y, Op
  <2>1. PICK g \in [SUBSET (1 .. n) -> X] : Folds(g, st, base, s, n)
    <3>1. HasFold(X, st, base, s, n)
      BY <1>1, <1>4, FoldExists
    <3> QED
      BY <3>1 DEF HasFold
  <2>2. ASSUME NEW T \in SUBSET (1 .. n), T # {}
        PROVE  st[<<g[T \ {Max(T)}], s[Max(T)]>>] = Op(g[T \ {Max(T)}], s[Max(T)])
    <3>1. Max(T) \in 1 .. n
      BY <1>1, <2>2, MaxIs
    <3>2. g[T \ {Max(T)}] \in X /\ s[Max(T)] \in Y
      BY <1>1, <3>1
    <3> QED
      BY <3>2 DEF st
  <2>3. Equation(g)
    BY <2>1, <2>2 DEF Folds
  <2> QED
    BY <2>3
<1>6. Equation(h)
  BY <1>5
<1> HIDE DEF h, Op
<1> DEFINE p == [k \in 0 .. n |-> h[1 .. k]]
<1>7. p[0] = base
  BY <1>1, <1>6, Rounds
<1>8. ASSUME NEW k \in 1 .. n PROVE p[k] = Op(p[k - 1], s[k])
  <2>1. k \in Nat \ {0} /\ k \in 0 .. n /\ k - 1 \in 0 .. n /\ 1 .. k \in SUBSET (1 .. n)
    BY <1>1
  <2>2. 1 .. k # {} /\ Max(1 .. k) = k /\ (1 .. k) \ {k} = 1 .. (k - 1)
    BY <2>1, Rounds
  <2> QED
    BY <1>6, <2>1, <2>2
<1>9. p[n] = h[1 .. n]
  BY <1>1
<1> HIDE DEF p
<1> QED
  BY <1>2, <1>7, <1>8, <1>9 DEF Op, DelRun

\* Every value of the list is among the arguments the check for long ones sees.
LEMMA StringsAre ==
  ASSUME NEW s \in Seq(Strings \X Strings)
  PROVE  LET strings == FoldLeft(LAMBDA a, fv : a \o fv, <<>>, s) IN
         \A i \in DOMAIN s : \E j \in DOMAIN strings : strings[j] = s[i][2]
<1> DEFINE n == Len(s)
           Has(x, i) == \E j \in DOMAIN x : x[j] = s[i][2]
           Good == [k \in 0 .. n |-> {x \in Seq(Strings) : \A i \in 1 .. k : Has(x, i)}]
<1>1. n \in Nat /\ DOMAIN s = 1 .. n /\ \A i \in 1 .. n : s[i] \in Strings \X Strings
  OBVIOUS
<1>2. <<>> \in Seq(Strings)
  OBVIOUS
<1>3. PICK p : /\ p[0] = <<>>
               /\ \A k \in 1 .. n : p[k] = p[k - 1] \o s[k]
               /\ FoldLeft(LAMBDA a, fv : a \o fv, <<>>, s) = p[n]
  BY <1>2, ConcatRounds
<1>4. p[0] \in Good[0]
  <2>1. 1 .. 0 = {} /\ 0 \in 0 .. n
    BY <1>1
  <2> HIDE DEF Has
  <2> QED
    BY <1>2, <1>3, <2>1
<1>5. ASSUME NEW k \in 1 .. n, p[k - 1] \in Good[k - 1] PROVE p[k] \in Good[k]
  <2> DEFINE a == p[k - 1]
             b == s[k]
             c == a \o b
  <2>1. k - 1 \in 0 .. n /\ k \in 0 .. n /\ 1 .. k = 1 .. (k - 1) \cup {k}
    BY <1>1
  <2>2. a \in Seq(Strings) /\ \A i \in 1 .. (k - 1) : Has(a, i)
    <3> HIDE DEF Has
    <3> QED
      BY <1>5, <2>1
  <2>3. b \in Seq(Strings) /\ Len(b) = 2 /\ b[2] = s[k][2]
    BY <1>1, PairIs
  <2> HIDE DEF a, b
  <2>4. /\ c \in Seq(Strings) /\ Len(c) = Len(a) + Len(b)
        /\ \A j \in 1 .. Len(a) + Len(b) : c[j] = IF j <= Len(a) THEN a[j] ELSE b[j - Len(a)]
    BY <2>2, <2>3, ConcatProperties
  <2>5. p[k] = c
    BY <1>3 DEF a, b
  <2> HIDE DEF c
  <2>6. DOMAIN a = 1 .. Len(a) /\ DOMAIN c = 1 .. Len(a) + 2 /\ Len(a) \in Nat
    BY <2>2, <2>3, <2>4
  <2>7. ASSUME NEW i \in 1 .. (k - 1) PROVE Has(c, i)
    <3>1. PICK j \in DOMAIN a : a[j] = s[i][2]
      BY <2>2
    <3>2. j \in 1 .. Len(a) + Len(b) /\ j <= Len(a) /\ j \in DOMAIN c
      BY <2>3, <2>6
    <3>3. c[j] = s[i][2]
      BY <2>4, <3>1, <3>2
    <3> QED
      BY <3>2, <3>3
  <2>8. Has(c, k)
    <3>1. Len(a) + 2 \in 1 .. Len(a) + Len(b) /\ ~(Len(a) + 2 <= Len(a))
          /\ (Len(a) + 2) - Len(a) = 2 /\ Len(a) + 2 \in DOMAIN c
      BY <2>3, <2>6
    <3>2. c[Len(a) + 2] = s[k][2]
      BY <2>3, <2>4, <3>1
    <3> QED
      BY <3>1, <3>2
  <2> HIDE DEF Has
  <2>9. \A i \in 1 .. k : Has(c, i)
    BY <2>1, <2>7, <2>8
  <2> QED
    BY <2>1, <2>4, <2>5, <2>9
<1> HIDE DEF Good, Has
<1>6. p[n] \in Good[n]
  <2> HIDE DEF n
  <2>1. n \in Nat /\ n \in 0 .. n
    BY <1>1
  <2>2. \A k \in 1 .. n : p[k - 1] \in Good[k - 1] => p[k] \in Good[k]
    BY <1>5
  <2>3. \A k \in 0 .. n : p[k] \in Good[k]
    BY <1>4, <2>1, <2>2, Through
  <2> QED
    BY <2>1, <2>3
<1>7. \A i \in 1 .. n : Has(p[n], i)
  <2>1. n \in 0 .. n
    BY <1>1
  <2> QED
    BY <1>6, <2>1 DEF Good
<1> QED
  BY <1>1, <1>3, <1>7 DEF Has

\* N is M after the first k pairs of s: a later pair overwrites an earlier one.
Wrote(M, s, k, N) ==
  /\ DOMAIN N = DOMAIN M \cup {s[i][1] : i \in 1 .. k}
  /\ \A g \in DOMAIN M : (\A i \in 1 .. k : s[i][1] # g) => N[g] = M[g]
  /\ \A i \in 1 .. k : (\A j \in i + 1 .. k : s[j][1] # s[i][1]) => N[s[i][1]] = s[i][2]

LEMMA WroteNext ==
  ASSUME NEW s, NEW M, NEW k \in Nat \ {0}, NEW N, Wrote(M, s, k - 1, N)
  PROVE  Wrote(M, s, k, With(N, s[k][1], s[k][2]))
<1> DEFINE f == s[k][1]
           v == s[k][2]
           W == With(N, f, v)
<1>1. 1 .. k = 1 .. (k - 1) \cup {k} /\ k \notin 1 .. (k - 1)
  OBVIOUS
<1>2. /\ DOMAIN N = DOMAIN M \cup {s[i][1] : i \in 1 .. (k - 1)}
      /\ \A g \in DOMAIN M : (\A i \in 1 .. (k - 1) : s[i][1] # g) => N[g] = M[g]
      /\ \A i \in 1 .. (k - 1) :
           (\A j \in i + 1 .. (k - 1) : s[j][1] # s[i][1]) => N[s[i][1]] = s[i][2]
  BY DEF Wrote
<1>3. DOMAIN W = DOMAIN N \cup {f} /\ W[f] = v /\ \A g \in DOMAIN N : g # f => W[g] = N[g]
  BY DEF With
<1> HIDE DEF W
<1>4. DOMAIN W = DOMAIN M \cup {s[i][1] : i \in 1 .. k}
  BY <1>1, <1>2, <1>3
<1>5. ASSUME NEW g \in DOMAIN M, \A i \in 1 .. k : s[i][1] # g PROVE W[g] = M[g]
  BY <1>1, <1>2, <1>3, <1>5
<1>6. ASSUME NEW i \in 1 .. k, \A j \in i + 1 .. k : s[j][1] # s[i][1] PROVE W[s[i][1]] = s[i][2]
  <2>1. CASE i = k
    BY <1>3, <2>1
  <2>2. CASE i # k
    <3>1. i \in 1 .. (k - 1) /\ k \in i + 1 .. k /\ \A j \in i + 1 .. (k - 1) : j \in i + 1 .. k
      BY <2>2
    <3>2. f # s[i][1] /\ s[i][1] \in DOMAIN N
      BY <1>2, <1>6, <3>1
    <3> QED
      BY <1>2, <1>3, <1>6, <3>1, <3>2
  <2> QED
    BY <2>1, <2>2
<1> QED
  BY <1>4, <1>5, <1>6 DEF Wrote, W

\* What is written last stays: the map with all pairs.
LEMMA WroteAll ==
  ASSUME NEW M, NEW s \in Seq(Strings \X Strings), NEW N, FinMap(N), Wrote(M, s, Len(s), N)
  PROVE  N = C!WithAll(M, s)
<1> DEFINE n == Len(s)
           F == {s[i][1] : i \in DOMAIN s}
           Final(g, i) == s[i][1] = g /\ \A j \in i + 1 .. n : s[j][1] # g
<1>1. n \in Nat /\ DOMAIN s = 1 .. n
  OBVIOUS
<1>2. /\ DOMAIN N = DOMAIN M \cup F
      /\ \A g \in DOMAIN M : g \notin F => N[g] = M[g]
      /\ \A i \in 1 .. n : Final(s[i][1], i) => N[s[i][1]] = s[i][2]
  BY <1>1 DEF Wrote
<1>3. ASSUME NEW g \in F PROVE \E i \in 1 .. n : Final(g, i)
  <2> DEFINE T == {i \in 1 .. n : s[i][1] = g}
  <2>1. T \in SUBSET (1 .. n) /\ T # {}
    BY <1>1
  <2>2. Max(T) \in T /\ \A y \in T : Max(T) >= y
    BY <1>1, <2>1, MaxIs
  <2> DEFINE i == Max(T)
  <2> HIDE DEF i
  <2>3. i \in 1 .. n /\ s[i][1] = g /\ \A y \in 1 .. n : s[y][1] = g => i >= y
    BY <2>2 DEF i
  <2>4. ASSUME NEW j \in i + 1 .. n PROVE s[j][1] # g
    <3>1. j \in 1 .. n /\ ~(i >= j)
      BY <2>3
    <3> QED
      BY <2>3, <3>1
  <2> QED
    BY <2>3, <2>4
<1>4. ASSUME NEW g \in F PROVE N[g] = C!LastOf(s, g)
  <2> DEFINE i == CHOOSE i \in 1 .. n : Final(g, i)
  <2>1. i \in 1 .. n /\ Final(g, i)
    BY <1>3
  <2>2. C!LastOf(s, g) = s[i][2]
    BY <1>1 DEF C!LastOf
  <2> HIDE DEF i
  <2> QED
    BY <1>2, <2>1, <2>2
<1> HIDE DEF Final, F
<1>5. C!WithAll(M, s) = [g \in DOMAIN M \cup F |-> IF g \in F THEN C!LastOf(s, g) ELSE M[g]]
  BY DEF C!WithAll, F
<1> DEFINE R(g) == IF g \in F THEN C!LastOf(s, g) ELSE M[g]
<1>6. ASSUME NEW g \in DOMAIN N PROVE N[g] = R(g)
  BY <1>2, <1>4
<1>7. N = [g \in DOMAIN N |-> N[g]]
  BY DEF FinMap
<1>8. N = [g \in DOMAIN N |-> R(g)]
  <2> HIDE DEF R
  <2> QED
    BY <1>6, <1>7, Zenon
<1> QED
  BY <1>2, <1>5, <1>8


\* HMSET writes all its pairs.
LEMMA SetAll ==
  ASSUME max \in Nat, NEW base, HashOK(base, max), NEW s \in Seq(Strings \X Strings)
  PROVE  LET strings == FoldLeft(LAMBDA a, fv : a \o fv, <<>>, s)
             all == FoldLeft(SetPair, hashTypeTryConversion(base, strings), s)
         IN  HashOK(all, max) /\ HashMap(all) = C!WithAll(HashMap(base), s)
<1> DEFINE n == Len(s)
           strings == FoldLeft(LAMBDA a, fv : a \o fv, <<>>, s)
           from == hashTypeTryConversion(base, strings)
           M == HashMap(base)
           tabled == from.enc = "ht"
           Good == [k \in 0 .. n |-> {x \in GoodHashes(max) : /\ tabled => x.enc = "ht"
                                                            /\ Wrote(M, s, k, HashMap(x))}]
<1>1. n \in Nat /\ DOMAIN s = 1 .. n /\ \A i \in 1 .. n : s[i] \in Strings \X Strings
  OBVIOUS
<1>2. \A i \in DOMAIN s : \E j \in DOMAIN strings : strings[j] = s[i][2]
  BY StringsAre
<1> HIDE DEF strings
<1>3. HashOK(from, max) /\ HashMap(from) = M /\ (tabled \/ \A i \in DOMAIN strings : strings[i] \notin Long)
  BY TryIs
<1> HIDE DEF from
<1>4. \A i \in 1 .. n : tabled \/ s[i][2] \notin Long
  BY <1>1, <1>2, <1>3
<1>5. s \in Seq({fv \in Strings \X Strings : tabled \/ fv[2] \notin Long})
  <2> HIDE DEF tabled
  <2> QED
    BY <1>1, <1>4
<1>6. PICK p : /\ p[0] = from
               /\ \A k \in 1 .. n : p[k] = SetPair(p[k - 1], s[k])
               /\ FoldLeft(SetPair, from, s) = p[n]
  <2>1. tabled \in BOOLEAN /\ (tabled => from.enc = "ht")
    OBVIOUS
  <2> HIDE DEF tabled
  <2>2. SetRun(from, s)
    BY <1>3, <1>5, <2>1, SetRounds
  <2> QED
    BY <2>2 DEF SetRun
<1>7. p[0] \in Good[0]
  <2>1. 1 .. 0 = {} /\ 0 \in 0 .. n
    BY <1>1
  <2>2. Wrote(M, s, 0, M)
    BY <2>1 DEF Wrote
  <2>3. from \in GoodHashes(max)
    BY <1>3, GoodHash
  <2> HIDE DEF M
  <2> QED
    BY <1>3, <1>6, <2>1, <2>2, <2>3
<1>8. ASSUME NEW k \in 1 .. n, p[k - 1] \in Good[k - 1] PROVE p[k] \in Good[k]
  <2> DEFINE a == p[k - 1]
             b == s[k]
  <2>1. k - 1 \in 0 .. n /\ k \in 0 .. n /\ k \in Nat \ {0}
    BY <1>1
  <2>2. HashOK(a, max) /\ (tabled => a.enc = "ht") /\ Wrote(M, s, k - 1, HashMap(a))
    <3> HIDE DEF tabled, M
    <3> QED
      BY <1>8, <2>1, GoodHash
  <2>3. b[1] \in Strings /\ b[2] \in Strings /\ (tabled \/ b[2] \notin Long)
    BY <1>1, <1>4, PairIs
  <2> DEFINE c == hashTypeSet(a, b[1], b[2], max)
  <2>4. p[k] = c
    BY <1>6 DEF SetPair
  <2> HIDE DEF a, b, tabled
  <2>5. HashOK(c, max) /\ HashMap(c) = With(HashMap(a), b[1], b[2]) /\ (a.enc = "ht" => c.enc = "ht")
    BY <2>2, <2>3, HashSetIs
  <2> HIDE DEF c, M
  <2>6. Wrote(M, s, k, HashMap(c))
    BY <2>1, <2>2, <2>5, WroteNext DEF b
  <2>7. c \in GoodHashes(max) /\ (tabled => c.enc = "ht")
    BY <2>2, <2>5, GoodHash
  <2> QED
    BY <2>1, <2>4, <2>6, <2>7
<1> HIDE DEF Good
<1>9. p[n] \in Good[n] /\ n \in 0 .. n
  <2> HIDE DEF n
  <2>1. n \in Nat /\ n \in 0 .. n
    BY <1>1
  <2>2. \A k \in 1 .. n : p[k - 1] \in Good[k - 1] => p[k] \in Good[k]
    BY <1>8
  <2>3. \A k \in 0 .. n : p[k] \in Good[k]
    BY <1>7, <2>1, <2>2, Through
  <2> QED
    BY <2>1, <2>3
<1>10. HashOK(p[n], max) /\ Wrote(M, s, n, HashMap(p[n]))
  <2> HIDE DEF tabled, M
  <2> QED
    BY <1>9, GoodHash DEF Good
<1>11. HashMap(p[n]) = C!WithAll(M, s)
  BY <1>10, HashIs, WroteAll
<1> QED
  BY <1>6, <1>10, <1>11 DEF from, strings

\* HDEL takes the listed fields away and counts those that were there.
LEMMA DelAll ==
  ASSUME NEW m \in Nat, NEW o, HashOK(o, m), NEW s \in Seq(Strings), NEW base, base = <<o, 0>>
  PROVE  LET done == FoldLeft(DelField, base, s)
         IN  /\ HashOK(done[1], m)
             /\ HashMap(done[1]) = Without(HashMap(o), ToSet(s))
             /\ done[2] = Cardinality(ToSet(s) \cap DOMAIN HashMap(o))
<1> DEFINE n == Len(s)
           M == HashMap(o)
           F(k) == {s[i] : i \in 1 .. k}
           Good == [k \in 0 .. n |->
                      {x \in GoodHashes(m) \X Nat :
                         /\ HashMap(x[1]) = Without(M, F(k))
                         /\ x[2] = Cardinality(F(k) \cap DOMAIN M)}]
<1>1. n \in Nat /\ DOMAIN s = 1 .. n /\ \A i \in 1 .. n : s[i] \in Strings
  OBVIOUS
<1>2. PICK p : /\ p[0] = base
               /\ \A k \in 1 .. n : p[k] = DelField(p[k - 1], s[k])
               /\ FoldLeft(DelField, base, s) = p[n]
  <2>1. DelRun(base, s)
    BY DelRounds
  <2> QED
    BY <2>1 DEF DelRun
<1>3. FinMap(M) /\ IsFiniteSet(DOMAIN M) /\ M = [g \in DOMAIN M |-> M[g]]
  BY HashIs DEF FinMap
<1>4. p[0] \in Good[0]
  <2>1. F(0) = {} /\ 0 \in 0 .. n
    BY <1>1
  <2> HIDE DEF F, M
  <2>2. M = Without(M, F(0))
    BY <1>3, <2>1 DEF Without
  <2>3. F(0) \cap DOMAIN M = {}
    BY <2>1
  <2>4. 0 = Cardinality(F(0) \cap DOMAIN M)
    BY <2>3, FS_EmptySet
  <2>5. base \in GoodHashes(m) \X Nat /\ base[1] = o /\ base[2] = 0
    BY GoodHash
  <2>6. HashMap(base[1]) = Without(M, F(0))
    BY <2>2, <2>5 DEF M
  <2> QED
    BY <1>2, <2>1, <2>4, <2>5, <2>6
<1>5. ASSUME NEW k \in 1 .. n, p[k - 1] \in Good[k - 1] PROVE p[k] \in Good[k]
  <2> DEFINE a == p[k - 1]
             f == s[k]
             h == a[1]
             c == a[2]
  <2>1. k - 1 \in 0 .. n /\ k \in 0 .. n /\ 1 .. k = 1 .. (k - 1) \cup {k}
    BY <1>1
  <2>2. F(k) = F(k - 1) \cup {f}
    BY <2>1
  <2> HIDE DEF F, M
  <2>3. /\ a \in GoodHashes(m) \X Nat /\ HashMap(h) = Without(M, F(k - 1))
        /\ c = Cardinality(F(k - 1) \cap DOMAIN M)
    BY <1>5, <2>1
  <2>4. a = <<h, c>> /\ HashOK(h, m) /\ c \in Nat
    BY <2>3, GoodHash
  <2>5. p[k] = DelField(a, f)
    BY <1>2
  <2> HIDE DEF a, f, h, c
  <2>6. hashTypeExists(h, f) <=> f \in DOMAIN M /\ f \notin F(k - 1)
    <3>1. hashTypeExists(h, f) <=> f \in DOMAIN HashMap(h)
      BY <2>4, HashIs
    <3> QED
      BY <2>3, <3>1 DEF Without
  <2>7. hashTypeExists(h, f) => hashTypeLength(h) > 0
    <3>1. hashTypeLength(h) = Cardinality(DOMAIN HashMap(h)) /\ IsFiniteSet(DOMAIN HashMap(h))
          /\ hashTypeLength(h) \in Nat
      BY <2>4, HashIs DEF Views, FinMap
    <3>2. hashTypeExists(h, f) => DOMAIN HashMap(h) # {}
      BY <2>4, HashIs
    <3>3. DOMAIN HashMap(h) # {} => Cardinality(DOMAIN HashMap(h)) # 0
      BY <3>1, FS_EmptySet
    <3> QED
      BY <3>1, <3>2, <3>3
  <2>8. CASE hashTypeExists(h, f)
    <3> DEFINE g == hashTypeDelete(h, f)
    <3>1. p[k] = <<g, c + 1>>
      BY <2>4, <2>5, <2>7, <2>8 DEF DelField
    <3>2. HashOK(g, m) /\ HashMap(g) = Without(HashMap(h), {f})
      BY <2>4, HashDeleteIs
    <3> HIDE DEF g
    <3>3. HashMap(g) = Without(M, F(k))
      <4>1. Without(Without(M, F(k - 1)), {f}) = Without(M, F(k - 1) \cup {f})
        BY DEF Without
      <4> QED
        BY <2>2, <2>3, <3>2, <4>1
    <3>4. Cardinality(F(k) \cap DOMAIN M) = c + 1
      <4>1. F(k) \cap DOMAIN M = (F(k - 1) \cap DOMAIN M) \cup {f} /\ f \notin F(k - 1) \cap DOMAIN M
        BY <2>2, <2>6, <2>8
      <4>2. IsFiniteSet(F(k - 1) \cap DOMAIN M)
        BY <1>3, FS_Subset
      <4> QED
        BY <2>3, <4>1, <4>2, FS_AddElement
    <3>5. g \in GoodHashes(m) /\ c + 1 \in Nat
      BY <2>4, <3>2, GoodHash
    <3> QED
      BY <2>1, <3>1, <3>3, <3>4, <3>5
  <2>9. CASE ~hashTypeExists(h, f)
    <3>1. p[k] = a /\ a[1] = h /\ a[2] = c
      BY <2>4, <2>5, <2>9 DEF h, c, DelField
    <3>2. F(k) \cap DOMAIN M = F(k - 1) \cap DOMAIN M /\ DOMAIN M \ F(k) = DOMAIN M \ F(k - 1)
      BY <2>2, <2>6, <2>9
    <3>3. Without(M, F(k)) = Without(M, F(k - 1))
      BY <3>2 DEF Without
    <3> QED
      BY <2>1, <2>3, <3>1, <3>2, <3>3
  <2> QED
    BY <2>8, <2>9
<1> HIDE DEF Good, F, M
<1>6. p[n] \in Good[n] /\ n \in 0 .. n
  <2> HIDE DEF n
  <2>1. n \in Nat /\ n \in 0 .. n
    BY <1>1
  <2>2. \A k \in 1 .. n : p[k - 1] \in Good[k - 1] => p[k] \in Good[k]
    BY <1>5
  <2>3. \A k \in 0 .. n : p[k] \in Good[k]
    BY <1>4, <2>1, <2>2, Through
  <2> QED
    BY <2>1, <2>3
<1>7. /\ HashOK(p[n][1], m) /\ HashMap(p[n][1]) = Without(M, F(n))
      /\ p[n][2] = Cardinality(F(n) \cap DOMAIN M)
  BY <1>6, GoodHash DEF Good
<1>8. F(n) = ToSet(s)
  BY <1>1 DEF ToSet, F
<1> QED
  BY <1>2, <1>7, <1>8 DEF M


-----------------------------------------------------------------------------
(* What a key holds: nothing, a string, or a hash or a set that is sound   *)
(* and not empty.                                                          *)

ValOK(v, m) ==
  \/ v = None \/ v = String
  \/ \E h : v = Hash(h) /\ HashOK(h, m) /\ hashTypeLength(h) > 0
  \/ \E s : v = Set(s) /\ SetOK(s) /\ setTypeSize(s) > 0

AggInv == max \in ZiplistLimits /\ ValOK(val, max)

LEMMA MeaningHash ==
  ASSUME NEW m, NEW h, HashOK(h, m)
  PROVE  /\ Hash(h).type = "hash" /\ Hash(h).obj = h
         /\ Meaning(Hash(h)) = [type |-> "hash", map |-> HashMap(h)]
         /\ hashTypeLength(h) > 0 <=> DOMAIN HashMap(h) # {}
         /\ hashTypeLength(h) = Cardinality(DOMAIN HashMap(h)) /\ hashTypeLength(h) \in Nat
<1>1. Hash(h).type = "hash" /\ Hash(h).obj = h
  BY DEF Hash
<1>2. Meaning(Hash(h)) = [type |-> "hash", map |-> HashMap(h)]
  BY <1>1 DEF Meaning, HashMap
<1> DEFINE D == DOMAIN HashMap(h)
<1>3. hashTypeLength(h) = Cardinality(D) /\ IsFiniteSet(D) /\ hashTypeLength(h) \in Nat
  BY HashIs DEF Views, FinMap
<1> HIDE DEF D
<1>4. Cardinality(D) = 0 <=> D = {}
  BY <1>3, FS_EmptySet
<1>5. hashTypeLength(h) > 0 <=> D # {}
  BY <1>3, <1>4
<1> QED
  BY <1>1, <1>2, <1>3, <1>5 DEF D

LEMMA MeaningSet ==
  ASSUME NEW s, SetOK(s)
  PROVE  /\ Set(s).type = "set" /\ Set(s).obj = s
         /\ Meaning(Set(s)) = [type |-> "set", set |-> setTypeMembers(s)]
         /\ setTypeSize(s) > 0 <=> setTypeMembers(s) # {}
         /\ setTypeSize(s) = Cardinality(setTypeMembers(s)) /\ setTypeSize(s) \in Nat
<1>1. Set(s).type = "set" /\ Set(s).obj = s
  BY DEF Set
<1>2. Meaning(Set(s)) = [type |-> "set", set |-> setTypeMembers(s)]
  BY <1>1 DEF Meaning
<1> DEFINE D == setTypeMembers(s)
<1>3. setTypeSize(s) = Cardinality(D) /\ IsFiniteSet(D) /\ setTypeSize(s) \in Nat
  BY MembersAre
<1> HIDE DEF D
<1>4. Cardinality(D) = 0 <=> D = {}
  BY <1>3, FS_EmptySet
<1>5. setTypeSize(s) > 0 <=> D # {}
  BY <1>3, <1>4
<1> QED
  BY <1>1, <1>2, <1>3, <1>5 DEF D

LEMMA MeaningPlain ==
  /\ None.type = "none" /\ Meaning(None) = None
  /\ String.type = "string" /\ Meaning(String) = String
  BY DEF None, String, Meaning

\* The four kinds of value.
LEMMA Kinds ==
  ASSUME NEW m, NEW v, ValOK(v, m)
  PROVE  /\ v.type \in {"none", "string", "hash", "set"} /\ Meaning(v).type = v.type
         /\ v.type = "none" => v = None /\ Meaning(v) = None
         /\ v.type = "string" => v = String /\ Meaning(v) = String
         /\ v.type = "hash" => /\ v = Hash(v.obj) /\ HashOK(v.obj, m) /\ hashTypeLength(v.obj) > 0
                               /\ Meaning(v).map = HashMap(v.obj)
         /\ v.type = "set" => /\ v = Set(v.obj) /\ SetOK(v.obj) /\ setTypeSize(v.obj) > 0
                              /\ Meaning(v).set = setTypeMembers(v.obj)
<1>1. CASE v = None \/ v = String
  BY <1>1, MeaningPlain
<1>2. ASSUME NEW h, v = Hash(h), HashOK(h, m), hashTypeLength(h) > 0
      PROVE  /\ v.type = "hash" /\ v = Hash(v.obj) /\ HashOK(v.obj, m)
             /\ hashTypeLength(v.obj) > 0 /\ Meaning(v).type = "hash"
             /\ Meaning(v).map = HashMap(v.obj)
  BY <1>2, MeaningHash
<1>3. ASSUME NEW s, v = Set(s), SetOK(s), setTypeSize(s) > 0
      PROVE  /\ v.type = "set" /\ v = Set(v.obj) /\ SetOK(v.obj)
             /\ setTypeSize(v.obj) > 0 /\ Meaning(v).type = "set"
             /\ Meaning(v).set = setTypeMembers(v.obj)
  BY <1>3, MeaningSet
<1> QED
  BY <1>1, <1>2, <1>3 DEF ValOK

\* What a write makes of the key, in both views.
LEMMA NewHash ==
  ASSUME NEW m, NEW h, HashOK(h, m), DOMAIN HashMap(h) # {}
  PROVE  ValOK(Hash(h), m) /\ Meaning(Hash(h)) = C!Hash(HashMap(h))
<1>1. hashTypeLength(h) > 0 /\ Meaning(Hash(h)) = [type |-> "hash", map |-> HashMap(h)]
  BY MeaningHash
<1> QED
  BY <1>1 DEF ValOK, C!Hash

LEMMA NewSet ==
  ASSUME NEW m, NEW s, SetOK(s), setTypeMembers(s) # {}
  PROVE  ValOK(Set(s), m) /\ Meaning(Set(s)) = C!Set(setTypeMembers(s))
<1>1. setTypeSize(s) > 0 /\ Meaning(Set(s)) = [type |-> "set", set |-> setTypeMembers(s)]
  BY MeaningSet
<1> QED
  BY <1>1 DEF ValOK, C!Set

LEMMA NoValueLeft ==
  /\ \A m : ValOK(None, m)
  /\ \A M : DOMAIN M = {} => Meaning(None) = C!Hash(M)
  /\ Meaning(None) = C!Set({})
  BY MeaningPlain DEF ValOK, None, C!Hash, C!Set, C!None

\* The object a write starts from.
LEMMA StartHash ==
  ASSUME AggInv, HashOrNothing
  PROVE  max \in Nat /\ HashOK(HashObj, max) /\ C!HashOf = HashMap(HashObj)
<1>1. max \in Nat /\ ValOK(val, max)
  BY AggregatesAssumption DEF AggInv
<1>2. CASE val.type = "hash"
  BY <1>1, <1>2, Kinds DEF HashObj, C!HashOf
<1>3. CASE val.type = "none"
  <2>1. HashObj = createHashObject
    BY <1>3 DEF HashObj
  <2>2. C!HashOf = <<>>
    BY <1>1, <1>3, Kinds DEF C!HashOf
  <2> DEFINE M == HashMap(createHashObject)
  <2>3. HashOK(createHashObject, max) /\ DOMAIN M = {}
    BY <1>1, EmptyHash
  <2>4. M = [f \in DOMAIN M |-> M[f]]
    BY <2>3, HashIs DEF FinMap
  <2> HIDE DEF M
  <2>5. M = <<>>
    BY <2>3, <2>4
  <2> QED
    BY <1>1, <2>1, <2>2, <2>3, <2>5 DEF M
<1> QED
  BY <1>2, <1>3 DEF HashOrNothing


-----------------------------------------------------------------------------
(* Each command keeps the invariant and does what Collections says.        *)

LEMMA Same ==
  ASSUME AggInv, UNCHANGED <<val, max>>
  PROVE  AggInv' /\ UNCHANGED Meaning(val)
  BY DEF AggInv

LEMMA WriteHash ==
  ASSUME AggInv, HashOrNothing, NEW cmd, NEW args, NEW g, HashOK(g, max),
         DOMAIN HashMap(g) # {}, val' = Hash(g), Answer(cmd, args, "OK", NoValue)
  PROVE  AggInv' /\ C!Write(cmd, args, "hash", C!Hash(HashMap(g)))
<1>1. ValOK(Hash(g), max) /\ Meaning(Hash(g)) = C!Hash(HashMap(g))
  BY NewHash
<1>2. max' = max /\ call' = <<cmd, args>> /\ reply' = <<"OK", NoValue>>
  BY DEF Answer
<1>3. AggInv'
  BY <1>1, <1>2 DEF AggInv
<1>4. Meaning(val).type \in {"none", "hash"}
  BY Kinds DEF AggInv, HashOrNothing
<1> QED
  BY <1>1, <1>2, <1>3, <1>4 DEF C!Write, C!Call, C!Answer

LEMMA NoWrite ==
  ASSUME AggInv, NEW cmd, NEW args, NEW t, NEW new, val.type \notin {"none", t},
         Refuse(cmd, args, "ERR")
  PROVE  AggInv' /\ C!Write(cmd, args, t, new)
<1>1. val' = val /\ max' = max /\ call' = <<cmd, args>> /\ reply' = <<"ERR", NoValue>>
  BY DEF Refuse, Answer
<1>2. AggInv' /\ Meaning(val') = Meaning(val)
  BY <1>1, Same
<1>3. Meaning(val).type \notin {"none", t}
  BY Kinds DEF AggInv
<1> QED
  BY <1>1, <1>2, <1>3 DEF C!Write, C!Call, C!Answer

LEMMA ReadIs ==
  ASSUME AggInv, NEW cmd, NEW args, NEW t, NEW out, NEW seen,
         val.type = t => out = seen, Read(cmd, args, t, out)
  PROVE  AggInv' /\ C!Read(cmd, args, t, seen)
<1>1. /\ val' = val /\ max' = max /\ call' = <<cmd, args>>
      /\ reply' = IF val.type = t THEN <<"OK", seen>> ELSE <<"KEY_NOT_EXIST", NoValue>>
  BY DEF Read, Refuse, Answer
<1>2. AggInv' /\ Meaning(val') = Meaning(val)
  BY <1>1, Same
<1>3. Meaning(val).type = val.type
  BY Kinds DEF AggInv
<1> QED
  BY <1>1, <1>2, <1>3 DEF C!Read, C!Call, C!Answer

LEMMA HMSetIs ==
  ASSUME AggInv, NEW cmd, NEW args, NEW items \in Seq(Strings \X Strings), items # <<>>,
         HMSet(cmd, args, items)
  PROVE  AggInv' /\ C!Write(cmd, args, "hash", C!Hash(C!WithAll(C!HashOf, items)))
<1> DEFINE strings == FoldLeft(LAMBDA a, fv : a \o fv, <<>>, items)
           all == FoldLeft(SetPair, hashTypeTryConversion(HashObj, strings), items)
<1>1. CASE HashOrNothing
  <2>1. val' = Hash(all) /\ Answer(cmd, args, "OK", NoValue)
    BY <1>1 DEF HMSet
  <2>2. max \in Nat /\ HashOK(HashObj, max) /\ C!HashOf = HashMap(HashObj)
    BY <1>1, StartHash
  <2>3. HashOK(all, max) /\ HashMap(all) = C!WithAll(HashMap(HashObj), items)
    BY <2>2, SetAll
  <2> HIDE DEF all
  <2>4. DOMAIN HashMap(all) # {}
    <3>1. 1 \in DOMAIN items
      OBVIOUS
    <3> QED
      BY <2>3, <3>1, ZenonT(40) DEF C!WithAll
  <2> QED
    BY <1>1, <2>1, <2>2, <2>3, <2>4, WriteHash
<1>2. CASE ~HashOrNothing
  <2>1. Refuse(cmd, args, "ERR") /\ val.type \notin {"none", "hash"}
    BY <1>2 DEF HMSet, HashOrNothing
  <2> QED
    BY <2>1, NoWrite
<1> QED
  BY <1>1, <1>2

LEMMA HSetIs ==
  ASSUME AggInv, NEW fv \in FieldValues, RcHSet(fv)
  PROVE  AggInv' /\ C!HSet(fv)
<1>1. fv \in Strings \X Strings
  BY AggregatesAssumption
<1> DEFINE items == <<fv>>
<1>2. items \in Seq(Strings \X Strings) /\ items # <<>> /\ Len(items) = 1 /\ items[1] = fv
      /\ DOMAIN items = {1}
  BY <1>1
<1>3. HMSet("hset", fv, items)
  BY DEF RcHSet
<1> HIDE DEF items
<1>4. AggInv' /\ C!Write("hset", fv, "hash", C!Hash(C!WithAll(C!HashOf, items)))
  BY <1>2, <1>3, HMSetIs
<1>5. C!WithAll(C!HashOf, items) = C!With(C!HashOf, fv[1], fv[2])
  <2> DEFINE M == C!HashOf
  <2>1. {items[i][1] : i \in DOMAIN items} = {fv[1]}
    BY <1>2
  <2>2. C!LastOf(items, fv[1]) = fv[2]
    <3>1. 1 + 1 .. Len(items) = {}
      BY <1>2
    <3>2. (CHOOSE i \in DOMAIN items : /\ items[i][1] = fv[1]
                                       /\ \A j \in i + 1 .. Len(items) : items[j][1] # fv[1]) = 1
      BY <1>2, <3>1
    <3> QED
      BY <1>2, <3>2 DEF C!LastOf
  <2> HIDE DEF M
  <2>3. C!WithAll(M, items) = C!With(M, fv[1], fv[2])
    BY <2>1, <2>2 DEF C!WithAll, C!With
  <2> QED
    BY <2>3 DEF M
<1> QED
  BY <1>4, <1>5 DEF C!HSet

LEMMA HMSetAllIs ==
  ASSUME AggInv, NEW items \in ItemLists, RcHMSet(items)
  PROVE  AggInv' /\ C!HMSet(items)
<1>1. items \in Seq(FieldValues) /\ items # <<>> /\ FieldValues \subseteq Strings \X Strings
  BY AggregatesAssumption
<1>2. items \in Seq(Strings \X Strings)
  BY <1>1
<1>3. HMSet("hmset", items, items)
  BY DEF RcHMSet
<1> QED
  BY <1>1, <1>2, <1>3, HMSetIs DEF C!HMSet


LEMMA HSetnxIs ==
  ASSUME AggInv, NEW fv \in FieldValues, RcHSetnx(fv)
  PROVE  AggInv' /\ C!HSetnx(fv)
<1> DEFINE f == fv[1]
           v == fv[2]
           h == hashTypeTryConversion(HashObj, fv)
           g == IF hashTypeExists(h, f) THEN h ELSE hashTypeSet(h, f, v, max)
           M == C!HashOf
<1>1. fv \in Strings \X Strings /\ f \in Strings /\ v \in Strings /\ DOMAIN fv = 1 .. 2
  BY AggregatesAssumption, PairIs
<1>2. CASE HashOrNothing
  <2>1. val' = Hash(g) /\ Answer("hsetnx", fv, "OK", NoValue)
    BY <1>2 DEF RcHSetnx
  <2>2. max \in Nat /\ HashOK(HashObj, max) /\ M = HashMap(HashObj)
    BY <1>2, StartHash
  <2> HIDE DEF M
  <2>3. HashOK(h, max) /\ HashMap(h) = M /\ (h.enc = "ht" \/ v \notin Long)
    <3>1. HashOK(h, max) /\ HashMap(h) = M /\ (h.enc = "ht" \/ \A i \in DOMAIN fv : fv[i] \notin Long)
      BY <2>2, TryIs
    <3> QED
      BY <1>1, <3>1
  <2>4. hashTypeExists(h, f) <=> f \in DOMAIN M
    BY <2>3, HashIs
  <2>5. HashOK(g, max) /\ HashMap(g) = IF f \in DOMAIN M THEN M ELSE C!With(M, f, v)
    <3>1. CASE f \in DOMAIN M
      <4> HIDE DEF h, f
      <4> QED
        BY <2>3, <2>4, <3>1
    <3>2. CASE f \notin DOMAIN M
      <4>1. g = hashTypeSet(h, f, v, max)
        BY <2>4, <3>2
      <4> HIDE DEF h, f, v, g
      <4>2. HashOK(g, max) /\ HashMap(g) = With(M, f, v)
        BY <1>1, <2>2, <2>3, <4>1, HashSetIs
      <4> QED
        BY <3>2, <4>2 DEF With, C!With
    <3> QED
      BY <3>1, <3>2
  <2> HIDE DEF g, h
  <2>6. DOMAIN HashMap(g) # {}
    <3>1. f \in DOMAIN HashMap(g)
      BY <2>5 DEF C!With
    <3> QED
      BY <3>1
  <2>7. AggInv' /\ C!Write("hsetnx", fv, "hash", C!Hash(HashMap(g)))
    BY <1>2, <2>1, <2>5, <2>6, WriteHash
  <2> QED
    BY <2>5, <2>7 DEF C!HSetnx, M
<1>3. CASE ~HashOrNothing
  <2>1. Refuse("hsetnx", fv, "ERR") /\ val.type \notin {"none", "hash"}
    BY <1>3 DEF RcHSetnx, HashOrNothing
  <2> QED
    BY <2>1, NoWrite DEF C!HSetnx
<1> QED
  BY <1>2, <1>3

\* Collections counts and compares as the modules here do.
LEMMA Alike ==
  /\ \A S : C!Cardinality(S) = Cardinality(S)
  /\ \A v : C!IsNumber(v) <=> IsNumber(v)
  /\ C!LLMin = LLMin /\ C!Numbers = Numbers
<1>1. \A S : C!Cardinality(S) = Cardinality(S)
  BY DEF C!Cardinality, Cardinality
<1>2. \A v : C!IsNumber(v) <=> IsNumber(v)
  BY DEF C!IsNumber, IsNumber
<1>3. C!LLMin = LLMin /\ C!Numbers = Numbers
  BY DEF C!LLMin, LLMin, C!Numbers, Numbers
<1> QED
  BY <1>1, <1>2, <1>3

LEMMA HDelIs ==
  ASSUME AggInv, NEW fields \in FieldLists, RcHDel(fields)
  PROVE  AggInv' /\ C!HDel(fields)
<1> DEFINE base == <<HashObj, 0>>
           done == FoldLeft(DelField, base, fields)
           g == done[1]
           M == C!HashOf
<1>1. fields \in Seq(Strings)
  BY AggregatesAssumption
<1>2. max \in Nat /\ ValOK(val, max) /\ Meaning(val).type = val.type
  BY AggregatesAssumption, Kinds DEF AggInv
<1>3. CASE val.type = "hash"
  <2>1. HashOK(HashObj, max) /\ M = HashMap(HashObj)
    BY <1>3, StartHash DEF HashOrNothing
  <2>2. /\ val' = IF hashTypeLength(g) = 0 THEN None ELSE Hash(g)
        /\ Answer("hdel", fields, "OK", done[2])
    BY <1>3 DEF RcHDel
  <2>3. /\ HashOK(g, max) /\ HashMap(g) = Without(HashMap(HashObj), ToSet(fields))
        /\ done[2] = Cardinality(ToSet(fields) \cap DOMAIN HashMap(HashObj))
    BY <1>1, <1>2, <2>1, DelAll
  <2> HIDE DEF M, done
  <2>4. C!Listed(fields) = ToSet(fields)
    BY DEF C!Listed, ToSet
  <2>5. HashMap(g) = C!Without(M, C!Listed(fields))
    BY <2>1, <2>3, <2>4 DEF Without, C!Without
  <2> HIDE DEF g
  <2>6. ValOK(val', max) /\ Meaning(val') = C!Hash(HashMap(g))
    <3>1. hashTypeLength(g) > 0 <=> DOMAIN HashMap(g) # {}
      BY <2>3, MeaningHash
    <3>2. hashTypeLength(g) \in Nat
      BY <2>3, HashIs
    <3>3. CASE hashTypeLength(g) = 0
      <4>1. DOMAIN HashMap(g) = {}
        BY <3>1, <3>3
      <4> QED
        BY <2>2, <3>3, <4>1, NoValueLeft
    <3>4. CASE hashTypeLength(g) # 0
      <4>1. DOMAIN HashMap(g) # {}
        BY <3>1, <3>2, <3>4
      <4> QED
        BY <2>2, <2>3, <3>4, <4>1, NewHash
    <3> QED
      BY <3>3, <3>4
  <2>7. max' = max /\ call' = <<"hdel", fields>> /\ reply' = <<"OK", done[2]>>
    BY <2>2 DEF Answer
  <2>8. AggInv'
    BY <2>6, <2>7 DEF AggInv
  <2>9. C!HDel(fields)
    <3>1. done[2] = Cardinality(C!Listed(fields) \cap DOMAIN C!HashOf)
      BY <2>1, <2>3, <2>4 DEF M
    <3>2. Meaning(val') = C!Hash(C!Without(C!HashOf, C!Listed(fields)))
      BY <2>5, <2>6 DEF M
    <3> QED
      BY <1>2, <1>3, <2>7, <3>1, <3>2, Alike DEF C!HDel, C!Call, C!Answer
  <2> QED
    BY <2>8, <2>9
<1>4. CASE val.type # "hash"
  <2>1. Refuse("hdel", fields, "KEY_NOT_EXIST")
    BY <1>4 DEF RcHDel
  <2>2. val' = val /\ max' = max /\ call' = <<"hdel", fields>>
        /\ reply' = <<"KEY_NOT_EXIST", NoValue>>
    BY <2>1 DEF Refuse, Answer
  <2>3. AggInv' /\ Meaning(val') = Meaning(val)
    BY <2>2, Same
  <2> QED
    BY <1>2, <1>4, <2>2, <2>3 DEF C!HDel, C!Call, C!Answer
<1> QED
  BY <1>3, <1>4

\* The number or text an increment starts from.
LEMMA StoredIs ==
  ASSUME AggInv, HashOrNothing, NEW f
  PROVE  /\ StoredOr0(f) = IF f \in DOMAIN C!HashOf THEN C!HashOf[f] ELSE <<"num", 0>>
         /\ StoredOr0(f) \in Strings
<1> DEFINE h == HashObj
           M == C!HashOf
<1>1. max \in Nat /\ HashOK(h, max) /\ M = HashMap(h)
  BY StartHash
<1> HIDE DEF h, M
<1>2. FinMap(M) /\ Views(h, M) /\ (hashTypeExists(h, f) <=> f \in DOMAIN M)
  BY <1>1, HashIs
<1>3. f \in DOMAIN M => hashTypeGetValue(h, f) = M[f] /\ M[f] \in Strings
  BY <1>2 DEF Views, FinMap
<1>4. <<"num", 0>> \in Strings
  BY ValuesAssumption DEF Strings, Numbers, LLMin
<1> QED
  BY <1>2, <1>3, <1>4 DEF StoredOr0, h, M

\* A write of one short value.
LEMMA SetOneIs ==
  ASSUME AggInv, HashOrNothing, NEW f \in Strings, NEW v \in Strings \ Long
  PROVE  LET g == hashTypeSet(HashObj, f, v, max) IN
         /\ ValOK(Hash(g), max)
         /\ Meaning(Hash(g)) = C!Hash(C!With(C!HashOf, f, v))
<1> DEFINE g == hashTypeSet(HashObj, f, v, max)
           M == C!HashOf
<1>1. max \in Nat /\ HashOK(HashObj, max) /\ M = HashMap(HashObj)
  BY StartHash
<1> HIDE DEF M
<1>2. HashOK(g, max) /\ HashMap(g) = With(M, f, v)
  BY <1>1, HashSetIs
<1> HIDE DEF g
<1>3. f \in DOMAIN HashMap(g) /\ HashMap(g) = C!With(M, f, v)
  BY <1>2 DEF With, C!With
<1>4. ValOK(Hash(g), max) /\ Meaning(Hash(g)) = C!Hash(HashMap(g))
  BY <1>2, <1>3, NewHash
<1> QED
  BY <1>3, <1>4 DEF g, M

LEMMA FieldsIs == Fields \subseteq Strings
<1>1. \A fv \in FieldValues : fv[1] \in Strings
  BY AggregatesAssumption
<1> QED
  BY <1>1 DEF Fields


\* The two tests for overflow are exact: with them the sum is a long long.
LEMMA SumIs ==
  ASSUME NEW old \in Longs, NEW n \in Longs
  PROVE  \/ n < 0 /\ old < 0 /\ n < LLMin - old
         \/ n > 0 /\ old > 0 /\ n > LLMax - old
         <=> old + n \notin LLMin .. LLMax
<1>1. LLMax \in Nat /\ LLMin = -LLMax - 1
  BY ValuesAssumption DEF LLMin
<1> QED
  BY <1>1 DEF Longs

LEMMA HIncrbyIs ==
  ASSUME AggInv, NEW f \in Fields, NEW n \in Increments, RcHIncrby(f, n)
  PROVE  AggInv' /\ C!HIncrby(f, n)
<1> DEFINE s == StoredOr0(f)
           old == s[2]
           overflow == \/ n < 0 /\ old < 0 /\ n < LLMin - old
                       \/ n > 0 /\ old > 0 /\ n > LLMax - old
           v == <<"num", old + n>>
           now == IF f \in DOMAIN C!HashOf THEN C!HashOf[f] ELSE <<"num", 0>>
<1>1. f \in Strings /\ n \in Longs
  BY AggregatesAssumption, FieldsIs DEF Longs
<1>2. Meaning(val).type = val.type /\ max \in ZiplistLimits
  BY Kinds DEF AggInv
<1>3. RcHIncrby(f, n) <=>
        IF ~HashOrNothing \/ ~IsNumber(s) THEN Refuse("hincrby", <<f, n>>, "ERR")
        ELSE IF overflow THEN Refuse("hincrby", <<f, n>>, "OVERFLOW")
        ELSE /\ val' = Hash(hashTypeSet(HashObj, f, v, max))
             /\ Answer("hincrby", <<f, n>>, "OK", old + n)
  BY DEF RcHIncrby
<1>4. C!HIncrby(f, n) <=>
        /\ call' = <<"hincrby", <<f, n>>>>
        /\ IF Meaning(val).type \notin {"none", "hash"} \/ ~IsNumber(now)
           THEN Meaning(val') = Meaning(val) /\ reply' = <<"ERR", NoValue>>
           ELSE IF now[2] + n \notin LLMin .. LLMax
           THEN Meaning(val') = Meaning(val) /\ reply' = <<"OVERFLOW", NoValue>>
           ELSE /\ Meaning(val') = C!Hash(C!With(C!HashOf, f, <<"num", now[2] + n>>))
                /\ reply' = <<"OK", now[2] + n>>
  BY Alike DEF C!HIncrby, C!Call, C!Answer
<1>5. HashOrNothing => s = now /\ s \in Strings
  BY StoredIs
<1> HIDE DEF now, s
<1>6. CASE ~HashOrNothing \/ ~IsNumber(s)
  <2>1. Refuse("hincrby", <<f, n>>, "ERR")
    BY <1>3, <1>6
  <2>2. val' = val /\ max' = max /\ call' = <<"hincrby", <<f, n>>>> /\ reply' = <<"ERR", NoValue>>
    BY <2>1 DEF Refuse, Answer
  <2>3. AggInv' /\ Meaning(val') = Meaning(val)
    BY <2>2, Same
  <2>4. Meaning(val).type \notin {"none", "hash"} \/ ~IsNumber(now)
    BY <1>2, <1>5, <1>6 DEF HashOrNothing
  <2> QED
    BY <1>4, <2>2, <2>3, <2>4
<1>7. CASE HashOrNothing /\ IsNumber(s)
  <2>1. s = now /\ old \in Longs /\ Meaning(val).type \in {"none", "hash"}
    BY <1>2, <1>5, <1>7, NumbersAre DEF HashOrNothing
  <2> HIDE DEF overflow
  <2>2. overflow <=> old + n \notin LLMin .. LLMax
    BY <1>1, <2>1, SumIs DEF overflow
  <2>3. CASE overflow
    <3>1. Refuse("hincrby", <<f, n>>, "OVERFLOW")
      BY <1>3, <1>7, <2>3
    <3>2. val' = val /\ max' = max /\ call' = <<"hincrby", <<f, n>>>>
          /\ reply' = <<"OVERFLOW", NoValue>>
      BY <3>1 DEF Refuse, Answer
    <3>3. AggInv' /\ Meaning(val') = Meaning(val)
      BY <3>2, Same
    <3> QED
      BY <1>4, <1>7, <2>1, <2>2, <2>3, <3>2, <3>3
  <2>4. CASE ~overflow
    <3>1. /\ val' = Hash(hashTypeSet(HashObj, f, v, max))
          /\ Answer("hincrby", <<f, n>>, "OK", old + n)
      BY <1>3, <1>7, <2>4
    <3>2. v \in Strings \ Long
      <4>1. v \in Numbers
        BY <2>2, <2>4, NumbersAre DEF Longs
      <4> QED
        BY <4>1, NumbersAre, HashTypeAssumption
    <3> HIDE DEF v
    <3>3. /\ ValOK(val', max)
          /\ Meaning(val') = C!Hash(C!With(C!HashOf, f, v))
      BY <1>1, <1>7, <3>1, <3>2, SetOneIs
    <3>4. max' = max /\ call' = <<"hincrby", <<f, n>>>> /\ reply' = <<"OK", old + n>>
      BY <3>1 DEF Answer
    <3>5. AggInv'
      BY <1>2, <3>3, <3>4 DEF AggInv
    <3>6. old = now[2] /\ v = <<"num", now[2] + n>> /\ IsNumber(now)
      BY <1>7, <2>1 DEF v
    <3> QED
      BY <1>4, <2>1, <2>2, <2>4, <3>3, <3>4, <3>5, <3>6
  <2> QED
    BY <2>3, <2>4
<1> QED
  BY <1>6, <1>7

LEMMA HIncrbyfloatIs ==
  ASSUME AggInv, NEW f \in Fields, NEW n \in Increments, RcHIncrbyfloat(f, n)
  PROVE  AggInv' /\ C!HIncrbyfloat(f, n)
<1> DEFINE old == StoredOr0(f)
           Sums(x) == IF IsNumber(x) THEN {<<"num", x[2] + n>>} \cap Numbers ELSE FloatTexts
           now == IF f \in DOMAIN C!HashOf THEN C!HashOf[f] ELSE <<"num", 0>>
<1>1. f \in Strings
  BY FieldsIs
<1>2. Meaning(val).type = val.type /\ max \in ZiplistLimits
  BY Kinds DEF AggInv
<1>3. RcHIncrbyfloat(f, n) <=>
        IF ~HashOrNothing \/ old \notin Numbers \cup FloatTexts
        THEN Refuse("hincrbyfloat", <<f, n>>, "ERR")
        ELSE \E sum \in Sums(old) :
               /\ val' = Hash(hashTypeSet(HashObj, f, sum, max))
               /\ Answer("hincrbyfloat", <<f, n>>, "OK", sum)
  BY DEF RcHIncrbyfloat
<1>4. C!HIncrbyfloat(f, n) <=>
        /\ call' = <<"hincrbyfloat", <<f, n>>>>
        /\ IF Meaning(val).type \notin {"none", "hash"} \/ now \notin Numbers \cup FloatTexts
           THEN Meaning(val') = Meaning(val) /\ reply' = <<"ERR", NoValue>>
           ELSE \E sum \in Sums(now) : /\ Meaning(val') = C!Hash(C!With(C!HashOf, f, sum))
                                       /\ reply' = <<"OK", sum>>
  BY Alike DEF C!HIncrbyfloat, C!Call, C!Answer
<1>5. HashOrNothing => old = now
  BY StoredIs
<1>6. \A x : Sums(x) \subseteq Strings \ Long
  BY NumbersAre, AggregatesAssumption, HashTypeAssumption
<1> HIDE DEF now, old, Sums
<1>7. CASE ~HashOrNothing \/ old \notin Numbers \cup FloatTexts
  <2>1. Refuse("hincrbyfloat", <<f, n>>, "ERR")
    BY <1>3, <1>7
  <2>2. val' = val /\ max' = max /\ call' = <<"hincrbyfloat", <<f, n>>>> /\ reply' = <<"ERR", NoValue>>
    BY <2>1 DEF Refuse, Answer
  <2>3. AggInv' /\ Meaning(val') = Meaning(val)
    BY <2>2, Same
  <2>4. Meaning(val).type \notin {"none", "hash"} \/ now \notin Numbers \cup FloatTexts
    BY <1>2, <1>5, <1>7 DEF HashOrNothing
  <2> QED
    BY <1>4, <2>2, <2>3, <2>4
<1>8. CASE HashOrNothing /\ old \in Numbers \cup FloatTexts
  <2>1. PICK sum \in Sums(old) : /\ val' = Hash(hashTypeSet(HashObj, f, sum, max))
                                 /\ Answer("hincrbyfloat", <<f, n>>, "OK", sum)
    BY <1>3, <1>8
  <2>2. sum \in Strings \ Long
    BY <1>6
  <2>3. ValOK(val', max) /\ Meaning(val') = C!Hash(C!With(C!HashOf, f, sum))
    BY <1>1, <1>8, <2>1, <2>2, SetOneIs
  <2>4. max' = max /\ call' = <<"hincrbyfloat", <<f, n>>>> /\ reply' = <<"OK", sum>>
    BY <2>1 DEF Answer
  <2>5. AggInv'
    BY <1>2, <2>3, <2>4 DEF AggInv
  <2>6. old = now /\ Meaning(val).type \in {"none", "hash"}
    BY <1>2, <1>5, <1>8 DEF HashOrNothing
  <2> QED
    BY <1>4, <1>8, <2>3, <2>4, <2>5, <2>6
<1> QED
  BY <1>7, <1>8


\* What the read commands see of a hash.
LEMMA HashSeen ==
  ASSUME AggInv, val.type = "hash"
  PROVE  /\ FinMap(C!HashOf)
         /\ hashTypePairs(HashObj) = {<<f, C!HashOf[f]>> : f \in DOMAIN C!HashOf}
         /\ \A f : hashTypeGetValue(HashObj, f) = C!Lookup(C!HashOf, f)
         /\ \A f : hashTypeExists(HashObj, f) <=> f \in DOMAIN C!HashOf
         /\ hashTypeLength(HashObj) = Cardinality(DOMAIN C!HashOf)
<1> DEFINE h == HashObj
           M == C!HashOf
<1>1. max \in Nat /\ HashOK(h, max) /\ M = HashMap(h)
  BY StartHash DEF HashOrNothing
<1> HIDE DEF h, M
<1>2. FinMap(M) /\ Views(h, M) /\ \A f : hashTypeExists(h, f) <=> f \in DOMAIN M
  BY <1>1, HashIs
<1>3. \A f : hashTypeGetValue(h, f) = C!Lookup(M, f)
  BY <1>2 DEF Views, C!Lookup
<1> QED
  BY <1>2, <1>3 DEF Views, h, M

LEMMA HMGetIs ==
  ASSUME AggInv, NEW fields \in FieldLists, RcHMGet(fields)
  PROVE  AggInv' /\ C!HMGet(fields)
<1> DEFINE out == [i \in DOMAIN fields |-> hashTypeGetValue(HashObj, fields[i])]
           seen == [i \in DOMAIN fields |-> C!Lookup(C!HashOf, fields[i])]
<1>1. val.type = "hash" => out = seen
  BY HashSeen
<1>2. Read("hmget", fields, "hash", out)
  BY DEF RcHMGet
<1> HIDE DEF out, seen
<1>3. AggInv' /\ C!Read("hmget", fields, "hash", seen)
  BY <1>1, <1>2, ReadIs
<1> QED
  BY <1>3 DEF C!HMGet, seen

LEMMA HGetAllIs ==
  ASSUME AggInv, RcHGetAll
  PROVE  AggInv' /\ C!HGetAll
<1> DEFINE out == hashTypePairs(HashObj)
           seen == {<<f, C!HashOf[f]>> : f \in DOMAIN C!HashOf}
<1>1. val.type = "hash" => out = seen
  BY HashSeen
<1>2. Read("hgetall", <<>>, "hash", out)
  BY DEF RcHGetAll
<1> HIDE DEF out, seen
<1>3. AggInv' /\ C!Read("hgetall", <<>>, "hash", seen)
  BY <1>1, <1>2, ReadIs
<1> QED
  BY <1>3 DEF C!HGetAll, seen

PairsWith(pairs, v) == {p \in pairs : p[2] = v}

Holding(M, v) == {f \in DOMAIN M : M[f] = v}

PairsIn(M) == {<<f, M[f]>> : f \in DOMAIN M}

Firsts(pairs) == {p[1] : p \in pairs}

Seconds(pairs) == {p[2] : p \in pairs}

LEMMA PairsOf ==
  ASSUME NEW M, FinMap(M), NEW pairs, pairs = PairsIn(M)
  PROVE  /\ Firsts(pairs) = DOMAIN M
         /\ Seconds(pairs) = {M[f] : f \in DOMAIN M}
         /\ \A v : Cardinality(PairsWith(pairs, v)) = Cardinality(Holding(M, v))
<1> USE DEF PairsIn
<1>1. \A f \in DOMAIN M : <<f, M[f]>> \in pairs /\ <<f, M[f]>>[1] = f /\ <<f, M[f]>>[2] = M[f]
  OBVIOUS
<1>2. \A p \in pairs : p = <<p[1], M[p[1]]>> /\ p[1] \in DOMAIN M /\ p[2] = M[p[1]]
  OBVIOUS
<1> HIDE DEF PairsIn
<1>3. Firsts(pairs) = DOMAIN M
  <2>1. ASSUME NEW f \in DOMAIN M PROVE f \in Firsts(pairs)
    BY <1>1 DEF Firsts
  <2>2. ASSUME NEW p \in pairs PROVE p[1] \in DOMAIN M
    BY <1>2
  <2> QED
    BY <2>1, <2>2 DEF Firsts
<1>4. Seconds(pairs) = {M[f] : f \in DOMAIN M}
  <2>1. ASSUME NEW f \in DOMAIN M PROVE M[f] \in Seconds(pairs)
    BY <1>1 DEF Seconds
  <2>2. ASSUME NEW p \in pairs PROVE p[2] \in {M[f] : f \in DOMAIN M}
    BY <1>2
  <2> QED
    BY <2>1, <2>2 DEF Seconds
<1>5. ASSUME NEW v
      PROVE  Cardinality(PairsWith(pairs, v)) = Cardinality(Holding(M, v))
  <2> DEFINE A == {f \in DOMAIN M : M[f] = v}
             B == {p \in pairs : p[2] = v}
             g == [f \in A |-> <<f, M[f]>>]
  <2>1. \A f \in A : <<f, M[f]>> \in B
    BY <1>1
  <2>2. g \in [A -> B]
    BY <2>1
  <2>3. \A f1, f2 \in A : g[f1] = g[f2] => f1 = f2
    OBVIOUS
  <2>4. ASSUME NEW p \in B PROVE \E f \in A : g[f] = p
    <3>1. p[1] \in A /\ p = <<p[1], M[p[1]]>>
      BY <1>2
    <3> QED
      BY <3>1
  <2>5. IsFiniteSet(A)
    BY FS_Subset DEF FinMap
  <2> HIDE DEF A, B, g
  <2>6. g \in Bijection(A, B)
    BY <2>2, <2>3, <2>4 DEF Bijection, Injection, Surjection, IsInjective
  <2>7. ExistsBijection(A, B)
    BY <2>6 DEF ExistsBijection
  <2> QED
    BY <2>5, <2>7, FS_Bijection DEF A, B, PairsWith, Holding
<1> QED
  BY <1>3, <1>4, <1>5

LEMMA HKeysIs ==
  ASSUME AggInv, RcHKeys
  PROVE  AggInv' /\ C!HKeys
<1> DEFINE out == {p[1] : p \in hashTypePairs(HashObj)}
<1>1. val.type = "hash" => out = DOMAIN C!HashOf
  <2>1. val.type = "hash" => FinMap(C!HashOf) /\ hashTypePairs(HashObj) = PairsIn(C!HashOf)
    BY HashSeen DEF PairsIn
  <2>2. val.type = "hash" => Firsts(hashTypePairs(HashObj)) = DOMAIN C!HashOf
    BY <2>1, PairsOf
  <2> QED
    BY <2>2 DEF Firsts
<1>2. Read("hkeys", <<>>, "hash", out)
  BY DEF RcHKeys
<1> HIDE DEF out
<1>3. AggInv' /\ C!Read("hkeys", <<>>, "hash", DOMAIN C!HashOf)
  BY <1>1, <1>2, ReadIs
<1> QED
  BY <1>3 DEF C!HKeys

LEMMA HValsIs ==
  ASSUME AggInv, RcHVals
  PROVE  AggInv' /\ C!HVals
<1> DEFINE pairs == hashTypePairs(HashObj)
           M == C!HashOf
           out == [v \in {p[2] : p \in pairs} |-> Cardinality({p \in pairs : p[2] = v})]
           seen == [v \in {M[f] : f \in DOMAIN M} |->
                      C!Cardinality({f \in DOMAIN M : M[f] = v})]
<1>1. val.type = "hash" => out = seen
  <2>1. SUFFICES ASSUME val.type = "hash" PROVE out = seen
    OBVIOUS
  <2>2. FinMap(M) /\ pairs = PairsIn(M)
    BY <2>1, HashSeen DEF PairsIn
  <2> HIDE DEF pairs, M
  <2>3. /\ Seconds(pairs) = {M[f] : f \in DOMAIN M}
        /\ \A v : Cardinality(PairsWith(pairs, v)) = Cardinality(Holding(M, v))
    BY <2>2, PairsOf
  <2>4. /\ out = [v \in Seconds(pairs) |-> Cardinality(PairsWith(pairs, v))]
        /\ seen = [v \in {M[f] : f \in DOMAIN M} |-> C!Cardinality(Holding(M, v))]
    BY DEF PairsWith, Holding, Seconds
  <2>5. \A v : C!Cardinality(Holding(M, v)) = Cardinality(PairsWith(pairs, v))
    BY <2>3, Alike
  <2> HIDE DEF out, seen
  <2> QED
    BY <2>3, <2>4, <2>5
<1>2. Read("hvals", <<>>, "hash", out)
  BY DEF RcHVals
<1> HIDE DEF out, seen
<1>3. AggInv' /\ C!Read("hvals", <<>>, "hash", seen)
  BY <1>1, <1>2, ReadIs
<1> QED
  BY <1>3 DEF C!HVals, seen

LEMMA HExistsIs ==
  ASSUME AggInv, NEW f, RcHExists(f)
  PROVE  AggInv' /\ C!HExists(f)
<1>1. val.type = "hash" => hashTypeExists(HashObj, f) = (f \in DOMAIN C!HashOf)
  BY HashSeen DEF hashTypeExists
<1>2. Read("hexists", f, "hash", hashTypeExists(HashObj, f))
  BY DEF RcHExists
<1>3. AggInv' /\ C!Read("hexists", f, "hash", f \in DOMAIN C!HashOf)
  BY <1>1, <1>2, ReadIs
<1> QED
  BY <1>3 DEF C!HExists

LEMMA HlenIs ==
  ASSUME AggInv, RcHlen
  PROVE  AggInv' /\ C!Hlen
<1>1. val.type = "hash" => hashTypeLength(HashObj) = C!Cardinality(DOMAIN C!HashOf)
  BY HashSeen, Alike
<1>2. Read("hlen", <<>>, "hash", hashTypeLength(HashObj))
  BY DEF RcHlen
<1>3. AggInv' /\ C!Read("hlen", <<>>, "hash", C!Cardinality(DOMAIN C!HashOf))
  BY <1>1, <1>2, ReadIs
<1> QED
  BY <1>3 DEF C!Hlen



\* What the set commands see of a set.
LEMMA SetSeen ==
  ASSUME AggInv, val.type = "set"
  PROVE  /\ SetOK(SetObj) /\ C!SetOf = setTypeMembers(SetObj)
         /\ C!SetOf \subseteq Strings /\ IsFiniteSet(C!SetOf)
         /\ setTypeSize(SetObj) = Cardinality(C!SetOf) /\ setTypeSize(SetObj) \in Nat
<1>1. SetOK(val.obj) /\ Meaning(val).set = setTypeMembers(val.obj) /\ Meaning(val).type = "set"
  BY Kinds DEF AggInv
<1>2. SetObj = val.obj /\ C!SetOf = setTypeMembers(val.obj)
  BY <1>1 DEF SetObj, C!SetOf
<1> QED
  BY <1>1, <1>2, MembersAre

LEMMA WriteSet ==
  ASSUME AggInv, val.type \in {"none", "set"}, NEW cmd, NEW args, NEW s, SetOK(s),
         setTypeMembers(s) # {}, val' = Set(s), Answer(cmd, args, "OK", NoValue)
  PROVE  AggInv' /\ C!Write(cmd, args, "set", C!Set(setTypeMembers(s)))
<1>1. ValOK(Set(s), max) /\ Meaning(Set(s)) = C!Set(setTypeMembers(s))
  BY NewSet
<1>2. max' = max /\ call' = <<cmd, args>> /\ reply' = <<"OK", NoValue>>
  BY DEF Answer
<1>3. AggInv'
  BY <1>1, <1>2 DEF AggInv
<1>4. Meaning(val).type \in {"none", "set"}
  BY Kinds DEF AggInv
<1> QED
  BY <1>1, <1>2, <1>3, <1>4 DEF C!Write, C!Call, C!Answer

LEMMA ListedIs ==
  ASSUME NEW members \in MemberLists
  PROVE  /\ members \in Seq(Strings) /\ members[1] \in Strings
         /\ C!Listed(members) = ToSet(members) /\ members[1] \in ToSet(members)
<1>1. members \in Seq(Strings) /\ members # <<>>
  BY AggregatesAssumption
<1>2. 1 \in DOMAIN members /\ members[1] \in Strings
  BY <1>1
<1> QED
  BY <1>1, <1>2 DEF C!Listed, ToSet

LEMMA SAddIs ==
  ASSUME AggInv, NEW members \in MemberLists, RcSAdd(members)
  PROVE  AggInv' /\ C!SAdd(members)
<1> DEFINE old == IF val.type = "set" THEN val.obj ELSE setTypeCreate(members[1])
           all == FoldLeft(setTypeAdd, old, members)
<1>1. /\ members \in Seq(Strings) /\ members[1] \in Strings
      /\ C!Listed(members) = ToSet(members) /\ members[1] \in ToSet(members)
  BY ListedIs
<1>2. CASE val.type \in {"none", "set"}
  <2>1. val' = Set(all) /\ Answer("sadd", members, "OK", NoValue)
    BY <1>2 DEF RcSAdd
  <2>2. SetOK(old) /\ setTypeMembers(old) = C!SetOf
    <3>1. CASE val.type = "set"
      <4>1. old = SetObj
        BY <3>1 DEF SetObj
      <4> QED
        BY <3>1, <4>1, SetSeen
    <3>2. CASE val.type = "none"
      <4>1. old = setTypeCreate(members[1]) /\ Meaning(val).type = "none"
        BY <3>2, Kinds DEF AggInv
      <4>2. C!SetOf = {}
        BY <4>1 DEF C!SetOf
      <4> HIDE DEF old
      <4> QED
        BY <1>1, <4>1, <4>2, CreateIs
    <3> QED
      BY <1>2, <3>1, <3>2
  <2> HIDE DEF old
  <2>3. SetOK(all) /\ setTypeMembers(all) = setTypeMembers(old) \cup ToSet(members)
    BY <1>1, <2>2, AddAll
  <2> HIDE DEF all
  <2>4. setTypeMembers(all) # {} /\ setTypeMembers(all) = C!SetOf \cup C!Listed(members)
    BY <1>1, <2>2, <2>3
  <2>5. AggInv' /\ C!Write("sadd", members, "set", C!Set(setTypeMembers(all)))
    BY <1>2, <2>1, <2>3, <2>4, WriteSet
  <2> QED
    BY <2>4, <2>5 DEF C!SAdd
<1>3. CASE val.type \notin {"none", "set"}
  <2>1. Refuse("sadd", members, "ERR")
    BY <1>3 DEF RcSAdd
  <2> QED
    BY <1>3, <2>1, NoWrite DEF C!SAdd
<1> QED
  BY <1>2, <1>3

LEMMA SRemIs ==
  ASSUME AggInv, NEW members \in MemberLists, RcSRem(members)
  PROVE  AggInv' /\ C!SRem(members)
<1> DEFINE left == FoldLeft(setTypeRemove, SetObj, members)
           S == setTypeMembers(left)
<1>1. members \in Seq(Strings) /\ C!Listed(members) = ToSet(members)
  BY ListedIs
<1>2. ValOK(val, max) /\ Meaning(val).type = val.type
  BY Kinds DEF AggInv
<1>3. CASE val.type = "set"
  <2>1. /\ val' = IF setTypeSize(left) = 0 THEN None ELSE Set(left)
        /\ max' = max /\ call' = <<"srem", members>> /\ reply' = <<"ERR", NoValue>>
    BY <1>3 DEF RcSRem, Answer
  <2>2. SetOK(SetObj) /\ C!SetOf = setTypeMembers(SetObj)
    BY <1>3, SetSeen
  <2>3. SetOK(left) /\ S = C!SetOf \ C!Listed(members)
    BY <1>1, <2>2, RemoveAll
  <2> HIDE DEF left
  <2>4. (setTypeSize(left) > 0 <=> S # {}) /\ setTypeSize(left) \in Nat
    BY <2>3, MeaningSet
  <2>5. ValOK(val', max) /\ Meaning(val') = C!Set(S)
    <3>1. CASE setTypeSize(left) = 0
      <4>1. S = {} /\ val' = None
        BY <2>1, <2>4, <3>1
      <4> QED
        BY <4>1, NoValueLeft
    <3>2. CASE setTypeSize(left) # 0
      <4>1. S # {} /\ val' = Set(left)
        BY <2>1, <2>4, <3>2
      <4> QED
        BY <2>3, <4>1, NewSet
    <3> QED
      BY <3>1, <3>2
  <2>6. AggInv'
    BY <2>1, <2>5 DEF AggInv
  <2>7. Meaning(val') = C!Set(C!SetOf \ C!Listed(members))
    BY <2>3, <2>5
  <2> QED
    BY <1>2, <1>3, <2>1, <2>6, <2>7 DEF C!SRem, C!Call, C!Answer
<1>4. CASE val.type # "set"
  <2>1. /\ val' = val /\ max' = max /\ call' = <<"srem", members>>
        /\ reply' = <<"KEY_NOT_EXIST", NoValue>>
    BY <1>4 DEF RcSRem, Refuse, Answer
  <2>2. AggInv' /\ Meaning(val') = Meaning(val)
    BY <2>1, Same
  <2> QED
    BY <1>2, <1>4, <2>1, <2>2 DEF C!SRem, C!Call, C!Answer
<1> QED
  BY <1>3, <1>4

LEMMA SCardIs ==
  ASSUME AggInv, RcSCard
  PROVE  AggInv' /\ C!SCard
<1>1. val.type = "set" => setTypeSize(SetObj) = C!Cardinality(C!SetOf)
  BY SetSeen, Alike
<1>2. Read("scard", <<>>, "set", setTypeSize(SetObj))
  BY DEF RcSCard
<1>3. AggInv' /\ C!Read("scard", <<>>, "set", C!Cardinality(C!SetOf))
  BY <1>1, <1>2, ReadIs
<1> QED
  BY <1>3 DEF C!SCard

LEMMA SIsmemberIs ==
  ASSUME AggInv, NEW m \in Strings, RcSIsmember(m)
  PROVE  AggInv' /\ C!SIsmember(m)
<1>1. val.type = "set" => setTypeIsMember(SetObj, m) = (m \in C!SetOf)
  <2>1. SUFFICES ASSUME val.type = "set" PROVE setTypeIsMember(SetObj, m) = (m \in C!SetOf)
    OBVIOUS
  <2>2. setTypeIsMember(SetObj, m) <=> m \in C!SetOf
    BY <2>1, SetSeen, IsMemberIs
  <2> QED
    BY <2>2 DEF setTypeIsMember, intsetFind
<1>2. Read("sismember", m, "set", setTypeIsMember(SetObj, m))
  BY DEF RcSIsmember
<1>3. AggInv' /\ C!Read("sismember", m, "set", m \in C!SetOf)
  BY <1>1, <1>2, ReadIs
<1> QED
  BY <1>3 DEF C!SIsmember

LEMMA SMembersIs ==
  ASSUME AggInv, RcSMembers
  PROVE  AggInv' /\ C!SMembers
<1>1. val.type = "set" => setTypeMembers(SetObj) = C!SetOf
  BY SetSeen
<1>2. Read("smembers", <<>>, "set", setTypeMembers(SetObj))
  BY DEF RcSMembers
<1>3. AggInv' /\ C!Read("smembers", <<>>, "set", C!SetOf)
  BY <1>1, <1>2, ReadIs
<1> QED
  BY <1>3 DEF C!SMembers

LEMMA SRandmemberIs ==
  ASSUME AggInv, NEW n \in Counts, RcSRandmember(n)
  PROVE  AggInv' /\ C!SRandmember(n)
<1> DEFINE size == setTypeSize(SetObj)
           results == IF n < 0 THEN {T \in SUBSET setTypeMembers(SetObj) :
                                       Cardinality(T) \in 1 .. -n}
                      ELSE IF n >= size THEN {setTypeMembers(SetObj)}
                      ELSE RandomMembers(SetObj, n)
<1>1. n \in Int
  BY AggregatesAssumption
<1>2. Meaning(val).type = val.type
  BY Kinds DEF AggInv
<1>3. CASE val.type # "set" \/ n = 0
  <2>1. Read("srandmember", n, "set", NoValue)
    BY <1>3 DEF RcSRandmember
  <2>2. AggInv' /\ C!Read("srandmember", n, "set", NoValue)
    BY <2>1, ReadIs
  <2> QED
    BY <1>2, <1>3, <2>2 DEF C!SRandmember
<1>4. CASE val.type = "set" /\ n # 0
  <2>1. PICK T \in results : Read("srandmember", n, "set", T)
    BY <1>4 DEF RcSRandmember
  <2>2. C!SetOf = setTypeMembers(SetObj) /\ size = Cardinality(C!SetOf) /\ size \in Nat
    BY <1>4, SetSeen
  <2>3. AggInv' /\ C!Read("srandmember", n, "set", T)
    <3> HIDE DEF results
    <3> QED
      BY <2>1, ReadIs
  <2>4. /\ T \in SUBSET C!SetOf
        /\ IF n > 0 THEN Cardinality(T) = (IF n < Cardinality(C!SetOf) THEN n
                                           ELSE Cardinality(C!SetOf))
           ELSE Cardinality(T) \in 1 .. -n
    <3> DEFINE members == setTypeMembers(SetObj)
    <3>1. CASE n < 0
      <4>1. T \in {U \in SUBSET members : Cardinality(U) \in 1 .. -n}
        BY <2>1, <3>1
      <4> QED
        BY <1>1, <2>2, <3>1, <4>1
    <3>2. CASE n > 0 /\ n >= size
      <4>1. T = members /\ ~(n < size)
        BY <1>1, <2>1, <2>2, <3>2
      <4> QED
        BY <2>2, <3>2, <4>1
    <3>3. CASE n > 0 /\ n < size
      <4>1. T \in RandomMembers(SetObj, n)
        BY <1>1, <2>1, <2>2, <3>3
      <4> QED
        BY <2>2, <3>3, <4>1 DEF RandomMembers
    <3> QED
      BY <1>1, <1>4, <2>2, <3>1, <3>2, <3>3
  <2>5. IF n > 0 THEN C!Cardinality(T) = (IF n < C!Cardinality(C!SetOf) THEN n
                                          ELSE C!Cardinality(C!SetOf))
        ELSE C!Cardinality(T) \in 1 .. -n
    BY <2>4, Alike
  <2> HIDE DEF results
  <2> QED
    BY <1>2, <1>4, <2>3, <2>4, <2>5 DEF C!SRandmember
<1> QED
  BY <1>3, <1>4

\* What other commands do to the key.
LEMMA VanishIs ==
  ASSUME AggInv, Vanish
  PROVE  AggInv' /\ C!Other
<1>1. val' = None /\ UNCHANGED <<max, call, reply>>
  BY DEF Vanish
<1>2. AggInv'
  BY <1>1, NoValueLeft DEF AggInv
<1>3. Meaning(val') = C!None
  BY <1>1, MeaningPlain DEF None, C!None
<1> QED
  BY <1>1, <1>2, <1>3 DEF C!Other

LEMMA BecomeIs ==
  ASSUME AggInv, Become
  PROVE  AggInv' /\ C!Other
<1>1. val' = String /\ UNCHANGED <<max, call, reply>>
  BY DEF Become
<1>2. AggInv'
  BY <1>1 DEF AggInv, ValOK
<1>3. Meaning(val') = C!String
  BY <1>1, MeaningPlain DEF String, C!String
<1> QED
  BY <1>1, <1>2, <1>3 DEF C!Other



-----------------------------------------------------------------------------
(* The steps together.                                                     *)

LEMMA StartsEmpty == Init => AggInv /\ C!Init
<1> SUFFICES ASSUME Init PROVE AggInv /\ C!Init
  OBVIOUS
<1>1. val = None /\ max \in ZiplistLimits /\ call = <<"none", <<>>>> /\ reply = <<"OK", NoValue>>
  BY DEF Init
<1>2. AggInv
  BY <1>1 DEF AggInv, ValOK
<1>3. Meaning(val) = C!None
  BY <1>1, MeaningPlain DEF None, C!None
<1> QED
  BY <1>1, <1>2, <1>3 DEF C!Init

LEMMA CommandIs ==
  ASSUME AggInv, Next
  PROVE  AggInv' /\ C!Next
<1>1. ASSUME NEW fv \in FieldValues, RcHSet(fv) \/ RcHSetnx(fv) PROVE AggInv' /\ C!Next
  <2>1. AggInv' /\ (C!HSet(fv) \/ C!HSetnx(fv))
    BY <1>1, HSetIs, HSetnxIs
  <2> QED
    BY <2>1 DEF C!Next
<1>2. ASSUME NEW items \in ItemLists, RcHMSet(items) PROVE AggInv' /\ C!Next
  <2>1. AggInv' /\ C!HMSet(items)
    BY <1>2, HMSetAllIs
  <2> QED
    BY <2>1 DEF C!Next
<1>3. ASSUME NEW fields \in FieldLists, RcHDel(fields) \/ RcHMGet(fields)
      PROVE  AggInv' /\ C!Next
  <2>1. AggInv' /\ (C!HDel(fields) \/ C!HMGet(fields))
    BY <1>3, HDelIs, HMGetIs
  <2> QED
    BY <2>1 DEF C!Next
<1>4. C!Fields = Fields
  BY DEF C!Fields, Fields
<1>5. ASSUME NEW f \in Fields, NEW n \in Increments, RcHIncrby(f, n) \/ RcHIncrbyfloat(f, n)
      PROVE  AggInv' /\ C!Next
  <2>1. AggInv' /\ (C!HIncrby(f, n) \/ C!HIncrbyfloat(f, n))
    BY <1>5, HIncrbyIs, HIncrbyfloatIs
  <2> QED
    BY <1>4, <2>1 DEF C!Next
<1>6. ASSUME NEW f \in Fields, RcHExists(f) PROVE AggInv' /\ C!Next
  <2>1. AggInv' /\ C!HExists(f)
    BY <1>6, HExistsIs
  <2> QED
    BY <1>4, <2>1 DEF C!Next
<1>7. ASSUME NEW members \in MemberLists, RcSAdd(members) \/ RcSRem(members)
      PROVE  AggInv' /\ C!Next
  <2>1. AggInv' /\ (C!SAdd(members) \/ C!SRem(members))
    BY <1>7, SAddIs, SRemIs
  <2> QED
    BY <2>1 DEF C!Next
<1>8. ASSUME NEW members \in MemberLists, RcSIsmember(members[1]) PROVE AggInv' /\ C!Next
  <2>1. AggInv' /\ C!SIsmember(members[1])
    BY <1>8, ListedIs, SIsmemberIs
  <2> QED
    BY <2>1 DEF C!Next
<1>9. ASSUME NEW n \in Counts, RcSRandmember(n) PROVE AggInv' /\ C!Next
  <2>1. AggInv' /\ C!SRandmember(n)
    BY <1>9, SRandmemberIs
  <2> QED
    BY <2>1 DEF C!Next
<1>10. ASSUME RcHGetAll \/ RcHKeys \/ RcHVals \/ RcHlen \/ RcSCard \/ RcSMembers
       PROVE  AggInv' /\ C!Next
  <2>1. AggInv' /\ (C!HGetAll \/ C!HKeys \/ C!HVals \/ C!Hlen \/ C!SCard \/ C!SMembers)
    BY <1>10, HGetAllIs, HKeysIs, HValsIs, HlenIs, SCardIs, SMembersIs
  <2> QED
    BY <2>1 DEF C!Next
<1>11. ASSUME Vanish \/ Become PROVE AggInv' /\ C!Next
  <2>1. AggInv' /\ C!Other
    BY <1>11, VanishIs, BecomeIs
  <2> QED
    BY <2>1 DEF C!Next
<1> QED
  BY <1>1, <1>2, <1>3, <1>5, <1>6, <1>7, <1>8, <1>9, <1>10, <1>11 DEF Next

LEMMA StepIs ==
  ASSUME AggInv, [Next]_vars
  PROVE  AggInv' /\ [C!Next]_(C!cvars)
<1>1. CASE Next
  BY <1>1, CommandIs
<1>2. CASE UNCHANGED vars
  <2>1. UNCHANGED <<val, max, call, reply>>
    BY <1>2 DEF vars
  <2>2. AggInv' /\ UNCHANGED Meaning(val)
    BY <2>1, Same
  <2> QED
    BY <2>1, <2>2 DEF C!cvars
<1> QED
  BY <1>1, <1>2

LEMMA InvariantHolds == Spec => []AggInv
<1>1. Init => AggInv
  BY StartsEmpty
<1>2. AggInv /\ [Next]_vars => AggInv'
  BY StepIs
<1> QED
  BY <1>1, <1>2, PTL DEF Spec

LEMMA InvType == AggInv => TypeOK
<1> SUFFICES ASSUME AggInv PROVE TypeOK
  OBVIOUS
<1>1. max \in ZiplistLimits /\ ValOK(val, max)
  BY DEF AggInv
<1>2. val.type = "hash" => val.obj.enc \in {"ziplist", "ht"} /\ val.obj.zl \in Seq(Strings)
  <2> DEFINE h == val.obj
  <2>1. val.type = "hash" => HashOK(h, max)
    BY <1>1, Kinds
  <2> HIDE DEF h
  <2>2. IsPacked(h, max) => h.enc = "ziplist" /\ h.zl \in Seq(Strings)
    BY HashFields DEF IsPacked, ZlOK
  <2>3. IsTabled(h) => h.enc = "ht" /\ h.zl = <<>>
    BY HashFields DEF IsTabled
  <2>4. <<>> \in Seq(Strings)
    OBVIOUS
  <2>5. HashOK(h, max) => h.enc \in {"ziplist", "ht"} /\ h.zl \in Seq(Strings)
    BY <2>2, <2>3, <2>4 DEF HashOK
  <2> QED
    BY <2>1, <2>5 DEF h
<1>3. val.type = "set" => val.obj.enc \in {"intset", "ht"} /\ val.obj.ht \subseteq Strings
  <2> DEFINE s == val.obj
  <2>1. val.type = "set" => SetOK(s)
    BY <1>1, Kinds
  <2> HIDE DEF s
  <2>2. IsIntset(s) => s.enc = "intset" /\ s.ht = {}
    BY ObjectFields DEF IsIntset
  <2>3. IsTable(s) => s.enc = "ht" /\ s.ht \subseteq Strings
    BY ObjectFields DEF IsTable
  <2> QED
    BY <2>1, <2>2, <2>3 DEF SetOK, s
<1>4. val.type \in {"none", "string", "hash", "set"}
  BY <1>1, Kinds
<1> QED
  BY <1>1, <1>2, <1>3, <1>4 DEF TypeOK

LEMMA IntsetSound ==
  ASSUME NEW s, SetOK(s), s.enc = "intset"
  PROVE  /\ Len(s.is.contents) = s.is.length * s.is.encoding
         /\ s.is.length <= MaxIntsetEntries
         /\ \A i \in 1 .. s.is.length - 1 : _intsetGet(s.is, i - 1) < _intsetGet(s.is, i)
<1>1. IsIntset(s)
  BY ObjectFields DEF SetOK, IsTable
<1> DEFINE is == s.is
<1>2. IntsetOK(is) /\ is.length <= MaxIntsetEntries
  BY <1>1 DEF IsIntset
<1> HIDE DEF is
<1>3. is.length \in Nat /\ Len(is.contents) = is.length * is.encoding
  BY <1>2 DEF IntsetOK, Sized, Raw
<1>4. ASSUME NEW i \in 1 .. is.length - 1 PROVE _intsetGet(is, i - 1) < _intsetGet(is, i)
  <2>1. i - 1 \in 0 .. is.length - 1 /\ i \in 0 .. is.length - 1 /\ i - 1 < i
    BY <1>3
  <2> QED
    BY <1>2, <2>1 DEF IntsetOK, Sorted
<1> QED
  BY <1>2, <1>3, <1>4 DEF is

LEMMA ZiplistSound ==
  ASSUME NEW m, NEW h, HashOK(h, m), h.enc = "ziplist"
  PROVE  /\ Len(h.zl) % 2 = 0 /\ Len(h.zl) \div 2 <= m
         /\ \A i, j \in DOMAIN h.zl : i % 2 = 1 /\ j % 2 = 1 /\ h.zl[i] = h.zl[j] => i = j
         /\ \A i \in DOMAIN h.zl : i % 2 = 0 => h.zl[i] \notin Long
<1>1. IsPacked(h, m)
  BY HashFields DEF HashOK, IsTabled
<1> DEFINE zl == h.zl
<1>2. ZlOK(zl) /\ Len(zl) \div 2 <= m
  BY <1>1 DEF IsPacked
<1> HIDE DEF zl
<1>3. \A i, j \in DOMAIN zl : i % 2 = 1 /\ j % 2 = 1 /\ zl[i] = zl[j] => i = j
  BY <1>2 DEF ZlOK, Odd
<1>4. Len(zl) % 2 = 0 /\ \A i \in DOMAIN zl : i % 2 = 0 => zl[i] \notin Long
  BY <1>2 DEF ZlOK
<1> QED
  BY <1>2, <1>3, <1>4 DEF zl

LEMMA InvCompact == AggInv => CompactSound
<1> SUFFICES ASSUME AggInv PROVE CompactSound
  OBVIOUS
<1>1. val.type = "set" => SetOK(val.obj)
  BY Kinds DEF AggInv
<1>2. val.type = "hash" => HashOK(val.obj, max)
  BY Kinds DEF AggInv
<1> QED
  BY <1>1, <1>2, IntsetSound, ZiplistSound DEF CompactSound

LEMMA InvNoEmpty == AggInv => NoEmptyAggregate
  BY Kinds DEF AggInv, NoEmptyAggregate

\* After every sequence of hash and set commands the key holds a value of a
\* known type in an encoding of that type (t_hash.c, t_set.c).
THEOREM AggregateTypeCorrect == Spec => []TypeOK
<1>1. AggInv => TypeOK
  BY InvType
<1> QED
  BY <1>1, InvariantHolds, PTL

\* Through insertions, removals and upgrades of its width an intset stays
\* sorted and no longer than its bound, and a ziplist keeps its pairs, its
\* bound and its long values out (intset.c, t_hash.c, t_set.c).
THEOREM CompactEncodingsHold == Spec => []CompactSound
<1>1. AggInv => CompactSound
  BY InvCompact
<1> QED
  BY <1>1, InvariantHolds, PTL

\* The key goes with its last field or member (t_hash.c:629, t_set.c:344).
THEOREM NoEmptyAggregateStays == Spec => []NoEmptyAggregate
<1>1. AggInv => NoEmptyAggregate
  BY InvNoEmpty
<1> QED
  BY <1>1, InvariantHolds, PTL

\* Whatever the encoding, its conversions and the width of its integers, every
\* hash and set command does to the key's map or set what Collections says and
\* returns what it says (t_hash.c, t_set.c, intset.c).
THEOREM AggregatesImplementCollections == Spec => ImplementsCollections
<1>1. Init => C!Init
  BY StartsEmpty
<1>2. AggInv /\ [Next]_vars => [C!Next]_(C!cvars)
  BY StepIs
<1> QED
  BY <1>1, <1>2, InvariantHolds, PTL DEF Spec, ImplementsCollections, C!Spec

=============================================================================
