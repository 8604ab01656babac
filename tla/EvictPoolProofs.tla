--------------------------- MODULE EvictPoolProofs ----------------------------
(***************************************************************************)
(* The eviction pool, for any size of it and any keys: its slots stay in   *)
(* order and however they are shifted every name has an owner.             *)
(***************************************************************************)
EXTENDS EvictPool, FiniteSetTheorems, SequenceTheorems, WellFoundedInduction, TLAPS

-----------------------------------------------------------------------------
(* Where a score belongs.                                                  *)

\* A set of naturals has a least element: of the intervals that reach an
\* element of it, one is contained in no other.
LEMMA LeastNatural ==
  ASSUME NEW S \in SUBSET Nat, NEW m \in S
  PROVE  \E n \in S : \A i \in S : n <= i
<1> DEFINE U == 0 .. m
           R == StrictSubsetOrdering(U)
           T == {0 .. i : i \in {j \in S : j <= m}}
<1>1. m \in Nat /\ IsFiniteSet(U)
  BY FS_Interval
<1>2. T \subseteq SUBSET U /\ T # {}
  <2>1. \A i \in S : i <= m => 0 .. i \subseteq U
    BY <1>1
  <2>2. 0 .. m \in T
    BY <1>1
  <2> QED
    BY <2>1, <2>2
<1>3. T \subseteq FiniteSubsetsOf(U)
  <2>1. \A X \in SUBSET U : IsFiniteSet(X)
    BY <1>1, FS_Subset
  <2> QED
    BY <1>2, <2>1 DEF FiniteSubsetsOf
<1> HIDE DEF R
<1>4. IsWellFoundedOn(R, FiniteSubsetsOf(U))
  BY FS_StrictSubsetOrderingWellFounded DEF R
<1> HIDE DEF T
<1>5. PICK X \in T : \A Y \in T : ~(<<Y, X>> \in R)
  BY <1>2, <1>3, <1>4, WFMin
<1>6. PICK n \in S : n <= m /\ X = 0 .. n
  BY <1>5 DEF T
<1>7. ASSUME NEW i \in S, i < n PROVE FALSE
  <2>1. i \in Nat /\ n \in Nat /\ i <= m
    BY <1>1, <1>6, <1>7
  <2>2. 0 .. i \in T
    BY <1>7, <2>1 DEF T
  <2>3. 0 .. i \subseteq X /\ 0 .. i # X
    <3>1. n \in X /\ ~(n \in 0 .. i)
      BY <1>6, <1>7, <2>1
    <3> QED
      BY <1>6, <1>7, <2>1, <3>1
  <2>4. <<0 .. i, X>> \in R
    BY <1>2, <1>5, <2>2, <2>3 DEF R, StrictSubsetOrdering
  <2> QED
    BY <1>5, <2>2, <2>4
<1> QED
  BY <1>7

LEMMA Sizes ==
  /\ PoolSize \in Nat /\ PoolSize >= 1 /\ MaxIdle \in Nat /\ Samples \in Nat
  /\ Pos = 0 .. PoolSize - 1 /\ Last = PoolSize - 1 /\ Last \in Pos /\ 0 \in Pos
  /\ Buffer = Pos /\ Buffer \cap Copy = {} /\ NULL \notin Key \cup Copy \cup Buffer
  BY EvictPoolAssumption DEF Pos, Last, Buffer

\* The search of evictionPoolPopulate ends at a place.
LEMMA PlaceFound ==
  ASSUME TypeOK, NEW idle \in 0 .. MaxIdle
  PROVE  /\ Place(idle) \in 0 .. PoolSize
         /\ \A i \in 0 .. Place(idle) - 1 : pool[i].key # NULL /\ pool[i].idle < idle
         /\ Place(idle) < PoolSize =>
              pool[Place(idle)].key = NULL \/ pool[Place(idle)].idle >= idle
<1> DEFINE Stop == {n \in 0 .. PoolSize :
                      n < PoolSize => pool[n].key = NULL \/ pool[n].idle >= idle}
<1>1. PoolSize \in Stop /\ Stop \subseteq Nat
  BY Sizes
<1>2. PICK n \in Stop : \A i \in Stop : n <= i
  BY <1>1, LeastNatural
<1>3. n \in 0 .. PoolSize
  BY <1>2
<1>4. ASSUME NEW i \in 0 .. n - 1 PROVE pool[i].key # NULL /\ pool[i].idle < idle
  <2>1. i \in Pos /\ i < n /\ i \in 0 .. PoolSize
    BY <1>3, Sizes
  <2>2. i \notin Stop
    BY <1>2, <1>3, <2>1
  <2>3. pool[i].idle \in 0 .. MaxIdle
    BY <2>1 DEF TypeOK
  <2> QED
    BY <2>1, <2>2, <2>3
<1>5. n < PoolSize => pool[n].key = NULL \/ pool[n].idle >= idle
  BY <1>2
<1> QED
  BY <1>3, <1>4, <1>5 DEF Place

-----------------------------------------------------------------------------
(* What an insertion does to the slots.                                    *)

ShapeOK ==
  /\ pool \in [Pos -> [idle : 0 .. MaxIdle, key : Buffer \cup Copy \cup {NULL},
                       cached : Buffer]]
  /\ text \in [Buffer \cup Copy -> Key \cup {NULL}]

\* P has the slots of the pool in the order g, but for slot m, which has only
\* the buffer of the slot that is given up; T has lost the name of that slot.
Shifted(g, m, P, T) ==
  /\ g \in [Pos -> Pos]
  /\ \A i, j \in Pos : g[i] = g[j] => i = j
  /\ \A i \in Pos : \E j \in Pos : g[j] = i
  /\ P = [i \in Pos |-> IF i = m THEN [pool[m] EXCEPT !.cached = pool[g[m]].cached]
                        ELSE pool[g[i]]]
  /\ T = IF pool[g[m]].key = NULL THEN text ELSE FreeName(text, pool[g[m]])

\* Slot i has become what slot j was.
Now(i, j) == /\ pool'[i] = pool[j]
             /\ pool[j].key # NULL => text'[pool'[i].key] = text[pool[j].key]

\* Slot m names k now.
New(m, k, idle) == /\ pool'[m].key # NULL /\ pool'[m].idle = idle
                   /\ text'[pool'[m].key] = k

\* A new name is put into slot m of a shifted pool.
LEMMA Refill ==
  ASSUME TypeOK, NamesOwned, NEW g, NEW m \in Pos, NEW P, NEW T,
         NEW k \in Key, NEW idle \in 0 .. MaxIdle,
         Shifted(g, m, P, T), Fill(P, T, m, k, idle)
  PROVE  /\ ShapeOK'
         /\ NamesOwned'
         /\ New(m, k, idle)
         /\ \A i \in Pos : i # m => Now(i, g[i])
<1> DEFINE e == pool[g[m]]
           Slot == [idle : 0 .. MaxIdle, key : Buffer \cup Copy \cup {NULL},
                    cached : Buffer]
<1>1. /\ \A i \in Pos : pool[i] \in Slot
      /\ text \in [Buffer \cup Copy -> Key \cup {NULL}]
  BY DEF TypeOK
<1>0. /\ g \in [Pos -> Pos]
      /\ \A i, j \in Pos : g[i] = g[j] => i = j
      /\ \A i \in Pos : \E j \in Pos : g[j] = i
      /\ P = [i \in Pos |-> IF i = m THEN [pool[m] EXCEPT !.cached = e.cached]
                            ELSE pool[g[i]]]
      /\ T = IF e.key = NULL THEN text ELSE FreeName(text, e)
  BY DEF Shifted
<1>2. e \in Slot /\ g[m] \in Pos
  BY <1>0, <1>1
<1>3. PICK s \in IF k \in Long THEN {c \in Copy : T[c] = NULL} ELSE {P[m].cached} :
        text' = [T EXCEPT ![s] = k] /\ pool' = [P EXCEPT ![m].key = s, ![m].idle = idle]
  BY DEF Fill
<1>4. P[m].cached = e.cached /\ P[m] \in Slot
  BY <1>0, <1>1, <1>2
<1>5. (s \in Copy /\ T[s] = NULL) \/ s = e.cached
  BY <1>3, <1>4
<1>6. s \in Buffer \cup Copy /\ s # NULL /\ (s \in Copy => T[s] = NULL)
  <2>1. e.cached \in Buffer
    BY <1>2
  <2> HIDE DEF e, Slot
  <2>2. e.cached \notin Copy /\ e.cached # NULL
    BY <2>1, Sizes
  <2>3. NULL \notin Copy
    BY Sizes
  <2> QED
    BY <2>1, <2>2, <2>3, <1>5
<1>7. pool'[m] = [P[m] EXCEPT !.key = s, !.idle = idle]
      /\ \A i \in Pos : i # m => pool'[i] = pool[g[i]]
  BY <1>0, <1>3
<1>8. pool'[m] \in Slot /\ pool'[m].key = s /\ pool'[m].idle = idle
      /\ pool'[m].cached = e.cached
  BY <1>4, <1>6, <1>7
<1>9. pool' \in [Pos -> Slot]
  <2>1. DOMAIN pool' = Pos /\ pool' = [i \in Pos |-> pool'[i]]
    BY <1>0, <1>3
  <2>2. \A i \in Pos : pool'[i] \in Slot
    <3> HIDE DEF Slot
    <3> QED
      BY <1>0, <1>1, <1>7, <1>8
  <2> HIDE DEF Slot
  <2> QED
    BY <2>1, <2>2
<1>10. \A i \in Pos : pool'[i].cached = pool[g[i]].cached
  BY <1>7, <1>8
\* Every text but that of the name that is freed stays.
<1>11. /\ T \in [Buffer \cup Copy -> Key \cup {NULL}]
       /\ \A c \in Copy : T[c] = IF e.key = c THEN NULL ELSE text[c]
       /\ \A c \in Buffer : e.key # c => T[c] = text[c]
  <2>1. CASE e.key = NULL
    BY <1>0, <1>1, <2>1, Sizes
  <2>2. CASE e.key # NULL
    <3>1. T = IF e.key = e.cached THEN text ELSE [text EXCEPT ![e.key] = NULL]
      BY <1>0, <2>2 DEF FreeName
    <3>2. e.cached \notin Copy /\ e.key \in Buffer \cup Copy
      BY <1>2, <2>2, Sizes
    <3> HIDE DEF e
    <3> QED
      BY <1>1, <3>1, <3>2
  <2> QED
    BY <2>1, <2>2
<1>12. text' \in [Buffer \cup Copy -> Key \cup {NULL}] /\ text'[s] = k
       /\ \A c \in Buffer \cup Copy : c # s => text'[c] = T[c]
  BY <1>3, <1>6, <1>11
<1> HIDE DEF e, Slot
<1>13. NamesOwned' /\ \A i \in Pos : i # m /\ pool[g[i]].key # NULL => pool'[i].key # s
  <2>0. Used' = {i \in Pos : i = m \/ (i # m /\ pool[g[i]].key # NULL)}
    BY <1>6, <1>7, <1>8 DEF Used
  <2>1. \A i, j \in Pos : i # j => pool'[i].cached # pool'[j].cached
    BY <1>0, <1>10 DEF NamesOwned
  <2>2. ASSUME NEW i \in Used' PROVE pool'[i].key \in Copy \cup {pool'[i].cached}
    <3>1. CASE i = m
      BY <1>5, <1>8, <3>1
    <3>2. CASE i # m
      <4>1. g[i] \in Used
        BY <1>0, <2>0, <3>2 DEF Used
      <4> QED
        BY <2>0, <3>2, <1>7, <4>1 DEF NamesOwned
    <3> QED
      BY <3>1, <3>2
  \* No other slot names what m does.
  <2>3. ASSUME NEW i \in Used', i # m PROVE pool'[i].key # s
    <3>1. g[i] \in Used /\ i \in Pos /\ g[i] # g[m] /\ pool'[i].key = pool[g[i]].key
      BY <1>0, <2>0, <2>3, <1>7 DEF Used
    <3>2. CASE s \in Copy
      <4>1. pool[g[i]].key # e.key
        BY <3>1, <1>2 DEF e, NamesOwned, Used
      <4>2. pool[g[i]].key \in Copy => T[pool[g[i]].key] # NULL
        BY <3>1, <4>1, <1>11 DEF NamesOwned
      <4> QED
        BY <3>1, <3>2, <4>2, <1>6
    <3>3. CASE s \notin Copy
      <4>1. s = e.cached
        BY <1>5, <3>3
      <4>2. pool[g[i]].cached # e.cached
        <5>1. g[i] \in Pos /\ g[m] \in Pos
          BY <1>0, <3>1
        <5> QED
          BY <3>1, <5>1 DEF e, NamesOwned
      <4> QED
        BY <3>1, <3>3, <4>1, <4>2 DEF NamesOwned
    <3> QED
      BY <3>2, <3>3
  <2>4. \A i, j \in Used' : i # j => pool'[i].key # pool'[j].key
    <3> TAKE i, j \in Used'
    <3> SUFFICES ASSUME i # j PROVE pool'[i].key # pool'[j].key
      OBVIOUS
    <3>1. CASE i = m \/ j = m
      BY <2>3, <3>1, <1>8
    <3>2. CASE i # m /\ j # m
      <4>1. g[i] \in Used /\ g[j] \in Used /\ g[i] # g[j] /\ i \in Pos /\ j \in Pos
        BY <1>0, <2>0, <3>2 DEF Used
      <4> QED
        BY <3>2, <4>1, <1>7 DEF NamesOwned
    <3> QED
      BY <3>1, <3>2
  <2>5. ASSUME NEW c \in Copy
        PROVE  text'[c] # NULL <=> \E i \in Used' : pool'[i].key = c
    <3>1. CASE c = s
      <4>1. k # NULL /\ m \in Used'
        BY <2>0, Sizes
      <4> QED
        BY <3>1, <4>1, <1>8, <1>12
    <3>2. CASE c # s /\ c = e.key
      <4>1. text'[c] = NULL
        BY <3>2, <1>11, <1>12
      <4>2. ASSUME NEW i \in Used', pool'[i].key = c PROVE FALSE
        <5>1. i # m /\ i \in Pos
          BY <2>0, <3>2, <4>2, <1>8
        <5>2. g[i] \in Used /\ g[m] \in Used /\ g[i] # g[m]
          BY <1>0, <2>0, <3>2, <5>1, <1>2, Sizes DEF e, Used
        <5> QED
          BY <3>2, <4>2, <5>1, <5>2, <1>7 DEF e, NamesOwned
      <4> QED
        BY <4>1, <4>2
    <3>3. CASE c # s /\ c # e.key
      <4>1. text'[c] = text[c]
        BY <3>3, <1>11, <1>12
      <4>2. text[c] # NULL <=> \E j \in Used : pool[j].key = c
        BY DEF NamesOwned
      <4>3. ASSUME NEW j \in Used, pool[j].key = c
            PROVE  \E i \in Used' : pool'[i].key = c
        <5>1. PICK i \in Pos : g[i] = j
          BY <1>0 DEF Used
        <5>2. i # m
          BY <3>3, <4>3, <5>1 DEF e
        <5>3. i \in Used' /\ pool'[i].key = c
          BY <2>0, <4>3, <5>1, <5>2, <1>7 DEF Used
        <5> QED
          BY <5>3
      <4>4. ASSUME NEW i \in Used', pool'[i].key = c
            PROVE  \E j \in Used : pool[j].key = c
        <5>1. i # m /\ i \in Pos
          BY <2>0, <3>3, <4>4, <1>8
        <5>2. g[i] \in Used /\ pool[g[i]].key = c
          BY <1>0, <2>0, <4>4, <5>1, <1>7 DEF Used
        <5> QED
          BY <5>2
      <4> QED
        BY <4>1, <4>2, <4>3, <4>4
    <3> QED
      BY <3>1, <3>2, <3>3
  <2>6. {c \in Copy : text'[c] # NULL} = {pool'[i].key : i \in Used'} \cap Copy
    BY <2>5
  <2> QED
    BY <2>0, <2>1, <2>2, <2>3, <2>4, <2>6 DEF NamesOwned
<1>14. ASSUME NEW i \in Pos, i # m PROVE Now(i, g[i])
  <2>1. pool'[i] = pool[g[i]]
    BY <1>7, <1>14
  <2> DEFINE c == pool[g[i]].key
  <2>2. ASSUME c # NULL PROVE text'[c] = text[c]
    <3>1. g[i] \in Pos /\ g[i] # g[m] /\ g[i] \in Used
      BY <1>0, <1>14, <2>2 DEF Used
    <3>2. c \in Buffer \cup Copy /\ c # s
      BY <1>1, <1>13, <1>14, <2>1, <2>2, <3>1 DEF Slot
    <3>3. c # e.key
      BY <1>2, <2>2, <3>1 DEF e, NamesOwned, Used
    <3> HIDE DEF c
    <3> QED
      BY <1>11, <1>12, <3>2, <3>3
  <2> QED
    BY <2>1, <2>2 DEF Now
<1> QED
  BY <1>6, <1>8, <1>9, <1>12, <1>13, <1>14 DEF Slot, ShapeOK, New

LEMMA PosBounds == \A i \in Int : i \in Pos <=> 0 <= i /\ i < PoolSize
  BY Sizes

LEMMA Used1 == \A i \in Pos : i \in Used <=> pool[i].key # NULL
  BY DEF Used

\* Where a score belongs among the slots.
Fits(n, idle) ==
  /\ n \in 0 .. PoolSize
  /\ \A i \in Pos : i < n => pool[i].key # NULL /\ pool[i].idle < idle
  /\ n < PoolSize => pool[n].key = NULL \/ pool[n].idle >= idle

LEMMA PlaceFits ==
  ASSUME TypeOK, NEW idle \in 0 .. MaxIdle
  PROVE  Fits(Place(idle), idle)
  BY PlaceFound, Sizes DEF Fits

LEMMA PoolFacts ==
  ASSUME TypeOK, PoolOrdered
  PROVE  /\ \A i \in Pos : i \in Nat /\ i < PoolSize /\ i <= Last /\ pool[i].idle \in Nat
         /\ \A i, j \in Pos : i < j /\ pool[j].key # NULL =>
                           pool[i].key # NULL /\ pool[i].idle <= pool[j].idle
<1>1. \A i \in Pos : i \in Nat /\ i < PoolSize /\ i <= Last /\ pool[i].idle \in Nat
  BY Sizes DEF TypeOK
<1>2. \A i, j \in Pos : i < j /\ pool[j].key # NULL =>
                          pool[i].key # NULL /\ pool[i].idle <= pool[j].idle
  BY DEF PoolOrdered, Used
<1> QED
  BY <1>1, <1>2

\* Into an empty slot.
LEMMA IntoEmpty ==
  ASSUME TypeOK, NamesOwned, PoolOrdered, NEW k \in Key, NEW idle \in 0 .. MaxIdle,
         NEW n, Fits(n, idle),
         n < PoolSize, pool[n].key = NULL, Fill(pool, text, n, k, idle)
  PROVE  /\ ShapeOK' /\ NamesOwned' /\ PoolOrdered'
         /\ n \in Pos /\ New(n, k, idle) /\ \A i \in Pos : i # n => Now(i, i)
<1>a1. /\ n \in 0 .. PoolSize /\ n \in Nat /\ PoolSize \in Nat
       /\ \A i \in Pos : i < n => pool[i].key # NULL /\ pool[i].idle < idle
       /\ n < PoolSize => n \in Pos /\ (pool[n].key = NULL \/ pool[n].idle >= idle)
  BY Sizes DEF Fits
<1>a2. /\ \A i \in Pos : i \in Nat /\ i < PoolSize /\ i <= Last
       /\ \A i \in Pos : pool[i].idle \in Nat
  BY PoolFacts
<1>a3. \A i, j \in Pos : i < j /\ pool[j].key # NULL =>
                           pool[i].key # NULL /\ pool[i].idle <= pool[j].idle
  BY PoolFacts
<1>a4. idle \in Nat
  BY Sizes
<1>a5. ASSUME \A i, j \in Pos : i < j /\ pool'[j].key # NULL =>
                           pool'[i].key # NULL /\ pool'[i].idle <= pool'[j].idle
       PROVE  PoolOrdered'
  BY <1>a5 DEF PoolOrdered, Used
<1> DEFINE g == [i \in Pos |-> i]
<1>1. n \in Pos
  BY <1>a1
<1>2. pool = [i \in Pos |-> IF i = n THEN [pool[n] EXCEPT !.cached = pool[g[n]].cached]
                           ELSE pool[g[i]]]
  <2>1. pool[n] = [pool[n] EXCEPT !.cached = pool[n].cached]
    BY <1>1 DEF TypeOK
  <2> QED
    BY <1>1, <2>1 DEF TypeOK
<1>3. text = IF pool[g[n]].key = NULL THEN text ELSE FreeName(text, pool[g[n]])
  BY <1>1
<1>4. g \in [Pos -> Pos] /\ (\A i, j \in Pos : g[i] = g[j] => i = j)
      /\ (\A i \in Pos : \E j \in Pos : g[j] = i) /\ \A i \in Pos : g[i] = i
  OBVIOUS
<1> HIDE DEF g
<1>5. /\ ShapeOK' /\ NamesOwned' /\ New(n, k, idle)
      /\ \A i \in Pos : i # n => Now(i, i)
  <2>1. Shifted(g, n, pool, text)
    BY <1>1, <1>2, <1>3, <1>4 DEF Shifted
  <2> QED
    BY <1>1, <1>4, <2>1, Refill
<1>50. /\ pool'[n].key # NULL /\ pool'[n].idle = idle
       /\ \A i \in Pos : i # n => pool'[i] = pool[i]
  BY <1>5 DEF New, Now
<1>6. ASSUME NEW i \in Pos, NEW j \in Pos, i < j, pool'[j].key # NULL
      PROVE  pool'[i].key # NULL /\ pool'[i].idle <= pool'[j].idle
  <2>1. j <= n
    <3>1. n < j => pool[j].key = NULL
      BY <1>a3, <1>1
    <3> QED
      BY <3>1, <1>1, <1>50, <1>6, <1>a2
  <2>2. i # n
    BY <2>1, <1>6, <1>a1, <1>a2
  <2>3. CASE j = n
    BY <2>2, <2>3, <1>50, <1>6, <1>a1, <1>a2, <1>a4
  <2>4. CASE j # n
    BY <2>2, <2>4, <1>50, <1>6, <1>a3
  <2> QED
    BY <2>3, <2>4
<1> QED
  BY <1>1, <1>a5, <1>5, <1>6

\* Between two used slots, and the last one is empty.
LEMMA IntoRoom ==
  ASSUME TypeOK, NamesOwned, PoolOrdered, NEW k \in Key, NEW idle \in 0 .. MaxIdle,
         NEW n, Fits(n, idle),
         n < PoolSize => pool[n].key # NULL,
         pool[Last].key = NULL, Fill(ShiftRight(n), text, n, k, idle)
  PROVE  /\ ShapeOK' /\ NamesOwned' /\ PoolOrdered'
         /\ n \in Pos /\ pool[n].key # NULL /\ New(n, k, idle)
         /\ \A i \in Pos : (i < n => Now(i, i)) /\ (i > n => Now(i, i - 1))
<1>a1. /\ n \in 0 .. PoolSize /\ n \in Nat /\ PoolSize \in Nat
       /\ \A i \in Pos : i < n => pool[i].key # NULL /\ pool[i].idle < idle
       /\ n < PoolSize => n \in Pos /\ (pool[n].key = NULL \/ pool[n].idle >= idle)
  BY Sizes DEF Fits
<1>a2. /\ \A i \in Pos : i \in Nat /\ i < PoolSize /\ i <= Last
       /\ \A i \in Pos : pool[i].idle \in Nat
  BY PoolFacts
<1>a3. \A i, j \in Pos : i < j /\ pool[j].key # NULL =>
                           pool[i].key # NULL /\ pool[i].idle <= pool[j].idle
  BY PoolFacts
<1>a4. idle \in Nat
  BY Sizes
<1>a5. ASSUME \A i, j \in Pos : i < j /\ pool'[j].key # NULL =>
                           pool'[i].key # NULL /\ pool'[i].idle <= pool'[j].idle
       PROVE  PoolOrdered'
  BY <1>a5 DEF PoolOrdered, Used
<1> DEFINE g == [i \in Pos |-> IF i < n THEN i ELSE IF i > n THEN i - 1 ELSE Last]
<1>1. n \in Pos /\ n # Last /\ pool[n].key # NULL /\ pool[n].idle >= idle
  <2>1. n < PoolSize
    BY <1>a1, Sizes
  <2> QED
    BY <1>a1, <2>1
<1>2. g \in [Pos -> Pos] /\ g[n] = Last
      /\ (\A i \in Pos : i < n => g[i] = i) /\ (\A i \in Pos : i > n => g[i] = i - 1)
  BY <1>1, Sizes, <1>a1
<1>3. ShiftRight(n) =
        [i \in Pos |-> IF i = n THEN [pool[n] EXCEPT !.cached = pool[g[n]].cached]
                       ELSE pool[g[i]]]
  BY <1>1, <1>2, <1>a1, <1>a2 DEF ShiftRight
<1> HIDE DEF g
<1>4. ASSUME NEW i \in Pos, NEW j \in Pos, g[i] = g[j] PROVE i = j
  <2>1. \A a \in Pos : /\ a < n => g[a] < n /\ g[a] # Last
                       /\ a = n => g[a] = Last
                       /\ a > n => g[a] >= n /\ g[a] # Last
    BY <1>1, <1>2, <1>a1, <1>a2, Sizes
  <2>2. g[i] \in Nat
    BY <1>2, <1>a2
  <2> QED
    BY <1>2, <1>4, <2>1, <2>2, <1>a1, <1>a2
<1>5. \A i \in Pos : \E j \in Pos : g[j] = i
  <2> TAKE i \in Pos
  <2>1. CASE i < n
    BY <2>1, <1>2
  <2>2. CASE i = Last
    BY <2>2, <1>1, <1>2
  <2>3. CASE ~(i < n) /\ i # Last
    <3>1. i + 1 \in Pos /\ i + 1 > n /\ (i + 1) - 1 = i
      BY <2>3, <1>a1, Sizes
    <3>2. g[i + 1] = i
      BY <3>1, <1>2
    <3> QED
      BY <3>1, <3>2
  <2> QED
    BY <2>1, <2>2, <2>3
<1>6. text = IF pool[g[n]].key = NULL THEN text ELSE FreeName(text, pool[g[n]])
  BY <1>2
<1>7. /\ ShapeOK' /\ NamesOwned' /\ New(n, k, idle)
      /\ \A i \in Pos : i # n => Now(i, g[i])
  <2>1. Shifted(g, n, ShiftRight(n), text)
    BY <1>1, <1>2, <1>3, <1>4, <1>5, <1>6 DEF Shifted
  <2> QED
    BY <1>1, <2>1, Refill
<1>70. /\ pool'[n].key # NULL /\ pool'[n].idle = idle
       /\ \A i \in Pos : i # n => pool'[i] = pool[g[i]]
  BY <1>7 DEF New, Now
<1>71. \A i \in Pos : (i < n => Now(i, i)) /\ (i > n => Now(i, i - 1))
  BY <1>2, <1>7, <1>a1, <1>a2
<1>8. ASSUME NEW i \in Pos, NEW j \in Pos, i < j, pool'[j].key # NULL
      PROVE  pool'[i].key # NULL /\ pool'[i].idle <= pool'[j].idle
  <2>1. CASE j <= n
    <3>1. i < n /\ pool'[i] = pool[i]
      BY <2>1, <1>1, <1>2, <1>70, <1>8, <1>a1, <1>a2
    <3>2. j < n => pool'[j] = pool[j]
      BY <2>1, <1>1, <1>2, <1>70, <1>8, <1>a1, <1>a2
    <3> QED
      BY <2>1, <3>1, <3>2, <1>70, <1>8, <1>a1, <1>a2, <1>a3, <1>a4
  <2>2. CASE j > n
    <3>1. j - 1 \in Pos /\ n <= j - 1 /\ pool'[j] = pool[j - 1]
      <4>1. j - 1 \in Pos /\ n <= j - 1
        BY <2>2, <1>a1, <1>a2, PosBounds
      <4> QED
        BY <2>2, <4>1, <1>1, <1>2, <1>70, <1>a1, <1>a2
    <3>2. pool[j - 1].key # NULL
      BY <3>1, <1>8
    <3>3. pool[n].idle <= pool[j - 1].idle
      BY <3>1, <3>2, <1>1, <1>a1, <1>a2, <1>a3
    <3>4. CASE i < n
      <4>1. pool'[i] = pool[i] /\ i < j - 1
        BY <3>1, <3>4, <1>2, <1>70, <1>a1, <1>a2
      <4> QED
        BY <3>1, <3>2, <4>1, <1>a3
    <3>5. CASE i = n
      BY <3>1, <3>3, <3>5, <1>1, <1>70, <1>a2, <1>a4
    <3>6. CASE i > n
      <4>1. pool'[i] = pool[i - 1] /\ i - 1 \in Pos /\ i - 1 < j - 1
        <5>1. i - 1 \in Pos /\ i - 1 < j - 1
          BY <3>6, <1>8, <1>a1, <1>a2, PosBounds
        <5> QED
          BY <3>6, <5>1, <1>1, <1>2, <1>70, <1>a1, <1>a2
      <4> QED
        BY <3>1, <3>2, <4>1, <1>a3
    <3> QED
      BY <3>4, <3>5, <3>6, <1>a1, <1>a2
  <2> QED
    BY <2>1, <2>2, <1>a1, <1>a2
<1> QED
  BY <1>1, <1>a5, <1>7, <1>71, <1>8

\* Below slot n of a full pool, whose worst name goes.
LEMMA IntoFull ==
  ASSUME TypeOK, NamesOwned, PoolOrdered, NEW k \in Key, NEW idle \in 0 .. MaxIdle,
         NEW n, Fits(n, idle),
         n < PoolSize => pool[n].key # NULL, n > 0, pool[Last].key # NULL,
         Fill(ShiftLeft(n - 1), FreeName(text, pool[0]), n - 1, k, idle)
  PROVE  /\ ShapeOK' /\ NamesOwned' /\ PoolOrdered'
         /\ n - 1 \in Pos /\ New(n - 1, k, idle)
         /\ \A i \in Pos : pool[i].key # NULL /\ pool'[i].key # NULL
         /\ \A i \in Pos : (i < n - 1 => Now(i, i + 1)) /\ (i > n - 1 => Now(i, i))
<1>a1. /\ n \in 0 .. PoolSize /\ n \in Nat /\ PoolSize \in Nat
       /\ \A i \in Pos : i < n => pool[i].key # NULL /\ pool[i].idle < idle
       /\ n < PoolSize => n \in Pos /\ (pool[n].key = NULL \/ pool[n].idle >= idle)
  BY Sizes DEF Fits
<1>a2. /\ \A i \in Pos : i \in Nat /\ i < PoolSize /\ i <= Last
       /\ \A i \in Pos : pool[i].idle \in Nat
  BY PoolFacts
<1>a3. \A i, j \in Pos : i < j /\ pool[j].key # NULL =>
                           pool[i].key # NULL /\ pool[i].idle <= pool[j].idle
  BY PoolFacts
<1>a4. idle \in Nat
  BY Sizes
<1>a5. ASSUME \A i, j \in Pos : i < j /\ pool'[j].key # NULL =>
                           pool'[i].key # NULL /\ pool'[i].idle <= pool'[j].idle
       PROVE  PoolOrdered'
  BY <1>a5 DEF PoolOrdered, Used
<1> DEFINE m == n - 1
           g == [i \in Pos |-> IF i < m THEN i + 1 ELSE IF i > m THEN i ELSE 0]
<1>1. m \in Pos /\ m \in Nat /\ m < n /\ 0 \in Pos
  BY <1>a1, Sizes
<1>2. g \in [Pos -> Pos] /\ g[m] = 0
      /\ (\A i \in Pos : i < m => g[i] = i + 1) /\ (\A i \in Pos : i > m => g[i] = i)
  BY <1>1, Sizes
<1>3. ShiftLeft(m) =
        [i \in Pos |-> IF i = m THEN [pool[m] EXCEPT !.cached = pool[g[m]].cached]
                       ELSE pool[g[i]]]
  BY <1>1, <1>2, <1>a2 DEF ShiftLeft
<1>40. Fill(ShiftLeft(m), FreeName(text, pool[0]), m, k, idle)
  BY DEF m
<1>5. \A i \in Pos : i < m => i < n /\ i + 1 < n
  BY <1>a1, <1>a2
<1>6. \A i \in Pos : i > m => n \in Pos /\ n <= i
  BY <1>a1, <1>a2, <1>1, Sizes
<1> HIDE DEF g, m
<1>7. \A i, j \in Pos : g[i] = g[j] => i = j
  BY <1>1, <1>2, <1>a2
<1>8. \A i \in Pos : \E j \in Pos : g[j] = i
  <2> TAKE i \in Pos
  <2>1. CASE i = 0
    BY <2>1, <1>1, <1>2
  <2>2. CASE i > m
    BY <2>2, <1>2
  <2>3. CASE i # 0 /\ i <= m
    <3>1. i - 1 \in Pos /\ i - 1 < m /\ (i - 1) + 1 = i
      BY <2>3, <1>1, Sizes
    <3>2. g[i - 1] = i
      BY <3>1, <1>2
    <3> QED
      BY <3>1, <3>2
  <2> QED
    <3>1. i \in Nat
      BY <1>a2
    <3> QED
      BY <2>1, <2>2, <2>3, <3>1, <1>1
<1>9. \A i \in Pos : pool[i].key # NULL
  <2>1. \A i \in Pos : i # Last => i < Last
    BY Sizes
  <2> QED
    BY <2>1, <1>a3, Sizes
<1>10. FreeName(text, pool[0]) =
         IF pool[g[m]].key = NULL THEN text ELSE FreeName(text, pool[g[m]])
  BY <1>1, <1>2, <1>9
<1>11. /\ ShapeOK' /\ NamesOwned' /\ New(m, k, idle)
       /\ \A i \in Pos : i # m => Now(i, g[i])
  <2>1. Shifted(g, m, ShiftLeft(m), FreeName(text, pool[0]))
    BY <1>1, <1>2, <1>3, <1>7, <1>8, <1>10 DEF Shifted
  <2> QED
    BY <1>1, <1>40, <2>1, Refill
<1>110. /\ pool'[m].key # NULL /\ pool'[m].idle = idle
        /\ \A i \in Pos : i # m => pool'[i] = pool[g[i]]
  BY <1>11 DEF New, Now
<1>111. \A i \in Pos : (i < m => Now(i, i + 1)) /\ (i > m => Now(i, i))
  <2> TAKE i \in Pos
  <2>1. i \in Nat /\ m \in Nat
    BY <1>1, <1>a2
  <2>2. (i < m => i # m /\ g[i] = i + 1) /\ (i > m => i # m /\ g[i] = i)
    BY <2>1, <1>2
  <2> QED
    BY <2>2, <1>11
<1>12. \A i \in Pos : pool'[i].key # NULL
  BY <1>2, <1>9, <1>110
<1>13. ASSUME NEW i \in Pos, NEW j \in Pos, i < j
       PROVE  pool'[i].idle <= pool'[j].idle
  <2>1. CASE j < m
    <3>1. /\ pool'[j] = pool[j + 1] /\ pool'[i] = pool[i + 1]
          /\ i + 1 \in Pos /\ j + 1 \in Pos /\ i + 1 < j + 1
      <4>1. i < m /\ i \in Nat /\ j \in Nat /\ i # m /\ j # m
        <5>1. i \in Nat /\ j \in Nat /\ m \in Nat
          BY <1>1, <1>a2
        <5> QED
          BY <5>1, <2>1, <1>13
      <4>2. i + 1 \in Pos /\ j + 1 \in Pos /\ i + 1 < j + 1
        <5>1. i + 1 < j + 1 /\ j + 1 <= m /\ i + 1 \in Int /\ j + 1 \in Int
              /\ 0 <= i + 1 /\ m < PoolSize
          BY <2>1, <4>1, <1>1, <1>13, <1>a2
        <5> QED
          BY <5>1, <1>1, <1>a1, PosBounds
      <4>3. g[i] = i + 1 /\ g[j] = j + 1
        BY <2>1, <4>1, <1>2
      <4> QED
        BY <4>1, <4>2, <4>3, <1>110
    <3> QED
      BY <3>1, <1>9, <1>a3
  <2>2. CASE j = m
    <3>1. pool'[i] = pool[i + 1] /\ i + 1 \in Pos /\ i + 1 < n
      <4>1. i < m /\ i \in Nat /\ i # m
        BY <2>2, <1>1, <1>13, <1>a2
      <4>2. i + 1 \in Pos /\ i + 1 < n
        <5>1. i + 1 <= m /\ 0 <= i + 1 /\ i + 1 \in Int /\ m < PoolSize
          BY <4>1, <1>1, <1>a2
        <5> QED
          BY <5>1, <4>1, <1>1, <1>5, <1>a1, PosBounds
      <4> QED
        BY <4>1, <4>2, <1>2, <1>110
    <3> QED
      BY <2>2, <3>1, <1>110, <1>a1, <1>a2, <1>a4
  <2>3. CASE j > m
    <3>1. pool'[j] = pool[j] /\ n \in Pos /\ n <= j /\ pool[n].idle >= idle
      BY <2>3, <1>1, <1>2, <1>6, <1>9, <1>110, <1>a1, <1>a2
    <3>2. pool[n].idle <= pool[j].idle
      BY <3>1, <1>9, <1>a1, <1>a2, <1>a3
    <3>3. CASE i < m
      <4>1. pool'[i] = pool[i + 1] /\ i + 1 \in Pos /\ i + 1 < n
        BY <3>3, <1>1, <1>2, <1>5, <1>110, <1>a2, Sizes
      <4>2. pool[i + 1].idle < idle
        BY <4>1, <1>a1
      <4> QED
        BY <3>1, <3>2, <4>1, <4>2, <1>a2, <1>a4
    <3>4. CASE i = m
      BY <3>1, <3>2, <3>4, <1>110, <1>a2, <1>a4
    <3>5. CASE i > m
      BY <3>1, <3>5, <1>2, <1>9, <1>110, <1>13, <1>a2, <1>a3, <1>1
    <3> QED
      BY <3>3, <3>4, <3>5, <1>a2, <1>1
  <2> QED
    <3>1. j \in Nat /\ m \in Nat
      BY <1>1, <1>a2
    <3> QED
      BY <2>1, <2>2, <2>3, <3>1
<1> QED
  BY <1>1, <1>a5, <1>9, <1>11, <1>111, <1>12, <1>13 DEF m

\* An insertion keeps the pool sound.
LEMMA InsertKeeps ==
  ASSUME TypeOK, NamesOwned, PoolOrdered, NEW k \in Key, NEW idle \in 0 .. MaxIdle,
         Insert(k, idle)
  PROVE  ShapeOK' /\ NamesOwned' /\ PoolOrdered'
<1> DEFINE n == Place(idle)
<1>1. Fits(n, idle)
  BY PlaceFits
<1>2. CASE UNCHANGED <<pool, text>>
  BY <1>2 DEF TypeOK, ShapeOK, NamesOwned, PoolOrdered, Used
<1> HIDE DEF n
<1> QED
  BY <1>1, <1>2, IntoEmpty, IntoRoom, IntoFull DEF Insert, n

-----------------------------------------------------------------------------
(* Emptying slots from some slot on.                                       *)

LEMMA ClearKeeps ==
  ASSUME TypeOK, NamesOwned, PoolOrdered, NEW i \in Pos, Clear(i)
  PROVE  /\ ShapeOK'
         /\ NamesOwned' /\ PoolOrdered'
         /\ \A j \in Pos : (j < i => Now(j, j)) /\ (~(j < i) => pool'[j].key = NULL)
<1>1. /\ \A j \in Pos : pool'[j] = IF j >= i /\ pool[j].key # NULL
                                    THEN [pool[j] EXCEPT !.key = NULL, !.idle = 0]
                                    ELSE pool[j]
      /\ \A c \in Copy : text'[c] = IF \E j \in i .. Last : pool[j].key = c
                                     THEN NULL ELSE text[c]
  BY DEF Clear, TypeOK
<1>2. /\ \A j \in Pos : pool[j] \in [idle : 0 .. MaxIdle,
                                      key : Buffer \cup Copy \cup {NULL},
                                      cached : Buffer]
      /\ 0 \in 0 .. MaxIdle /\ i .. Last = {j \in Pos : j >= i}
      /\ \A j \in Pos : j \in Nat
  <2>1. 0 \in 0 .. MaxIdle /\ \A j \in Pos : j \in Nat
    BY Sizes
  <2>2. i .. Last = {j \in Pos : j >= i}
    BY Sizes
  <2> QED
    BY <2>1, <2>2 DEF TypeOK
<1>3. \A j \in Pos : /\ pool'[j] \in [idle : 0 .. MaxIdle,
                                        key : Buffer \cup Copy \cup {NULL},
                                        cached : Buffer]
                     /\ pool'[j].cached = pool[j].cached
                     /\ pool'[j].key # NULL <=> j < i /\ pool[j].key # NULL
                     /\ j < i => pool'[j] = pool[j]
  <2> TAKE j \in Pos
  <2>0. j \in Nat /\ i \in Nat
    BY <1>2
  <2>1. CASE j >= i /\ pool[j].key # NULL
    <3>1. pool'[j] = [pool[j] EXCEPT !.key = NULL, !.idle = 0]
      BY <1>1, <2>1
    <3>2. /\ pool[j] \in [idle : 0 .. MaxIdle, key : Buffer \cup Copy \cup {NULL},
                          cached : Buffer]
          /\ 0 \in 0 .. MaxIdle /\ ~(j < i)
      BY <1>2, <2>0, <2>1
    <3>3. pool'[j].key = NULL /\ pool'[j].cached = pool[j].cached /\ pool'[j].idle = 0
      BY <3>1, <3>2
    <3>4. pool'[j] \in [idle : 0 .. MaxIdle, key : Buffer \cup Copy \cup {NULL},
                        cached : Buffer]
      BY <3>1, <3>2
    <3> QED
      BY <3>2, <3>3, <3>4
  <2>2. CASE ~(j >= i /\ pool[j].key # NULL)
    <3>1. pool'[j] = pool[j]
      BY <1>1, <2>2
    <3> QED
      BY <1>2, <2>0, <2>2, <3>1
  <2> QED
    BY <2>1, <2>2
<1>4. pool' \in [Pos -> [idle : 0 .. MaxIdle, key : Buffer \cup Copy \cup {NULL},
                         cached : Buffer]]
  <2>1. pool' = [j \in Pos |-> pool'[j]]
    BY DEF Clear
  <2> QED
    BY <2>1, <1>3
<1>5. text' \in [Buffer \cup Copy -> Key \cup {NULL}]
  BY DEF Clear, TypeOK
<1>6. Used' = {j \in Used : j < i}
  BY <1>3 DEF Used
<1>7. PoolOrdered'
  BY <1>2, <1>3, <1>6 DEF PoolOrdered, Used
<1>8. NamesOwned'
  <2>1. \A a, b \in Pos : a # b => pool'[a].cached # pool'[b].cached
    BY <1>3 DEF NamesOwned
  <2>2. \A a \in Used' : pool'[a].key \in Copy \cup {pool'[a].cached}
    BY <1>3, <1>6 DEF NamesOwned, Used
  <2>3. \A a, b \in Used' : a # b => pool'[a].key # pool'[b].key
    BY <1>3, <1>6 DEF NamesOwned, Used
  <2>4. ASSUME NEW c \in Copy
        PROVE  text'[c] # NULL <=> \E j \in Used' : pool'[j].key = c
    <3>1. c # NULL
      BY Sizes
    <3>2. text[c] # NULL <=> \E j \in Used : pool[j].key = c
      BY DEF NamesOwned
    <3>3. CASE \E j \in i .. Last : pool[j].key = c
      <4>1. PICK j \in Used : j >= i /\ pool[j].key = c
        BY <3>1, <3>3, <1>2 DEF Used
      <4>2. \A a \in Used' : pool'[a].key # c
        BY <4>1, <1>2, <1>3, <1>6 DEF NamesOwned, Used
      <4> QED
        BY <3>3, <4>2, <1>1
    <3>4. CASE ~\E j \in i .. Last : pool[j].key = c
      <4>1. text'[c] = text[c]
        BY <3>4, <1>1
      <4>2. \A j \in Used : pool[j].key = c => j < i
        BY <3>4, <1>2 DEF Used
      <4>3. \A j \in Used : j < i => pool'[j] = pool[j]
        BY <1>3 DEF Used
      <4> QED
        BY <3>2, <4>1, <4>2, <4>3, <1>6
    <3> QED
      BY <3>3, <3>4
  <2>5. {c \in Copy : text'[c] # NULL} = {pool'[j].key : j \in Used'} \cap Copy
    BY <2>4
  <2> QED
    BY <2>1, <2>2, <2>3, <2>5 DEF NamesOwned
\* The names that stay are still there.
<1>9. ASSUME NEW j \in Pos, j < i PROVE Now(j, j)
  <2> DEFINE c == pool[j].key
  <2>1. ASSUME c # NULL PROVE text'[c] = text[c]
    <3>1. c \in Buffer \cup Copy /\ j \in Used /\ i \in Nat
      BY <1>2, <2>1 DEF Used
    <3>2. \A m \in i .. Last : pool[m].key # c
      BY <1>2, <1>9, <2>1, <3>1 DEF NamesOwned, Used
    <3>3. DOMAIN text = Buffer \cup Copy
      BY DEF TypeOK
    <3> HIDE DEF c
    <3> QED
      BY <3>1, <3>2, <3>3 DEF Clear
  <2>2. pool'[j] = pool[j]
    BY <1>3, <1>9
  <2> QED
    BY <2>1, <2>2 DEF Now
<1> QED
  BY <1>3, <1>4, <1>5, <1>7, <1>8, <1>9 DEF ShapeOK

-----------------------------------------------------------------------------
(* The invariant.                                                          *)

PoolInv == TypeOK /\ PoolOrdered /\ NamesOwned

LEMMA InitPoolInv == Init => PoolInv
<1> SUFFICES ASSUME Init PROVE PoolInv
  OBVIOUS
<1>1. \A i \in Pos : pool[i].key = NULL /\ pool[i].cached = i
  BY DEF Init, NewPool
<1>2. Used = {}
  BY <1>1 DEF Used
<1>3. TypeOK
  BY Sizes DEF Init, NewPool, TypeOK
<1>4. \A s \in Copy : text[s] = NULL
  BY DEF Init
<1>5. NamesOwned
  <2>2. {pool[i].key : i \in Used} = {}
    BY <1>2
  <2>3. {s \in Copy : text[s] # NULL} = {}
    BY <1>4
  <2> QED
    BY <1>1, <1>2, <2>2, <2>3 DEF NamesOwned
<1>6. PoolOrdered
  BY <1>2 DEF PoolOrdered
<1> QED
  BY <1>3, <1>5, <1>6 DEF PoolInv

LEMMA NextPoolInv == PoolInv /\ [Next]_vars => PoolInv'
<1> SUFFICES ASSUME PoolInv, [Next]_vars PROVE PoolInv'
  OBVIOUS
<1>1. TypeOK /\ PoolOrdered /\ NamesOwned /\ 0 \in Pos /\ 0 \in 0 .. Samples
  BY Sizes DEF PoolInv
<1>2. ASSUME UNCHANGED <<pool, text>>
      PROVE  PoolOrdered' /\ NamesOwned'
  BY <1>1, <1>2 DEF PoolOrdered, NamesOwned, Used
<1>3. ASSUME NEW k \in Key, NEW idle \in 0 .. MaxIdle, Offer(k, idle)
      PROVE  PoolInv'
  <2>1. Insert(k, idle) /\ UNCHANGED <<store, which, pc>> /\ left > 0 /\ left' = left - 1
    BY <1>3 DEF Offer
  <2>2. left' \in 0 .. Samples
    BY <1>1, <2>1, Sizes DEF TypeOK
  <2> QED
    BY <1>1, <2>1, <2>2, InsertKeeps DEF PoolInv, ShapeOK, TypeOK
<1>4. ASSUME NEW i \in Pos, Clear(i), UNCHANGED <<which, left>>,
             store' \in [Key -> {"absent", "persistent", "volatile"}],
             pc' \in {"out", "round", "sample"}
      PROVE  PoolInv'
  BY <1>1, <1>4, ClearKeeps DEF PoolInv, ShapeOK, TypeOK
<1>5. ASSUME NEW i \in Pos, Pick(i) PROVE PoolInv'
  <2>1. store' \in [Key -> {"absent", "persistent", "volatile"}]
    BY <1>1, <1>5 DEF Pick, TypeOK
  <2> QED
    BY <1>4, <1>5, <2>1 DEF Pick
<1>6. CASE AllGhosts
  BY <1>1, <1>4, <1>6 DEF AllGhosts, TypeOK
<1>7. CASE NoKeys \/ UNCHANGED vars
  BY <1>1, <1>2, <1>7 DEF NoKeys, vars, PoolInv, TypeOK
<1>8. ASSUME NEW n \in 0 .. Samples, Populate(n) PROVE PoolInv'
  BY <1>1, <1>2, <1>8 DEF Populate, PoolInv, TypeOK
<1>9. ASSUME NEW w \in {"all", "volatile"}, Begin(w) PROVE PoolInv'
  BY <1>1, <1>2, <1>9 DEF Begin, PoolInv, TypeOK
<1>10. ASSUME NEW k \in Key, NEW s \in {"absent", "persistent", "volatile"}, Client(k, s)
       PROVE  PoolInv'
  BY <1>1, <1>2, <1>10 DEF Client, PoolInv, TypeOK
<1>11. PopulateSome => \E n \in 0 .. Samples : Populate(n)
  BY Sizes DEF PopulateSome
<1> QED
  BY <1>1, <1>3, <1>5, <1>6, <1>7, <1>8, <1>9, <1>10, <1>11 DEF Next, Loop

LEMMA SpecPoolInv == Spec => []PoolInv
  BY InitPoolInv, NextPoolInv, PTL DEF Spec

\* The array of slots keeps its shape.
THEOREM PoolKeepsItsShape == Spec => []TypeOK
<1>1. PoolInv => TypeOK
  BY DEF PoolInv
<1> QED
  BY <1>1, SpecPoolInv, PTL

\* evictionPoolPopulate keeps the used slots at the left and their scores
\* ascending, whatever scores the samples have.
THEOREM ScoresAscend == Spec => []PoolOrdered
<1>1. PoolInv => PoolOrdered
  BY DEF PoolInv
<1> QED
  BY <1>1, SpecPoolInv, PTL

\* No buffer is lost or shared by the shifts of evictionPoolPopulate, and
\* each heap copy of a name is freed exactly when no slot names it.
THEOREM EveryNameHasAnOwner == Spec => []NamesOwned
<1>1. PoolInv => NamesOwned
  BY DEF PoolInv
<1> QED
  BY <1>1, SpecPoolInv, PTL


-----------------------------------------------------------------------------
(* The list of the best candidates.                                        *)

LEMMA PrefixCount ==
  ASSUME NEW n \in Nat
  PROVE  Cardinality(0 .. n - 1) = n
<1>1. Cardinality(0 .. n - 1) = IF 0 > n - 1 THEN 0 ELSE (n - 1) - 0 + 1
  BY FS_Interval
<1> QED
  BY <1>1

\* The used slots are the first ones.
LEMMA UsedPrefix ==
  ASSUME TypeOK, PoolOrdered
  PROVE  Cardinality(Used) \in 0 .. PoolSize /\ Used = 0 .. Cardinality(Used) - 1
<1> DEFINE Stop == {n \in 0 .. PoolSize : n < PoolSize => pool[n].key = NULL}
<1>1. PoolSize \in Stop /\ Stop \subseteq Nat
  BY Sizes
<1>2. PICK n \in Stop : \A i \in Stop : n <= i
  BY <1>1, LeastNatural
<1>3. n \in 0 .. PoolSize /\ n \in Nat
  BY <1>1, <1>2
<1>4. ASSUME NEW i \in Pos PROVE i \in Used <=> i < n
  <2>1. i \in Nat /\ i < PoolSize /\ i \in 0 .. PoolSize
    BY Sizes
  <2>2. CASE i < n
    <3>1. i \notin Stop
      BY <1>2, <1>3, <2>1, <2>2
    <3> QED
      BY <2>1, <2>2, <3>1 DEF Used
  <2>3. CASE ~(i < n)
    <3>1. n \in Pos /\ pool[n].key = NULL
      <4>1. n < PoolSize
        BY <1>3, <2>1, <2>3, Sizes
      <4>2. n \in Pos
        BY <4>1, <1>3, PosBounds
      <4> QED
        BY <4>1, <4>2, <1>2
    <3> QED
      BY <1>3, <2>1, <2>3, <3>1, PoolFacts DEF Used
  <2> QED
    BY <2>2, <2>3
<1>5. Used = 0 .. n - 1
  <2>1. \A i \in 0 .. n - 1 : i \in Pos /\ i < n
    BY <1>3, Sizes
  <2>2. \A i \in Pos : i < n => i \in 0 .. n - 1
    BY <1>3, Sizes
  <2>3. Used \subseteq Pos
    BY DEF Used
  <2> QED
    BY <1>4, <2>1, <2>2, <2>3
<1> QED
  BY <1>3, <1>5, PrefixCount

\* Putting an element between the first n of a sequence and the others.
Inserted(s, n, e) == SubSeq(s, 1, n) \o <<e>> \o SubSeq(s, n + 1, Len(s))

Between(t, s, n, e) ==
  /\ Len(t) = Len(s) + 1
  /\ \A i \in 1 .. Len(s) + 1 :
       t[i] = IF i <= n THEN s[i] ELSE IF i = n + 1 THEN e ELSE s[i - 1]

LEMMA InsertAt ==
  ASSUME NEW X, NEW s \in Seq(X), NEW e \in X, NEW n \in 0 .. Len(s),
         NEW t, t = Inserted(s, n, e)
  PROVE  t \in Seq(X) /\ Between(t, s, n, e)
<1> DEFINE N == Len(s)
           a == SubSeq(s, 1, n)
           b == SubSeq(s, n + 1, N)
           u == a \o <<e>>
<1>1. N \in Nat /\ n \in Nat /\ n <= N /\ \A i \in 1 .. N : s[i] \in X
  OBVIOUS
<1>2. a \in Seq(X) /\ Len(a) = n /\ \A i \in 1 .. n : a[i] = s[i]
  <2>1. \A i \in 1 .. n : s[i] \in X
    BY <1>1
  <2>2. /\ a \in Seq(X) /\ Len(a) = IF 1 <= n THEN n - 1 + 1 ELSE 0
        /\ \A i \in 1 .. n - 1 + 1 : a[i] = s[1 + i - 1]
    BY <1>1, <2>1, SubSeqProperties
  <2>3. n - 1 + 1 = n /\ \A i \in 1 .. n : 1 + i - 1 = i
    BY <1>1
  <2> HIDE DEF a
  <2> QED
    BY <1>1, <2>2, <2>3
<1>3. b \in Seq(X) /\ Len(b) = N - n /\ \A i \in 1 .. N - n : b[i] = s[n + i]
  <2>1. \A i \in n + 1 .. N : s[i] \in X
    BY <1>1
  <2>2. /\ b \in Seq(X) /\ Len(b) = IF n + 1 <= N THEN N - (n + 1) + 1 ELSE 0
        /\ \A i \in 1 .. N - (n + 1) + 1 : b[i] = s[(n + 1) + i - 1]
    BY <1>1, <2>1, SubSeqProperties
  <2>3. N - (n + 1) + 1 = N - n /\ \A i \in 1 .. N - n : (n + 1) + i - 1 = n + i
    BY <1>1
  <2> HIDE DEF b, N
  <2> QED
    BY <1>1, <2>2, <2>3
<1>4. <<e>> \in Seq(X) /\ Len(<<e>>) = 1 /\ <<e>>[1] = e
  OBVIOUS
<1> HIDE DEF a, b, N
<1>5. u \in Seq(X) /\ Len(u) = n + 1
      /\ \A i \in 1 .. n + 1 : u[i] = IF i <= n THEN a[i] ELSE <<e>>[i - n]
  BY <1>2, <1>4, ConcatProperties
<1>6. u[n + 1] = e /\ \A i \in 1 .. n : u[i] = s[i]
  <2>1. n + 1 \in 1 .. n + 1 /\ ~(n + 1 <= n) /\ (n + 1) - n = 1
    BY <1>1
  <2>2. \A i \in 1 .. n : i \in 1 .. n + 1 /\ i <= n
    BY <1>1
  <2> HIDE DEF u
  <2> QED
    BY <1>2, <1>4, <1>5, <2>1, <2>2
<1> HIDE DEF u
<1>7. t = u \o b
  BY DEF u, a, b, N, Inserted
<1>8. t \in Seq(X) /\ Len(t) = n + 1 + (N - n)
      /\ \A i \in 1 .. n + 1 + (N - n) : t[i] = IF i <= n + 1 THEN u[i] ELSE b[i - (n + 1)]
  <2>1. /\ u \o b \in Seq(X) /\ Len(u \o b) = Len(u) + Len(b)
        /\ \A i \in 1 .. Len(u) + Len(b) :
             (u \o b)[i] = IF i <= Len(u) THEN u[i] ELSE b[i - Len(u)]
    BY <1>3, <1>5, ConcatProperties
  <2>2. Len(u) = n + 1 /\ Len(b) = N - n
    BY <1>3, <1>5
  <2> QED
    BY <1>7, <2>1, <2>2
<1>9. n + 1 + (N - n) = N + 1
  BY <1>1
<1>10. ASSUME NEW i \in 1 .. N + 1
       PROVE  t[i] = IF i <= n THEN s[i] ELSE IF i = n + 1 THEN e ELSE s[i - 1]
  <2>1. t[i] = IF i <= n + 1 THEN u[i] ELSE b[i - (n + 1)]
    BY <1>8, <1>9
  <2>0. i \in Nat /\ 1 <= i /\ i <= N + 1
    BY <1>1
  <2>2. CASE i <= n
    <3>1. i <= n + 1 /\ i \in 1 .. n
      BY <1>1, <2>0, <2>2
    <3>2. u[i] = s[i]
      BY <3>1, <1>6
    <3> QED
      BY <2>1, <2>2, <3>1, <3>2
  <2>3. CASE i = n + 1
    <3>1. i <= n + 1 /\ ~(i <= n)
      BY <1>1, <2>3
    <3> QED
      BY <1>6, <2>1, <2>3, <3>1
  <2>4. CASE i > n + 1
    <3>1. i - (n + 1) \in 1 .. N - n /\ n + (i - (n + 1)) = i - 1
      BY <1>1, <2>0, <2>4
    <3>2. b[i - (n + 1)] = s[i - 1]
      BY <1>3, <3>1
    <3>3. ~(i <= n + 1) /\ ~(i <= n) /\ i # n + 1
      BY <1>1, <2>0, <2>4
    <3> QED
      BY <2>1, <3>2, <3>3
  <2>5. i <= n \/ i = n + 1 \/ i > n + 1
    BY <1>1, <2>0
  <2> QED
    BY <2>2, <2>3, <2>4, <2>5
<1> QED
  BY <1>8, <1>9, <1>10 DEF N, Between

\* What Candidates makes of an offer.
LEMMA BestOfIs ==
  ASSUME TypeOK, PoolOrdered, NEW k \in Key, NEW idle \in 0 .. MaxIdle,
         NEW n, Fits(n, idle), NEW N, N = Cardinality(Used)
  PROVE  /\ n \in Nat /\ N \in Nat /\ n <= N /\ N <= PoolSize
         /\ Best!BestOf(<<idle, k>>) =
              IF N = PoolSize
              THEN [i \in 1 .. N |-> IF i < n THEN Cand[i + 1]
                                     ELSE IF i = n THEN <<idle, k>> ELSE Cand[i]]
              ELSE [i \in 1 .. N + 1 |-> IF i <= n THEN Cand[i]
                                         ELSE IF i = n + 1 THEN <<idle, k>>
                                         ELSE Cand[i - 1]]
<1> DEFINE e == <<idle, k>>
           X == {Cand[i] : i \in 1 .. N} \cup {e}
           t == SubSeq(Cand, 1, n) \o <<e>> \o SubSeq(Cand, n + 1, Len(Cand))
<1>1. /\ N \in Nat /\ N <= PoolSize /\ PoolSize \in Nat /\ Used = 0 .. N - 1
      /\ n \in 0 .. PoolSize /\ n \in Nat
  BY UsedPrefix, Sizes DEF Fits
<1>2. n <= N
  <2>1. CASE n = 0
    BY <1>1, <2>1
  <2>2. CASE n > 0
    <3>1. n - 1 \in Pos /\ n - 1 < n
      BY <1>1, <2>2, PosBounds
    <3>2. n - 1 \in Used
      BY <3>1 DEF Fits, Used
    <3>3. n - 1 \in 0 .. N - 1
      BY <1>1, <3>2
    <3> QED
      BY <1>1, <3>3
  <2>3. n = 0 \/ n > 0
    BY <1>1
  <2> QED
    BY <2>1, <2>2, <2>3
<1>3. /\ Cand \in Seq(X) /\ Len(Cand) = N /\ DOMAIN Cand = 1 .. N
      /\ Cand = [i \in 1 .. N |-> Cand[i]]
  <2>1. Cand = [i \in 1 .. N |-> Cand[i]]
    BY DEF Cand
  <2>2. \A i \in 1 .. N : Cand[i] \in X
    OBVIOUS
  <2> DEFINE c == Cand
  <2>3. c = [i \in 1 .. N |-> c[i]] /\ \A i \in 1 .. N : c[i] \in X
    BY <2>1, <2>2
  <2> HIDE DEF X, c
  <2>4. c \in [1 .. N -> X]
    BY <2>3
  <2>5. c \in Seq(X)
    BY <1>1, <2>4, SeqDef
  <2>6. Len(c) = N
    BY <1>1, <2>4, <2>5, LenProperties
  <2>7. DOMAIN c = 1 .. N
    BY <2>4
  <2> QED
    BY <2>3, <2>5, <2>6, <2>7 DEF c
\* The place is the number of lower scores.
<1>4. 1 .. n = {i \in DOMAIN Cand : Cand[i][1] < e[1]}
  <2>1. \A i \in 1 .. N : Cand[i][1] = pool[i - 1].idle /\ e[1] = idle
    BY DEF Cand
  <2>2. ASSUME NEW i \in 1 .. N PROVE pool[i - 1].idle < idle <=> i <= n
    <3>1. i - 1 \in Pos /\ i - 1 \in Nat /\ i \in Nat /\ i - 1 \in Used
      <4>1. i \in Nat /\ i - 1 \in Nat /\ i - 1 \in 0 .. N - 1
        BY <1>1
      <4>2. i - 1 \in Used
        BY <4>1, <1>1
      <4> QED
        BY <4>1, <4>2 DEF Used
    <3>2. CASE i <= n
      <4>1. i - 1 < n
        BY <1>1, <3>1, <3>2
      <4> QED
        BY <3>1, <3>2, <4>1 DEF Fits
    <3>3. CASE ~(i <= n)
      <4>1. n <= i - 1 /\ n < PoolSize /\ n \in Pos
        BY <1>1, <3>1, <3>3, PosBounds
      <4>2. pool[n].key # NULL /\ pool[n].idle <= pool[i - 1].idle
        <5>1. n < i - 1 \/ n = i - 1
          BY <1>1, <3>1, <4>1
        <5>2. pool[i - 1].key # NULL /\ pool[i - 1].idle \in Nat
          BY <3>1, PoolFacts DEF Used
        <5> QED
          BY <3>1, <4>1, <5>1, <5>2, PoolFacts
      <4>3. pool[n].idle >= idle
        BY <4>1, <4>2 DEF Fits
      <4>4. pool[n].idle \in Nat /\ pool[i - 1].idle \in Nat /\ idle \in Nat
        BY <3>1, <4>1, PoolFacts, Sizes
      <4> QED
        BY <3>3, <4>2, <4>3, <4>4
    <3> QED
      BY <3>2, <3>3
  <2>3. 1 .. n = {i \in 1 .. N : i <= n}
    BY <1>1, <1>2
  <2> HIDE DEF e
  <2> QED
    BY <1>3, <2>1, <2>2, <2>3
<1>5. n = CHOOSE m \in 0 .. Len(Cand) :
            1 .. m = {i \in DOMAIN Cand : Cand[i][1] < e[1]}
  <2> DEFINE S == {i \in DOMAIN Cand : Cand[i][1] < e[1]}
  <2>1. \A m \in 0 .. N : 1 .. m = 1 .. n => m = n
    <3> TAKE m \in 0 .. N
    <3> SUFFICES ASSUME 1 .. m = 1 .. n PROVE m = n
      OBVIOUS
    <3>1. m \in 1 .. m \/ m = 0
      BY <1>1
    <3>2. n \in 1 .. n \/ n = 0
      BY <1>1
    <3> QED
      BY <1>1, <3>1, <3>2
  <2>2. n \in 0 .. N
    BY <1>1, <1>2
  <2>3. S = 1 .. n
    BY <1>4
  <2> HIDE DEF S
  <2>4. n = CHOOSE m \in 0 .. Len(Cand) : 1 .. m = S
    BY <1>3, <2>1, <2>2, <2>3
  <2> QED
    BY <2>4 DEF S
<1> HIDE DEF X
<1>6. /\ t \in Seq(X) /\ Len(t) = N + 1
      /\ \A i \in 1 .. N + 1 :
           t[i] = IF i <= n THEN Cand[i] ELSE IF i = n + 1 THEN e ELSE Cand[i - 1]
  <2>1. e \in X /\ n \in 0 .. Len(Cand)
    <3>1. e \in X
      BY DEF X
    <3>2. n \in 0 .. N
      BY <1>1, <1>2
    <3> QED
      BY <3>1, <3>2, <1>3
  <2> HIDE DEF t, e
  <2>2. /\ t \in Seq(X) /\ Len(t) = Len(Cand) + 1
        /\ \A i \in 1 .. Len(Cand) + 1 :
             t[i] = IF i <= n THEN Cand[i] ELSE IF i = n + 1 THEN e ELSE Cand[i - 1]
    <3>1. t = Inserted(Cand, n, e)
      BY DEF t, Inserted
    <3>2. Cand \in Seq(X)
      BY <1>3
    <3>3. t \in Seq(X) /\ Between(t, Cand, n, e)
      BY <2>1, <3>1, <3>2, InsertAt
    <3> QED
      BY <3>3 DEF Between
  <2> QED
    BY <1>3, <2>2
<1>7. Best!BestOf(e) = IF Len(t) > PoolSize THEN Tail(t) ELSE t
  BY <1>5 DEF Best!BestOf
<1> HIDE DEF t, e
<1>8. CASE N = PoolSize
  <2>1. Best!BestOf(e) = Tail(t) /\ t # <<>>
    BY <1>1, <1>6, <1>7, <1>8
  <2>2. Tail(t) \in Seq(X) /\ Len(Tail(t)) = N /\ \A i \in 1 .. N : Tail(t)[i] = t[i + 1]
    <3>1. /\ Tail(t) \in Seq(X) /\ Len(Tail(t)) = Len(t) - 1
          /\ \A i \in 1 .. Len(Tail(t)) : Tail(t)[i] = t[i + 1]
      BY <1>6, <2>1, HeadTailProperties
    <3>2. Len(Tail(t)) = N
      <4>0. Len(t) = N + 1 /\ N \in Nat
        BY <1>1, <1>6
      <4>1. Len(t) - 1 = N
        BY <4>0
      <4> QED
        BY <3>1, <4>1
    <3> QED
      BY <3>1, <3>2
  <2>3. ASSUME NEW i \in 1 .. N
        PROVE  Tail(t)[i] = IF i < n THEN Cand[i + 1] ELSE IF i = n THEN e ELSE Cand[i]
    <3>1. i + 1 \in 1 .. N + 1 /\ (i + 1 <= n <=> i < n) /\ (i + 1 = n + 1 <=> i = n)
          /\ (i + 1) - 1 = i
      BY <1>1
    <3> QED
      BY <1>6, <2>2, <3>1
  <2>4. Tail(t) = [i \in 1 .. N |-> Tail(t)[i]]
    <3> DEFINE r == Tail(t)
    <3>1. r \in Seq(X) /\ Len(r) = N
      BY <2>2
    <3> HIDE DEF r
    <3>2. r = [i \in 1 .. N |-> r[i]]
      BY <3>1
    <3> QED
      BY <3>2 DEF r
  <2>5. Tail(t) = [i \in 1 .. N |-> IF i < n THEN Cand[i + 1]
                                    ELSE IF i = n THEN e ELSE Cand[i]]
    BY <2>3, <2>4
  <2> QED
    BY <1>1, <1>2, <1>8, <2>1, <2>5 DEF e
<1>9. CASE N # PoolSize
  <2>1. Best!BestOf(e) = t
    <3>1. Len(t) = N + 1
      BY <1>6
    <3>2. ~(N + 1 > PoolSize)
      BY <1>1, <1>9
    <3> QED
      BY <1>7, <3>1, <3>2
  <2>2. t = [i \in 1 .. N + 1 |-> t[i]]
    BY <1>6
  <2>3. t = [i \in 1 .. N + 1 |-> IF i <= n THEN Cand[i] ELSE IF i = n + 1 THEN e
                                  ELSE Cand[i - 1]]
    BY <1>6, <2>2
  <2> QED
    BY <1>1, <1>2, <1>9, <2>1, <2>3 DEF e
<1> QED
  BY <1>8, <1>9


\* The list after a step, slot by slot.
LEMMA CandAfter ==
  ASSUME NEW M \in Nat, Cardinality(Used)' = M
  PROVE  Cand' = [i \in 1 .. M |-> <<pool'[i - 1].idle, text'[pool'[i - 1].key]>>]
  BY DEF Cand

LEMMA CandNow ==
  ASSUME TypeOK, PoolOrdered, NEW i \in 1 .. Cardinality(Used)
  PROVE  /\ i - 1 \in Used /\ i - 1 \in Pos
         /\ Cand[i] = <<pool[i - 1].idle, text[pool[i - 1].key]>>
<1>1. Cardinality(Used) \in Nat /\ Used = 0 .. Cardinality(Used) - 1
  BY UsedPrefix, Sizes
<1>2. i - 1 \in 0 .. Cardinality(Used) - 1
  BY <1>1
<1> QED
  BY <1>1, <1>2 DEF Cand, Used

\* A slot that was moved keeps its place in the list.
LEMMA NowCand ==
  ASSUME TypeOK, PoolOrdered, NEW i \in 1 .. Cardinality(Used), NEW j, Now(j, i - 1)
  PROVE  <<pool'[j].idle, text'[pool'[j].key]>> = Cand[i]
  BY CandNow DEF Now, Used

LEMMA InsertRefines ==
  ASSUME PoolInv, PoolInv', NEW k \in Key, NEW idle \in 0 .. MaxIdle, Insert(k, idle)
  PROVE  Cand' = Best!BestOf(<<idle, k>>)
<1> DEFINE n == Place(idle)
           N == Cardinality(Used)
           e == <<idle, k>>
           C(i) == <<pool'[i - 1].idle, text'[pool'[i - 1].key]>>
<1>1. TypeOK /\ PoolOrdered /\ NamesOwned /\ Fits(n, idle)
  BY PlaceFits DEF PoolInv
<1>2. /\ n \in Nat /\ N \in Nat /\ n <= N /\ N <= PoolSize /\ PoolSize \in Nat
      /\ Used = 0 .. N - 1 /\ N \in 1 .. PoolSize \cup {0}
      /\ Best!BestOf(e) =
              IF N = PoolSize
              THEN [i \in 1 .. N |-> IF i < n THEN Cand[i + 1]
                                     ELSE IF i = n THEN e ELSE Cand[i]]
              ELSE [i \in 1 .. N + 1 |-> IF i <= n THEN Cand[i]
                                         ELSE IF i = n + 1 THEN e ELSE Cand[i - 1]]
  <2>1. /\ n \in Nat /\ N \in Nat /\ n <= N /\ N <= PoolSize
        /\ Best!BestOf(e) =
              IF N = PoolSize
              THEN [i \in 1 .. N |-> IF i < n THEN Cand[i + 1]
                                     ELSE IF i = n THEN e ELSE Cand[i]]
              ELSE [i \in 1 .. N + 1 |-> IF i <= n THEN Cand[i]
                                         ELSE IF i = n + 1 THEN e ELSE Cand[i - 1]]
    <3> HIDE DEF n, N
    <3>1. N = Cardinality(Used)
      BY DEF N
    <3> QED
      BY <1>1, <3>1, BestOfIs
  <2>2. Used = 0 .. N - 1
    BY <1>1, UsedPrefix
  <2> HIDE DEF n, N, e
  <2> QED
    BY <2>1, <2>2, Sizes
<1>3. pool[Last].key # NULL <=> N = PoolSize
  <2>1. Last \in Used <=> N = PoolSize
    BY <1>2, Sizes
  <2> QED
    BY <2>1, Sizes DEF Used
<1>4. \A i \in 1 .. N : Now(i - 1, i - 1) => C(i) = Cand[i]
  BY <1>1, NowCand
<1>5. ASSUME NEW m, New(m, k, idle) PROVE <<pool'[m].idle, text'[pool'[m].key]>> = e
  BY <1>5 DEF New
<1>6. Used' \subseteq Pos /\ \A i \in Pos : i \in Used' <=> pool'[i].key # NULL
  BY DEF Used
<1>7. \A i \in Pos : i \in Used <=> pool[i].key # NULL
  BY DEF Used
<1>8. \A i \in Pos : i \in Nat /\ i < PoolSize
  BY Sizes
\* One more slot is used.
<1>9. ASSUME N # PoolSize, Used' = 0 .. N, \A i \in 1 .. N + 1 :
               C(i) = IF i <= n THEN Cand[i] ELSE IF i = n + 1 THEN e ELSE Cand[i - 1]
      PROVE  Cand' = Best!BestOf(e)
  <2>1. Cardinality(Used)' = N + 1
    <3>1. N + 1 \in Nat /\ (N + 1) - 1 = N
      BY <1>2
    <3>2. Cardinality(0 .. N) = N + 1
      BY <3>1, PrefixCount
    <3> QED
      BY <1>9, <3>2
  <2>2. Cand' = [i \in 1 .. N + 1 |-> C(i)]
    BY <1>2, <2>1, CandAfter
  <2>3. Cand' = [i \in 1 .. N + 1 |-> IF i <= n THEN Cand[i]
                                      ELSE IF i = n + 1 THEN e ELSE Cand[i - 1]]
    <3> HIDE DEF C, e, n, N
    <3> QED
      BY <1>9, <2>2
  <2> HIDE DEF e, n, N
  <2> QED
    BY <1>2, <1>9, <2>3
<1>10. CASE n = 0 /\ N = PoolSize /\ UNCHANGED <<pool, text>>
  <2>1. Cand' = Cand
    BY <1>10 DEF Cand, Used
  <2>2. Cand = [i \in 1 .. N |-> Cand[i]]
    BY DEF Cand
  <2> HIDE DEF n, N, e
  <2>3. \A i \in 1 .. N : ~(i < n) /\ i # n
    BY <1>2, <1>10
  <2>4. [i \in 1 .. N |-> Cand[i]] =
          [i \in 1 .. N |-> IF i < n THEN Cand[i + 1] ELSE IF i = n THEN e ELSE Cand[i]]
    BY <2>3
  <2> QED
    BY <1>2, <1>10, <2>1, <2>2, <2>4 DEF e
<1>11. CASE n < PoolSize /\ pool[n].key = NULL /\ Fill(pool, text, n, k, idle)
  <2> HIDE DEF n, N, e, C
  <2>1. n \in Pos /\ New(n, k, idle) /\ \A i \in Pos : i # n => Now(i, i)
    BY <1>1, <1>11, IntoEmpty
  <2>2. n = N
    <3>1. n \notin Used
      BY <1>7, <1>11, <2>1
    <3> QED
      BY <1>2, <3>1
  <2>3. N # PoolSize
    BY <1>8, <2>1, <2>2
  <2>4. Used' = 0 .. N
    <3>1. \A i \in Pos : i \in Used' <=> i = n \/ i \in Used
      BY <1>6, <1>7, <2>1 DEF New, Now
    <3>2. 0 .. N = Used \cup {n} /\ Used \subseteq Pos
      BY <1>2, <2>2 DEF Used
    <3> QED
      BY <1>6, <2>1, <3>1, <3>2
  <2>5. ASSUME NEW i \in 1 .. N + 1
        PROVE  C(i) = IF i <= n THEN Cand[i] ELSE IF i = n + 1 THEN e ELSE Cand[i - 1]
    <3>1. CASE i <= n
      <4>1. i \in 1 .. N /\ i - 1 # n
        BY <1>2, <2>2, <3>1
      <4>2. i - 1 \in Pos
        BY <1>1, <4>1, CandNow DEF N
      <4> QED
        BY <1>4, <2>1, <3>1, <4>1, <4>2
    <3>2. CASE i = n + 1
      <4>1. i - 1 = n /\ ~(i <= n)
        BY <1>2, <3>2
      <4>2. C(i) = e
        BY <1>5, <2>1, <4>1 DEF C
      <4> QED
        BY <3>2, <4>1, <4>2
    <3> QED
      BY <1>2, <2>2, <3>1, <3>2
  <2> QED
    BY <1>9, <2>3, <2>4, <2>5 DEF e
<1>12. CASE /\ n < PoolSize => pool[n].key # NULL
            /\ N # PoolSize /\ Fill(ShiftRight(n), text, n, k, idle)
  <2> HIDE DEF n, N, e, C
  <2>1. /\ n \in Pos /\ pool[n].key # NULL /\ New(n, k, idle)
        /\ \A i \in Pos : (i < n => Now(i, i)) /\ (i > n => Now(i, i - 1))
    BY <1>1, <1>3, <1>12, IntoRoom
  <2>2. n < N /\ N < PoolSize
    BY <1>2, <1>7, <1>12, <2>1
  <2>3. Used' = 0 .. N
    <3>1. ASSUME NEW i \in Pos PROVE i \in Used' <=> i <= N
      <4>1. CASE i < n
        <5>1. i \in Used /\ i \in Nat
          BY <1>2, <1>8, <2>2, <4>1
        <5> QED
          BY <1>2, <1>6, <1>7, <2>1, <2>2, <4>1, <5>1 DEF Now
      <4>2. CASE i = n
        BY <1>2, <1>6, <2>1, <2>2, <4>2 DEF New
      <4>3. CASE i > n
        <5>1. i - 1 \in Pos /\ i \in Nat
          BY <1>2, <1>8, <4>3, PosBounds
        <5>2. i - 1 \in Used <=> i <= N
          BY <1>2, <1>8, <4>3, <5>1
        <5>3. pool'[i] = pool[i - 1]
          BY <2>1, <4>3 DEF Now
        <5> QED
          BY <1>6, <1>7, <5>1, <5>2, <5>3
      <4>4. i \in Nat
        BY <1>8
      <4> QED
        BY <1>2, <4>1, <4>2, <4>3, <4>4
    <3>2. \A i \in 0 .. N : i \in Pos /\ i <= N
      BY <1>2, <2>2, PosBounds
    <3>3. \A i \in Pos : i <= N => i \in 0 .. N
      BY <1>2, <1>8
    <3> QED
      BY <1>6, <3>1, <3>2, <3>3
  <2>4. ASSUME NEW i \in 1 .. N + 1
        PROVE  C(i) = IF i <= n THEN Cand[i] ELSE IF i = n + 1 THEN e ELSE Cand[i - 1]
    <3>0. i \in Nat /\ i - 1 \in Pos /\ i - 1 \in Nat
      <4>1. i \in Nat /\ 0 <= i - 1 /\ i - 1 < PoolSize
        BY <1>2, <2>2
      <4> QED
        BY <4>1, PosBounds
    <3>1. CASE i <= n
      <4>1. i \in 1 .. N /\ i - 1 < n
        BY <1>2, <2>2, <3>0, <3>1
      <4> QED
        BY <1>4, <2>1, <3>0, <3>1, <4>1
    <3>2. CASE i = n + 1
      <4>1. i - 1 = n /\ ~(i <= n)
        BY <1>2, <3>2
      <4>2. C(i) = e
        BY <1>5, <2>1, <4>1 DEF C
      <4> QED
        BY <3>2, <4>1, <4>2
    <3>3. CASE i > n + 1
      <4>1. i - 1 \in 1 .. N /\ i - 1 > n /\ ~(i <= n) /\ i # n + 1
        BY <1>2, <3>0, <3>3
      <4>2. Now(i - 1, (i - 1) - 1)
        BY <2>1, <3>0, <4>1
      <4>3. C(i) = Cand[i - 1]
        BY <1>1, <4>1, <4>2, NowCand DEF C, N
      <4> QED
        BY <4>1, <4>3
    <3> QED
      BY <1>2, <3>0, <3>1, <3>2, <3>3
  <2> QED
    BY <1>9, <1>12, <2>3, <2>4 DEF e
<1>13. CASE /\ n < PoolSize => pool[n].key # NULL
            /\ n > 0 /\ N = PoolSize
            /\ Fill(ShiftLeft(n - 1), FreeName(text, pool[0]), n - 1, k, idle)
  <2> HIDE DEF n, N, e, C
  <2>1. /\ n - 1 \in Pos /\ New(n - 1, k, idle)
        /\ \A i \in Pos : pool[i].key # NULL /\ pool'[i].key # NULL
        /\ \A i \in Pos : (i < n - 1 => Now(i, i + 1)) /\ (i > n - 1 => Now(i, i))
    <3>1. /\ n < PoolSize => pool[n].key # NULL
          /\ n > 0 /\ pool[Last].key # NULL
          /\ Fill(ShiftLeft(n - 1), FreeName(text, pool[0]), n - 1, k, idle)
      BY <1>3, <1>13
    <3> QED
      BY <1>1, <3>1, IntoFull
  <2>2. Used' = Pos /\ Used = Pos
    BY <1>6, <2>1 DEF Used
  <2>3. Cand' = [i \in 1 .. N |-> C(i)]
    <3>1. Cardinality(Used)' = N
      BY <2>2 DEF N
    <3> QED
      BY <1>2, <3>1, CandAfter DEF C
  <2>4. ASSUME NEW i \in 1 .. N
        PROVE  C(i) = IF i < n THEN Cand[i + 1] ELSE IF i = n THEN e ELSE Cand[i]
    <3>0. i \in Nat /\ i - 1 \in Pos /\ i - 1 \in Nat
      <4>1. i \in Nat /\ 0 <= i - 1 /\ i - 1 < PoolSize
        BY <1>2
      <4> QED
        BY <4>1, PosBounds
    <3>1. CASE i < n
      <4>1. i + 1 \in 1 .. N /\ i - 1 < n - 1 /\ (i + 1) - 1 = (i - 1) + 1
        BY <1>2, <3>0, <3>1
      <4>2. Now(i - 1, (i + 1) - 1)
        BY <2>1, <3>0, <4>1
      <4>3. C(i) = Cand[i + 1]
        BY <1>1, <4>1, <4>2, NowCand DEF C, N
      <4> QED
        BY <3>1, <4>3
    <3>2. CASE i = n
      <4>1. C(i) = e
        BY <1>5, <2>1, <3>2 DEF C
      <4> QED
        BY <1>2, <3>2, <4>1
    <3>3. CASE i > n
      <4>1. i - 1 > n - 1 /\ ~(i < n) /\ i # n
        BY <1>2, <3>0, <3>3
      <4> QED
        BY <1>4, <2>1, <3>0, <4>1
    <3> QED
      BY <1>2, <3>0, <3>1, <3>2, <3>3
  <2>5. Cand' = [i \in 1 .. N |-> IF i < n THEN Cand[i + 1]
                                  ELSE IF i = n THEN e ELSE Cand[i]]
    BY <2>3, <2>4
  <2> QED
    BY <1>2, <1>13, <2>5 DEF e
<1> QED
  <2>1. \/ n = 0 /\ pool[Last].key # NULL /\ UNCHANGED <<pool, text>>
        \/ n < PoolSize /\ pool[n].key = NULL /\ Fill(pool, text, n, k, idle)
        \/ /\ n < PoolSize => pool[n].key # NULL
           /\ \/ ~(pool[Last].key # NULL) /\ Fill(ShiftRight(n), text, n, k, idle)
              \/ /\ n > 0 /\ pool[Last].key # NULL
                 /\ Fill(ShiftLeft(n - 1), FreeName(text, pool[0]), n - 1, k, idle)
    BY DEF Insert
  <2> HIDE DEF n, N, e, C
  <2> QED
    BY <1>3, <1>10, <1>11, <1>12, <1>13, <2>1 DEF e


\* Emptying the slots from i on leaves the first i of the list.
LEMMA ClearCand ==
  ASSUME PoolInv, NEW i \in Pos, i <= Cardinality(Used), Clear(i)
  PROVE  /\ i \in Nat /\ Cand' = [m \in 1 .. i |-> Cand[m]]
         /\ Cand' = SubSeq(Cand, 1, i)
<1> DEFINE N == Cardinality(Used)
<1>1. TypeOK /\ PoolOrdered /\ NamesOwned
  BY DEF PoolInv
<1>2. /\ N \in Nat /\ Used = 0 .. N - 1 /\ i \in Nat /\ i <= N
      /\ \A j \in Pos : j \in Nat
  BY <1>1, UsedPrefix, Sizes
<1>3. \A j \in Pos : (j < i => Now(j, j)) /\ (~(j < i) => pool'[j].key = NULL)
  BY <1>1, ClearKeeps
<1>4. Used' = 0 .. i - 1
  <2>1. ASSUME NEW j \in Pos PROVE j \in Used' <=> j < i
    <3>1. CASE j < i
      <4>1. j \in Used
        BY <1>2, <3>1
      <4> QED
        BY <1>3, <3>1, <4>1 DEF Now, Used
    <3>2. CASE ~(j < i)
      BY <1>3, <3>2 DEF Used
    <3> QED
      BY <3>1, <3>2
  <2>2. Used' \subseteq Pos
    BY DEF Used
  <2>3. \A j \in 0 .. i - 1 : j \in Pos /\ j < i
    BY <1>2, Sizes
  <2>4. \A j \in Pos : j < i => j \in 0 .. i - 1
    BY <1>2
  <2> QED
    BY <2>1, <2>2, <2>3, <2>4
<1>5. Cardinality(Used)' = i
  BY <1>2, <1>4, PrefixCount
<1>6. Cand' = [m \in 1 .. i |-> <<pool'[m - 1].idle, text'[pool'[m - 1].key]>>]
  BY <1>2, <1>5, CandAfter
<1>7. ASSUME NEW m \in 1 .. i
      PROVE  <<pool'[m - 1].idle, text'[pool'[m - 1].key]>> = Cand[m]
  <2>1. m \in 1 .. N /\ m - 1 < i
    BY <1>2
  <2>2. m - 1 \in Pos
    BY <1>1, <2>1, CandNow
  <2> QED
    BY <1>1, <1>3, <2>1, <2>2, NowCand
<1>8. Cand' = [m \in 1 .. i |-> Cand[m]]
  BY <1>6, <1>7
<1>9. Cand' = SubSeq(Cand, 1, i)
  <2> DEFINE X == {Cand[m] : m \in 1 .. i}
             r == SubSeq(Cand, 1, i)
  <2>1. \A m \in 1 .. i : Cand[m] \in X
    OBVIOUS
  <2> HIDE DEF X, r
  <2>2. /\ r \in Seq(X) /\ Len(r) = IF 1 <= i THEN i - 1 + 1 ELSE 0
        /\ \A m \in 1 .. i - 1 + 1 : r[m] = Cand[1 + m - 1]
    BY <1>2, <2>1, SubSeqProperties DEF r
  <2>3. i - 1 + 1 = i /\ \A m \in 1 .. i : 1 + m - 1 = m
    BY <1>2
  <2>4. Len(r) = i /\ \A m \in 1 .. i : r[m] = Cand[m]
    <3>1. (IF 1 <= i THEN i ELSE 0) = i
      BY <1>2
    <3> QED
      BY <2>2, <2>3, <3>1
  <2>5. r = [m \in 1 .. i |-> r[m]]
    BY <2>2, <2>4
  <2>6. r = [m \in 1 .. i |-> Cand[m]]
    BY <2>4, <2>5
  <2> QED
    BY <1>8, <2>6 DEF r
<1> QED
  BY <1>2, <1>8, <1>9

LEMMA PickRefines ==
  ASSUME PoolInv, NEW i \in Pos, Pick(i)
  PROVE  Best!Evict
<1> DEFINE N == Cardinality(Used)
           a == i + 1
<1>1. TypeOK /\ PoolOrdered
  BY DEF PoolInv
<1>2. /\ N \in Nat /\ Used = 0 .. N - 1 /\ DOMAIN Cand = 1 .. N
      /\ \A j \in Pos : j \in Nat /\ j <= Last
  BY <1>1, UsedPrefix, Sizes DEF Cand
<1>3. i \in Used /\ a \in 1 .. N /\ a - 1 = i /\ i <= N /\ i \in Nat
  <2>1. i \in Used
    BY DEF Pick, Live, Used
  <2> QED
    BY <1>2, <2>1
<1>4. \A m \in 1 .. N : /\ m - 1 \in Used /\ m - 1 \in Pos
                        /\ Cand[m][1] = pool[m - 1].idle
                        /\ Cand[m][2] = text[pool[m - 1].key]
  BY <1>1, CandNow
<1> HIDE DEF N, a
<1>5. Best!Evictable(Cand[a][2])
  BY <1>3, <1>4 DEF Pick, Live, Evictable, Best!Evictable
<1>6. ASSUME NEW m \in 1 .. N, Best!Evictable(Cand[m][2])
      PROVE  Cand[m][1] <= Cand[a][1]
  <2>1. Live(m - 1) /\ m - 1 \in Nat
    BY <1>2, <1>4, <1>6 DEF Live, Used, Evictable, Best!Evictable
  <2>2. m - 1 <= i
    <3>1. ASSUME m - 1 > i PROVE FALSE
      <4>1. m - 1 \in i + 1 .. Last
        BY <1>2, <1>3, <1>4, <2>1, <3>1, Sizes
      <4> QED
        BY <2>1, <4>1 DEF Pick
    <3> QED
      BY <1>3, <2>1, <3>1
  <2>3. pool[m - 1].idle <= pool[i].idle
    <3>1. pool[i].idle \in Nat /\ pool[i].key # NULL
      BY <1>1, <1>3, PoolFacts DEF Used
    <3>2. m - 1 < i \/ m - 1 = i
      BY <1>3, <2>1, <2>2
    <3> QED
      BY <1>1, <1>4, <3>1, <3>2, PoolFacts
  <2> QED
    BY <1>3, <1>4, <2>3
<1>7. Cand' = SubSeq(Cand, 1, a - 1)
  BY <1>3, ClearCand DEF Pick, N
<1>8. store' = [store EXCEPT ![Cand[a][2]] = "absent"] /\ which' = which
  BY <1>3, <1>4 DEF Pick
<1>9. a \in DOMAIN Cand
  BY <1>2, <1>3
<1> QED
  BY <1>2, <1>5, <1>6, <1>7, <1>8, <1>9 DEF Best!Evict

LEMMA NextRefines == PoolInv /\ PoolInv' /\ [Next]_vars => [Best!Next]_Best!vars
<1> SUFFICES ASSUME PoolInv, PoolInv', [Next]_vars PROVE [Best!Next]_Best!vars
  OBVIOUS
<1>1. ASSUME UNCHANGED <<pool, text>> PROVE Cand' = Cand
  BY <1>1 DEF Cand, Used
<1>2. ASSUME NEW k \in Key, NEW idle \in 0 .. MaxIdle, Offer(k, idle)
      PROVE  Best!Offer(k, idle)
  <2>1. Cand' = Best!BestOf(<<idle, k>>)
    BY <1>2, InsertRefines DEF Offer
  <2>2. Best!Evictable(k) /\ UNCHANGED <<store, which>>
    BY <1>2 DEF Offer, Evictable, Best!Evictable
  <2> QED
    BY <2>1, <2>2 DEF Best!Offer
<1>3. CASE AllGhosts
  <2>1. 0 \in Pos /\ 0 <= Cardinality(Used) /\ TypeOK /\ PoolOrdered
    BY UsedPrefix, Sizes DEF PoolInv
  <2>2. Cand' = SubSeq(Cand, 1, 0)
    BY <1>3, <2>1, ClearCand DEF AllGhosts
  <2>3. Cand' = <<>>
    BY <2>2, SubSeqEmpty
  <2>4. ASSUME NEW m \in DOMAIN Cand PROVE ~Best!Evictable(Cand[m][2])
    <3>1. m \in 1 .. Cardinality(Used)
      BY DEF Cand
    <3>2. m - 1 \in Used /\ m - 1 \in Pos /\ Cand[m][2] = text[pool[m - 1].key]
      BY <2>1, <3>1, CandNow
    <3> QED
      BY <1>3, <3>2 DEF AllGhosts, Live, Used, Evictable, Best!Evictable
  <2>5. Best!Forget
    BY <1>3, <2>3, <2>4 DEF Best!Forget, AllGhosts
  <2> QED
    BY <2>5 DEF Best!Next
<1>4. ASSUME NEW k \in Key, NEW s \in {"absent", "persistent", "volatile"}, Client(k, s)
      PROVE  Best!Client
  BY <1>1, <1>4 DEF Client, Best!Client
<1>5. ASSUME NEW w \in {"all", "volatile"}, Begin(w) PROVE Best!Policy
  BY <1>1, <1>5 DEF Begin, Best!Policy
<1>6. ASSUME UNCHANGED <<pool, text, store, which>> PROVE UNCHANGED Best!vars
  BY <1>1, <1>6 DEF Best!vars
<1>7. CASE NoKeys \/ UNCHANGED vars
  BY <1>6, <1>7 DEF NoKeys, vars
<1>8. ASSUME NEW n \in 0 .. Samples, Populate(n) PROVE UNCHANGED Best!vars
  BY <1>6, <1>8 DEF Populate
<1>9. PopulateSome \/ Populate(0) => \E n \in 0 .. Samples : Populate(n)
  BY Sizes DEF PopulateSome
<1> QED
  BY <1>2, <1>3, <1>4, <1>5, <1>7, <1>8, <1>9, PickRefines DEF Next, Loop, Best!Next

\* The array with its moving buffers is the list of the best candidates it
\* was offered: evictionPoolPopulate never overwrites a name that is in use,
\* drops only the worst, and freeMemoryIfNeeded evicts the best candidate
\* that still exists, whatever the client did between two calls.
THEOREM PoolKeepsTheBest == Spec => ImplementsCandidates
<1>1. Init => Best!Init
  <2> SUFFICES ASSUME Init PROVE Best!Init
    OBVIOUS
  <2>1. Used = {}
    <3>1. \A i \in Pos : pool[i].key = NULL
      BY DEF Init, NewPool
    <3> QED
      BY <3>1 DEF Used
  <2>2. Cardinality(Used) = 0
    BY <2>1, FS_EmptySet
  <2>3. 1 .. 0 = {}
    OBVIOUS
  <2>4. Cand = <<>>
    BY <2>2, <2>3 DEF Cand
  <2> QED
    BY <2>4 DEF Init, Best!Init
<1> QED
  BY <1>1, NextRefines, SpecPoolInv, PTL DEF Spec, Best!Spec, ImplementsCandidates

=============================================================================
