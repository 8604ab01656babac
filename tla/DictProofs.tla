------------------------------ MODULE DictProofs ------------------------------
(***************************************************************************)
(* The dictionary, for any keys, hash function and table sizes: through    *)
(* any mix of resizes and half-done rehashes every entry is found, the     *)
(* counters are exact, and its users see a map; and the cycle of active    *)
(* expiration over such a table.                                           *)
(***************************************************************************)
EXTENDS ActiveExpire, FiniteSetTheorems, WellFoundedInduction, TLAPS

-----------------------------------------------------------------------------
(* Least elements.                                                         *)

\* A set of naturals has a least element: of the intervals that reach an
\* element of it, one is contained in no other.
LEMMA LeastNatural ==
  ASSUME NEW S \in SUBSET Nat, NEW m \in S
  PROVE  \E n \in S : \A i \in S : n <= i
<1> DEFINE U == 0 .. m
           R == StrictSubsetOrdering(U)
           T == {0 .. i : i \in {j \in S : j <= m}}
<1>1. m \in Nat /\ IsFiniteSet(U)
  BY FS_Interval
<1>2. T \subseteq SUBSET U /\ T # {}
  <2>1. \A i \in S : i <= m => 0 .. i \subseteq U
    BY <1>1
  <2>2. 0 .. m \in T
    BY <1>1
  <2> QED
    BY <2>1, <2>2
<1>3. T \subseteq FiniteSubsetsOf(U)
  <2>1. \A X \in SUBSET U : IsFiniteSet(X)
    BY <1>1, FS_Subset
  <2> QED
    BY <1>2, <2>1 DEF FiniteSubsetsOf
<1> HIDE DEF R
<1>4. IsWellFoundedOn(R, FiniteSubsetsOf(U))
  BY FS_StrictSubsetOrderingWellFounded DEF R
<1> HIDE DEF T
<1>5. PICK X \in T : \A Y \in T : ~(<<Y, X>> \in R)
  BY <1>2, <1>3, <1>4, WFMin
<1>6. PICK n \in S : n <= m /\ X = 0 .. n
  BY <1>5 DEF T
<1>7. ASSUME NEW i \in S, i < n PROVE FALSE
  <2>1. i \in Nat /\ n \in Nat /\ i <= m
    BY <1>1, <1>6, <1>7
  <2>2. 0 .. i \in T
    BY <1>7, <2>1 DEF T
  <2>3. 0 .. i \subseteq X /\ 0 .. i # X
    <3>1. n \in X /\ ~(n \in 0 .. i)
      BY <1>6, <1>7, <2>1
    <3> QED
      BY <1>6, <1>7, <2>1, <3>1
  <2>4. <<0 .. i, X>> \in R
    BY <1>2, <1>5, <2>2, <2>3 DEF R, StrictSubsetOrdering
  <2> QED
    BY <1>5, <2>2, <2>4
<1> QED
  BY <1>7

LEMMA Constants ==
  /\ IsFiniteSet(Key) /\ NULL \notin Key \cup Value /\ Hash \in [Key -> Nat]
  /\ Sizes \subseteq Nat \ {0} /\ Sizes \subseteq Nat /\ 0 \notin Sizes
  /\ InitialSize \in Sizes /\ InitialSize \in Nat
  /\ EmptyVisits \in Nat \ {0} /\ MaxIterators \in Nat
  BY DictAssumption

\* _dictNextPower finds the least size that is large enough.
LEMMA NextPowerFound ==
  ASSUME NEW n \in Nat, \E s \in Sizes : n <= s
  PROVE  /\ NextPower(n) \in Sizes /\ NextPower(n) >= n
         /\ \A t \in Sizes : t >= n => NextPower(n) <= t
<1> DEFINE S == {s \in Sizes : s >= n}
<1>1. S \subseteq Nat /\ S # {}
  BY Constants
<1>2. PICK s \in S : \A i \in S : s <= i
  BY <1>1, LeastNatural
<1>3. s \in Sizes /\ s >= n /\ \A t \in Sizes : t >= n => s <= t
  BY <1>2
<1> QED
  BY <1>3 DEF NextPower

-----------------------------------------------------------------------------
(* One table.                                                              *)

TableOK(t) ==
  /\ t = [size |-> t.size, used |-> t.used, bucket |-> t.bucket]
  /\ t.size \in Sizes \cup {0}
  /\ t.bucket \in [0 .. t.size - 1 -> SUBSET Entry]
  /\ \A i \in 0 .. t.size - 1 : \A e \in t.bucket[i] : Index(e.key, t.size) = i
  /\ IsFiniteSet(Entries(t)) /\ t.used = Cardinality(Entries(t))

LEMMA IndexType ==
  ASSUME NEW k \in Key, NEW n \in Nat, n # 0
  PROVE  Index(k, n) \in 0 .. n - 1
<1>1. Hash[k] \in Nat
  BY Constants
<1> QED
  BY <1>1 DEF Index

LEMMA EntriesOf ==
  ASSUME NEW t, TableOK(t), NEW e
  PROVE  /\ e \in Entries(t) <=> \E i \in 0 .. t.size - 1 : e \in t.bucket[i]
         /\ e \in Entries(t) <=> /\ e \in Entry /\ t.size # 0
                                 /\ e \in t.bucket[Index(e.key, t.size)]
         /\ Entries(t) \subseteq Entry /\ t.size \in Nat /\ t.used \in Nat
<1>1. t.size \in Nat /\ DOMAIN t.bucket = 0 .. t.size - 1
  BY Constants DEF TableOK
<1>2. e \in Entries(t) <=> \E i \in 0 .. t.size - 1 : e \in t.bucket[i]
  BY <1>1 DEF Entries
<1>3. Entries(t) \subseteq Entry
  BY <1>1 DEF Entries, TableOK
<1>4. ASSUME NEW i \in 0 .. t.size - 1, e \in t.bucket[i]
      PROVE  e \in Entry /\ t.size # 0 /\ e \in t.bucket[Index(e.key, t.size)]
  BY <1>1, <1>4 DEF TableOK
<1>5. ASSUME e \in Entry, t.size # 0
      PROVE  Index(e.key, t.size) \in 0 .. t.size - 1
  BY <1>1, <1>5, IndexType DEF Entry
<1>6. t.used \in Nat
  BY FS_CardinalityType DEF TableOK
<1> QED
  BY <1>1, <1>2, <1>3, <1>4, <1>5, <1>6

LEMMA NewTableOK ==
  ASSUME NEW n \in Sizes \cup {0}
  PROVE  TableOK(NewTable(n)) /\ Entries(NewTable(n)) = {} /\ NewTable(n).size = n
<1> DEFINE t == NewTable(n)
<1>1. /\ t = [size |-> n, used |-> 0, bucket |-> t.bucket] /\ t.size = n /\ t.used = 0
      /\ t.bucket = [i \in 0 .. n - 1 |-> {}]
  BY DEF NewTable
<1> HIDE DEF t
<1>2. Entries(t) = {}
  BY <1>1 DEF Entries
<1>3. IsFiniteSet(Entries(t)) /\ Cardinality(Entries(t)) = 0
  BY <1>2, FS_EmptySet
<1>4. TableOK(t)
  BY <1>1, <1>3 DEF TableOK
<1> QED
  BY <1>1, <1>2, <1>4 DEF t

\* u is the table t with its bucket b replaced by B, and holds E.
Rebucketed(t, b, B, u, E) ==
  /\ b \in 0 .. t.size - 1 /\ B \in SUBSET Entry
  /\ \A e \in B : Index(e.key, t.size) = b
  /\ E = (Entries(t) \ t.bucket[b]) \cup B
  /\ IsFiniteSet(E) /\ u.used = Cardinality(E)
  /\ u = [size |-> t.size, used |-> u.used, bucket |-> [t.bucket EXCEPT ![b] = B]]

LEMMA BucketOK ==
  ASSUME NEW t, TableOK(t), NEW b, NEW B, NEW u, NEW E, Rebucketed(t, b, B, u, E)
  PROVE  TableOK(u) /\ Entries(u) = E /\ u.size = t.size
<1>0. /\ b \in 0 .. t.size - 1 /\ B \in SUBSET Entry
      /\ \A e \in B : Index(e.key, t.size) = b
      /\ E = (Entries(t) \ t.bucket[b]) \cup B
      /\ IsFiniteSet(E) /\ u.used = Cardinality(E)
      /\ u = [size |-> t.size, used |-> u.used, bucket |-> [t.bucket EXCEPT ![b] = B]]
  BY DEF Rebucketed
<1>1. /\ u.size = t.size /\ u.bucket = [t.bucket EXCEPT ![b] = B]
      /\ u = [size |-> u.size, used |-> u.used, bucket |-> u.bucket]
  BY <1>0
<1>2. t.bucket \in [0 .. t.size - 1 -> SUBSET Entry]
      /\ \A i \in 0 .. t.size - 1 : \A e \in t.bucket[i] : Index(e.key, t.size) = i
  BY DEF TableOK
<1>3. /\ u.bucket \in [0 .. t.size - 1 -> SUBSET Entry] /\ u.bucket[b] = B
      /\ \A i \in 0 .. t.size - 1 : i # b => u.bucket[i] = t.bucket[i]
  BY <1>0, <1>1, <1>2
<1>4. \A i \in 0 .. t.size - 1 : \A e \in u.bucket[i] : Index(e.key, t.size) = i
  BY <1>0, <1>2, <1>3
<1>5. \A e : e \in Entries(u) <=> e \in E
  <2> TAKE e
  <2>1. e \in Entries(u) <=> \E i \in 0 .. t.size - 1 : e \in u.bucket[i]
    BY <1>3 DEF Entries
  <2>2. e \in Entries(t) <=> \E i \in 0 .. t.size - 1 : e \in t.bucket[i]
    BY <1>2 DEF Entries
  <2>3. \A i \in 0 .. t.size - 1 : i # b => ~(e \in t.bucket[i] /\ e \in t.bucket[b])
    BY <1>0, <1>2
  <2> QED
    BY <1>0, <1>3, <2>1, <2>2, <2>3
<1>6. Entries(u) = E
  BY <1>5
<1> QED
  BY <1>0, <1>1, <1>3, <1>4, <1>6 DEF TableOK

LEMMA InsertOK ==
  ASSUME NEW t, TableOK(t), t.size # 0, NEW e \in Entry, e \notin Entries(t)
  PROVE  /\ TableOK(Insert(t, e)) /\ Entries(Insert(t, e)) = Entries(t) \cup {e}
         /\ Insert(t, e).size = t.size /\ Insert(t, e).used = t.used + 1
<1> DEFINE b == Index(e.key, t.size)
           B == t.bucket[b] \cup {e}
           E == Entries(t) \cup {e}
           u == Insert(t, e)
<1>1. b \in 0 .. t.size - 1 /\ t.size \in Nat /\ t.used \in Nat
  BY EntriesOf, IndexType DEF Entry
<1>2. /\ t = [size |-> t.size, used |-> t.used, bucket |-> t.bucket]
      /\ t.bucket \in [0 .. t.size - 1 -> SUBSET Entry]
      /\ \A i \in 0 .. t.size - 1 : \A x \in t.bucket[i] : Index(x.key, t.size) = i
      /\ IsFiniteSet(Entries(t)) /\ t.used = Cardinality(Entries(t))
  BY DEF TableOK
<1>3. B \in SUBSET Entry /\ \A x \in B : Index(x.key, t.size) = b
  BY <1>1, <1>2
<1>4. t.bucket[b] \subseteq Entries(t)
  BY <1>1, <1>2 DEF Entries
<1>5. E = (Entries(t) \ t.bucket[b]) \cup B
  BY <1>4
<1>6. IsFiniteSet(E) /\ Cardinality(E) = t.used + 1
  BY <1>2, FS_AddElement
<1>7. u = [size |-> t.size, used |-> t.used + 1, bucket |-> [t.bucket EXCEPT ![b] = B]]
  <2>1. u = [t EXCEPT !.bucket = [t.bucket EXCEPT ![b] = B], !.used = t.used + 1]
    BY <1>2 DEF Insert
  <2> HIDE DEF u, b, B
  <2> QED
    BY <1>2, <2>1
<1> HIDE DEF u, b, B, E
<1>8. TableOK(u) /\ Entries(u) = E /\ u.size = t.size /\ u.used = t.used + 1
  <2>1. u.used = t.used + 1
    BY <1>7
  <2>2. u = [size |-> t.size, used |-> u.used, bucket |-> [t.bucket EXCEPT ![b] = B]]
    BY <1>7, <2>1
  <2>3. u.used = Cardinality(E)
    BY <1>6, <2>1
  <2>4. Rebucketed(t, b, B, u, E)
    BY <1>1, <1>3, <1>5, <1>6, <2>2, <2>3 DEF Rebucketed
  <2>5. TableOK(u) /\ Entries(u) = E /\ u.size = t.size
    BY <2>4, BucketOK
  <2> QED
    BY <2>1, <2>5
<1> QED
  BY <1>8 DEF u, E

LEMMA RemoveOK ==
  ASSUME NEW t, TableOK(t), NEW e \in Entries(t)
  PROVE  /\ TableOK(Remove(t, e)) /\ Entries(Remove(t, e)) = Entries(t) \ {e}
         /\ Remove(t, e).size = t.size /\ Remove(t, e).used = t.used - 1
<1> DEFINE b == Index(e.key, t.size)
           B == t.bucket[b] \ {e}
           E == Entries(t) \ {e}
           u == Remove(t, e)
<1>1. b \in 0 .. t.size - 1 /\ t.size \in Nat /\ t.used \in Nat /\ e \in t.bucket[b]
  BY EntriesOf, IndexType DEF Entry
<1>2. /\ t = [size |-> t.size, used |-> t.used, bucket |-> t.bucket]
      /\ t.bucket \in [0 .. t.size - 1 -> SUBSET Entry]
      /\ \A i \in 0 .. t.size - 1 : \A x \in t.bucket[i] : Index(x.key, t.size) = i
      /\ IsFiniteSet(Entries(t)) /\ t.used = Cardinality(Entries(t))
  BY DEF TableOK
<1>3. B \in SUBSET Entry /\ \A x \in B : Index(x.key, t.size) = b
  BY <1>1, <1>2
<1>4. t.bucket[b] \subseteq Entries(t)
  BY <1>1, <1>2 DEF Entries
<1>5. E = (Entries(t) \ t.bucket[b]) \cup B
  BY <1>1, <1>4
<1>6. IsFiniteSet(E) /\ Cardinality(E) = t.used - 1
  BY <1>2, FS_RemoveElement
<1>7. u = [size |-> t.size, used |-> t.used - 1, bucket |-> [t.bucket EXCEPT ![b] = B]]
  <2>1. u = [t EXCEPT !.bucket = [t.bucket EXCEPT ![b] = B], !.used = t.used - 1]
    BY <1>2 DEF Remove
  <2> HIDE DEF u, b, B
  <2> QED
    BY <1>2, <2>1
<1> HIDE DEF u, b, B, E
<1>8. TableOK(u) /\ Entries(u) = E /\ u.size = t.size /\ u.used = t.used - 1
  <2>1. u.used = t.used - 1
    BY <1>7
  <2>2. u = [size |-> t.size, used |-> u.used, bucket |-> [t.bucket EXCEPT ![b] = B]]
    BY <1>7, <2>1
  <2>3. u.used = Cardinality(E)
    BY <1>6, <2>1
  <2>4. Rebucketed(t, b, B, u, E)
    BY <1>1, <1>3, <1>5, <1>6, <2>2, <2>3 DEF Rebucketed
  <2>5. TableOK(u) /\ Entries(u) = E /\ u.size = t.size
    BY <2>4, BucketOK
  <2> QED
    BY <2>1, <2>5
<1> QED
  BY <1>8 DEF u, E


\* dictSetVal on a table: the entry o for k becomes <<k, v>>.
SetIn(t, k, e) ==
  [t EXCEPT !.bucket[Index(k, t.size)] = (@ \ Chain(t, k)) \cup {e}]

LEMMA SetOK ==
  ASSUME NEW t, TableOK(t), NEW o \in Entries(t), NEW e \in Entry, e.key = o.key,
         Chain(t, e.key) = {o}
  PROVE  /\ TableOK(SetIn(t, e.key, e)) /\ Entries(SetIn(t, e.key, e)) = (Entries(t) \ {o}) \cup {e}
         /\ SetIn(t, e.key, e).size = t.size /\ SetIn(t, e.key, e).used = t.used
<1> DEFINE b == Index(e.key, t.size)
           B == (t.bucket[b] \ {o}) \cup {e}
           E == (Entries(t) \ {o}) \cup {e}
           u == SetIn(t, e.key, e)
<1>1. b \in 0 .. t.size - 1 /\ t.size \in Nat /\ t.used \in Nat /\ o \in t.bucket[b]
  BY EntriesOf, IndexType DEF Entry
<1>2. /\ t = [size |-> t.size, used |-> t.used, bucket |-> t.bucket]
      /\ t.bucket \in [0 .. t.size - 1 -> SUBSET Entry]
      /\ \A i \in 0 .. t.size - 1 : \A x \in t.bucket[i] : Index(x.key, t.size) = i
      /\ IsFiniteSet(Entries(t)) /\ t.used = Cardinality(Entries(t))
  BY DEF TableOK
<1>3. B \in SUBSET Entry /\ \A x \in B : Index(x.key, t.size) = b
  BY <1>1, <1>2
<1>4. t.bucket[b] \subseteq Entries(t)
  BY <1>1, <1>2 DEF Entries
\* No other entry has the key.
<1>5. \A x \in Entries(t) : x.key = e.key => x = o
  <2> TAKE x \in Entries(t)
  <2> SUFFICES ASSUME x.key = e.key PROVE x = o
    OBVIOUS
  <2>1. x \in t.bucket[b] /\ t.size # 0
    BY EntriesOf
  <2>2. x \in Chain(t, e.key)
    BY <2>1 DEF Chain
  <2> QED
    BY <2>2
<1>6. E = (Entries(t) \ t.bucket[b]) \cup B
  BY <1>1, <1>4
<1>7. IsFiniteSet(E) /\ Cardinality(E) = t.used
  <2>1. IsFiniteSet(Entries(t) \ {o}) /\ Cardinality(Entries(t) \ {o}) = t.used - 1
    BY <1>2, FS_RemoveElement
  <2>2. e \notin Entries(t) \ {o}
    BY <1>5
  <2>3. IsFiniteSet(E) /\ Cardinality(E) = t.used - 1 + 1
    BY <2>1, <2>2, FS_AddElement
  <2> QED
    BY <1>1, <2>3
<1>8. u = [size |-> t.size, used |-> t.used, bucket |-> [t.bucket EXCEPT ![b] = B]]
  <2>1. u = [t EXCEPT !.bucket = [t.bucket EXCEPT ![b] = B]]
    BY <1>2 DEF SetIn
  <2> HIDE DEF u, b, B
  <2> QED
    BY <1>2, <2>1
<1> HIDE DEF u, b, B, E
<1>9. TableOK(u) /\ Entries(u) = E /\ u.size = t.size /\ u.used = t.used
  <2>1. u.used = t.used
    BY <1>8
  <2>2. u = [size |-> t.size, used |-> u.used, bucket |-> [t.bucket EXCEPT ![b] = B]]
    BY <1>8, <2>1
  <2>3. u.used = Cardinality(E)
    BY <1>7, <2>1
  <2>4. Rebucketed(t, b, B, u, E)
    BY <1>1, <1>3, <1>6, <1>7, <2>2, <2>3 DEF Rebucketed
  <2>5. TableOK(u) /\ Entries(u) = E /\ u.size = t.size
    BY <2>4, BucketOK
  <2> QED
    BY <2>1, <2>5
<1> QED
  BY <1>9 DEF u, E

\* The two halves of moving a bucket.
Emptied(t, i) ==
  [t EXCEPT !.bucket[i] = {}, !.used = @ - Cardinality(t.bucket[i])]

LEMMA EmptiedOK ==
  ASSUME NEW t, TableOK(t), NEW i \in 0 .. t.size - 1
  PROVE  /\ TableOK(Emptied(t, i)) /\ Entries(Emptied(t, i)) = Entries(t) \ t.bucket[i]
         /\ Emptied(t, i).size = t.size /\ Emptied(t, i).bucket = [t.bucket EXCEPT ![i] = {}]
         /\ t.bucket[i] \subseteq Entries(t) /\ IsFiniteSet(t.bucket[i])
         /\ Emptied(t, i).used = t.used - Cardinality(t.bucket[i])
<1> DEFINE B == t.bucket[i]
           E == Entries(t) \ B
           u == Emptied(t, i)
<1>1. t.size \in Nat /\ t.used \in Nat
  BY EntriesOf
<1>2. /\ t = [size |-> t.size, used |-> t.used, bucket |-> t.bucket]
      /\ t.bucket \in [0 .. t.size - 1 -> SUBSET Entry]
      /\ IsFiniteSet(Entries(t)) /\ t.used = Cardinality(Entries(t))
  BY DEF TableOK
<1>3. B \subseteq Entries(t)
  BY <1>2 DEF Entries
<1>4. IsFiniteSet(B) /\ IsFiniteSet(E) /\ Cardinality(E) = t.used - Cardinality(B)
  <2>1. IsFiniteSet(B)
    BY <1>2, <1>3, FS_Subset
  <2>2. Entries(t) \cap B = B
    BY <1>3
  <2> HIDE DEF B
  <2>3. /\ IsFiniteSet(Entries(t) \ B)
        /\ Cardinality(Entries(t) \ B) = Cardinality(Entries(t)) - Cardinality(Entries(t) \cap B)
    BY <1>2, <2>1, FS_Difference
  <2> QED
    BY <1>2, <2>1, <2>2, <2>3
<1>5. u = [size |-> t.size, used |-> t.used - Cardinality(B),
           bucket |-> [t.bucket EXCEPT ![i] = {}]]
  <2>1. u = [t EXCEPT !.bucket = [t.bucket EXCEPT ![i] = {}],
                      !.used = t.used - Cardinality(B)]
    BY <1>2 DEF Emptied
  <2> HIDE DEF u, B
  <2> QED
    BY <1>2, <2>1
<1>6. E = (Entries(t) \ t.bucket[i]) \cup {}
  OBVIOUS
<1> HIDE DEF u, E
<1>7. TableOK(u) /\ Entries(u) = E /\ u.size = t.size /\ u.used = t.used - Cardinality(B)
      /\ u.bucket = [t.bucket EXCEPT ![i] = {}]
  <2>1. u.used = t.used - Cardinality(B) /\ u.bucket = [t.bucket EXCEPT ![i] = {}]
    BY <1>5
  <2>2. u = [size |-> t.size, used |-> u.used, bucket |-> [t.bucket EXCEPT ![i] = {}]]
    BY <1>5, <2>1
  <2>3. u.used = Cardinality(E)
    BY <1>4, <2>1
  <2>4. Rebucketed(t, i, {}, u, E)
    BY <1>4, <1>6, <2>2, <2>3 DEF Rebucketed
  <2>5. TableOK(u) /\ Entries(u) = E /\ u.size = t.size
    BY <2>4, BucketOK
  <2> QED
    BY <2>1, <2>5
<1> QED
  BY <1>3, <1>4, <1>7 DEF u, E

Filled(t, M) ==
  [t EXCEPT !.bucket = [j \in DOMAIN @ |-> @[j] \cup {e \in M : Index(e.key, t.size) = j}],
            !.used = @ + Cardinality(M)]

LEMMA FilledOK ==
  ASSUME NEW t, TableOK(t), t.size # 0, NEW M \in SUBSET Entry, IsFiniteSet(M),
         Entries(t) \cap M = {}
  PROVE  /\ TableOK(Filled(t, M)) /\ Entries(Filled(t, M)) = Entries(t) \cup M
         /\ Filled(t, M).size = t.size /\ Filled(t, M).used = t.used + Cardinality(M)
<1> DEFINE bucket == [j \in 0 .. t.size - 1 |->
                        t.bucket[j] \cup {e \in M : Index(e.key, t.size) = j}]
           u == Filled(t, M)
<1>1. t.size \in Nat /\ t.used \in Nat
  BY EntriesOf
<1>2. /\ t = [size |-> t.size, used |-> t.used, bucket |-> t.bucket]
      /\ t.size \in Sizes \cup {0}
      /\ t.bucket \in [0 .. t.size - 1 -> SUBSET Entry]
      /\ \A i \in 0 .. t.size - 1 : \A x \in t.bucket[i] : Index(x.key, t.size) = i
      /\ IsFiniteSet(Entries(t)) /\ t.used = Cardinality(Entries(t))
  BY DEF TableOK
<1>3. u = [size |-> t.size, used |-> t.used + Cardinality(M), bucket |-> bucket]
  <2>1. u = [t EXCEPT !.bucket = bucket, !.used = t.used + Cardinality(M)]
    BY <1>2 DEF Filled
  <2> HIDE DEF u, bucket
  <2> QED
    BY <1>2, <2>1
<1>4. /\ u.size = t.size /\ u.used = t.used + Cardinality(M) /\ u.bucket = bucket
      /\ u = [size |-> u.size, used |-> u.used, bucket |-> u.bucket]
  <2> HIDE DEF u, bucket
  <2> QED
    BY <1>3
<1>5. /\ bucket \in [0 .. t.size - 1 -> SUBSET Entry]
      /\ \A j \in 0 .. t.size - 1 :
           bucket[j] = t.bucket[j] \cup {e \in M : Index(e.key, t.size) = j}
  BY <1>2
<1> HIDE DEF u, bucket
<1>6. \A i \in 0 .. t.size - 1 : \A x \in bucket[i] : Index(x.key, t.size) = i
  BY <1>2, <1>5
<1>7. Entries(u) = Entries(t) \cup M
  <2>1. \A e : e \in Entries(u) <=> \E i \in 0 .. t.size - 1 : e \in bucket[i]
    BY <1>4, <1>5 DEF Entries
  <2>2. \A e : e \in Entries(t) <=> \E i \in 0 .. t.size - 1 : e \in t.bucket[i]
    BY <1>2 DEF Entries
  <2>3. \A e \in M : Index(e.key, t.size) \in 0 .. t.size - 1
    BY <1>1, IndexType DEF Entry
  <2>4. \A e : e \in Entries(u) <=> e \in Entries(t) \/ e \in M
    BY <1>5, <2>1, <2>2, <2>3
  <2> QED
    BY <2>4
<1>8. IsFiniteSet(Entries(u)) /\ u.used = Cardinality(Entries(u))
  <2>1. /\ IsFiniteSet(Entries(t) \cup M)
        /\ Cardinality(Entries(t) \cup M) =
             Cardinality(Entries(t)) + Cardinality(M) - Cardinality(Entries(t) \cap M)
    BY <1>2, FS_Union
  <2>2. Cardinality(Entries(t) \cap M) = 0 /\ Cardinality(M) \in Nat
    BY FS_EmptySet, FS_CardinalityType
  <2> QED
    BY <1>1, <1>2, <1>4, <1>7, <2>1, <2>2
<1>9. TableOK(u)
  BY <1>2, <1>4, <1>5, <1>6, <1>8 DEF TableOK
<1> QED
  BY <1>4, <1>7, <1>9 DEF u

-----------------------------------------------------------------------------
(* The dictionary.                                                         *)

All(D) == Entries(D.ht0) \cup Entries(D.ht1)

\* No key has two entries.
Unique(D) ==
  /\ \A e, f \in All(D) : e.key = f.key => e = f
  /\ Entries(D.ht0) \cap Entries(D.ht1) = {}

\* There is a second table exactly while rehashing, the frontier has not
\* reached the end of the first one, and nothing is left below it.
Frontier(D) ==
  /\ D.rehashidx \in Nat \cup {-1}
  /\ Rehashing(D) <=> D.ht1.size # 0
  /\ Rehashing(D) =>
       /\ D.rehashidx < D.ht0.size
       /\ \A i \in 0 .. D.ht0.size - 1 : i < D.rehashidx => D.ht0.bucket[i] = {}

DictOK(D) ==
  /\ D = [ht0 |-> D.ht0, ht1 |-> D.ht1, rehashidx |-> D.rehashidx,
          iterators |-> D.iterators]
  /\ TableOK(D.ht0) /\ TableOK(D.ht1)
  /\ Unique(D) /\ Frontier(D)
  /\ D.iterators \in 0 .. MaxIterators

\* E is a sound dictionary with the entries of D: what the calls do before
\* their own work.
Reshaped(D, E) == DictOK(E) /\ All(E) = All(D) /\ E.iterators = D.iterators

LEMMA ReshapedTwice ==
  ASSUME NEW C, NEW D, NEW E, Reshaped(C, D), Reshaped(D, E)
  PROVE  Reshaped(C, E)
  BY DEF Reshaped

LEMMA ReshapedSelf ==
  ASSUME NEW D, DictOK(D)
  PROVE  Reshaped(D, D)
  BY DEF Reshaped

\* A table with no buckets holds nothing, and is the table NoTable.
LEMMA NoTableIs ==
  ASSUME NEW t, TableOK(t), t.size = 0
  PROVE  Entries(t) = {} /\ t.used = 0
<1>1. DOMAIN t.bucket = {}
  BY DEF TableOK
<1>2. Entries(t) = {}
  BY <1>1 DEF Entries
<1> QED
  BY <1>2, FS_EmptySet DEF TableOK

\* The counters add up to the number of entries, of which there is at most
\* one for each key.
LEMMA SizeIs ==
  ASSUME NEW D, DictOK(D)
  PROVE  /\ IsFiniteSet(All(D)) /\ Cardinality(All(D)) = dictSize(D)
         /\ D.ht0.used \in Nat /\ D.ht1.used \in Nat /\ dictSize(D) \in Nat
         /\ dictSize(D) <= Cardinality(Key)
         /\ D.ht0.used <= Cardinality(Key) /\ Cardinality(Key) \in Nat
<1> DEFINE A == Entries(D.ht0)
           B == Entries(D.ht1)
           f == [e \in All(D) |-> e.key]
<1>1. /\ IsFiniteSet(A) /\ IsFiniteSet(B)
      /\ D.ht0.used = Cardinality(A) /\ D.ht1.used = Cardinality(B)
      /\ A \cap B = {} /\ All(D) = A \cup B
  BY DEF DictOK, TableOK, Unique, All
<1>2. D.ht0.used \in Nat /\ D.ht1.used \in Nat /\ All(D) \subseteq Entry
  BY EntriesOf DEF DictOK, All
<1>3. IsFiniteSet(All(D)) /\ Cardinality(All(D)) = dictSize(D)
  <2> HIDE DEF A, B
  <2>1. /\ IsFiniteSet(A \cup B)
        /\ Cardinality(A \cup B) = Cardinality(A) + Cardinality(B) - Cardinality(A \cap B)
    BY <1>1, FS_Union
  <2>2. Cardinality(A \cap B) = 0
    BY <1>1, FS_EmptySet
  <2> QED
    BY <1>1, <1>2, <2>1, <2>2 DEF dictSize
<1>4. f \in Injection(All(D), Key)
  <2>1. f \in [All(D) -> Key]
    BY <1>2 DEF Entry
  <2>2. \A e, g \in All(D) : f[e] = f[g] => e = g
    BY DEF DictOK, Unique
  <2> HIDE DEF f
  <2> QED
    BY <2>1, <2>2 DEF Injection, IsInjective
<1>5. Cardinality(All(D)) <= Cardinality(Key) /\ Cardinality(Key) \in Nat
  <2> HIDE DEF f
  <2> QED
    BY <1>4, Constants, FS_Injection, FS_CardinalityType
<1>6. dictSize(D) = D.ht0.used + D.ht1.used
  BY DEF dictSize
<1> QED
  BY <1>2, <1>3, <1>5, <1>6

\* A search finds the entries for k, wherever the frontier is.
LEMMA FoundIs ==
  ASSUME NEW D, DictOK(D), NEW k \in Key
  PROVE  /\ Found(D, k) = {e \in All(D) : e.key = k}
         /\ Chain(D.ht0, k) = {e \in Entries(D.ht0) : e.key = k}
         /\ Chain(D.ht1, k) = {e \in Entries(D.ht1) : e.key = k}
<1>1. ASSUME NEW t, TableOK(t)
      PROVE  Chain(t, k) = {e \in Entries(t) : e.key = k}
  <2>1. t.size # 0 => Index(k, t.size) \in 0 .. t.size - 1
    BY <1>1, EntriesOf, IndexType
  <2>2. \A e : e \in Chain(t, k) <=> e \in Entries(t) /\ e.key = k
    <3> TAKE e
    <3>1. e \in Chain(t, k) <=> t.size # 0 /\ e \in t.bucket[Index(k, t.size)] /\ e.key = k
      BY DEF Chain
    <3>2. t.size # 0 /\ e \in t.bucket[Index(k, t.size)] => e \in Entries(t)
      BY <1>1, <2>1, EntriesOf
    <3>3. e \in Entries(t) => t.size # 0 /\ e \in t.bucket[Index(e.key, t.size)]
      BY <1>1, EntriesOf
    <3> QED
      BY <3>1, <3>2, <3>3
  <2> QED
    BY <2>2
<1>2. /\ Chain(D.ht0, k) = {e \in Entries(D.ht0) : e.key = k}
      /\ Chain(D.ht1, k) = {e \in Entries(D.ht1) : e.key = k}
  BY <1>1 DEF DictOK
<1>3. ~Rehashing(D) => Entries(D.ht1) = {}
  BY NoTableIs DEF DictOK, Frontier
<1>4. \A e, f \in All(D) : e.key = f.key => e = f
  BY DEF DictOK, Unique
<1>5. Entries(D.ht0) \cap Entries(D.ht1) = {}
  BY DEF DictOK, Unique
<1> QED
  BY <1>2, <1>3, <1>4, <1>5 DEF Found, All


-----------------------------------------------------------------------------
(* Resizing.                                                               *)

LEMMA ExpandKeeps ==
  ASSUME NEW D, DictOK(D), NEW n \in Nat, \E s \in Sizes : n <= s
  PROVE  Reshaped(D, dictExpand(D, n))
<1> DEFINE s == NextPower(n)
           E == dictExpand(D, n)
<1>1. s \in Sizes /\ s \in Nat /\ s # 0 /\ s \in Sizes \cup {0}
  BY NextPowerFound, Constants
<1>2. TableOK(NewTable(s)) /\ Entries(NewTable(s)) = {} /\ NewTable(s).size = s
  BY <1>1, NewTableOK
<1>3. /\ D = [ht0 |-> D.ht0, ht1 |-> D.ht1, rehashidx |-> D.rehashidx,
              iterators |-> D.iterators]
      /\ TableOK(D.ht0) /\ TableOK(D.ht1) /\ Unique(D) /\ Frontier(D)
      /\ D.iterators \in 0 .. MaxIterators
  BY DEF DictOK
<1> DEFINE new == NewTable(s)
<1>4. CASE Rehashing(D) \/ D.ht0.used > n \/ s = D.ht0.size
  BY <1>4, ReshapedSelf DEF dictExpand
<1>5. ASSUME ~Rehashing(D) PROVE Entries(D.ht1) = {} /\ D.ht1.size = 0 /\ D.rehashidx = -1
  BY <1>3, <1>5, NoTableIs DEF Frontier, Rehashing
<1>6. CASE ~(Rehashing(D) \/ D.ht0.used > n \/ s = D.ht0.size) /\ D.ht0.size = 0
  <2>1. E = [D EXCEPT !.ht0 = new]
    BY <1>6 DEF dictExpand
  <2> HIDE DEF E, new, s
  <2>2. /\ E = [ht0 |-> E.ht0, ht1 |-> E.ht1, rehashidx |-> E.rehashidx,
                iterators |-> E.iterators]
        /\ E.ht0 = new /\ E.ht1 = D.ht1 /\ E.rehashidx = D.rehashidx
        /\ E.iterators = D.iterators
    BY <1>3, <2>1
  <2>3. Entries(D.ht0) = {} /\ Entries(D.ht1) = {}
    BY <1>3, <1>5, <1>6, NoTableIs
  <2>4. TableOK(E.ht0) /\ Entries(E.ht0) = {}
    BY <1>2, <2>2 DEF new
  <2>5. All(E) = All(D) /\ Unique(E)
    BY <2>2, <2>3, <2>4 DEF All, Unique
  <2>6. Frontier(E)
    BY <1>3, <1>6, <2>2 DEF Frontier, Rehashing
  <2>7. DictOK(E)
    BY <1>3, <2>2, <2>4, <2>5, <2>6 DEF DictOK
  <2> QED
    BY <2>2, <2>5, <2>7 DEF Reshaped, E
<1>7. CASE ~(Rehashing(D) \/ D.ht0.used > n \/ s = D.ht0.size) /\ D.ht0.size # 0
  <2>1. E = [D EXCEPT !.ht1 = new, !.rehashidx = 0]
    BY <1>7 DEF dictExpand
  <2> HIDE DEF E, new, s
  <2>2. /\ E = [ht0 |-> E.ht0, ht1 |-> E.ht1, rehashidx |-> E.rehashidx,
                iterators |-> E.iterators]
        /\ E.ht0 = D.ht0 /\ E.ht1 = new /\ E.rehashidx = 0
        /\ E.iterators = D.iterators
    BY <1>3, <2>1
  <2>3. Entries(D.ht1) = {} /\ D.ht0.size \in Nat
    BY <1>3, <1>5, <1>7, EntriesOf
  <2>4. TableOK(E.ht1) /\ Entries(E.ht1) = {} /\ E.ht1.size # 0
    BY <1>1, <1>2, <2>2 DEF new
  <2>5. All(E) = All(D) /\ Unique(E)
    BY <1>3, <2>2, <2>3, <2>4 DEF All, Unique
  <2>6. Frontier(E)
    BY <1>3, <1>7, <2>2, <2>3, <2>4 DEF Frontier, Rehashing
  <2>7. DictOK(E)
    BY <1>3, <2>2, <2>4, <2>5, <2>6 DEF DictOK
  <2> QED
    BY <2>2, <2>5, <2>7 DEF Reshaped, E
<1> QED
  BY <1>4, <1>6, <1>7

\* There is a table size for twice the entries, and for as many.
LEMMA RoomFor ==
  ASSUME NEW n \in Nat, n <= 2 * Cardinality(Key), Cardinality(Key) \in Nat
  PROVE  \E s \in Sizes : n <= s
  BY DictAssumption

\* A dictionary that is about to be searched for a new key has a bucket for
\* it.
LEMMA ExpandIfNeededKeeps ==
  ASSUME NEW D, DictOK(D)
  PROVE  /\ Reshaped(D, ExpandIfNeeded(D))
         /\ ExpandIfNeeded(D).ht0.size # 0
<1> DEFINE E == ExpandIfNeeded(D)
<1>1. /\ D.ht0.size \in Nat /\ D.ht0.used \in Nat /\ D.ht0.used <= Cardinality(Key)
      /\ Cardinality(Key) \in Nat
  BY SizeIs, EntriesOf DEF DictOK
<1>2. CASE Rehashing(D)
  <2>1. E = D
    BY <1>2 DEF ExpandIfNeeded
  <2>2. D.ht0.size # 0
    BY <1>1, <1>2 DEF DictOK, Frontier, Rehashing
  <2> QED
    BY <2>1, <2>2, ReshapedSelf
<1>3. CASE ~Rehashing(D) /\ D.ht0.size = 0
  <2> DEFINE s == NextPower(InitialSize)
  <2>1. E = dictExpand(D, InitialSize)
    BY <1>3 DEF ExpandIfNeeded
  <2>2. \E i \in Sizes : InitialSize <= i
    BY Constants
  <2>3. Reshaped(D, E)
    BY <2>1, <2>2, Constants, ExpandKeeps
  <2>4. s \in Sizes /\ s # 0
    BY <2>2, NextPowerFound, Constants
  <2>5. D.ht0.used = 0
    BY <1>3, NoTableIs DEF DictOK
  <2>6. E = [D EXCEPT !.ht0 = NewTable(s)]
    BY <1>3, <2>1, <2>4, <2>5, Constants DEF dictExpand
  <2> HIDE DEF E, s
  <2>7. E.ht0 = NewTable(s)
    <3>1. D = [ht0 |-> D.ht0, ht1 |-> D.ht1, rehashidx |-> D.rehashidx,
               iterators |-> D.iterators]
      BY DEF DictOK
    <3> QED
      BY <2>6, <3>1
  <2>8. E.ht0.size # 0
    BY <2>4, <2>7, NewTableOK
  <2> QED
    BY <2>3, <2>8 DEF E
<1>4. CASE /\ ~Rehashing(D) /\ D.ht0.size # 0
           /\ D.ht0.used >= D.ht0.size
           /\ canResize \/ D.ht0.used \div D.ht0.size > ForceRatio
  <2>1. E = dictExpand(D, D.ht0.used * 2)
    BY <1>4 DEF ExpandIfNeeded
  <2>2. D.ht0.used * 2 \in Nat /\ \E s \in Sizes : D.ht0.used * 2 <= s
    BY <1>1, RoomFor
  <2>3. Reshaped(D, E)
    BY <2>1, <2>2, ExpandKeeps
  <2>4. E.ht0 = D.ht0
    <3>1. D = [ht0 |-> D.ht0, ht1 |-> D.ht1, rehashidx |-> D.rehashidx,
               iterators |-> D.iterators]
      BY DEF DictOK
    <3> QED
      BY <1>4, <2>1, <3>1 DEF dictExpand
  <2> QED
    BY <1>4, <2>3, <2>4
<1>5. CASE /\ ~Rehashing(D) /\ D.ht0.size # 0
           /\ ~(/\ D.ht0.used >= D.ht0.size
                /\ canResize \/ D.ht0.used \div D.ht0.size > ForceRatio)
  <2>1. E = D
    BY <1>5 DEF ExpandIfNeeded
  <2> QED
    BY <1>5, <2>1, ReshapedSelf
<1> QED
  BY <1>2, <1>3, <1>4, <1>5

LEMMA ResizeKeeps ==
  ASSUME NEW D, DictOK(D)
  PROVE  Reshaped(D, dictResize(D))
<1> DEFINE n == IF D.ht0.used < InitialSize THEN InitialSize ELSE D.ht0.used
<1>1. /\ D.ht0.used \in Nat /\ D.ht0.used <= Cardinality(Key)
      /\ Cardinality(Key) \in Nat
  BY SizeIs
<1>2. n \in Nat /\ \E s \in Sizes : n <= s
  <2>1. CASE D.ht0.used < InitialSize
    BY <2>1, Constants
  <2>2. CASE ~(D.ht0.used < InitialSize)
    BY <1>1, <2>2, RoomFor
  <2> QED
    BY <2>1, <2>2
<1> HIDE DEF n
<1>3. Reshaped(D, dictExpand(D, n))
  BY <1>2, ExpandKeeps
<1>4. dictResize(D) = D \/ dictResize(D) = dictExpand(D, n)
  BY DEF dictResize, n
<1> QED
  BY <1>3, <1>4, ReshapedSelf

-----------------------------------------------------------------------------
(* Incremental rehashing.                                                  *)

\* As long as ht[0] holds an entry the frontier has a bucket to visit.
LEMMA NextBucketFound ==
  ASSUME NEW D, DictOK(D), Rehashing(D), D.ht0.used # 0
  PROVE  /\ NextBucket(D) \in 0 .. D.ht0.size - 1
         /\ D.rehashidx <= NextBucket(D)
         /\ \A j \in D.rehashidx .. NextBucket(D) - 1 : D.ht0.bucket[j] = {}
         /\ D.rehashidx \in Nat /\ D.ht0.size \in Nat
<1> DEFINE S == {i \in 0 .. D.ht0.size - 1 : D.rehashidx <= i /\ D.ht0.bucket[i] # {}}
<1>1. /\ TableOK(D.ht0) /\ D.ht0.size \in Nat /\ D.rehashidx \in Nat
      /\ \A i \in 0 .. D.ht0.size - 1 : i < D.rehashidx => D.ht0.bucket[i] = {}
  BY EntriesOf DEF DictOK, Frontier, Rehashing
<1>2. PICK e : e \in Entries(D.ht0)
  <2>1. Entries(D.ht0) # {}
    BY <1>1, FS_EmptySet DEF TableOK
  <2> QED
    BY <2>1
<1>3. PICK i \in 0 .. D.ht0.size - 1 : e \in D.ht0.bucket[i]
  BY <1>1, <1>2, EntriesOf
<1>4. i \in S /\ S \subseteq Nat
  BY <1>1, <1>3
<1>5. PICK m \in S : \A j \in S : m <= j
  BY <1>4, LeastNatural
<1>6. /\ m \in 0 .. D.ht0.size - 1 /\ D.rehashidx <= m /\ D.ht0.bucket[m] # {}
      /\ \A j \in D.rehashidx .. m - 1 : D.ht0.bucket[j] = {}
  BY <1>1, <1>5
<1> QED
  BY <1>1, <1>6 DEF NextBucket


\* What moving a bucket leaves: a dictionary whose frontier may have passed
\* the end of ht[0].
Moved(D, E) ==
  /\ E = [ht0 |-> E.ht0, ht1 |-> E.ht1, rehashidx |-> E.rehashidx,
          iterators |-> D.iterators]
  /\ D.iterators \in 0 .. MaxIterators
  /\ TableOK(E.ht0) /\ TableOK(E.ht1) /\ Unique(E) /\ All(E) = All(D)
  /\ E.rehashidx \in Nat /\ E.ht1.size # 0
  /\ \A i \in 0 .. E.ht0.size - 1 : i < E.rehashidx => E.ht0.bucket[i] = {}

LEMMA MoveKeeps ==
  ASSUME NEW D, DictOK(D), Rehashing(D), NEW i \in 0 .. D.ht0.size - 1,
         D.rehashidx <= i, \A j \in D.rehashidx .. i - 1 : D.ht0.bucket[j] = {}
  PROVE  /\ Moved(D, MoveBucket(D, i)) /\ MoveBucket(D, i).rehashidx = i + 1
         /\ MoveBucket(D, i).ht0.size = D.ht0.size
         /\ MoveBucket(D, i).ht1.size = D.ht1.size
<1> DEFINE M == D.ht0.bucket[i]
           a == Emptied(D.ht0, i)
           b == Filled(D.ht1, M)
           E == MoveBucket(D, i)
<1>1. /\ D = [ht0 |-> D.ht0, ht1 |-> D.ht1, rehashidx |-> D.rehashidx,
              iterators |-> D.iterators]
      /\ TableOK(D.ht0) /\ TableOK(D.ht1) /\ Unique(D)
      /\ D.iterators \in 0 .. MaxIterators
      /\ D.ht1.size # 0 /\ D.rehashidx \in Nat
      /\ \A j \in 0 .. D.ht0.size - 1 : j < D.rehashidx => D.ht0.bucket[j] = {}
  BY DEF DictOK, Frontier, Rehashing
<1>2. D.ht0.size \in Nat /\ Entries(D.ht0) \subseteq Entry
  BY <1>1, EntriesOf
<1>3. /\ TableOK(a) /\ Entries(a) = Entries(D.ht0) \ M /\ a.size = D.ht0.size
      /\ a.bucket = [D.ht0.bucket EXCEPT ![i] = {}]
      /\ M \subseteq Entries(D.ht0) /\ IsFiniteSet(M)
  BY <1>1, EmptiedOK
<1>4. M \in SUBSET Entry /\ Entries(D.ht1) \cap M = {}
  BY <1>1, <1>2, <1>3 DEF Unique
<1>5. TableOK(b) /\ Entries(b) = Entries(D.ht1) \cup M /\ b.size = D.ht1.size
  <2> HIDE DEF M
  <2> QED
    BY <1>1, <1>3, <1>4, FilledOK
<1>6. E = [ht0 |-> a, ht1 |-> b, rehashidx |-> i + 1, iterators |-> D.iterators]
  <2>1. a = [D.ht0 EXCEPT !.bucket[i] = {}, !.used = @ - Cardinality(M)]
    BY DEF Emptied
  <2>2. b = [D.ht1 EXCEPT
               !.bucket = [j \in DOMAIN @ |->
                             @[j] \cup {e \in M : Index(e.key, D.ht1.size) = j}],
               !.used = @ + Cardinality(M)]
    BY DEF Filled
  <2>3. E = [D EXCEPT !.ht0 = a, !.ht1 = b, !.rehashidx = i + 1]
    BY <1>1, <2>1, <2>2 DEF MoveBucket
  <2> HIDE DEF E, a, b
  <2> QED
    BY <1>1, <2>3
<1> HIDE DEF E, a, b
<1>7. /\ E = [ht0 |-> E.ht0, ht1 |-> E.ht1, rehashidx |-> E.rehashidx,
              iterators |-> D.iterators]
      /\ E.ht0 = a /\ E.ht1 = b /\ E.rehashidx = i + 1
  BY <1>6
<1>8. Unique(E) /\ All(E) = All(D)
  <2>1. All(E) = All(D)
    BY <1>3, <1>5, <1>7 DEF All
  <2>2. Entries(E.ht0) \cap Entries(E.ht1) = {}
    <3>1. Entries(D.ht0) \cap Entries(D.ht1) = {}
      BY <1>1 DEF Unique
    <3> QED
      BY <1>3, <1>5, <1>7, <3>1
  <2> QED
    BY <1>1, <2>1, <2>2 DEF Unique
<1>9. \A j \in 0 .. E.ht0.size - 1 : j < E.rehashidx => E.ht0.bucket[j] = {}
  <2> TAKE j \in 0 .. E.ht0.size - 1
  <2> SUFFICES ASSUME j < i + 1 PROVE a.bucket[j] = {}
    BY <1>7
  <2>0. D.ht0.bucket \in [0 .. D.ht0.size - 1 -> SUBSET Entry]
    BY <1>1 DEF TableOK
  <2>1. CASE j = i
    BY <1>2, <1>3, <2>0, <2>1
  <2>2. CASE j # i
    <3>1. D.ht0.bucket[j] = {}
      BY <1>1, <1>2, <1>3, <1>7, <2>2
    <3> QED
      BY <1>2, <1>3, <1>7, <2>0, <2>2, <3>1
  <2> QED
    BY <2>1, <2>2
<1>10. E.rehashidx \in Nat /\ E.ht1.size # 0
  BY <1>1, <1>2, <1>5, <1>7
<1>11. Moved(D, E)
  BY <1>1, <1>3, <1>5, <1>7, <1>8, <1>9, <1>10 DEF Moved
<1> QED
  BY <1>3, <1>5, <1>7, <1>11 DEF E

LEMMA SettleKeeps ==
  ASSUME NEW D, NEW E, Moved(D, E)
  PROVE  Reshaped(D, Settle(E))
<1>1. /\ E = [ht0 |-> E.ht0, ht1 |-> E.ht1, rehashidx |-> E.rehashidx,
              iterators |-> E.iterators]
      /\ E.iterators = D.iterators /\ E.iterators \in 0 .. MaxIterators
      /\ TableOK(E.ht0) /\ TableOK(E.ht1) /\ Unique(E) /\ All(E) = All(D)
      /\ E.rehashidx \in Nat /\ E.ht1.size # 0
      /\ \A i \in 0 .. E.ht0.size - 1 : i < E.rehashidx => E.ht0.bucket[i] = {}
  BY DEF Moved
<1>2. E.ht0.size \in Nat
  BY <1>1, EntriesOf
<1>3. CASE E.ht0.used # 0
  <2>1. PICK e : e \in Entries(E.ht0)
    <3>1. Entries(E.ht0) # {}
      BY <1>1, <1>3, FS_EmptySet DEF TableOK
    <3> QED
      BY <3>1
  <2>2. PICK i \in 0 .. E.ht0.size - 1 : e \in E.ht0.bucket[i]
    BY <1>1, <2>1, EntriesOf
  <2>3. E.rehashidx < E.ht0.size
    BY <1>1, <1>2, <2>2
  <2>4. Frontier(E)
    BY <1>1, <2>3 DEF Frontier, Rehashing
  <2>5. DictOK(E)
    BY <1>1, <2>4 DEF DictOK
  <2>6. Settle(E) = E
    BY <1>3 DEF Settle
  <2> QED
    BY <1>1, <2>5, <2>6 DEF Reshaped
<1>4. CASE E.ht0.used = 0
  <2> DEFINE F == Settle(E)
  <2>1. F = [E EXCEPT !.ht0 = E.ht1, !.ht1 = NoTable, !.rehashidx = -1]
    BY <1>4 DEF Settle
  <2> HIDE DEF F
  <2>2. /\ F = [ht0 |-> F.ht0, ht1 |-> F.ht1, rehashidx |-> F.rehashidx,
                iterators |-> F.iterators]
        /\ F.ht0 = E.ht1 /\ F.ht1 = NoTable /\ F.rehashidx = -1
        /\ F.iterators = E.iterators
    BY <1>1, <2>1
  <2>3. TableOK(NoTable) /\ Entries(NoTable) = {} /\ NoTable.size = 0
    BY NewTableOK DEF NoTable
  <2>4. Entries(E.ht0) = {}
    BY <1>1, <1>4, FS_EmptySet DEF TableOK
  <2>5. All(F) = All(E) /\ Unique(F)
    BY <1>1, <2>2, <2>3, <2>4 DEF All, Unique
  <2>6. Frontier(F)
    BY <2>2, <2>3 DEF Frontier, Rehashing
  <2>7. DictOK(F)
    BY <1>1, <2>2, <2>3, <2>5, <2>6 DEF DictOK
  <2> QED
    BY <1>1, <2>2, <2>5, <2>7 DEF Reshaped, F
<1> QED
  BY <1>3, <1>4

\* Visiting empty buckets moves the frontier up to the next bucket at most.
LEMMA RehashKeeps ==
  ASSUME NEW D, DictOK(D), Rehashing(D)
  PROVE  Reshaped(D, dictRehash(D))
<1> DEFINE i == NextBucket(D)
<1>1. /\ D = [ht0 |-> D.ht0, ht1 |-> D.ht1, rehashidx |-> D.rehashidx,
              iterators |-> D.iterators]
      /\ TableOK(D.ht0) /\ TableOK(D.ht1) /\ Unique(D)
      /\ D.iterators \in 0 .. MaxIterators
      /\ D.ht1.size # 0 /\ D.rehashidx \in Nat
      /\ \A j \in 0 .. D.ht0.size - 1 : j < D.rehashidx => D.ht0.bucket[j] = {}
  BY DEF DictOK, Frontier, Rehashing
<1>2. CASE D.ht0.used = 0
  <2>1. Moved(D, D)
    BY <1>1 DEF Moved
  <2> QED
    BY <1>2, <2>1, SettleKeeps DEF dictRehash
<1>3. CASE D.ht0.used # 0
  <2>1. /\ i \in 0 .. D.ht0.size - 1 /\ D.rehashidx <= i
        /\ \A j \in D.rehashidx .. i - 1 : D.ht0.bucket[j] = {}
        /\ D.ht0.size \in Nat
    BY <1>3, NextBucketFound
  <2>2. CASE i - D.rehashidx >= EmptyVisits
    <3> DEFINE E == dictRehash(D)
    <3>1. E = [D EXCEPT !.rehashidx = D.rehashidx + EmptyVisits]
      BY <1>1, <1>3, <2>2 DEF dictRehash
    <3> HIDE DEF E, i
    <3>2. /\ E = [ht0 |-> E.ht0, ht1 |-> E.ht1, rehashidx |-> E.rehashidx,
                  iterators |-> E.iterators]
          /\ E.ht0 = D.ht0 /\ E.ht1 = D.ht1 /\ E.rehashidx = D.rehashidx + EmptyVisits
          /\ E.iterators = D.iterators
      BY <1>1, <3>1
    <3>3. /\ E.rehashidx \in Nat /\ E.rehashidx < D.ht0.size
          /\ \A j \in 0 .. D.ht0.size - 1 : j < E.rehashidx => D.ht0.bucket[j] = {}
      BY <1>1, <2>1, <2>2, <3>2, Constants
    <3>4. All(E) = All(D) /\ Unique(E)
      BY <1>1, <3>2 DEF All, Unique
    <3>5. Frontier(E)
      BY <1>1, <3>2, <3>3 DEF Frontier, Rehashing
    <3>6. DictOK(E)
      BY <1>1, <3>2, <3>4, <3>5 DEF DictOK
    <3> QED
      BY <3>2, <3>4, <3>6 DEF Reshaped, E
  <2>3. CASE ~(i - D.rehashidx >= EmptyVisits)
    <3>1. dictRehash(D) = Settle(MoveBucket(D, i))
      BY <1>3, <2>3 DEF dictRehash
    <3> HIDE DEF i
    <3>2. Moved(D, MoveBucket(D, i))
      BY <2>1, MoveKeeps
    <3> QED
      BY <3>1, <3>2, SettleKeeps
  <2> QED
    BY <2>2, <2>3
<1> QED
  BY <1>2, <1>3

LEMMA StepKeeps ==
  ASSUME NEW D, DictOK(D)
  PROVE  Reshaped(D, RehashStep(D))
  BY RehashKeeps, ReshapedSelf DEF RehashStep

LEMMA PreparedKeeps ==
  ASSUME NEW D, DictOK(D)
  PROVE  Reshaped(D, Prepared(D)) /\ Prepared(D).ht0.size # 0
<1> DEFINE E == RehashStep(D)
<1>1. Reshaped(D, E) /\ DictOK(E)
  BY StepKeeps DEF Reshaped
<1>2. Reshaped(E, ExpandIfNeeded(E)) /\ ExpandIfNeeded(E).ht0.size # 0
  BY <1>1, ExpandIfNeededKeeps
<1> HIDE DEF E
<1>3. Reshaped(D, ExpandIfNeeded(E))
  BY <1>1, <1>2, ReshapedTwice
<1> QED
  BY <1>2, <1>3 DEF Prepared, E


-----------------------------------------------------------------------------
(* Entries come and go.                                                    *)

\* E is D with one of its tables replaced by one that is as large, holds A
\* and has no more buckets in use.
LEMMA TablesKeep ==
  ASSUME NEW D, DictOK(D), NEW E,
         E = [ht0 |-> E.ht0, ht1 |-> E.ht1, rehashidx |-> D.rehashidx,
              iterators |-> D.iterators],
         TableOK(E.ht0), TableOK(E.ht1), Unique(E),
         E.ht0.size = D.ht0.size, E.ht1.size = D.ht1.size,
         Rehashing(D) => \A i \in 0 .. D.ht0.size - 1 :
                           i < D.rehashidx => E.ht0.bucket[i] = {}
  PROVE  DictOK(E)
<1>1. E.rehashidx = D.rehashidx /\ E.iterators = D.iterators
  OBVIOUS
<1>2. Frontier(E)
  BY <1>1 DEF DictOK, Frontier, Rehashing
<1> QED
  BY <1>1, <1>2 DEF DictOK

\* The calls themselves leave the frontier and the table sizes alone.
Placed(D, E) ==
  /\ E.ht0.size = D.ht0.size /\ E.ht1.size = D.ht1.size
  /\ E.rehashidx = D.rehashidx /\ E.iterators = D.iterators

\* dictAddRaw adds the entry to the table a search looks at last.
LEMMA AddKeeps ==
  ASSUME NEW D, DictOK(D), D.ht0.size # 0, NEW e \in Entry,
         \A f \in All(D) : f.key # e.key
  PROVE  /\ DictOK(AddEntry(D, e)) /\ All(AddEntry(D, e)) = All(D) \cup {e}
         /\ Placed(D, AddEntry(D, e))
<1> DEFINE E == AddEntry(D, e)
<1>1. /\ D = [ht0 |-> D.ht0, ht1 |-> D.ht1, rehashidx |-> D.rehashidx,
              iterators |-> D.iterators]
      /\ TableOK(D.ht0) /\ TableOK(D.ht1) /\ Unique(D) /\ Frontier(D)
  BY DEF DictOK
<1>2. /\ \A f, g \in All(D) : f.key = g.key => f = g
      /\ Entries(D.ht0) \cap Entries(D.ht1) = {}
      /\ e \notin Entries(D.ht0) /\ e \notin Entries(D.ht1)
  BY <1>1 DEF Unique, All
<1>3. CASE Rehashing(D)
  <2> DEFINE t == Insert(D.ht1, e)
  <2>1. E = [D EXCEPT !.ht1 = t]
    BY <1>3 DEF AddEntry
  <2>2. D.ht1.size # 0
    BY <1>1, <1>3 DEF Frontier
  <2>3. TableOK(t) /\ Entries(t) = Entries(D.ht1) \cup {e} /\ t.size = D.ht1.size
    BY <1>1, <1>2, <2>2, InsertOK
  <2> HIDE DEF t, E
  <2>4. /\ E = [ht0 |-> E.ht0, ht1 |-> E.ht1, rehashidx |-> D.rehashidx,
                iterators |-> D.iterators]
        /\ E.rehashidx = D.rehashidx /\ E.ht0 = D.ht0 /\ E.ht1 = t /\ E.iterators = D.iterators
    BY <1>1, <2>1
  <2>5. All(E) = All(D) \cup {e}
    BY <2>3, <2>4 DEF All
  <2>6. Unique(E)
    BY <1>2, <2>3, <2>4, <2>5 DEF Unique
  <2>7. Rehashing(D) => \A i \in 0 .. D.ht0.size - 1 :
          i < D.rehashidx => E.ht0.bucket[i] = {}
    BY <1>1, <2>4 DEF Frontier
  <2>8. DictOK(E)
    BY <1>1, <2>3, <2>4, <2>6, <2>7, TablesKeep
  <2> QED
    BY <2>3, <2>4, <2>5, <2>8 DEF E, Placed
<1>4. CASE ~Rehashing(D)
  <2> DEFINE t == Insert(D.ht0, e)
  <2>1. E = [D EXCEPT !.ht0 = t]
    BY <1>4 DEF AddEntry
  <2>3. TableOK(t) /\ Entries(t) = Entries(D.ht0) \cup {e} /\ t.size = D.ht0.size
    BY <1>1, <1>2, InsertOK
  <2> HIDE DEF t, E
  <2>4. /\ E = [ht0 |-> E.ht0, ht1 |-> E.ht1, rehashidx |-> D.rehashidx,
                iterators |-> D.iterators]
        /\ E.rehashidx = D.rehashidx /\ E.ht0 = t /\ E.ht1 = D.ht1 /\ E.iterators = D.iterators
    BY <1>1, <2>1
  <2>5. All(E) = All(D) \cup {e}
    BY <2>3, <2>4 DEF All
  <2>6. Unique(E)
    BY <1>2, <2>3, <2>4, <2>5 DEF Unique
  <2>8. DictOK(E)
    BY <1>1, <1>4, <2>3, <2>4, <2>6, TablesKeep
  <2> QED
    BY <2>3, <2>4, <2>5, <2>8 DEF E, Placed
<1> QED
  BY <1>3, <1>4

\* A bucket of ht[0] that was empty still is when an entry goes.
LEMMA EmptyStays ==
  ASSUME NEW t, TableOK(t), NEW u, TableOK(u), u.size = t.size,
         Entries(u) \subseteq Entries(t), NEW i \in 0 .. t.size - 1, t.bucket[i] = {}
  PROVE  u.bucket[i] = {}
<1> SUFFICES ASSUME NEW x, x \in u.bucket[i] PROVE FALSE
  OBVIOUS
<1>1. x \in Entries(u)
  BY EntriesOf
<1>2. x \in t.bucket[Index(x.key, t.size)]
  BY <1>1, EntriesOf
<1>3. Index(x.key, u.size) = i
  BY DEF TableOK
<1> QED
  BY <1>2, <1>3

\* dictGenericDelete unlinks the entry for the key.
LEMMA DeleteKeeps ==
  ASSUME NEW D, DictOK(D), NEW k \in Key, Found(D, k) # {}
  PROVE  /\ DictOK(DeleteEntry(D, k))
         /\ All(DeleteEntry(D, k)) = {e \in All(D) : e.key # k}
         /\ Placed(D, DeleteEntry(D, k))
<1> DEFINE E == DeleteEntry(D, k)
<1>1. /\ D = [ht0 |-> D.ht0, ht1 |-> D.ht1, rehashidx |-> D.rehashidx,
              iterators |-> D.iterators]
      /\ TableOK(D.ht0) /\ TableOK(D.ht1) /\ Unique(D) /\ Frontier(D)
  BY DEF DictOK
<1>2. /\ \A f, g \in All(D) : f.key = g.key => f = g
      /\ Entries(D.ht0) \cap Entries(D.ht1) = {}
  BY <1>1 DEF Unique
<1>3. /\ Chain(D.ht0, k) = {e \in Entries(D.ht0) : e.key = k}
      /\ Chain(D.ht1, k) = {e \in Entries(D.ht1) : e.key = k}
      /\ Found(D, k) = {e \in All(D) : e.key = k}
  BY FoundIs
<1>4. CASE Chain(D.ht0, k) # {}
  <2> DEFINE e == CHOOSE e \in Chain(D.ht0, k) : TRUE
             t == Remove(D.ht0, e)
  <2>1. E = [D EXCEPT !.ht0 = t]
    BY <1>4 DEF DeleteEntry
  <2>2. e \in Chain(D.ht0, k)
    BY <1>4
  <2> HIDE DEF e
  <2>3. e \in Entries(D.ht0) /\ e.key = k
    BY <1>3, <2>2
  <2>4. TableOK(t) /\ Entries(t) = Entries(D.ht0) \ {e} /\ t.size = D.ht0.size
    BY <1>1, <2>3, RemoveOK
  <2> HIDE DEF t, E
  <2>5. /\ E = [ht0 |-> E.ht0, ht1 |-> E.ht1, rehashidx |-> D.rehashidx,
                iterators |-> D.iterators]
        /\ E.rehashidx = D.rehashidx /\ E.ht0 = t /\ E.ht1 = D.ht1 /\ E.iterators = D.iterators
    BY <1>1, <2>1
  <2>6. All(E) = {f \in All(D) : f.key # k}
    BY <1>2, <2>3, <2>4, <2>5 DEF All
  <2>7. Unique(E)
    BY <1>2, <2>4, <2>5, <2>6 DEF Unique
  <2>8. Rehashing(D) => \A i \in 0 .. D.ht0.size - 1 :
          i < D.rehashidx => E.ht0.bucket[i] = {}
    BY <1>1, <2>4, <2>5, EmptyStays DEF Frontier
  <2>9. DictOK(E)
    BY <1>1, <2>4, <2>5, <2>7, <2>8, TablesKeep
  <2> QED
    BY <2>4, <2>5, <2>6, <2>9 DEF E, Placed
<1>5. CASE Chain(D.ht0, k) = {}
  <2> DEFINE e == CHOOSE e \in Chain(D.ht1, k) : TRUE
             t == Remove(D.ht1, e)
  <2>1. E = [D EXCEPT !.ht1 = t]
    BY <1>5 DEF DeleteEntry
  <2>2. e \in Chain(D.ht1, k)
    BY <1>5 DEF Found
  <2> HIDE DEF e
  <2>3. e \in Entries(D.ht1) /\ e.key = k
    BY <1>3, <2>2
  <2>4. TableOK(t) /\ Entries(t) = Entries(D.ht1) \ {e} /\ t.size = D.ht1.size
    BY <1>1, <2>3, RemoveOK
  <2> HIDE DEF t, E
  <2>5. /\ E = [ht0 |-> E.ht0, ht1 |-> E.ht1, rehashidx |-> D.rehashidx,
                iterators |-> D.iterators]
        /\ E.rehashidx = D.rehashidx /\ E.ht0 = D.ht0 /\ E.ht1 = t /\ E.iterators = D.iterators
    BY <1>1, <2>1
  <2>6. All(E) = {f \in All(D) : f.key # k}
    BY <1>2, <2>3, <2>4, <2>5 DEF All
  <2>7. Unique(E)
    BY <1>2, <2>4, <2>5, <2>6 DEF Unique
  <2>8. Rehashing(D) => \A i \in 0 .. D.ht0.size - 1 :
          i < D.rehashidx => E.ht0.bucket[i] = {}
    BY <1>1, <2>5 DEF Frontier
  <2>9. DictOK(E)
    BY <1>1, <2>4, <2>5, <2>7, <2>8, TablesKeep
  <2> QED
    BY <2>4, <2>5, <2>6, <2>9 DEF E, Placed
<1> QED
  BY <1>4, <1>5

\* dictSetVal replaces the value of the entry for the key where it is.
LEMMA SetKeeps ==
  ASSUME NEW D, DictOK(D), NEW k \in Key, NEW v \in Value, Found(D, k) # {}
  PROVE  /\ DictOK(SetVal(D, k, v))
         /\ All(SetVal(D, k, v)) =
              {e \in All(D) : e.key # k} \cup {[key |-> k, val |-> v]}
         /\ Placed(D, SetVal(D, k, v))
<1> DEFINE E == SetVal(D, k, v)
           n == [key |-> k, val |-> v]
<1>0. n \in Entry /\ n.key = k
  BY DEF Entry
<1>1. /\ D = [ht0 |-> D.ht0, ht1 |-> D.ht1, rehashidx |-> D.rehashidx,
              iterators |-> D.iterators]
      /\ TableOK(D.ht0) /\ TableOK(D.ht1) /\ Unique(D) /\ Frontier(D)
  BY DEF DictOK
<1>2. /\ \A f, g \in All(D) : f.key = g.key => f = g
      /\ Entries(D.ht0) \cap Entries(D.ht1) = {}
  BY <1>1 DEF Unique
<1>3. /\ Chain(D.ht0, k) = {e \in Entries(D.ht0) : e.key = k}
      /\ Chain(D.ht1, k) = {e \in Entries(D.ht1) : e.key = k}
      /\ Found(D, k) = {e \in All(D) : e.key = k}
  BY FoundIs
<1>4. CASE Chain(D.ht0, k) # {}
  <2> DEFINE t == SetIn(D.ht0, k, n)
  <2>1. E = [D EXCEPT !.ht0 = t]
    BY <1>1, <1>4 DEF SetVal, SetIn
  <2> HIDE DEF n
  <2>2. PICK e : e \in Chain(D.ht0, k)
    BY <1>4
  <2>3. e \in Entries(D.ht0) /\ e.key = k /\ Chain(D.ht0, k) = {e}
    BY <1>2, <1>3, <2>2 DEF All
  <2>4. TableOK(t) /\ Entries(t) = (Entries(D.ht0) \ {e}) \cup {n} /\ t.size = D.ht0.size
    BY <1>0, <1>1, <2>3, SetOK
  <2> HIDE DEF t, E
  <2>5. /\ E = [ht0 |-> E.ht0, ht1 |-> E.ht1, rehashidx |-> D.rehashidx,
                iterators |-> D.iterators]
        /\ E.rehashidx = D.rehashidx /\ E.ht0 = t /\ E.ht1 = D.ht1 /\ E.iterators = D.iterators
    BY <1>1, <2>1
  <2>6. All(E) = {f \in All(D) : f.key # k} \cup {n}
    BY <1>2, <2>3, <2>4, <2>5 DEF All
  <2>7. Unique(E)
    <3>1. \A f, g \in All(E) : f.key = g.key => f = g
      BY <1>0, <1>2, <2>6
    <3>2. n \notin Entries(D.ht1)
      BY <1>0, <1>2, <2>3 DEF All
    <3>3. Entries(E.ht0) \cap Entries(E.ht1) = {}
      BY <1>2, <2>4, <2>5, <3>2
    <3> QED
      BY <3>1, <3>3 DEF Unique
  <2>8. Rehashing(D) => \A i \in 0 .. D.ht0.size - 1 :
          i < D.rehashidx => E.ht0.bucket[i] = {}
    <3> SUFFICES ASSUME Rehashing(D), NEW i \in 0 .. D.ht0.size - 1, i < D.rehashidx,
                        NEW x, x \in t.bucket[i]
                 PROVE  FALSE
      BY <2>5
    <3>1. D.ht0.bucket[i] = {}
      BY <1>1 DEF Frontier
    <3>2. Index(x.key, D.ht0.size) = i /\ x \in Entries(t)
      BY <2>4, EntriesOf DEF TableOK
    <3>3. Index(e.key, D.ht0.size) # i
      BY <1>1, <2>3, <3>1, EntriesOf
    <3>4. x \in Entries(D.ht0)
      BY <1>0, <2>3, <2>4, <3>2, <3>3
    <3> QED
      BY <1>1, <3>1, <3>2, <3>4, EntriesOf
  <2>9. DictOK(E)
    BY <1>1, <2>4, <2>5, <2>7, <2>8, TablesKeep
  <2> QED
    BY <2>4, <2>5, <2>6, <2>9 DEF E, n, Placed
<1>5. CASE Chain(D.ht0, k) = {}
  <2> DEFINE t == SetIn(D.ht1, k, n)
  <2>1. E = [D EXCEPT !.ht1 = t]
    BY <1>1, <1>5 DEF SetVal, SetIn
  <2> HIDE DEF n
  <2>2. PICK e : e \in Chain(D.ht1, k)
    BY <1>5 DEF Found
  <2>3. e \in Entries(D.ht1) /\ e.key = k /\ Chain(D.ht1, k) = {e}
    BY <1>2, <1>3, <2>2 DEF All
  <2>4. TableOK(t) /\ Entries(t) = (Entries(D.ht1) \ {e}) \cup {n} /\ t.size = D.ht1.size
    BY <1>0, <1>1, <2>3, SetOK
  <2> HIDE DEF t, E
  <2>5. /\ E = [ht0 |-> E.ht0, ht1 |-> E.ht1, rehashidx |-> D.rehashidx,
                iterators |-> D.iterators]
        /\ E.rehashidx = D.rehashidx /\ E.ht0 = D.ht0 /\ E.ht1 = t /\ E.iterators = D.iterators
    BY <1>1, <2>1
  <2>6. All(E) = {f \in All(D) : f.key # k} \cup {n}
    BY <1>2, <2>3, <2>4, <2>5 DEF All
  <2>7. Unique(E)
    <3>1. \A f, g \in All(E) : f.key = g.key => f = g
      BY <1>0, <1>2, <2>6
    <3>2. n \notin Entries(D.ht0)
      BY <1>0, <1>2, <2>3 DEF All
    <3>3. Entries(E.ht0) \cap Entries(E.ht1) = {}
      BY <1>2, <2>4, <2>5, <3>2
    <3> QED
      BY <3>1, <3>3 DEF Unique
  <2>8. Rehashing(D) => \A i \in 0 .. D.ht0.size - 1 :
          i < D.rehashidx => E.ht0.bucket[i] = {}
    BY <1>1, <2>5 DEF Frontier
  <2>9. DictOK(E)
    BY <1>1, <2>4, <2>5, <2>7, <2>8, TablesKeep
  <2> QED
    BY <2>4, <2>5, <2>6, <2>9 DEF E, n, Placed
<1> QED
  BY <1>4, <1>5


-----------------------------------------------------------------------------
(* What the calls do to the entries.                                       *)

Has(D, k) == \E e \in All(D) : e.key = k

LEMMA FoundOrNot ==
  ASSUME NEW D, DictOK(D), NEW k \in Key
  PROVE  Found(D, k) # {} <=> Has(D, k)
<1>1. Found(D, k) = {e \in All(D) : e.key = k}
  BY FoundIs
<1> QED
  BY <1>1 DEF Has

LEMMA AddStep ==
  ASSUME DictOK(d), NEW k \in Key, NEW v \in Value, dictAdd(k, v)
  PROVE  /\ DictOK(d') /\ reply' = <<"add", k, ~Has(d, k)>>
         /\ Has(d, k) => All(d') = All(d)
         /\ ~Has(d, k) => All(d') = All(d) \cup {[key |-> k, val |-> v]}
<1> DEFINE D == Prepared(d)
           n == [key |-> k, val |-> v]
<1>1. DictOK(D) /\ All(D) = All(d) /\ D.ht0.size # 0
  BY PreparedKeeps DEF Reshaped
<1>2. /\ d' = IF Found(D, k) = {} THEN AddEntry(D, n) ELSE D
      /\ reply' = <<"add", k, Found(D, k) = {}>>
  BY DEF dictAdd, Return
<1>3. n \in Entry /\ n.key = k
  BY DEF Entry
<1> HIDE DEF D, n
<1>4. (Found(D, k) = {}) = ~Has(d, k)
  <2>1. Found(D, k) # {} <=> Has(D, k)
    BY <1>1, FoundOrNot
  <2> QED
    BY <1>1, <2>1 DEF Has
<1>5. CASE Has(d, k)
  <2>1. d' = D
    BY <1>2, <1>4, <1>5
  <2> QED
    BY <1>1, <1>2, <1>4, <1>5, <2>1
<1>6. CASE ~Has(d, k)
  <2>1. d' = AddEntry(D, n)
    BY <1>2, <1>4, <1>6
  <2>2. \A f \in All(D) : f.key # n.key
    BY <1>1, <1>3, <1>6 DEF Has
  <2>3. DictOK(d') /\ All(d') = All(D) \cup {n}
    BY <1>1, <1>3, <2>1, <2>2, AddKeeps
  <2> QED
    BY <1>1, <1>2, <1>4, <1>6, <2>3 DEF n
<1> QED
  BY <1>5, <1>6

LEMMA ReplaceStep ==
  ASSUME DictOK(d), NEW k \in Key, NEW v \in Value, dictReplace(k, v)
  PROVE  /\ DictOK(d') /\ reply' = <<"replace", k, ~Has(d, k)>>
         /\ All(d') = {e \in All(d) : e.key # k} \cup {[key |-> k, val |-> v]}
<1> DEFINE D == Prepared(d)
           n == [key |-> k, val |-> v]
<1>1. DictOK(D) /\ All(D) = All(d) /\ D.ht0.size # 0
  BY PreparedKeeps DEF Reshaped
<1>2. /\ d' = IF Found(D, k) = {} THEN AddEntry(D, n) ELSE SetVal(D, k, v)
      /\ reply' = <<"replace", k, Found(D, k) = {}>>
  BY DEF dictReplace, Return
<1>3. n \in Entry /\ n.key = k
  BY DEF Entry
<1> HIDE DEF D
<1>4. (Found(D, k) = {}) = ~Has(d, k)
  <2>1. Found(D, k) # {} <=> Has(D, k)
    BY <1>1, FoundOrNot
  <2> QED
    BY <1>1, <2>1 DEF Has
<1>5. CASE Has(d, k)
  <2>1. d' = SetVal(D, k, v)
    BY <1>2, <1>4, <1>5
  <2>2. DictOK(d') /\ All(d') = {e \in All(D) : e.key # k} \cup {n}
    BY <1>1, <1>4, <1>5, <2>1, SetKeeps
  <2> QED
    BY <1>1, <1>2, <1>4, <2>2
<1>6. CASE ~Has(d, k)
  <2> HIDE DEF n
  <2>1. d' = AddEntry(D, n)
    BY <1>2, <1>4, <1>6
  <2>2. \A f \in All(D) : f.key # n.key
    BY <1>1, <1>3, <1>6 DEF Has
  <2>3. DictOK(d') /\ All(d') = All(D) \cup {n}
    BY <1>1, <1>3, <2>1, <2>2, AddKeeps
  <2>4. {e \in All(d) : e.key # k} = All(d)
    BY <1>6 DEF Has
  <2> QED
    BY <1>1, <1>2, <1>4, <2>3, <2>4 DEF n
<1> QED
  BY <1>5, <1>6

\* dictFind, dictDelete and dictGetRandomKey make a step of rehashing unless
\* the dictionary is empty.
Visited(D) == IF dictSize(D) = 0 THEN D ELSE RehashStep(D)

LEMMA VisitKeeps ==
  ASSUME NEW D, DictOK(D)
  PROVE  Reshaped(D, Visited(D))
  BY StepKeeps, ReshapedSelf DEF Visited

LEMMA DeleteStep ==
  ASSUME DictOK(d), NEW k \in Key, NEW shrink \in BOOLEAN, dictDelete(k, shrink)
  PROVE  /\ DictOK(d') /\ reply' = <<"delete", k, Has(d, k)>>
         /\ All(d') = {e \in All(d) : e.key # k}
<1> DEFINE D == Visited(d)
           there == Found(D, k) # {}
           E == IF there THEN DeleteEntry(D, k) ELSE D
<1>1. DictOK(D) /\ All(D) = All(d)
  BY VisitKeeps DEF Reshaped
<1>2. /\ d' = E \/ d' = dictResize(E)
      /\ reply' = <<"delete", k, there>>
  BY DEF dictDelete, Return, Visited
<1> HIDE DEF D
<1>3. there = Has(d, k)
  <2>1. Found(D, k) # {} <=> Has(D, k)
    BY <1>1, FoundOrNot
  <2> QED
    BY <1>1, <2>1 DEF Has
<1>4. DictOK(E) /\ All(E) = {e \in All(d) : e.key # k}
  <2>1. CASE there
    BY <1>1, <2>1, DeleteKeeps
  <2>2. CASE ~there
    BY <1>1, <1>3, <2>2 DEF Has
  <2> QED
    BY <2>1, <2>2
<1> HIDE DEF E
<1>5. DictOK(dictResize(E)) /\ All(dictResize(E)) = All(E)
  BY <1>4, ResizeKeeps DEF Reshaped
<1> HIDE DEF there
<1> QED
  BY <1>2, <1>3, <1>4, <1>5

LEMMA CreatedOK ==
  DictOK(Created) /\ All(Created) = {}
<1>1. TableOK(NoTable) /\ Entries(NoTable) = {} /\ NoTable.size = 0
  BY NewTableOK DEF NoTable
<1>2. /\ Created = [ht0 |-> Created.ht0, ht1 |-> Created.ht1,
                    rehashidx |-> Created.rehashidx, iterators |-> Created.iterators]
      /\ Created.ht0 = NoTable /\ Created.ht1 = NoTable
      /\ Created.rehashidx = -1 /\ Created.iterators = 0
  BY DEF Created
<1>3. All(Created) = {} /\ Unique(Created)
  BY <1>1, <1>2 DEF All, Unique
<1>4. Frontier(Created)
  BY <1>1, <1>2 DEF Frontier, Rehashing
<1>5. 0 \in 0 .. MaxIterators
  BY Constants
<1> QED
  BY <1>1, <1>2, <1>3, <1>4, <1>5 DEF DictOK

\* Counting iterators leaves the tables alone.
LEMMA IteratorStep ==
  ASSUME DictOK(d), SafeIteratorStart \/ SafeIteratorRelease
  PROVE  DictOK(d') /\ All(d') = All(d) /\ reply' = reply
<1>1. PICK n \in 0 .. MaxIterators : d' = [d EXCEPT !.iterators = n] /\ reply' = reply
  <2>1. d.iterators \in 0 .. MaxIterators /\ MaxIterators \in Nat
    BY Constants DEF DictOK
  <2>2. CASE SafeIteratorStart
    BY <2>1, <2>2 DEF SafeIteratorStart
  <2>3. CASE SafeIteratorRelease
    BY <2>1, <2>3 DEF SafeIteratorRelease
  <2> QED
    BY <2>2, <2>3
<1> DEFINE E == [d EXCEPT !.iterators = n]
<1>2. /\ d = [ht0 |-> d.ht0, ht1 |-> d.ht1, rehashidx |-> d.rehashidx,
              iterators |-> d.iterators]
      /\ TableOK(d.ht0) /\ TableOK(d.ht1) /\ Unique(d) /\ Frontier(d)
  BY DEF DictOK
<1>3. /\ E = [ht0 |-> E.ht0, ht1 |-> E.ht1, rehashidx |-> E.rehashidx,
              iterators |-> E.iterators]
      /\ E.ht0 = d.ht0 /\ E.ht1 = d.ht1 /\ E.rehashidx = d.rehashidx
      /\ E.iterators = n
  BY <1>2
<1> HIDE DEF E
<1>4. All(E) = All(d) /\ Unique(E)
  BY <1>2, <1>3 DEF All, Unique
<1>5. Frontier(E)
  BY <1>2, <1>3 DEF Frontier, Rehashing
<1>6. DictOK(E)
  BY <1>2, <1>3, <1>4, <1>5 DEF DictOK
<1> QED
  BY <1>1, <1>4, <1>6 DEF E

-----------------------------------------------------------------------------
(* The invariant.                                                          *)

DictInv == DictOK(d) /\ canResize \in BOOLEAN

LEMMA InitInv == Init => DictInv
  BY CreatedOK DEF Init, DictInv

LEMMA NextInv ==
  ASSUME DictInv, [Next]_vars
  PROVE  DictInv'
<1>0. DictOK(d) /\ canResize \in BOOLEAN
  BY DEF DictInv
<1>1. ASSUME NEW k \in Key, dictFind(k) PROVE DictInv'
  <2>1. d' = Visited(d) /\ canResize' = canResize
    BY <1>1 DEF dictFind, Visited
  <2> QED
    BY <1>0, <2>1, VisitKeeps DEF Reshaped, DictInv
<1>2. ASSUME NEW k \in Key, NEW shrink \in BOOLEAN, dictDelete(k, shrink) PROVE DictInv'
  <2>1. canResize' = canResize
    BY <1>2 DEF dictDelete
  <2> QED
    BY <1>0, <1>2, <2>1, DeleteStep DEF DictInv
<1>3. ASSUME NEW k \in Key, NEW v \in Value, dictAdd(k, v) PROVE DictInv'
  <2>1. canResize' = canResize
    BY <1>3 DEF dictAdd
  <2> QED
    BY <1>0, <1>3, <2>1, AddStep DEF DictInv
<1>4. ASSUME NEW k \in Key, NEW v \in Value, dictReplace(k, v) PROVE DictInv'
  <2>1. canResize' = canResize
    BY <1>4 DEF dictReplace
  <2> QED
    BY <1>0, <1>4, <2>1, ReplaceStep DEF DictInv
<1>5. CASE dictGetRandomKey
  <2>1. d' = Visited(d) /\ canResize' = canResize
    BY <1>5 DEF dictGetRandomKey, Visited
  <2> QED
    BY <1>0, <2>1, VisitKeeps DEF Reshaped, DictInv
<1>6. CASE dictEmpty
  BY <1>0, <1>6, CreatedOK DEF dictEmpty, DictInv
<1>7. CASE SafeIteratorStart \/ SafeIteratorRelease
  <2>1. canResize' = canResize
    BY <1>7 DEF SafeIteratorStart, SafeIteratorRelease
  <2> QED
    BY <1>0, <1>7, <2>1, IteratorStep DEF DictInv
<1>8. CASE dictEnableResize
  BY <1>0, <1>8 DEF dictEnableResize, DictInv
<1>9. CASE dictDisableResize
  BY <1>0, <1>9 DEF dictDisableResize, DictInv
<1>10. CASE UNCHANGED vars
  BY <1>0, <1>10 DEF vars, DictInv
<1> QED
  BY <1>1, <1>2, <1>3, <1>4, <1>5, <1>6, <1>7, <1>8, <1>9, <1>10 DEF Next, Call

LEMMA InvTypeOK == DictInv => TypeOK
<1> SUFFICES ASSUME DictInv PROVE TypeOK
  OBVIOUS
<1>1. ASSUME NEW t, TableOK(t)
      PROVE  /\ t.size \in Sizes \cup {0} /\ t.used \in Nat
             /\ DOMAIN t.bucket = 0 .. t.size - 1
             /\ \A i \in DOMAIN t.bucket : t.bucket[i] \subseteq Entry
  BY <1>1, EntriesOf DEF TableOK
<1> QED
  BY <1>1 DEF TypeOK, DictInv, DictOK, Frontier

LEMMA InvSearchable == DictInv => Searchable
<1> SUFFICES ASSUME DictInv PROVE Searchable
  OBVIOUS
<1>1. ASSUME NEW t, TableOK(t)
      PROVE  /\ \A i \in DOMAIN t.bucket : \A e \in t.bucket[i] : Index(e.key, t.size) = i
             /\ t.used = Cardinality(Entries(t))
  BY <1>1 DEF TableOK
<1> QED
  BY <1>1 DEF Searchable, DictInv, DictOK, Unique, All

LEMMA InvFrontierOK == DictInv => FrontierOK
<1> SUFFICES ASSUME DictInv PROVE FrontierOK
  OBVIOUS
<1>1. Frontier(d) /\ DOMAIN d.ht0.bucket = 0 .. d.ht0.size - 1
  BY DEF DictInv, DictOK, TableOK
<1> QED
  BY <1>1 DEF FrontierOK, Frontier

LEMMA InvRandomReachesAll == DictInv => RandomReachesAll
<1> SUFFICES ASSUME DictInv PROVE RandomReachesAll
  OBVIOUS
<1> DEFINE D == RehashStep(d)
<1>1. DictOK(D)
  BY StepKeeps DEF DictInv, Reshaped
<1> HIDE DEF D
<1>2. /\ TableOK(D.ht0) /\ TableOK(D.ht1) /\ Frontier(D)
      /\ D.ht0.size \in Nat /\ D.ht1.size \in Nat
  BY <1>1, EntriesOf DEF DictOK
<1>3. /\ \A e : e \in Entries(D.ht0) <=> \E i \in 0 .. D.ht0.size - 1 : e \in D.ht0.bucket[i]
      /\ \A e : e \in Entries(D.ht1) <=> \E i \in 0 .. D.ht1.size - 1 : e \in D.ht1.bucket[i]
  BY <1>2, EntriesOf
<1>4. CASE ~Rehashing(D)
  <2>1. Entries(D.ht1) = {}
    BY <1>2, <1>4, NoTableIs DEF Frontier
  <2>2. Drawn(D) = {D.ht0.bucket[h] : h \in 0 .. D.ht0.size - 1}
    BY <1>4 DEF Drawn
  <2>3. \A e : e \in UNION Drawn(D) <=> e \in Entries(D.ht0)
    BY <1>3, <2>2
  <2>4. UNION Drawn(D) = Entries(D.ht0) \cup Entries(D.ht1)
    BY <2>1, <2>3
  <2> QED
    BY <2>4 DEF RandomReachesAll, D
<1>5. CASE Rehashing(D)
  <2> DEFINE a == D.ht0.size
             b == D.ht1.size
             r == D.rehashidx
  <2>1. /\ a \in Nat /\ b \in Nat /\ r \in Nat /\ r < a
        /\ \A i \in 0 .. a - 1 : i < r => D.ht0.bucket[i] = {}
    BY <1>2, <1>5 DEF Frontier, Rehashing
  <2>2. Drawn(D) = {Slot(D, h) : h \in r .. a + b - 1}
    <3>1. dictSlots(D) = a + b
      BY DEF dictSlots
    <3> HIDE DEF a, b, r
    <3>2. Drawn(D) = {Slot(D, h) : h \in r .. dictSlots(D) - 1}
      BY <1>5, Zenon DEF Drawn, r
    <3>3. r .. dictSlots(D) - 1 = r .. a + b - 1
      BY <2>1, <3>1
    <3> QED
      BY <3>2, <3>3, Zenon
  <2>3. ASSUME NEW e, e \in UNION Drawn(D)
        PROVE  e \in Entries(D.ht0) \cup Entries(D.ht1)
    <3>1. PICK h \in r .. a + b - 1 : e \in Slot(D, h)
      BY <2>2, <2>3
    <3>2. CASE h >= a
      <4>1. h - a \in 0 .. b - 1 /\ e \in D.ht1.bucket[h - a]
        BY <2>1, <3>1, <3>2 DEF Slot
      <4> QED
        BY <1>3, <4>1
    <3>3. CASE ~(h >= a)
      <4>1. h \in 0 .. a - 1 /\ e \in D.ht0.bucket[h]
        BY <2>1, <3>1, <3>3 DEF Slot
      <4> QED
        BY <1>3, <4>1
    <3> QED
      BY <3>2, <3>3
  <2>4. ASSUME NEW e, e \in Entries(D.ht0)
        PROVE  e \in UNION Drawn(D)
    <3>1. PICK i \in 0 .. a - 1 : e \in D.ht0.bucket[i]
      BY <1>3, <2>4
    <3>2. i \in r .. a + b - 1 /\ Slot(D, i) = D.ht0.bucket[i]
      BY <2>1, <3>1 DEF Slot
    <3> QED
      BY <2>2, <3>1, <3>2
  <2>5. ASSUME NEW e, e \in Entries(D.ht1)
        PROVE  e \in UNION Drawn(D)
    <3>1. PICK i \in 0 .. b - 1 : e \in D.ht1.bucket[i]
      BY <1>3, <2>5
    <3>2. a + i \in r .. a + b - 1 /\ a + i >= a /\ (a + i) - a = i
      BY <2>1, <3>1
    <3>3. Slot(D, a + i) = D.ht1.bucket[i]
      BY <3>2 DEF Slot
    <3> QED
      BY <2>2, <3>1, <3>2, <3>3
  <2>6. UNION Drawn(D) = Entries(D.ht0) \cup Entries(D.ht1)
    BY <2>3, <2>4, <2>5
  <2> QED
    BY <2>6 DEF RandomReachesAll, D
<1> QED
  BY <1>4, <1>5


LEMMA InvariantHolds == Spec => []DictInv
  BY InitInv, NextInv, PTL DEF Spec

\* The dictionary keeps its shape, and its counters are natural numbers.
THEOREM DictTypeCorrect == Spec => []TypeOK
  BY InvariantHolds, InvTypeOK, PTL

\* No resize, no step of rehashing and no deletion loses an entry, leaves it
\* where a search does not look, or miscounts it.
THEOREM EntriesAreFound == Spec => []Searchable
  BY InvariantHolds, InvSearchable, PTL

\* The walk to the next bucket that is not empty never runs off the end of
\* the old table.
THEOREM FrontierStaysInside == Spec => []FrontierOK
  BY InvariantHolds, InvFrontierOK, PTL

\* A random key can be any key, in the middle of a rehash as well.
THEOREM EveryKeyCanBeDrawn == Spec => []RandomReachesAll
  BY InvariantHolds, InvRandomReachesAll, PTL

-----------------------------------------------------------------------------
(* The dictionary is a map.                                                *)

\* The map holds the value of the entry for the key.
LEMMA ContentsIs ==
  ASSUME NEW D, DictOK(D), NEW k \in Key
  PROVE  /\ Contents(D)[k] = dictFetchValue(D, k)
         /\ ~Has(D, k) => Contents(D)[k] = NULL
         /\ \A e \in All(D) : e.key = k => Contents(D)[k] = e.val
         /\ Contents(D)[k] = NULL <=> ~Has(D, k)
<1>1. Contents(D)[k] = dictFetchValue(D, k)
  BY DEF Contents
<1>2. Found(D, k) = {e \in All(D) : e.key = k}
  BY FoundIs
<1>3. ASSUME NEW e \in All(D), e.key = k
      PROVE  dictFetchValue(D, k) = e.val /\ e.val # NULL
  <2>1. \A f \in All(D) : f.key = e.key => f = e
    BY DEF DictOK, Unique
  <2>2. Found(D, k) = {e}
    BY <1>2, <1>3, <2>1
  <2>3. e \in Entry
    BY EntriesOf DEF DictOK, All
  <2>4. (CHOOSE x \in Found(D, k) : TRUE) = e
    BY <2>2
  <2> QED
    BY <2>2, <2>3, <2>4, Constants DEF dictFetchValue, Entry
<1>4. ~Has(D, k) => dictFetchValue(D, k) = NULL
  BY <1>2 DEF dictFetchValue, Has
<1> QED
  BY <1>1, <1>3, <1>4 DEF Has

LEMMA SameContents ==
  ASSUME NEW D, DictOK(D), NEW E, DictOK(E), All(E) = All(D)
  PROVE  Contents(E) = Contents(D)
<1>1. ASSUME NEW k \in Key PROVE Contents(E)[k] = Contents(D)[k]
  <2>1. CASE Has(D, k)
    <3>1. PICK e \in All(D) : e.key = k
      BY <2>1 DEF Has
    <3> QED
      BY <3>1, ContentsIs
  <2>2. CASE ~Has(D, k)
    <3>1. ~Has(E, k)
      BY <2>2 DEF Has
    <3> QED
      BY <2>2, <3>1, ContentsIs
  <2> QED
    BY <2>1, <2>2
<1> QED
  BY <1>1 DEF Contents

\* E is D with k put to v.
LEMMA PutContents ==
  ASSUME NEW D, DictOK(D), NEW E, DictOK(E), NEW k \in Key, NEW v,
         \A e : e.key # k => (e \in All(E) <=> e \in All(D)),
         IF v = NULL THEN ~Has(E, k) ELSE \E e \in All(E) : e.key = k /\ e.val = v
  PROVE  Contents(E) = [Contents(D) EXCEPT ![k] = v]
<1>1. ASSUME NEW j \in Key, j # k PROVE Contents(E)[j] = Contents(D)[j]
  <2>1. CASE Has(D, j)
    <3>1. PICK e \in All(D) : e.key = j
      BY <2>1 DEF Has
    <3>2. e \in All(E)
      BY <1>1, <3>1
    <3> QED
      BY <3>1, <3>2, ContentsIs
  <2>2. CASE ~Has(D, j)
    <3>1. ~Has(E, j)
      BY <1>1, <2>2 DEF Has
    <3> QED
      BY <2>2, <3>1, ContentsIs
  <2> QED
    BY <2>1, <2>2
<1>2. Contents(E)[k] = v
  BY ContentsIs
<1> QED
  BY <1>1, <1>2 DEF Contents

LEMMA InitRefines == Init => Map!Init
<1> SUFFICES ASSUME Init PROVE Map!Init
  OBVIOUS
<1>1. d = Created /\ reply = <<"init", NULL, NULL>>
  BY DEF Init
<1>2. Contents(d) = [k \in Key |-> NULL]
  BY <1>1, CreatedOK, ContentsIs DEF Has, Contents
<1> QED
  BY <1>1, <1>2 DEF Map!Init

LEMMA StepRefines ==
  ASSUME DictInv, [Next]_vars
  PROVE  [Map!Next]_Map!vars
<1>0. DictOK(d) /\ DictOK(d')
  BY NextInv DEF DictInv
<1> DEFINE m == Contents(d)
           n == Contents(d)'
<1>a. \A k \in Key : m[k] = NULL <=> ~Has(d, k)
  BY <1>0, ContentsIs
<1>b. m = [k \in Key |-> m[k]]
  BY DEF Contents
<1>1. ASSUME NEW k \in Key, dictFind(k) PROVE Map!Find(k)
  <2>1. /\ d' = Visited(d)
        /\ reply' = <<"find", k, dictFetchValue(d', k)>>
    BY <1>1 DEF dictFind, Visited, Return
  <2>2. All(d') = All(d)
    BY <1>0, <2>1, VisitKeeps DEF Reshaped
  <2>3. n = m
    BY <1>0, <2>2, SameContents
  <2>4. dictFetchValue(d', k) = n[k]
    BY <1>0, ContentsIs
  <2> QED
    BY <2>1, <2>3, <2>4 DEF Map!Find, Map!Return
<1>2. ASSUME NEW k \in Key, NEW shrink \in BOOLEAN, dictDelete(k, shrink)
      PROVE  Map!Delete(k)
  <2>1. /\ reply' = <<"delete", k, Has(d, k)>>
        /\ All(d') = {e \in All(d) : e.key # k}
    BY <1>0, <1>2, DeleteStep
  <2>2. n = [m EXCEPT ![k] = NULL]
    <3>1. ~Has(d', k) /\ \A e : e.key # k => (e \in All(d') <=> e \in All(d))
      BY <2>1 DEF Has
    <3> QED
      BY <1>0, <3>1, PutContents
  <2>3. Has(d, k) = (m[k] # NULL)
    BY <1>a DEF Has
  <2> HIDE DEF m, n
  <2>4. reply' = <<"delete", k, m[k] # NULL>>
    BY <2>1, <2>3
  <2> QED
    BY <2>2, <2>4 DEF Map!Delete, Map!Return, m, n
<1>3. ASSUME NEW k \in Key, NEW v \in Value, dictAdd(k, v) PROVE Map!Add(k, v)
  <2>1. /\ reply' = <<"add", k, ~Has(d, k)>>
        /\ Has(d, k) => All(d') = All(d)
        /\ ~Has(d, k) => All(d') = All(d) \cup {[key |-> k, val |-> v]}
    BY <1>0, <1>3, AddStep
  <2>2. CASE Has(d, k)
    <3>1. n = m
      BY <1>0, <2>1, <2>2, SameContents
    <3>2. m[k] # NULL /\ reply' = <<"add", k, FALSE>>
      BY <1>a, <2>1, <2>2
    <3> QED
      BY <3>1, <3>2 DEF Map!Add, Map!Return
  <2>3. CASE ~Has(d, k)
    <3>1. n = [m EXCEPT ![k] = v]
      <4> DEFINE w == [key |-> k, val |-> v]
      <4>0. w.key = k /\ w.val = v /\ All(d') = All(d) \cup {w}
        BY <2>1, <2>3
      <4> HIDE DEF w
      <4>1. /\ \A e : e.key # k => (e \in All(d') <=> e \in All(d))
            /\ \E e \in All(d') : e.key = k /\ e.val = v
        BY <4>0
      <4>2. v # NULL
        BY Constants
      <4> QED
        BY <1>0, <4>1, <4>2, PutContents
    <3>2. m[k] = NULL /\ reply' = <<"add", k, TRUE>>
      BY <1>a, <2>1, <2>3
    <3> QED
      BY <3>1, <3>2 DEF Map!Add, Map!Return
  <2> QED
    BY <2>2, <2>3
<1>4. ASSUME NEW k \in Key, NEW v \in Value, dictReplace(k, v) PROVE Map!Replace(k, v)
  <2>1. /\ reply' = <<"replace", k, ~Has(d, k)>>
        /\ All(d') = {e \in All(d) : e.key # k} \cup {[key |-> k, val |-> v]}
    BY <1>0, <1>4, ReplaceStep
  <2>2. n = [m EXCEPT ![k] = v]
    <3> DEFINE w == [key |-> k, val |-> v]
    <3>0. w.key = k /\ w.val = v /\ All(d') = {e \in All(d) : e.key # k} \cup {w}
      BY <2>1
    <3> HIDE DEF w
    <3>1. /\ \A e : e.key # k => (e \in All(d') <=> e \in All(d))
          /\ \E e \in All(d') : e.key = k /\ e.val = v
      BY <3>0
    <3>2. v # NULL
      BY Constants
    <3> QED
      BY <1>0, <3>1, <3>2, PutContents
  <2>3. (~Has(d, k)) = (m[k] = NULL)
    BY <1>a DEF Has
  <2> HIDE DEF m, n
  <2>4. reply' = <<"replace", k, m[k] = NULL>>
    BY <2>1, <2>3
  <2> QED
    BY <2>2, <2>4 DEF Map!Replace, Map!Return, m, n
<1>5. CASE dictGetRandomKey
  <2>1. /\ d' = Visited(d)
        /\ \/ dictSize(d) = 0 /\ reply' = <<"random", NULL, NULL>>
           \/ /\ dictSize(d) # 0
              /\ \E b \in Drawn(d') : \E e \in b : reply' = <<"random", NULL, e.key>>
    BY <1>5 DEF dictGetRandomKey, Visited, Return
  <2>2. All(d') = All(d)
    BY <1>0, <2>1, VisitKeeps DEF Reshaped
  <2>3. n = m
    BY <1>0, <2>2, SameContents
  <2>4. CASE dictSize(d) = 0 /\ reply' = <<"random", NULL, NULL>>
    <3>1. All(d) = {}
      BY <1>0, <2>4, SizeIs, FS_EmptySet
    <3>2. \A k \in Key : m[k] = NULL
      BY <1>a, <3>1 DEF Has
    <3> QED
      BY <2>3, <2>4, <3>2 DEF Map!Next, Map!RandomKey, Map!Return
  <2>5. CASE /\ dictSize(d) # 0
             /\ \E b \in Drawn(d') : \E e \in b : reply' = <<"random", NULL, e.key>>
    <3>1. d' = RehashStep(d)
      BY <2>1, <2>5 DEF Visited
    <3>2. UNION Drawn(d') = All(d')
      BY <3>1, InvRandomReachesAll DEF RandomReachesAll, All
    <3>3. PICK b \in Drawn(d') : \E e \in b : reply' = <<"random", NULL, e.key>>
      BY <2>5
    <3>4. PICK e \in b : reply' = <<"random", NULL, e.key>>
      BY <3>3
    <3>5. e \in All(d) /\ e \in Entry
      BY <1>0, <2>2, <3>2, EntriesOf DEF DictOK, All
    <3>6. e.key \in Key /\ m[e.key] # NULL
      BY <1>a, <3>5 DEF Entry, Has
    <3> QED
      BY <2>3, <3>4, <3>6 DEF Map!Next, Map!RandomKey, Map!Return
  <2> QED
    BY <2>1, <2>4, <2>5
<1>6. CASE dictEmpty
  <2>1. d' = Created /\ reply' = <<"empty", NULL, NULL>>
    BY <1>6 DEF dictEmpty, Return
  <2>2. n = [k \in Key |-> NULL]
    BY <2>1, CreatedOK, ContentsIs DEF Has, Contents
  <2> QED
    BY <2>1, <2>2 DEF Map!Next, Map!Empty, Map!Return
<1>7. ASSUME All(d') = All(d), reply' = reply PROVE UNCHANGED Map!vars
  <2>1. n = m
    BY <1>0, <1>7, SameContents
  <2> QED
    BY <1>7, <2>1 DEF Map!vars
<1>8. CASE SafeIteratorStart \/ SafeIteratorRelease
  BY <1>0, <1>7, <1>8, IteratorStep
<1>9. CASE dictEnableResize \/ dictDisableResize \/ UNCHANGED vars
  <2>1. d' = d /\ reply' = reply
    BY <1>9 DEF dictEnableResize, dictDisableResize, vars
  <2> QED
    BY <2>1 DEF Map!vars
<1> HIDE DEF m, n
<1> QED
  BY <1>1, <1>2, <1>3, <1>4, <1>5, <1>6, <1>8, <1>9 DEF Next, Call, Map!Next

\* Resizing, rehashing and iterators are not observable: every call does to
\* the map, and answers, what a map would.
THEOREM DictIsAMap == Spec => ImplementsMap
<1>1. Spec => Map!Init
  BY InitRefines DEF Spec
<1>2. Spec => [][Map!Next]_Map!vars
  BY InvariantHolds, StepRefines, PTL DEF Spec
<1> QED
  BY <1>1, <1>2 DEF ImplementsMap, Map!Spec


-----------------------------------------------------------------------------
(* Growth.                                                                 *)

\* While the dictionary moves to a larger table there is room in it for an
\* entry more with each bucket the frontier has still to pass, and for x
\* besides.
Growing(D, x) ==
  Rehashing(D) /\ D.ht1.size > D.ht0.size =>
    dictSize(D) + (D.ht0.size - 1 - D.rehashidx) + x <= D.ht1.size

\* A table that is less than full in every hundredth is larger than its
\* number of entries.
LEMMA LessThanFull ==
  ASSUME NEW a \in Nat, NEW m \in Nat \ {0}, (a * 100) \div m < 100
  PROVE  a < m
<1> DEFINE q == (a * 100) \div m
           r == (a * 100) % m
<1>1. q \in Int /\ r \in 0 .. m - 1 /\ a * 100 = m * q + r
  OBVIOUS
<1> HIDE DEF q, r
<1>2. q <= 99
  BY <1>1 DEF q
<1>3. m * (99 - q) >= 0
  BY <1>1, <1>2
<1>4. m * (99 - q) = 99 * m - m * q
  BY <1>1
<1> DEFINE x == m * q
<1>5. x \in Int
  BY <1>1
<1> HIDE DEF x
<1>6. 99 * m - x >= 0 /\ a * 100 = x + r
  BY <1>1, <1>3, <1>4 DEF x
<1> QED
  BY <1>1, <1>5, <1>6

\* One step passes a bucket at least.
LEMMA StepGrowth ==
  ASSUME NEW D, DictOK(D), D.iterators = 0, Growing(D, 0)
  PROVE  Growing(RehashStep(D), 1)
<1> DEFINE E == RehashStep(D)
<1>1. /\ D = [ht0 |-> D.ht0, ht1 |-> D.ht1, rehashidx |-> D.rehashidx,
              iterators |-> D.iterators]
      /\ D.ht0.size \in Nat /\ D.ht1.size \in Nat
  BY EntriesOf DEF DictOK
<1>2. dictSize(E) = dictSize(D) /\ dictSize(D) \in Nat
  <2>1. DictOK(E) /\ All(E) = All(D)
    BY StepKeeps DEF Reshaped
  <2> HIDE DEF E
  <2> QED
    BY <2>1, SizeIs
<1> SUFFICES ASSUME Rehashing(E), E.ht1.size > E.ht0.size
             PROVE  /\ Rehashing(D) /\ E.ht0.size = D.ht0.size /\ E.ht1.size = D.ht1.size
                    /\ D.rehashidx \in Nat /\ E.rehashidx \in Nat
                    /\ E.rehashidx >= D.rehashidx + 1
  <2>1. SUFFICES ASSUME Rehashing(E), E.ht1.size > E.ht0.size
                 PROVE  dictSize(E) + (E.ht0.size - 1 - E.rehashidx) + 1 <= E.ht1.size
    BY DEF Growing
  <2>2. /\ Rehashing(D) /\ E.ht0.size = D.ht0.size /\ E.ht1.size = D.ht1.size
        /\ D.rehashidx \in Nat /\ E.rehashidx \in Nat
        /\ E.rehashidx >= D.rehashidx + 1
    BY <2>1
  <2> HIDE DEF E
  <2>3. dictSize(D) + (D.ht0.size - 1 - D.rehashidx) + 0 <= D.ht1.size
    BY <2>1, <2>2 DEF Growing
  <2> QED
    BY <1>1, <1>2, <2>2, <2>3
<1>3. Rehashing(D) /\ E = dictRehash(D)
  BY DEF RehashStep
<1>4. D.rehashidx \in Nat
  BY <1>3 DEF DictOK, Frontier, Rehashing
\* A dictionary that has settled with its old table empty rehashes no more.
<1>5. ASSUME NEW F, F = [ht0 |-> F.ht0, ht1 |-> F.ht1, rehashidx |-> F.rehashidx,
                         iterators |-> F.iterators],
             Rehashing(Settle(F))
      PROVE  Settle(F) = F
  <2> SUFFICES ASSUME F.ht0.used = 0 PROVE FALSE
    BY DEF Settle
  <2>1. Settle(F) = [F EXCEPT !.ht0 = F.ht1, !.ht1 = NoTable, !.rehashidx = -1]
    BY DEF Settle
  <2>2. Settle(F).rehashidx = -1
    BY <1>5, <2>1
  <2> QED
    BY <1>5, <2>2 DEF Rehashing
<1>6. D.ht0.used # 0
  <2> SUFFICES ASSUME D.ht0.used = 0 PROVE FALSE
    OBVIOUS
  <2>1. E = Settle(D)
    BY <1>3 DEF dictRehash
  <2>2. E = [D EXCEPT !.ht0 = D.ht1, !.ht1 = NoTable, !.rehashidx = -1]
    BY <2>1 DEF Settle
  <2> HIDE DEF E
  <2>3. E.rehashidx = -1
    BY <1>1, <2>2
  <2> QED
    BY <2>3 DEF Rehashing
<1> DEFINE i == NextBucket(D)
<1>7. /\ i \in 0 .. D.ht0.size - 1 /\ D.rehashidx <= i
      /\ \A j \in D.rehashidx .. i - 1 : D.ht0.bucket[j] = {}
  BY <1>3, <1>6, NextBucketFound
<1>8. CASE i - D.rehashidx >= EmptyVisits
  <2>1. E = [D EXCEPT !.rehashidx = D.rehashidx + EmptyVisits]
    BY <1>1, <1>3, <1>6, <1>8 DEF dictRehash
  <2> HIDE DEF E
  <2>2. E.ht0 = D.ht0 /\ E.ht1 = D.ht1 /\ E.rehashidx = D.rehashidx + EmptyVisits
    BY <1>1, <2>1
  <2> QED
    BY <1>3, <1>4, <2>2, Constants
<1>9. CASE ~(i - D.rehashidx >= EmptyVisits)
  <2> DEFINE F == MoveBucket(D, i)
  <2>1. E = Settle(F)
    BY <1>3, <1>6, <1>9 DEF dictRehash
  <2>2. /\ Moved(D, F) /\ F.rehashidx = i + 1
        /\ F.ht0.size = D.ht0.size /\ F.ht1.size = D.ht1.size
    <3> HIDE DEF i
    <3> QED
      BY <1>3, <1>7, MoveKeeps
  <2> HIDE DEF E, F, i
  <2>3. F = [ht0 |-> F.ht0, ht1 |-> F.ht1, rehashidx |-> F.rehashidx,
             iterators |-> F.iterators]
    BY <2>2 DEF Moved
  <2>4. E = F
    BY <1>5, <2>1, <2>2, <2>3 DEF E
  <2> QED
    BY <1>1, <1>3, <1>4, <1>7, <2>2, <2>3, <2>4
<1> QED
  BY <1>8, <1>9


\* The move to a table for twice the entries starts with room to spare.
LEMMA ExpandGrowth ==
  ASSUME NEW D, DictOK(D), canResize, Growing(D, 1)
  PROVE  Growing(ExpandIfNeeded(D), 1)
<1> DEFINE E == ExpandIfNeeded(D)
           n == D.ht0.used * 2
<1>1. /\ D = [ht0 |-> D.ht0, ht1 |-> D.ht1, rehashidx |-> D.rehashidx,
              iterators |-> D.iterators]
      /\ D.ht0.size \in Nat /\ D.ht0.used \in Nat /\ D.ht0.used <= Cardinality(Key)
      /\ Cardinality(Key) \in Nat
  BY SizeIs, EntriesOf DEF DictOK
<1>2. CASE E = D
  BY <1>2
<1>3. CASE ~Rehashing(D) /\ D.ht0.size = 0
  <2>1. E = D \/ E = [D EXCEPT !.ht0 = NewTable(NextPower(InitialSize))]
    BY <1>3 DEF ExpandIfNeeded, dictExpand
  <2> HIDE DEF E
  <2>2. E.rehashidx = D.rehashidx
    BY <1>1, <2>1
  <2> QED
    BY <1>3, <2>2 DEF Growing, Rehashing, E
<1>4. CASE /\ ~Rehashing(D) /\ D.ht0.size # 0 /\ D.ht0.used >= D.ht0.size /\ E # D
  <2>1. E = dictExpand(D, n)
    BY <1>4 DEF ExpandIfNeeded
  <2>2. n \in Nat /\ NextPower(n) \in Sizes /\ NextPower(n) \in Nat /\ NextPower(n) >= n
    <3>1. n \in Nat /\ \E s \in Sizes : n <= s
      BY <1>1, RoomFor
    <3> HIDE DEF n
    <3> QED
      BY <3>1, NextPowerFound, Constants
  <2> DEFINE s == NextPower(n)
  <2>3. E = [D EXCEPT !.ht1 = NewTable(s), !.rehashidx = 0]
    BY <1>4, <2>1 DEF dictExpand
  <2> HIDE DEF E, s
  <2>4. E.ht0 = D.ht0 /\ E.ht1 = NewTable(s) /\ E.rehashidx = 0
    BY <1>1, <2>3
  <2>5. NewTable(s).size = s /\ NewTable(s).used = 0
    BY DEF NewTable
  <2>6. dictSize(E) = D.ht0.used
    BY <1>1, <2>4, <2>5 DEF dictSize
  <2>7. s \in Nat /\ s >= D.ht0.used * 2
    BY <2>2 DEF s
  <2>8. Growing(E, 1)
    BY <1>1, <1>4, <2>4, <2>5, <2>6, <2>7 DEF Growing
  <2> QED
    BY <2>8 DEF E
<1>5. E = D \/ D.ht0.size = 0 \/ D.ht0.used >= D.ht0.size
  BY DEF ExpandIfNeeded
<1>6. Rehashing(D) => E = D
  BY DEF ExpandIfNeeded
<1> HIDE DEF E
<1> QED
  BY <1>2, <1>3, <1>4, <1>5, <1>6 DEF E

\* A table that is resized because few of its buckets are used does not grow.
LEMMA ResizeGrowth ==
  ASSUME NEW D, DictOK(D), Growing(D, 0), MinFill <= 100, htNeedsResize(D)
  PROVE  Growing(dictResize(D), 0)
<1> DEFINE E == dictResize(D)
           n == IF D.ht0.used < InitialSize THEN InitialSize ELSE D.ht0.used
           s == NextPower(n)
<1>1. /\ D = [ht0 |-> D.ht0, ht1 |-> D.ht1, rehashidx |-> D.rehashidx,
              iterators |-> D.iterators]
      /\ D.ht0.size \in Nat /\ D.ht0.used \in Nat /\ D.ht0.size \in Sizes \cup {0}
  BY SizeIs, EntriesOf DEF DictOK, TableOK
<1>2. CASE E = D
  BY <1>2
<1>3. CASE E # D
  <2>1. ~Rehashing(D) /\ E = dictExpand(D, n)
    BY <1>3 DEF dictResize
  <2>2. D.ht1.size = 0 /\ D.ht1.used = 0
    BY <2>1, NoTableIs DEF DictOK, Frontier
  <2>3. dictSlots(D) = D.ht0.size /\ dictSize(D) = D.ht0.used
    BY <1>1, <2>2 DEF dictSlots, dictSize
  <2>4. D.ht0.size > InitialSize /\ (D.ht0.used * 100) \div D.ht0.size < MinFill
    BY <2>3 DEF htNeedsResize
  <2>5. InitialSize \in Nat /\ MinFill \in Nat /\ D.ht0.size # 0
    BY <1>1, <2>4, DictAssumption
  <2>6. D.ht0.used < D.ht0.size
    <3>1. (D.ht0.used * 100) \div D.ht0.size < 100
      BY <1>1, <2>4, <2>5
    <3> QED
      BY <1>1, <2>5, <3>1, LessThanFull
  <2>7. n \in Nat /\ n <= D.ht0.size /\ D.ht0.size \in Sizes
    BY <1>1, <2>4, <2>5, <2>6
  <2> HIDE DEF n
  <2>8. s \in Nat /\ s <= D.ht0.size
    BY <2>7, NextPowerFound, Constants
  <2>9. E = [D EXCEPT !.ht1 = NewTable(s), !.rehashidx = 0]
    BY <1>3, <2>1, <2>5 DEF dictExpand
  <2> HIDE DEF E, s
  <2>10. E.ht0 = D.ht0 /\ E.ht1 = NewTable(s) /\ NewTable(s).size = s
    BY <1>1, <2>9 DEF NewTable
  <2>11. Growing(E, 0)
    BY <1>1, <2>8, <2>10 DEF Growing
  <2> QED
    BY <2>11 DEF E
<1> QED
  BY <1>2, <1>3

\* A call that leaves the frontier alone needs no more room than it has
\* entries more.
LEMMA PlacedGrowth ==
  ASSUME NEW D, DictOK(D), NEW E, DictOK(E), Placed(D, E),
         NEW x \in Nat, NEW y \in Nat, Growing(D, x),
         dictSize(E) + y <= dictSize(D) + x
  PROVE  Growing(E, y)
<1>1. /\ dictSize(D) \in Nat /\ dictSize(E) \in Nat
      /\ D.ht0.size \in Nat /\ D.ht1.size \in Nat /\ D.rehashidx \in Nat \cup {-1}
  BY SizeIs, EntriesOf DEF DictOK, Frontier
<1> QED
  BY <1>1 DEF Growing, Placed, Rehashing

\* The sizes of dictionaries whose entries compare.
LEMMA SizesCompare ==
  ASSUME NEW D, DictOK(D), NEW E, DictOK(E)
  PROVE  /\ All(E) \subseteq All(D) => dictSize(E) <= dictSize(D)
         /\ \A e : All(E) \subseteq All(D) \cup {e} => dictSize(E) <= dictSize(D) + 1
         /\ dictSize(E) \in Nat /\ dictSize(D) \in Nat
<1>1. /\ IsFiniteSet(All(D)) /\ Cardinality(All(D)) = dictSize(D) /\ dictSize(D) \in Nat
      /\ Cardinality(All(E)) = dictSize(E) /\ dictSize(E) \in Nat
  BY SizeIs
<1>2. All(E) \subseteq All(D) => dictSize(E) <= dictSize(D)
  BY <1>1, FS_Subset
<1>3. ASSUME NEW e, All(E) \subseteq All(D) \cup {e} PROVE dictSize(E) <= dictSize(D) + 1
  <2>1. CASE e \in All(D)
    BY <1>1, <1>2, <1>3, <2>1
  <2>2. CASE e \notin All(D)
    <3>1. IsFiniteSet(All(D) \cup {e}) /\ Cardinality(All(D) \cup {e}) = Cardinality(All(D)) + 1
      BY <1>1, <2>2, FS_AddElement
    <3>2. Cardinality(All(E)) <= Cardinality(All(D) \cup {e})
      BY <1>3, <3>1, FS_Subset
    <3> QED
      BY <1>1, <3>1, <3>2
  <2> QED
    BY <2>1, <2>2
<1> QED
  BY <1>1, <1>2, <1>3


\* Room that is there for one more is there for none.
LEMMA GrowthSlack ==
  ASSUME NEW D, DictOK(D), Growing(D, 1)
  PROVE  Growing(D, 0)
<1>1. dictSize(D) \in Nat /\ Placed(D, D)
  BY SizeIs DEF Placed
<1> QED
  BY <1>1, PlacedGrowth

LEMMA VisitGrowth ==
  ASSUME NEW D, DictOK(D), D.iterators = 0, Growing(D, 0)
  PROVE  Growing(Visited(D), 0)
<1>1. Growing(RehashStep(D), 0)
  BY StepGrowth, StepKeeps, GrowthSlack DEF Reshaped
<1> QED
  BY <1>1 DEF Visited

GrowthInv ==
  /\ DictInv
  /\ canResize = TRUE /\ d.iterators = 0
  /\ Growing(d, 0)

\* An entry that is put after the step of rehashing uses the room that the
\* step has made.
LEMMA PutGrowth ==
  ASSUME GrowthInv, DictInv', NEW k \in Key, NEW v \in Value,
         dictAdd(k, v) \/ dictReplace(k, v)
  PROVE  Growing(d', 0)
<1> DEFINE C == RehashStep(d)
           D == Prepared(d)
           n == [key |-> k, val |-> v]
<1>1. DictOK(d) /\ canResize /\ d.iterators = 0 /\ Growing(d, 0) /\ DictOK(d')
  BY DEF GrowthInv, DictInv
<1>2. DictOK(C) /\ Growing(C, 1)
  BY <1>1, StepKeeps, StepGrowth DEF Reshaped
<1>3. DictOK(D) /\ D.ht0.size # 0
  BY <1>1, PreparedKeeps DEF Reshaped
<1>4. Growing(D, 1)
  <2> HIDE DEF C, D
  <2>1. Growing(ExpandIfNeeded(C), 1)
    BY <1>1, <1>2, ExpandGrowth
  <2> QED
    BY <2>1 DEF C, D, Prepared
<1>5. \/ d' = D
      \/ Found(D, k) = {} /\ d' = AddEntry(D, n)
      \/ Found(D, k) # {} /\ d' = SetVal(D, k, v)
  BY DEF dictAdd, dictReplace
<1>6. n \in Entry /\ n.key = k
  BY DEF Entry
<1> HIDE DEF C, D, n
<1>7. CASE d' = D
  BY <1>3, <1>4, <1>7, GrowthSlack
<1>8. ASSUME Placed(D, d'), All(d') \subseteq All(D) \cup {n}
      PROVE  Growing(d', 0)
  <2>1. dictSize(d') <= dictSize(D) + 1 /\ dictSize(d') \in Nat
    BY <1>1, <1>3, <1>8, SizesCompare
  <2> QED
    BY <1>1, <1>3, <1>4, <1>8, <2>1, PlacedGrowth
<1>9. CASE Found(D, k) = {} /\ d' = AddEntry(D, n)
  <2>1. \A f \in All(D) : f.key # n.key
    BY <1>3, <1>6, <1>9, FoundOrNot DEF Has
  <2>2. Placed(D, d') /\ All(d') = All(D) \cup {n}
    BY <1>3, <1>6, <1>9, <2>1, AddKeeps
  <2> QED
    BY <1>8, <2>2
<1>10. CASE Found(D, k) # {} /\ d' = SetVal(D, k, v)
  <2>1. Placed(D, d') /\ All(d') = {e \in All(D) : e.key # k} \cup {n}
    BY <1>3, <1>10, SetKeeps DEF n
  <2> QED
    BY <1>8, <2>1
<1> QED
  BY <1>5, <1>7, <1>9, <1>10

\* Deleting leaves room, and shrinking does not count.
LEMMA DeleteGrowth ==
  ASSUME GrowthInv, NEW k \in Key, NEW shrink \in BOOLEAN, shrink => MinFill <= 100,
         dictDelete(k, shrink)
  PROVE  Growing(d', 0)
<1> DEFINE D == Visited(d)
           there == Found(D, k) # {}
           E == IF there THEN DeleteEntry(D, k) ELSE D
<1>1. DictOK(d) /\ d.iterators = 0 /\ Growing(d, 0)
  BY DEF GrowthInv, DictInv
<1>2. DictOK(D) /\ Growing(D, 0)
  BY <1>1, VisitKeeps, VisitGrowth DEF Reshaped
<1>3. d' = IF shrink /\ there /\ htNeedsResize(E) THEN dictResize(E) ELSE E
  BY DEF dictDelete, Visited
<1> HIDE DEF D
<1>4. DictOK(E) /\ Growing(E, 0)
  <2>1. CASE ~there
    BY <1>2, <2>1
  <2>2. CASE there
    <3> DEFINE F == DeleteEntry(D, k)
    <3>1. DictOK(F) /\ Placed(D, F) /\ All(F) = {e \in All(D) : e.key # k}
      BY <1>2, <2>2, DeleteKeeps
    <3> HIDE DEF F
    <3>2. dictSize(F) <= dictSize(D) /\ dictSize(F) \in Nat /\ dictSize(D) \in Nat
      BY <1>2, <3>1, SizesCompare
    <3>3. Growing(F, 0)
      BY <1>2, <3>1, <3>2, PlacedGrowth
    <3> QED
      BY <2>2, <3>1, <3>3 DEF F
  <2> QED
    BY <2>1, <2>2
<1> HIDE DEF E, there
<1>5. shrink /\ htNeedsResize(E) => Growing(dictResize(E), 0)
  BY <1>4, ResizeGrowth
<1> QED
  BY <1>3, <1>4, <1>5

LEMMA GrowthNext ==
  ASSUME MaxIterators = 0, MayDisable = FALSE, MinFill <= 100,
         GrowthInv, [Next]_vars
  PROVE  GrowthInv'
<1>1. DictInv /\ DictOK(d) /\ canResize = TRUE /\ d.iterators = 0 /\ Growing(d, 0)
  BY DEF GrowthInv, DictInv
<1>2. DictInv' /\ DictOK(d')
  BY <1>1, NextInv DEF DictInv
<1>3. d'.iterators = 0
  BY <1>2 DEF DictOK
<1>4. canResize' = TRUE
  BY <1>1 DEF Next, Call, vars, dictFind, dictDelete, dictAdd, dictReplace,
              dictGetRandomKey, dictEmpty, SafeIteratorStart, SafeIteratorRelease,
              dictEnableResize, dictDisableResize
<1>5. Growing(d', 0)
  <2>1. ASSUME NEW k \in Key, dictFind(k) PROVE Growing(d', 0)
    <3>1. d' = Visited(d)
      BY <2>1 DEF dictFind, Visited
    <3> QED
      BY <1>1, <3>1, VisitGrowth
  <2>2. ASSUME NEW k \in Key, NEW shrink \in BOOLEAN, dictDelete(k, shrink)
        PROVE  Growing(d', 0)
    BY <2>2, DeleteGrowth
  <2>3. ASSUME NEW k \in Key, NEW v \in Value, dictAdd(k, v) \/ dictReplace(k, v)
        PROVE  Growing(d', 0)
    BY <1>2, <2>3, PutGrowth
  <2>4. CASE dictGetRandomKey
    <3>1. d' = Visited(d)
      BY <2>4 DEF dictGetRandomKey, Visited
    <3> QED
      BY <1>1, <3>1, VisitGrowth
  <2>5. CASE dictEmpty
    BY <2>5 DEF dictEmpty, Created, Growing, Rehashing
  <2>6. CASE SafeIteratorStart \/ SafeIteratorRelease
    BY <1>1, <2>6 DEF SafeIteratorStart, SafeIteratorRelease
  <2>7. CASE dictEnableResize \/ dictDisableResize \/ UNCHANGED vars
    BY <1>1, <2>7 DEF dictEnableResize, dictDisableResize, vars
  <2> QED
    BY <2>1, <2>2, <2>3, <2>4, <2>5, <2>6, <2>7 DEF Next, Call
<1> QED
  BY <1>1, <1>2, <1>3, <1>4, <1>5 DEF GrowthInv

LEMMA GrowthInit == Init => GrowthInv
<1> SUFFICES ASSUME Init PROVE GrowthInv
  OBVIOUS
<1>1. DictInv /\ canResize = TRUE /\ d = Created
  BY InitInv DEF Init
<1>2. d.iterators = 0 /\ Growing(d, 0)
  BY <1>1 DEF Created, Growing, Rehashing
<1> QED
  BY <1>1, <1>2 DEF GrowthInv

LEMMA GrowthInTime == GrowthInv => GrowthKeepsUp
<1> SUFFICES ASSUME GrowthInv, Rehashing(d), d.ht1.size > d.ht0.size
             PROVE  dictSize(d) <= d.ht1.size
  BY DEF GrowthKeepsUp
<1>1. DictOK(d) /\ Growing(d, 0)
  BY DEF GrowthInv, DictInv
<1>2. d.rehashidx \in Nat /\ d.rehashidx < d.ht0.size
  BY <1>1 DEF DictOK, Frontier, Rehashing
<1>3. d.ht0.size \in Nat /\ d.ht1.size \in Nat /\ dictSize(d) \in Nat
  BY <1>1, SizeIs, EntriesOf DEF DictOK
<1>4. dictSize(d) + (d.ht0.size - 1 - d.rehashidx) + 0 <= d.ht1.size
  BY <1>1 DEF Growing
<1> QED
  BY <1>2, <1>3, <1>4

\* When nothing suspends rehashing or forbids resizing, and only tables that
\* are not full are shrunk, the move to a larger table ends before that table
\* is full.
THEOREM GrowthEndsInTime ==
  ASSUME MaxIterators = 0, MayDisable = FALSE, MinFill <= 100
  PROVE  Spec => []GrowthKeepsUp
<1>1. GrowthInv /\ [Next]_vars => GrowthInv'
  BY GrowthNext
<1> QED
  BY <1>1, GrowthInit, GrowthInTime, PTL DEF Spec

-----------------------------------------------------------------------------
(* The cycle of active expiration, for any number of keys and lookups: it  *)
(* never draws from an empty dictionary, and its deletions, each with      *)
(* steps of rehashing of its own, do not hold up the growth of the table.  *)

CycleInv == GrowthInv /\ left \in Nat /\ DrawsSucceed

\* Nothing suspends rehashing.
LEMMA NoIterators ==
  ASSUME ExpiresTable, NEW D, DictOK(D)
  PROVE  D.iterators = 0
  BY DEF DictOK, ExpiresTable

\* Between cycles any change to the dictionary will do.
LEMMA CommandKeeps ==
  ASSUME ExpiresTable, CycleInv, DictInv', Growing(d', 0), canResize' = canResize,
         Command
  PROVE  CycleInv'
<1>1. left = 0 /\ left' = 0 /\ canResize = TRUE
  BY DEF Command, cycleVars, CycleInv, GrowthInv
<1>2. dictSize(d') \in Nat /\ d'.iterators = 0
  BY SizeIs, NoIterators DEF DictInv
<1> QED
  BY <1>1, <1>2 DEF CycleInv, GrowthInv, DrawsSucceed

\* A lookup deletes one entry at most.
LEMMA LookupKeeps ==
  ASSUME ExpiresTable, CycleInv, NEW k \in Key, Lookup(k)
  PROVE  CycleInv'
<1> DEFINE D == RehashStep(d)
           due == \E e \in Found(D, k) : now > e.val
           E == RehashStep(D)
<1>1. /\ DictOK(d) /\ canResize = TRUE /\ d.iterators = 0 /\ Growing(d, 0)
      /\ left \in Nat /\ left <= dictSize(d)
  BY DEF CycleInv, GrowthInv, DictInv, DrawsSucceed
<1>2. /\ left > 0 /\ left' = left - 1 /\ canResize' = canResize
      /\ d' = IF due THEN DeleteEntry(E, k) ELSE D
  BY DEF Lookup
<1>3. DictOK(D) /\ All(D) = All(d) /\ D.iterators = 0 /\ Growing(D, 0)
  BY <1>1, StepKeeps, StepGrowth, GrowthSlack DEF Reshaped
<1>4. due => Found(D, k) # {}
  OBVIOUS
<1> HIDE DEF D, due
<1>5. DictOK(E) /\ All(E) = All(D) /\ Growing(E, 0)
  BY <1>3, StepKeeps, StepGrowth, GrowthSlack DEF Reshaped
<1> HIDE DEF E
<1>6. dictSize(D) = dictSize(d) /\ dictSize(E) = dictSize(d) /\ dictSize(d) \in Nat
  BY <1>1, <1>3, <1>5, SizeIs
<1>7. CASE ~due
  <2>1. DictInv' /\ d' = D
    BY <1>1, <1>2, <1>3, <1>7 DEF DictInv
  <2> QED
    BY <1>1, <1>2, <1>3, <1>6, <2>1 DEF CycleInv, GrowthInv, DrawsSucceed
<1>8. CASE due
  <2> DEFINE F == DeleteEntry(E, k)
  <2>1. Found(E, k) # {}
    BY <1>3, <1>4, <1>5, <1>8, FoundIs
  <2>2. DictOK(F) /\ Placed(E, F) /\ All(F) = {e \in All(E) : e.key # k}
    BY <1>5, <2>1, DeleteKeeps
  <2> HIDE DEF F
  <2>3. PICK e \in All(E) : e.key = k
    BY <1>5, <2>1, FoundIs
  <2>4. All(E) \subseteq All(F) \cup {e} /\ All(F) \subseteq All(E)
    BY <1>5, <2>2, <2>3 DEF DictOK, Unique
  <2>5. /\ dictSize(E) <= dictSize(F) + 1 /\ dictSize(F) <= dictSize(E)
        /\ dictSize(F) \in Nat
    BY <1>5, <2>2, <2>4, SizesCompare
  <2>6. Growing(F, 0)
    BY <1>5, <1>6, <2>2, <2>5, PlacedGrowth
  <2>7. F.iterators = 0
    BY <2>2, NoIterators
  <2>8. d' = F
    BY <1>2, <1>8 DEF F
  <2>9. DictInv'
    BY <1>1, <1>2, <2>2, <2>8 DEF DictInv
  <2> QED
    BY <1>1, <1>2, <1>6, <2>5, <2>6, <2>7, <2>8, <2>9 DEF CycleInv, GrowthInv, DrawsSucceed
<1> QED
  BY <1>7, <1>8

LEMMA CycleNextInv ==
  ASSUME ExpiresTable, CycleInv, [CycleNext]_allVars
  PROVE  CycleInv'
<1>1. /\ GrowthInv /\ DictInv /\ DictOK(d) /\ Growing(d, 0) /\ d.iterators = 0
      /\ canResize = TRUE /\ left \in Nat /\ left <= dictSize(d)
  BY DEF CycleInv, GrowthInv, DictInv, DrawsSucceed
<1>2. ASSUME NEW k \in Key, RemoveExpire(k) PROVE CycleInv'
  <2>1. dictDelete(k, FALSE) /\ Command /\ canResize' = canResize
    BY <1>2 DEF RemoveExpire, dictDelete
  <2>2. DictInv'
    <3>1. Next
      BY <2>1 DEF Next, Call
    <3> QED
      BY <1>1, <3>1, NextInv
  <2>3. Growing(d', 0)
    BY <1>1, <2>1, DeleteGrowth
  <2> QED
    BY <2>1, <2>2, <2>3, CommandKeeps
<1>3. ASSUME NEW k \in Key, GetExpire(k) PROVE CycleInv'
  <2>1. dictFind(k) /\ Command /\ canResize' = canResize /\ d' = Visited(d)
    BY <1>3 DEF GetExpire, dictFind, Visited
  <2>2. DictInv'
    <3>1. Next
      BY <2>1 DEF Next, Call
    <3> QED
      BY <1>1, <3>1, NextInv
  <2>3. Growing(d', 0)
    BY <1>1, <2>1, VisitGrowth
  <2> QED
    BY <2>1, <2>2, <2>3, CommandKeeps
<1>4. ASSUME NEW k \in Key, NEW when \in Value, SetExpire(k, when) PROVE CycleInv'
  <2>1. dictReplace(k, when) /\ Command /\ canResize' = canResize
    BY <1>4 DEF SetExpire, dictReplace
  <2>2. DictInv'
    <3>1. Next
      BY <2>1 DEF Next, Call
    <3> QED
      BY <1>1, <3>1, NextInv
  <2>3. Growing(d', 0)
    BY <1>1, <2>1, <2>2, PutGrowth
  <2> QED
    BY <2>1, <2>2, <2>3, CommandKeeps
<1>5. CASE EmptyDb
  <2>1. dictEmpty /\ Command /\ canResize' = canResize
    BY <1>5 DEF EmptyDb, dictEmpty
  <2>2. DictInv'
    <3>1. Next
      BY <2>1 DEF Next, Call
    <3> QED
      BY <1>1, <3>1, NextInv
  <2>3. Growing(d', 0)
    BY <2>1 DEF dictEmpty, Created, Growing, Rehashing
  <2> QED
    BY <2>1, <2>2, <2>3, CommandKeeps
<1>6. ASSUME NEW k \in Key, Lookup(k) PROVE CycleInv'
  BY <1>6, LookupKeeps
\* The other steps leave the dictionary alone.
<1>7. CASE StartCycle
  <2>1. d' = d /\ canResize' = canResize /\ left' <= dictSize(d) /\ left' \in Nat
    <3>1. dictSize(d) \in Nat /\ Lookups \in Nat
      BY <1>1, SizeIs, ActiveExpireAssumption
    <3> QED
      BY <1>7, <3>1 DEF StartCycle, vars
  <2> QED
    BY <1>1, <2>1 DEF CycleInv, GrowthInv, DictInv, DrawsSucceed
<1>8. CASE Tick \/ SkipCycle \/ UNCHANGED allVars
  <2>1. d' = d /\ canResize' = canResize /\ left' = left
    BY <1>8 DEF Tick, SkipCycle, allVars, vars, cycleVars
  <2> QED
    BY <1>1, <2>1 DEF CycleInv, GrowthInv, DictInv, DrawsSucceed
<1> QED
  BY <1>2, <1>3, <1>4, <1>5, <1>6, <1>7, <1>8 DEF CycleNext

LEMMA CycleInitInv == CycleInit => CycleInv
<1> SUFFICES ASSUME CycleInit PROVE CycleInv
  OBVIOUS
<1>1. GrowthInv /\ left = 0
  BY GrowthInit DEF CycleInit
<1>2. dictSize(d) \in Nat
  BY <1>1, SizeIs DEF GrowthInv, DictInv
<1> QED
  BY <1>1, <1>2 DEF CycleInv, DrawsSucceed

LEMMA CycleInvariant ==
  ASSUME ExpiresTable
  PROVE  CycleSpec => []CycleInv
<1>1. CycleInv /\ [CycleNext]_allVars => CycleInv'
  BY CycleNextInv
<1> QED
  BY <1>1, CycleInitInv, PTL DEF CycleSpec

\* As long as a cycle has lookups left there is an entry to draw.
THEOREM CycleNeverDrawsInVain ==
  ASSUME ExpiresTable
  PROVE  CycleSpec => []DrawsSucceed
<1>1. CycleInv => DrawsSucceed
  BY DEF CycleInv
<1> QED
  BY <1>1, CycleInvariant, PTL

\* The deletions of the cycle, between the commands, leave the move to a
\* larger table enough steps to end before that table is full.
THEOREM CycleLetsGrowthEnd ==
  ASSUME ExpiresTable
  PROVE  CycleSpec => []GrowthKeepsUp
<1>1. CycleInv => GrowthKeepsUp
  BY GrowthInTime DEF CycleInv
<1> QED
  BY <1>1, CycleInvariant, PTL

=============================================================================
