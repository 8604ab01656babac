------------------------------ MODULE ListProofs ------------------------------
(***************************************************************************)
(* The list commands, for any values, sizes, limit and arguments: through  *)
(* every split, merge and partial deletion the quicklist counts what it    *)
(* holds and holds no empty node, no empty list stays in the keyspace, and *)
(* every command does to the sequence of entries what Lists promises.      *)
(***************************************************************************)
EXTENDS ListType, SequenceTheorems, FiniteSetTheorems, WellFoundedInduction, TLAPS

-----------------------------------------------------------------------------
(* Least elements.                                                         *)

\* A set of naturals has a least element: of the intervals that reach an
\* element of it, one is contained in no other.
LEMMA LeastNatural ==
  ASSUME NEW A \in SUBSET Nat, NEW m \in A
  PROVE  \E n \in A : \A i \in A : n <= i
<1> DEFINE U == 0 .. m
           R == StrictSubsetOrdering(U)
           T == {0 .. i : i \in {j \in A : j <= m}}
<1>1. m \in Nat /\ IsFiniteSet(U)
  BY FS_Interval
<1>2. T \subseteq SUBSET U /\ T # {}
  <2>1. \A i \in A : i <= m => 0 .. i \subseteq U
    BY <1>1
  <2>2. 0 .. m \in T
    BY <1>1
  <2> QED
    BY <2>1, <2>2
<1>3. T \subseteq FiniteSubsetsOf(U)
  <2>1. \A X \in SUBSET U : IsFiniteSet(X)
    BY <1>1, FS_Subset
  <2> QED
    BY <1>2, <2>1 DEF FiniteSubsetsOf
<1> HIDE DEF R
<1>4. IsWellFoundedOn(R, FiniteSubsetsOf(U))
  BY FS_StrictSubsetOrderingWellFounded DEF R
<1> HIDE DEF T
<1>5. PICK X \in T : \A Y \in T : ~(<<Y, X>> \in R)
  BY <1>2, <1>3, <1>4, WFMin
<1>6. PICK n \in A : n <= m /\ X = 0 .. n
  BY <1>5 DEF T
<1>7. ASSUME NEW i \in A, i < n PROVE FALSE
  <2>1. i \in Nat /\ n \in Nat /\ i <= m
    BY <1>1, <1>6, <1>7
  <2>2. 0 .. i \in T
    BY <1>7, <2>1 DEF T
  <2>3. 0 .. i \subseteq X /\ 0 .. i # X
    <3>1. n \in X /\ ~(n \in 0 .. i)
      BY <1>6, <1>7, <2>1
    <3> QED
      BY <1>6, <1>7, <2>1, <3>1
  <2>4. <<0 .. i, X>> \in R
    BY <1>2, <1>5, <2>2, <2>3 DEF R, StrictSubsetOrdering
  <2> QED
    BY <1>5, <2>2, <2>4
<1> QED
  BY <1>7

-----------------------------------------------------------------------------
(* Flattened sequences: what FlattenSeq returns is the last of its partial *)
(* results, which can be listed for any sequence of sequences.             *)

\* p lists the partial results of flattening the first m sequences of s.
Partial(p, s, m) ==
  /\ p[0] = <<>>
  /\ \A i \in 1 .. m : p[i] = p[i - 1] \o s[i]

LEMMA PartialExists ==
  ASSUME NEW V, NEW s \in Seq(Seq(V)), NEW m \in 0 .. Len(s)
  PROVE  \E p \in [0 .. m -> Seq(V)] : Partial(p, s, m)
<1> DEFINE Has(k) == \E p \in [0 .. k -> Seq(V)] : Partial(p, s, k)
           Bad == {k \in Nat : k <= Len(s) /\ ~Has(k)}
<1>1. Has(0)
  <2>1. <<>> \in Seq(V)
    BY EmptySeq
  <2> DEFINE e == [i \in 0 .. 0 |-> <<>>]
  <2>2. e \in [0 .. 0 -> Seq(V)] /\ e[0] = <<>>
    BY <2>1
  <2>3. 1 .. 0 = {}
    OBVIOUS
  <2> QED
    BY <2>2, <2>3 DEF Partial
<1>2. ASSUME NEW k \in Nat, k + 1 <= Len(s), Has(k) PROVE Has(k + 1)
  <2>1. PICK p \in [0 .. k -> Seq(V)] : Partial(p, s, k)
    BY <1>2
  <2> DEFINE q == [i \in 0 .. k + 1 |-> IF i = k + 1 THEN p[k] \o s[k + 1] ELSE p[i]]
  <2>2. p[k] \in Seq(V) /\ s[k + 1] \in Seq(V)
    BY <1>2
  <2>3. p[k] \o s[k + 1] \in Seq(V)
    BY <2>2
  <2>4. \A i \in 0 .. k + 1 : q[i] \in Seq(V)
    BY <2>3
  <2>5. q \in [0 .. k + 1 -> Seq(V)]
    BY <2>4
  <2>6. q[0] = <<>>
    BY <2>1 DEF Partial
  <2>7. q[k + 1] = p[k] \o s[k + 1] /\ \A i \in 0 .. k : q[i] = p[i]
    <3>1. k + 1 \in 0 .. k + 1 /\ \A i \in 0 .. k : i \in 0 .. k + 1 /\ i # k + 1
      OBVIOUS
    <3> QED
      BY <3>1
  <2> HIDE DEF q
  <2>8. ASSUME NEW i \in 1 .. k + 1 PROVE q[i] = q[i - 1] \o s[i]
    <3>1. CASE i = k + 1
      <4>1. i - 1 = k /\ k \in 0 .. k
        BY <3>1
      <4> QED
        BY <2>7, <3>1, <4>1
    <3>2. CASE i # k + 1
      <4>1. i \in 1 .. k /\ i \in 0 .. k /\ i - 1 \in 0 .. k
        BY <3>2
      <4>2. p[i] = p[i - 1] \o s[i]
        BY <2>1, <4>1 DEF Partial
      <4> QED
        BY <2>7, <4>1, <4>2
    <3> QED
      BY <3>1, <3>2
  <2> QED
    BY <2>5, <2>6, <2>8 DEF Partial
<1>3. ASSUME NEW k \in Bad PROVE FALSE
  <2> HIDE DEF Has
  <2>1. PICK n \in Bad : \A i \in Bad : n <= i
    BY LeastNatural
  <2>2. n # 0
    BY <1>1
  <2>3. n - 1 \in Nat /\ (n - 1) + 1 = n /\ ~(n <= n - 1)
    BY <2>2
  <2>4. Has(n - 1)
    BY <2>1, <2>3
  <2> QED
    BY <1>2, <2>3, <2>4
<1>4. m \in Nat /\ m <= Len(s)
  OBVIOUS
<1> QED
  BY <1>3, <1>4

\* Whatever lists the partial results ends in the flattened sequence.
LEMMA FlattenIs ==
  ASSUME NEW V, NEW s \in Seq(Seq(V)), NEW p \in [0 .. Len(s) -> Seq(V)],
         Partial(p, s, Len(s))
  PROVE  FlattenSeq(s) = p[Len(s)]
<1> DEFINE n == Len(s)
<1>1. CASE n = 0
  <2>1. s = <<>>
    BY <1>1
  <2> QED
    BY <1>1, <2>1 DEF FlattenSeq, Partial
<1>2. CASE n # 0
  <2>1. n \in Nat
    OBVIOUS
  <2> DEFINE Equation(f) ==
        f = [i \in 1 .. n |-> IF i = 1 THEN s[i] ELSE f[i - 1] \o s[i]]
      flatten == CHOOSE f : Equation(f)
      w == [i \in 1 .. n |-> p[i]]
  <2>2. FlattenSeq(s) = flatten[n]
    BY <1>2 DEF FlattenSeq
  <2>3. Equation(w)
    <3>1. ASSUME NEW i \in 1 .. n
          PROVE  p[i] = IF i = 1 THEN s[i] ELSE w[i - 1] \o s[i]
      <4>1. p[i] = p[i - 1] \o s[i]
        BY DEF Partial
      <4>2. CASE i = 1
        <5>1. p[i - 1] = <<>> /\ s[i] \in Seq(V)
          BY <4>2 DEF Partial
        <5> QED
          BY <4>1, <4>2, <5>1, ConcatEmptySeq
      <4>3. CASE i # 1
        <5>1. i - 1 \in 1 .. n
          BY <4>3
        <5> QED
          BY <4>1, <4>3, <5>1
      <4> QED
        BY <4>2, <4>3
    <3> QED
      BY <3>1
  <2> HIDE DEF w
  <2>4. Equation(flatten)
    BY <2>3
  <2> DEFINE Bad == {k \in Nat : k \in 1 .. n /\ flatten[k] # p[k]}
  <2> HIDE DEF flatten
  <2>5. ASSUME NEW k \in Bad PROVE FALSE
    <3>1. PICK j \in Bad : \A i \in Bad : j <= i
      BY LeastNatural
    <3>2. flatten[j] = IF j = 1 THEN s[j] ELSE flatten[j - 1] \o s[j]
      BY <2>4
    <3>3. p[j] = p[j - 1] \o s[j]
      BY DEF Partial
    <3>4. CASE j = 1
      <4>1. p[j - 1] = <<>> /\ s[j] \in Seq(V)
        BY <3>4 DEF Partial
      <4> QED
        BY <3>2, <3>3, <3>4, <4>1, ConcatEmptySeq
    <3>5. CASE j # 1
      <4>1. j - 1 \in Nat /\ j - 1 \in 1 .. n /\ ~(j <= j - 1)
        BY <3>5
      <4>2. flatten[j - 1] = p[j - 1]
        BY <3>1, <4>1
      <4> QED
        BY <3>2, <3>3, <3>5, <4>2
    <3> QED
      BY <3>4, <3>5
  <2>6. n \in Nat /\ n \in 1 .. n
    BY <1>2
  <2> QED
    BY <2>2, <2>5, <2>6
<1> QED
  BY <1>1, <1>2

LEMMA FlattenType ==
  ASSUME NEW V, NEW s \in Seq(Seq(V))
  PROVE  FlattenSeq(s) \in Seq(V)
<1>1. Len(s) \in 0 .. Len(s)
  OBVIOUS
<1>2. PICK p \in [0 .. Len(s) -> Seq(V)] : Partial(p, s, Len(s))
  BY <1>1, PartialExists
<1> QED
  BY <1>1, <1>2, FlattenIs

LEMMA FlattenEmpty ==
  FlattenSeq(<<>>) = <<>>
BY DEF FlattenSeq

LEMMA FlattenOne ==
  ASSUME NEW V, NEW x \in Seq(V)
  PROVE  FlattenSeq(<<x>>) = x
<1> DEFINE p == [i \in 0 .. 1 |-> IF i = 0 THEN <<>> ELSE x]
           s == <<x>>
<1>1. s \in Seq(Seq(V)) /\ Len(s) = 1 /\ s[1] = x
  OBVIOUS
<1>2. p \in [0 .. 1 -> Seq(V)] /\ p[0] = <<>> /\ p[1] = x
  BY EmptySeq
<1>3. <<>> \o x = x
  BY ConcatEmptySeq
<1> HIDE DEF p, s
<1>4. \A i \in 1 .. 1 : i = 1 /\ i - 1 = 0
  OBVIOUS
<1>5. Partial(p, s, 1)
  BY <1>1, <1>2, <1>3, <1>4 DEF Partial
<1>6. FlattenSeq(s) = p[1]
  BY <1>1, <1>2, <1>5, FlattenIs
<1> QED
  BY <1>2, <1>6 DEF s

LEMMA FlattenConcat ==
  ASSUME NEW V, NEW s \in Seq(Seq(V)), NEW t \in Seq(Seq(V))
  PROVE  FlattenSeq(s \o t) = FlattenSeq(s) \o FlattenSeq(t)
<1> DEFINE m == Len(s)
           n == Len(t)
           u == s \o t
<1>1. /\ m \in Nat /\ n \in Nat /\ m \in 0 .. m /\ n \in 0 .. n
      /\ \A i \in 1 .. n : t[i] \in Seq(V)
  OBVIOUS
<1>2. /\ u \in Seq(Seq(V)) /\ Len(u) = m + n
      /\ \A i \in 1 .. m + n : u[i] = IF i <= m THEN s[i] ELSE t[i - m]
  BY ConcatProperties
<1>3. PICK p \in [0 .. m -> Seq(V)] : Partial(p, s, m)
  BY <1>1, PartialExists
<1>4. PICK q \in [0 .. n -> Seq(V)] : Partial(q, t, n)
  BY <1>1, PartialExists
<1>5. FlattenSeq(s) = p[m] /\ FlattenSeq(t) = q[n]
  BY <1>3, <1>4, FlattenIs
<1> HIDE DEF u, m, n
<1> DEFINE r == [i \in 0 .. m + n |-> IF i <= m THEN p[i] ELSE p[m] \o q[i - m]]
<1>6. \A i \in 0 .. m + n : r[i] = IF i <= m THEN p[i] ELSE p[m] \o q[i - m]
  OBVIOUS
<1>7. ASSUME NEW i \in 0 .. m + n PROVE r[i] \in Seq(V)
  <2>1. CASE i <= m
    <3>1. i \in 0 .. m
      BY <1>1, <2>1
    <3> QED
      BY <1>6, <2>1, <3>1
  <2>2. CASE ~(i <= m)
    <3>1. i - m \in 0 .. n
      BY <1>1, <2>2
    <3> HIDE DEF r
    <3>3. p[m] \in Seq(V) /\ q[i - m] \in Seq(V)
      BY <1>1, <3>1
    <3>2. p[m] \o q[i - m] \in Seq(V)
      BY <3>3
    <3> QED
      BY <1>6, <2>2, <3>2
  <2> QED
    BY <1>1, <2>1, <2>2
<1>8. r \in [0 .. m + n -> Seq(V)]
  BY <1>7
<1> HIDE DEF r
<1>9. r[0] = <<>>
  BY <1>1, <1>3, <1>6 DEF Partial
<1>10. ASSUME NEW i \in 1 .. m + n PROVE r[i] = r[i - 1] \o u[i]
  <2>1. i \in 0 .. m + n /\ i - 1 \in 0 .. m + n
    BY <1>1
  <2>2. CASE i <= m
    <3>1. p[i] = p[i - 1] \o s[i]
      <4>1. i \in 1 .. m
        BY <1>1, <2>2
      <4> QED
        BY <1>3, <4>1 DEF Partial
    <3>2. r[i] = p[i] /\ r[i - 1] = p[i - 1] /\ u[i] = s[i]
      BY <1>1, <1>2, <1>6, <2>1, <2>2, SMTT(60)
    <3> QED
      BY <3>1, <3>2
  <2>3. CASE ~(i <= m)
    <3> DEFINE j == i - m
    <3>1. j \in 1 .. n /\ j - 1 = (i - 1) - m /\ ~(i <= m) /\ j - 1 \in 0 .. n
      BY <1>1, <2>3
    <3>2. q[j] = q[j - 1] \o t[j]
      BY <1>4, <3>1 DEF Partial
    <3>3. r[i] = p[m] \o q[j] /\ u[i] = t[j]
      BY <1>2, <1>6, <2>1, <3>1
    <3>4. p[m] \in Seq(V) /\ q[j - 1] \in Seq(V) /\ t[j] \in Seq(V)
      BY <1>1, <3>1
    <3>5. r[i] = (p[m] \o q[j - 1]) \o t[j]
      <4> DEFINE a == p[m]
                 b == q[j - 1]
                 c == t[j]
      <4>1. a \in Seq(V) /\ b \in Seq(V) /\ c \in Seq(V)
        BY <3>4
      <4>2. r[i] = a \o (b \o c)
        BY <3>2, <3>3
      <4> HIDE DEF a, b, c
      <4>3. (a \o b) \o c = a \o (b \o c)
        BY <4>1, ConcatAssociative
      <4>4. r[i] = (a \o b) \o c
        BY <4>2, <4>3
      <4> QED
        BY <4>4 DEF a, b, c
    <3>6. r[i - 1] = p[m] \o q[j - 1]
      <4>1. CASE i - 1 = m
        <5>1. j - 1 = 0 /\ q[j - 1] = <<>>
          BY <1>1, <1>4, <3>1, <4>1 DEF Partial
        <5>2. r[i - 1] = p[m]
          BY <1>1, <1>6, <2>1, <4>1
        <5>3. p[m] \o <<>> = p[m]
          BY <3>4, ConcatEmptySeq
        <5> QED
          BY <5>1, <5>2, <5>3
      <4>2. CASE i - 1 # m
        <5>1. ~(i - 1 <= m)
          BY <1>1, <2>3, <4>2
        <5> QED
          BY <1>6, <2>1, <3>1, <5>1
      <4> QED
        BY <4>1, <4>2
    <3> QED
      BY <3>3, <3>5, <3>6
  <2> QED
    BY <2>2, <2>3
<1>11. Partial(r, u, m + n)
  BY <1>9, <1>10 DEF Partial
<1>12. FlattenSeq(u) = r[m + n]
  BY <1>2, <1>8, <1>11, FlattenIs
<1>13. r[m + n] = p[m] \o q[n]
  <2>1. CASE n = 0
    <3>1. q[n] = <<>> /\ p[m] \in Seq(V)
      BY <1>1, <1>4, <2>1 DEF Partial
    <3>2. r[m + n] = p[m]
      BY <1>1, <1>6, <2>1
    <3> QED
      BY <3>1, <3>2, ConcatEmptySeq
  <2>2. CASE n # 0
    <3>1. m + n \in 0 .. m + n /\ ~(m + n <= m) /\ (m + n) - m = n
      BY <1>1, <2>2
    <3> QED
      BY <1>6, <3>1
  <2> QED
    BY <2>1, <2>2
<1> QED
  BY <1>5, <1>12, <1>13 DEF u

-----------------------------------------------------------------------------
(* Nodes.  An exact node caches what its ziplist holds; a full one is      *)
(* exact and holds something.                                              *)

Ziplists == Seq(Value) \ {<<>>}
Full == {Node(zl) : zl \in Ziplists}

Zls(nodes)  == [i \in DOMAIN nodes |-> nodes[i].zl]
Flat(nodes) == FlattenSeq(Zls(nodes))

\* A quicklist whose nodes are full and whose count is off by d, as it is
\* inside an operation; between operations it is exact.
Off(d) == {[nodes |-> ns, count |-> Len(Flat(ns)) + d] : ns \in Seq(Full)}
Exact  == Off(0)

LEMMA FullNode ==
  ASSUME NEW n \in Full
  PROVE  /\ n.zl \in Ziplists /\ n.zl \in Seq(Value)
         /\ n = Node(n.zl)
         /\ n.count = Len(n.zl) /\ n.count \in Nat \ {0}
         /\ n.sz = ziplistBlobLen(n.zl)
<1>1. PICK zl \in Ziplists : n = Node(zl)
  BY DEF Full
<1>2. n.zl = zl /\ n.count = Len(zl) /\ n.sz = ziplistBlobLen(zl)
  BY <1>1 DEF Node
<1>3. zl \in Seq(Value) /\ zl # <<>>
  BY DEF Ziplists
<1>4. Len(zl) \in Nat \ {0}
  BY <1>3, EmptySeq
<1> QED
  BY <1>1, <1>2, <1>3, <1>4

LEMMA NodeFull ==
  ASSUME NEW zl \in Seq(Value), zl # <<>>
  PROVE  Node(zl) \in Full
BY DEF Full, Ziplists

\* An update of a full node whose count follows its ziplist.
LEMMA UpdateIsNode ==
  ASSUME NEW n \in Full, NEW zl, NEW k, n.count + k = Len(zl)
  PROVE  Update(n, zl, k) = Node(zl)
BY DEF Update, Node

LEMMA ZlsType ==
  ASSUME NEW ns \in Seq(Full)
  PROVE  /\ Zls(ns) \in Seq(Seq(Value)) /\ Len(Zls(ns)) = Len(ns)
         /\ \A i \in 1 .. Len(ns) : Zls(ns)[i] = ns[i].zl
<1>1. DOMAIN ns = 1 .. Len(ns) /\ Len(ns) \in Nat
  OBVIOUS
<1>2. \A i \in 1 .. Len(ns) : ns[i].zl \in Seq(Value)
  BY FullNode
<1> DEFINE z == [i \in 1 .. Len(ns) |-> ns[i].zl]
<1>3. Zls(ns) = z
  BY <1>1 DEF Zls
<1>4. z \in [1 .. Len(ns) -> Seq(Value)]
  BY <1>2
<1>5. z \in Seq(Seq(Value)) /\ Len(z) = Len(ns)
  BY <1>1, <1>4
<1> QED
  BY <1>3, <1>5

LEMMA FlatType ==
  ASSUME NEW ns \in Seq(Full)
  PROVE  Flat(ns) \in Seq(Value) /\ Len(Flat(ns)) \in Nat
<1>1. Flat(ns) \in Seq(Value)
  BY ZlsType, FlattenType DEF Flat
<1> HIDE DEF Flat
<1> QED
  BY <1>1

LEMMA FlatEmpty ==
  Flat(<<>>) = <<>>
<1>1. Zls(<<>>) = <<>>
  BY DEF Zls
<1> QED
  BY <1>1, FlattenEmpty DEF Flat

LEMMA FlatOne ==
  ASSUME NEW n \in Full
  PROVE  Flat(<<n>>) = n.zl
<1>1. n.zl \in Seq(Value)
  BY FullNode
<1>2. Zls(<<n>>) = <<n.zl>>
  BY DEF Zls
<1> QED
  BY <1>1, <1>2, FlattenOne DEF Flat

LEMMA FlatConcat ==
  ASSUME NEW s \in Seq(Full), NEW t \in Seq(Full)
  PROVE  /\ s \o t \in Seq(Full)
         /\ Flat(s \o t) = Flat(s) \o Flat(t)
         /\ Len(Flat(s \o t)) = Len(Flat(s)) + Len(Flat(t))
<1> DEFINE u == s \o t
           zs == Zls(s)
           zt == Zls(t)
           zu == Zls(u)
<1>1. /\ u \in Seq(Full) /\ Len(u) = Len(s) + Len(t)
      /\ \A i \in 1 .. Len(s) + Len(t) :
           u[i] = IF i <= Len(s) THEN s[i] ELSE t[i - Len(s)]
  BY ConcatProperties
<1> HIDE DEF u
<1>2. /\ zs \in Seq(Seq(Value)) /\ Len(zs) = Len(s)
      /\ \A i \in 1 .. Len(s) : zs[i] = s[i].zl
  BY ZlsType
<1>3. /\ zt \in Seq(Seq(Value)) /\ Len(zt) = Len(t)
      /\ \A i \in 1 .. Len(t) : zt[i] = t[i].zl
  BY ZlsType
<1>4. /\ zu \in Seq(Seq(Value)) /\ Len(zu) = Len(u)
      /\ \A i \in 1 .. Len(u) : zu[i] = u[i].zl
  BY <1>1, ZlsType
<1> DEFINE zc == zs \o zt
<1> HIDE DEF zs, zt, zu
<1>5. /\ zc \in Seq(Seq(Value)) /\ Len(zc) = Len(zs) + Len(zt)
      /\ \A i \in 1 .. Len(zs) + Len(zt) :
           zc[i] = IF i <= Len(zs) THEN zs[i] ELSE zt[i - Len(zs)]
  <2>1. zs \in Seq(Seq(Value)) /\ zt \in Seq(Seq(Value))
    BY <1>2, <1>3
  <2> QED
    BY <2>1, ConcatProperties
<1> HIDE DEF zc
<1>6. ASSUME NEW i \in 1 .. Len(zu) PROVE zu[i] = zc[i]
  <2>1. Len(s) \in Nat /\ Len(t) \in Nat
    OBVIOUS
  <2>2. i \in 1 .. Len(s) + Len(t)
    BY <1>1, <1>4
  <2>3. CASE i <= Len(s)
    <3>1. i \in 1 .. Len(s)
      BY <2>1, <2>2, <2>3
    <3> QED
      BY <1>1, <1>2, <1>3, <1>4, <1>5, <2>2, <2>3, <3>1
  <2>4. CASE ~(i <= Len(s))
    <3>1. i - Len(s) \in 1 .. Len(t)
      BY <2>1, <2>2, <2>4
    <3> QED
      BY <1>1, <1>2, <1>3, <1>4, <1>5, <2>2, <2>4, <3>1
  <2> QED
    BY <2>3, <2>4
<1>7. zu = zc
  <2>1. Len(zu) = Len(zc)
    BY <1>1, <1>2, <1>3, <1>4, <1>5
  <2> QED
    BY <1>4, <1>5, <1>6, <2>1, SeqEqual
<1>8. Flat(u) = Flat(s) \o Flat(t)
  BY <1>2, <1>3, <1>7, FlattenConcat DEF Flat, zs, zt, zu, zc
<1>9. Flat(s) \in Seq(Value) /\ Flat(t) \in Seq(Value)
  BY FlatType
<1>10. Len(Flat(s) \o Flat(t)) = Len(Flat(s)) + Len(Flat(t))
  BY <1>9, ConcatProperties
<1> QED
  BY <1>1, <1>8, <1>10 DEF u

-----------------------------------------------------------------------------
(* A sequence around one of its positions.                                 *)

Pre(s, i)    == SubSeq(s, 1, i - 1)
Suf(s, i)    == SubSeq(s, i + 1, Len(s))
Rest(s, i)   == SubSeq(s, i, Len(s))
Put(a, x, b) == (a \o <<x>>) \o b
Cat(a, b)    == a \o b

LEMMA Pieces ==
  ASSUME NEW S, NEW s \in Seq(S), NEW i \in 1 .. Len(s) + 1
  PROVE  /\ Pre(s, i) \in Seq(S) /\ Len(Pre(s, i)) = i - 1
         /\ \A j \in 1 .. i - 1 : Pre(s, i)[j] = s[j]
         /\ Rest(s, i) \in Seq(S)
         /\ Len(Rest(s, i)) = Len(s) - i + 1
         /\ \A j \in 1 .. Len(s) - i + 1 : Rest(s, i)[j] = s[i + j - 1]
         /\ s = Pre(s, i) \o Rest(s, i)
<1> DEFINE n == Len(s)
<1>1. n \in Nat /\ i \in Int /\ 1 \in Int /\ i - 1 \in Int /\ n \in Int
  OBVIOUS
<1>2. (\A j \in 1 .. i - 1 : s[j] \in S) /\ (\A j \in i .. n : s[j] \in S)
  OBVIOUS
<1> DEFINE a == SubSeq(s, 1, i - 1)
           b == SubSeq(s, i, n)
<1>3. /\ a \in Seq(S) /\ Len(a) = IF 1 <= i - 1 THEN (i - 1) - 1 + 1 ELSE 0
      /\ \A j \in 1 .. (i - 1) - 1 + 1 : a[j] = s[1 + j - 1]
  BY <1>1, <1>2, SubSeqProperties
<1>4. /\ b \in Seq(S) /\ Len(b) = IF i <= n THEN n - i + 1 ELSE 0
      /\ \A j \in 1 .. n - i + 1 : b[j] = s[i + j - 1]
  BY <1>1, <1>2, SubSeqProperties
<1>5. s = a \o b
  <2>1. /\ 1 \in 1 .. Len(s) + 1 /\ i - 1 \in 1 - 1 .. Len(s)
        /\ Len(s) \in i - 1 .. Len(s) /\ (i - 1) + 1 = i
    BY <1>1
  <2>2. SubSeq(s, 1, i - 1) \o SubSeq(s, (i - 1) + 1, Len(s)) = SubSeq(s, 1, Len(s))
    BY <2>1, ConcatAdjacentSubSeq
  <2> QED
    BY <2>1, <2>2, SubSeqFull
<1>6. Len(a) = i - 1 /\ \A j \in 1 .. i - 1 : a[j] = s[j]
  <2>1. \A j \in 1 .. i - 1 : j \in 1 .. (i - 1) - 1 + 1 /\ 1 + j - 1 = j
    BY <1>1
  <2> HIDE DEF a
  <2>2. Len(a) = i - 1
    BY <1>1, <1>3
  <2> QED
    BY <1>3, <2>1, <2>2
<1>7. Len(b) = n - i + 1
  <2> HIDE DEF b
  <2> QED
    BY <1>1, <1>4, SMTT(60)
<1> QED
  BY <1>3, <1>4, <1>5, <1>6, <1>7 DEF Pre, Rest

\* The two pieces around position i, with what becomes of it between them.
LEMMA Around ==
  ASSUME NEW S, NEW s \in Seq(S), NEW i \in 1 .. Len(s), NEW x \in S
  PROVE  /\ Pre(s, i) \in Seq(S) /\ Suf(s, i) \in Seq(S)
         /\ s = Put(Pre(s, i), s[i], Suf(s, i))
         /\ [s EXCEPT ![i] = x] = Put(Pre(s, i), x, Suf(s, i))
         /\ [s EXCEPT ![i] = x] \in Seq(S) /\ Len([s EXCEPT ![i] = x]) = Len(s)
         /\ RemoveAt(s, i) = Cat(Pre(s, i), Suf(s, i)) /\ RemoveAt(s, i) \in Seq(S)
         /\ Len(RemoveAt(s, i)) = Len(s) - 1
<1> DEFINE a == Pre(s, i)
           b == Suf(s, i)
<1>1. i \in 1 .. Len(s) + 1 /\ i + 1 \in 1 .. Len(s) + 1 /\ (i + 1) - 1 = i
  OBVIOUS
<1>2. /\ a \in Seq(S) /\ Len(a) = i - 1 /\ \A j \in 1 .. i - 1 : a[j] = s[j]
  BY <1>1, Pieces DEF Pre, Suf, Rest
<1>3. /\ b \in Seq(S) /\ Len(b) = Len(s) - (i + 1) + 1
      /\ \A j \in 1 .. Len(s) - (i + 1) + 1 : b[j] = s[(i + 1) + j - 1]
  BY <1>1, Pieces DEF Pre, Suf, Rest
<1>9. RemoveAt(s, i) = a \o b
  BY DEF RemoveAt, Pre, Suf
<1> HIDE DEF a, b
<1> DEFINE With(y) == (a \o <<y>>) \o b
<1>4. ASSUME NEW y \in S
      PROVE  /\ With(y) \in Seq(S) /\ Len(With(y)) = Len(s)
             /\ \A j \in 1 .. Len(s) : With(y)[j] = IF j = i THEN y ELSE s[j]
  <2> DEFINE c == <<y>>
             d == a \o c
             e == d \o b
  <2>1. c \in Seq(S) /\ Len(c) = 1 /\ c[1] = y
    OBVIOUS
  <2> HIDE DEF c
  <2>2. /\ d \in Seq(S) /\ Len(d) = Len(a) + Len(c)
        /\ \A j \in 1 .. Len(a) + Len(c) :
             d[j] = IF j <= Len(a) THEN a[j] ELSE c[j - Len(a)]
    BY <1>2, <2>1, ConcatProperties
  <2> HIDE DEF d
  <2>3. /\ e \in Seq(S) /\ Len(e) = Len(d) + Len(b)
        /\ \A j \in 1 .. Len(d) + Len(b) :
             e[j] = IF j <= Len(d) THEN d[j] ELSE b[j - Len(d)]
    <3>1. d \in Seq(S) /\ b \in Seq(S)
      BY <1>3, <2>2
    <3> QED
      BY <3>1, ConcatProperties
  <2> HIDE DEF e
  <2>4. Len(d) = i /\ Len(s) \in Nat /\ i \in Nat /\ Len(b) = Len(s) - i
    BY <1>2, <1>3, <2>1, <2>2
  <2>5. ASSUME NEW j \in 1 .. Len(s) PROVE e[j] = IF j = i THEN y ELSE s[j]
    <3>1. CASE j < i
      <4>1. j \in 1 .. i - 1 /\ j \in 1 .. i /\ j \in 1 .. Len(d) + Len(b)
        BY <2>4, <3>1
      <4>2. j <= Len(d) /\ j <= Len(a) /\ j # i /\ j \in 1 .. Len(a) + Len(c)
        BY <1>2, <2>1, <2>4, <3>1
      <4>3. e[j] = d[j]
        BY <2>3, <4>1, <4>2
      <4>4. d[j] = a[j]
        BY <2>2, <4>2
      <4> QED
        BY <1>2, <4>1, <4>2, <4>3, <4>4
    <3>2. CASE j = i
      <4>1. j \in 1 .. i /\ j \in 1 .. Len(d) + Len(b) /\ j - Len(a) = 1
        BY <1>2, <2>4, <3>2
      <4> QED
        BY <1>2, <2>1, <2>2, <2>3, <2>4, <3>2, <4>1
    <3>3. CASE j > i
      <4>1. /\ j - i \in 1 .. Len(s) - (i + 1) + 1 /\ j \in 1 .. Len(d) + Len(b)
            /\ (i + 1) + (j - i) - 1 = j
        BY <2>4, <3>3
      <4>2. b[j - i] = s[j]
        BY <1>3, <4>1
      <4>3. ~(j <= Len(d)) /\ j # i /\ j - Len(d) = j - i
        BY <2>4, <3>3
      <4> QED
        BY <2>3, <4>1, <4>2, <4>3
    <3> QED
      BY <2>4, <3>1, <3>2, <3>3
  <2>6. Len(e) = Len(s)
    BY <2>3, <2>4
  <2> QED
    BY <2>3, <2>5, <2>6 DEF c, d, e
<1>5. s[i] \in S
  OBVIOUS
<1> DEFINE t == [s EXCEPT ![i] = x]
<1>6. /\ t \in Seq(S) /\ Len(t) = Len(s)
      /\ \A j \in 1 .. Len(s) : t[j] = IF j = i THEN x ELSE s[j]
  BY ExceptSeq
<1> HIDE DEF t, With
<1>7. s = With(s[i])
  BY <1>4, <1>5, SeqEqual
<1>8. t = With(x)
  <2> DEFINE w == With(x)
  <2>1. /\ w \in Seq(S) /\ Len(w) = Len(s)
        /\ \A j \in 1 .. Len(s) : w[j] = IF j = i THEN x ELSE s[j]
    BY <1>4
  <2> HIDE DEF w
  <2>2. Len(t) = Len(w) /\ \A j \in 1 .. Len(t) : t[j] = w[j]
    BY <1>6, <2>1
  <2>3. t = w
    BY <1>6, <2>1, <2>2, SeqEqual
  <2> QED
    BY <2>3 DEF w
<1>10. a \o b \in Seq(S) /\ Len(a \o b) = Len(a) + Len(b)
  BY <1>2, <1>3, ConcatProperties
<1>11. Len(s) \in Nat /\ i \in Nat
  OBVIOUS
<1>12. Len(b) = Len(s) - i
  BY <1>3, <1>11
<1>13. Len(RemoveAt(s, i)) = Len(s) - 1
  <2> DEFINE la == Len(a)
             lb == Len(b)
             ls == Len(s)
  <2>1. Len(RemoveAt(s, i)) = la + lb
    BY <1>9, <1>10
  <2>2. la = i - 1 /\ lb = ls - i /\ ls \in Nat /\ i \in Nat
    BY <1>2, <1>11, <1>12
  <2> HIDE DEF la, lb, ls
  <2>3. la + lb = ls - 1
    BY <2>2
  <2> QED
    BY <2>1, <2>3 DEF ls
<1> QED
  BY <1>2, <1>3, <1>6, <1>7, <1>8, <1>9, <1>10, <1>13 DEF t, With, Put, Cat, a, b

LEMMA Inserted ==
  ASSUME NEW S, NEW s \in Seq(S), NEW i \in 1 .. Len(s) + 1, NEW x \in S
  PROVE  /\ InsertAt(s, i, x) \in Seq(S) /\ Len(InsertAt(s, i, x)) = Len(s) + 1
         /\ InsertAt(s, i, x) = Put(Pre(s, i), x, Rest(s, i))
<1> DEFINE a == Pre(s, i)
           b == Rest(s, i)
           c == <<x>>
<1>1. /\ a \in Seq(S) /\ b \in Seq(S) /\ Len(a) = i - 1
      /\ Len(b) = Len(s) - i + 1
  BY Pieces
<1>2. c \in Seq(S) /\ Len(c) = 1
  OBVIOUS
<1>3. InsertAt(s, i, x) = (a \o c) \o b
  BY DEF InsertAt, Pre, Rest
<1> HIDE DEF a, b, c
<1>4. a \o c \in Seq(S) /\ Len(a \o c) = Len(a) + Len(c)
  BY <1>1, <1>2, ConcatProperties
<1> DEFINE d == a \o c
<1> HIDE DEF d
<1>5. d \o b \in Seq(S) /\ Len(d \o b) = Len(d) + Len(b)
  BY <1>1, <1>4, ConcatProperties DEF d
<1>6. Len(s) \in Nat /\ i \in Nat
  OBVIOUS
<1>7. Len(d \o b) = Len(s) + 1
  BY <1>1, <1>2, <1>4, <1>5, <1>6 DEF d
<1> QED
  BY <1>3, <1>5, <1>7 DEF Put, a, b, c, d

-----------------------------------------------------------------------------
(* What the entries of a chain become when one node changes.               *)

Before(ns, i) == Flat(Pre(ns, i))
From(ns, i)   == Flat(Rest(ns, i))
After(ns, i)  == Flat(Suf(ns, i))

LEMMA FlatThree ==
  ASSUME NEW a \in Seq(Full), NEW n \in Full, NEW b \in Seq(Full)
  PROVE  /\ Put(a, n, b) \in Seq(Full)
         /\ Flat(Put(a, n, b)) = (Flat(a) \o n.zl) \o Flat(b)
         /\ Len(Flat(Put(a, n, b))) = Len(Flat(a)) + n.count + Len(Flat(b))
<1> DEFINE c == <<n>>
           d == a \o c
<1>1. c \in Seq(Full) /\ Flat(c) = n.zl
  BY FlatOne
<1> HIDE DEF c
<1>2. d \in Seq(Full) /\ Flat(d) = Flat(a) \o Flat(c)
      /\ Len(Flat(d)) = Len(Flat(a)) + Len(Flat(c))
  BY <1>1, FlatConcat
<1> HIDE DEF d
<1>3. d \o b \in Seq(Full) /\ Flat(d \o b) = Flat(d) \o Flat(b)
      /\ Len(Flat(d \o b)) = Len(Flat(d)) + Len(Flat(b))
  BY <1>2, FlatConcat
<1>4. Len(n.zl) = n.count
  BY FullNode
<1> QED
  BY <1>1, <1>2, <1>3, <1>4 DEF c, d, Put

LEMMA ChainAt ==
  ASSUME NEW ns \in Seq(Full), NEW i \in 1 .. Len(ns)
  PROVE  /\ ns[i] \in Full
         /\ Pre(ns, i) \in Seq(Full)
         /\ Suf(ns, i) \in Seq(Full)
         /\ Before(ns, i) \in Seq(Value) /\ After(ns, i) \in Seq(Value)
         /\ Len(Before(ns, i)) \in Nat /\ Len(After(ns, i)) \in Nat
         /\ Flat(ns) = (Before(ns, i) \o ns[i].zl) \o After(ns, i)
         /\ Len(Flat(ns)) = Len(Before(ns, i)) + ns[i].count + Len(After(ns, i))
<1> DEFINE a == Pre(ns, i)
           b == Suf(ns, i)
<1>1. ns[i] \in Full
  OBVIOUS
<1>2. a \in Seq(Full) /\ b \in Seq(Full) /\ ns = Put(a, ns[i], b)
  BY <1>1, Around
<1> HIDE DEF a, b
<1>3. /\ Flat(Put(a, ns[i], b)) = (Flat(a) \o ns[i].zl) \o Flat(b)
      /\ Len(Flat(Put(a, ns[i], b))) = Len(Flat(a)) + ns[i].count + Len(Flat(b))
  BY <1>1, <1>2, FlatThree
<1>4. /\ Flat(a) \in Seq(Value) /\ Flat(b) \in Seq(Value)
      /\ Len(Flat(a)) \in Nat /\ Len(Flat(b)) \in Nat
  BY <1>2, FlatType
<1>5. Before(ns, i) = Flat(a) /\ After(ns, i) = Flat(b)
  BY DEF Before, After, a, b
<1>6. /\ Flat(ns) = (Flat(a) \o ns[i].zl) \o Flat(b)
      /\ Len(Flat(ns)) = Len(Flat(a)) + ns[i].count + Len(Flat(b))
  BY <1>2, <1>3
<1> QED
  BY <1>1, <1>2, <1>4, <1>5, <1>6 DEF a, b

LEMMA NodeReplaced ==
  ASSUME NEW ns \in Seq(Full), NEW i \in 1 .. Len(ns), NEW n \in Full
  PROVE  /\ [ns EXCEPT ![i] = n] \in Seq(Full)
         /\ Len([ns EXCEPT ![i] = n]) = Len(ns)
         /\ Flat([ns EXCEPT ![i] = n]) = (Before(ns, i) \o n.zl) \o After(ns, i)
         /\ Len(Flat([ns EXCEPT ![i] = n]))
              = Len(Before(ns, i)) + n.count + Len(After(ns, i))
<1> DEFINE a == Pre(ns, i)
           b == Suf(ns, i)
           t == [ns EXCEPT ![i] = n]
<1>1. /\ a \in Seq(Full) /\ b \in Seq(Full)
      /\ t = Put(a, n, b) /\ t \in Seq(Full) /\ Len(t) = Len(ns)
  BY Around
<1> HIDE DEF a, b, t
<1>2. /\ Flat(t) = (Flat(a) \o n.zl) \o Flat(b)
      /\ Len(Flat(t)) = Len(Flat(a)) + n.count + Len(Flat(b))
  BY <1>1, FlatThree
<1> QED
  BY <1>1, <1>2 DEF Before, After, a, b, t

LEMMA NodeRemoved ==
  ASSUME NEW ns \in Seq(Full), NEW i \in 1 .. Len(ns)
  PROVE  /\ RemoveAt(ns, i) \in Seq(Full)
         /\ Len(RemoveAt(ns, i)) = Len(ns) - 1
         /\ Flat(RemoveAt(ns, i)) = Before(ns, i) \o After(ns, i)
         /\ Len(Flat(RemoveAt(ns, i))) = Len(Before(ns, i)) + Len(After(ns, i))
<1> DEFINE a == Pre(ns, i)
           b == Suf(ns, i)
<1>1. ns[i] \in Full
  OBVIOUS
<1>2. /\ a \in Seq(Full) /\ b \in Seq(Full)
      /\ RemoveAt(ns, i) = Cat(a, b) /\ RemoveAt(ns, i) \in Seq(Full)
      /\ Len(RemoveAt(ns, i)) = Len(ns) - 1
  BY <1>1, Around
<1> HIDE DEF a, b
<1>3. Flat(a \o b) = Flat(a) \o Flat(b) /\ Len(Flat(a \o b)) = Len(Flat(a)) + Len(Flat(b))
  BY <1>2, FlatConcat
<1> QED
  BY <1>2, <1>3 DEF Before, After, Cat, a, b

LEMMA NodeInserted ==
  ASSUME NEW ns \in Seq(Full), NEW i \in 1 .. Len(ns) + 1, NEW n \in Full
  PROVE  /\ InsertAt(ns, i, n) \in Seq(Full)
         /\ Len(InsertAt(ns, i, n)) = Len(ns) + 1
         /\ Before(ns, i) \in Seq(Value) /\ From(ns, i) \in Seq(Value)
         /\ Flat(ns) = Before(ns, i) \o From(ns, i)
         /\ Flat(InsertAt(ns, i, n)) = (Before(ns, i) \o n.zl) \o From(ns, i)
         /\ Len(Flat(InsertAt(ns, i, n))) = Len(Flat(ns)) + n.count
<1> DEFINE a == Pre(ns, i)
           b == Rest(ns, i)
           t == InsertAt(ns, i, n)
<1>1. a \in Seq(Full) /\ b \in Seq(Full) /\ ns = a \o b
  BY Pieces
<1>2. t \in Seq(Full) /\ Len(t) = Len(ns) + 1 /\ t = Put(a, n, b)
  BY Inserted
<1> HIDE DEF a, b, t
<1>3. /\ Flat(t) = (Flat(a) \o n.zl) \o Flat(b)
      /\ Len(Flat(t)) = Len(Flat(a)) + n.count + Len(Flat(b))
  BY <1>1, <1>2, FlatThree
<1>4. Flat(ns) = Flat(a) \o Flat(b) /\ Len(Flat(ns)) = Len(Flat(a)) + Len(Flat(b))
  BY <1>1, FlatConcat
<1>5. /\ Flat(a) \in Seq(Value) /\ Flat(b) \in Seq(Value)
      /\ Len(Flat(a)) \in Nat /\ Len(Flat(b)) \in Nat
  BY <1>1, FlatType
<1>6. n.count \in Nat
  BY FullNode
<1>7. Len(Flat(t)) = Len(Flat(ns)) + n.count
  BY <1>3, <1>4, <1>5, <1>6
<1> QED
  BY <1>2, <1>3, <1>4, <1>5, <1>7 DEF Before, From, a, b, t

\* The same three changes, by the number of entries alone.
Size(ns) == Len(Flat(ns))

LEMMA SizeReplaced ==
  ASSUME NEW ns \in Seq(Full), NEW i \in 1 .. Len(ns), NEW n \in Full
  PROVE  /\ [ns EXCEPT ![i] = n] \in Seq(Full)
         /\ Len([ns EXCEPT ![i] = n]) = Len(ns)
         /\ Size([ns EXCEPT ![i] = n]) = Size(ns) - ns[i].count + n.count
<1> DEFINE t == [ns EXCEPT ![i] = n]
           b == Len(Before(ns, i))
           a == Len(After(ns, i))
<1>1. /\ t \in Seq(Full) /\ Len(t) = Len(ns) /\ Size(t) = b + n.count + a
  BY NodeReplaced DEF Size
<1>2. ns[i] \in Full /\ b \in Nat /\ a \in Nat /\ Size(ns) = b + ns[i].count + a
  BY ChainAt DEF Size
<1>3. ns[i].count \in Nat /\ n.count \in Nat
  BY <1>2, FullNode
<1> HIDE DEF t, a, b
<1>4. Size(t) = Size(ns) - ns[i].count + n.count
  BY <1>1, <1>2, <1>3
<1> QED
  BY <1>1, <1>4 DEF t

LEMMA SizeRemoved ==
  ASSUME NEW ns \in Seq(Full), NEW i \in 1 .. Len(ns)
  PROVE  /\ RemoveAt(ns, i) \in Seq(Full)
         /\ Len(RemoveAt(ns, i)) = Len(ns) - 1
         /\ Size(RemoveAt(ns, i)) = Size(ns) - ns[i].count
<1> DEFINE t == RemoveAt(ns, i)
           b == Len(Before(ns, i))
           a == Len(After(ns, i))
<1>1. /\ t \in Seq(Full) /\ Len(t) = Len(ns) - 1 /\ Size(t) = b + a
  BY NodeRemoved DEF Size
<1>2. ns[i] \in Full /\ b \in Nat /\ a \in Nat /\ Size(ns) = b + ns[i].count + a
  BY ChainAt DEF Size
<1>3. ns[i].count \in Nat
  BY <1>2, FullNode
<1> HIDE DEF t, a, b
<1>4. Size(t) = Size(ns) - ns[i].count
  BY <1>1, <1>2, <1>3
<1> QED
  BY <1>1, <1>4 DEF t

LEMMA SizeInserted ==
  ASSUME NEW ns \in Seq(Full), NEW i \in 1 .. Len(ns) + 1, NEW n \in Full
  PROVE  /\ InsertAt(ns, i, n) \in Seq(Full)
         /\ Len(InsertAt(ns, i, n)) = Len(ns) + 1
         /\ Size(InsertAt(ns, i, n)) = Size(ns) + n.count
BY NodeInserted DEF Size

LEMMA SizeType ==
  ASSUME NEW ns \in Seq(Full)
  PROVE  Size(ns) \in Nat
BY FlatType DEF Size

\* A chain that has a node has an entry.
LEMMA SizePositive ==
  ASSUME NEW ns \in Seq(Full), ns # <<>>
  PROVE  Size(ns) > 0
<1>1. 1 \in 1 .. Len(ns)
  BY EmptySeq
<1>2. /\ ns[1] \in Full /\ Len(Before(ns, 1)) \in Nat /\ Len(After(ns, 1)) \in Nat
      /\ Size(ns) = Len(Before(ns, 1)) + ns[1].count + Len(After(ns, 1))
  BY <1>1, ChainAt DEF Size
<1>3. ns[1].count \in Nat \ {0}
  BY <1>2, FullNode
<1> QED
  BY <1>2, <1>3

LEMMA OffIs ==
  ASSUME NEW d \in Int, NEW q \in Off(d)
  PROVE  /\ q.nodes \in Seq(Full) /\ Len(q.nodes) \in Nat
         /\ DOMAIN q.nodes = 1 .. Len(q.nodes)
         /\ Size(q.nodes) \in Nat
         /\ q.count = Size(q.nodes) + d /\ q.count \in Int
         /\ q = [nodes |-> q.nodes, count |-> q.count]
<1>1. PICK ns \in Seq(Full) : q = [nodes |-> ns, count |-> Size(ns) + d]
  BY DEF Off, Size
<1>2. Size(ns) \in Nat
  BY SizeType
<1> QED
  BY <1>1, <1>2

LEMMA IsOff ==
  ASSUME NEW d \in Int, NEW ns \in Seq(Full), NEW c, c = Size(ns) + d
  PROVE  [nodes |-> ns, count |-> c] \in Off(d)
BY DEF Off, Size

LEMMA ExactIs ==
  ASSUME NEW q \in Exact
  PROVE  /\ q.nodes \in Seq(Full) /\ Len(q.nodes) \in Nat
         /\ DOMAIN q.nodes = 1 .. Len(q.nodes)
         /\ q.count = Size(q.nodes) /\ q.count \in Nat
         /\ q = [nodes |-> q.nodes, count |-> q.count]
<1>1. 0 \in Int /\ q \in Off(0)
  BY DEF Exact
<1>2. /\ q.nodes \in Seq(Full) /\ Len(q.nodes) \in Nat
      /\ DOMAIN q.nodes = 1 .. Len(q.nodes)
      /\ Size(q.nodes) \in Nat
      /\ q.count = Size(q.nodes) + 0
      /\ q = [nodes |-> q.nodes, count |-> q.count]
  BY <1>1, OffIs
<1>3. q.count = Size(q.nodes)
  BY <1>2
<1> QED
  BY <1>2, <1>3

LEMMA IsExact ==
  ASSUME NEW ns \in Seq(Full), NEW c, c = Size(ns)
  PROVE  [nodes |-> ns, count |-> c] \in Exact
<1>1. Size(ns) \in Nat
  BY SizeType
<1>2. c = Size(ns) + 0
  BY <1>1
<1> QED
  BY <1>2, IsOff DEF Exact

-----------------------------------------------------------------------------
(* Pushes.                                                                 *)

LEMMA Grown ==
  ASSUME NEW zl \in Seq(Value), NEW v \in Value
  PROVE  /\ <<v>> \in Seq(Value) /\ <<v>> # <<>> /\ Len(<<v>>) = 1
         /\ <<v>> \o zl \in Seq(Value) /\ <<v>> \o zl # <<>>
         /\ Len(<<v>> \o zl) = Len(zl) + 1
         /\ Append(zl, v) \in Seq(Value) /\ Append(zl, v) # <<>>
         /\ Len(Append(zl, v)) = Len(zl) + 1
<1> DEFINE c == <<v>>
           d == c \o zl
<1>1. c \in Seq(Value) /\ Len(c) = 1 /\ c # <<>>
  OBVIOUS
<1> HIDE DEF c
<1>2. d \in Seq(Value) /\ Len(d) = Len(c) + Len(zl)
  BY <1>1, ConcatProperties
<1> HIDE DEF d
<1>3. Len(zl) \in Nat
  OBVIOUS
<1>4. Len(d) = Len(zl) + 1 /\ d # <<>>
  BY <1>1, <1>2, <1>3
<1>5. Append(zl, v) \in Seq(Value) /\ Append(zl, v) # <<>> /\ Len(Append(zl, v)) = Len(zl) + 1
  BY AppendProperties
<1> QED
  BY <1>1, <1>2, <1>4, <1>5 DEF c, d

\* A full node that changed is still full when its count follows.
LEMMA UpdatedFull ==
  ASSUME NEW n \in Full, NEW zl \in Seq(Value), zl # <<>>,
         NEW k, n.count + k = Len(zl)
  PROVE  Update(n, zl, k) \in Full /\ Update(n, zl, k).count = n.count + k
         /\ Update(n, zl, k).zl = zl
<1>1. Update(n, zl, k) = Node(zl)
  BY UpdateIsNode
<1> QED
  BY <1>1, NodeFull DEF Node

\* The records that the operations build from a quicklist.
LEMMA RecordFields ==
  ASSUME NEW ns, NEW c, NEW q, q = [nodes |-> ns, count |-> c]
  PROVE  q.nodes = ns /\ q.count = c
OBVIOUS

LEMMA RecordNode ==
  ASSUME NEW ns, NEW c, NEW q, q = [nodes |-> ns, count |-> c], NEW i, NEW m
  PROVE  [q EXCEPT !.nodes[i] = m] = [nodes |-> [ns EXCEPT ![i] = m], count |-> c]
OBVIOUS

WithBoth(q, i, n, c) == [q EXCEPT !.nodes[i] = n, !.count = c]

LEMMA RecordNodeCount ==
  ASSUME NEW ns, NEW c, NEW q, q = [nodes |-> ns, count |-> c], NEW i, NEW m, NEW d
  PROVE  WithBoth(q, i, m, d) = [nodes |-> [ns EXCEPT ![i] = m], count |-> d]
<1> DEFINE t == [ns EXCEPT ![i] = m]
<1>1. q.nodes = ns
  OBVIOUS
<1> DEFINE u == [q EXCEPT !.nodes = t]
<1>2. WithBoth(q, i, m, d) = [u EXCEPT !.count = d]
  BY <1>1 DEF WithBoth
<1> HIDE DEF t
<1>3. u = [nodes |-> t, count |-> c]
  OBVIOUS
<1> HIDE DEF u
<1> QED
  BY <1>2, <1>3 DEF t

LEMMA RecordNodes ==
  ASSUME NEW ns, NEW c, NEW q, q = [nodes |-> ns, count |-> c], NEW t
  PROVE  [q EXCEPT !.nodes = t] = [nodes |-> t, count |-> c]
OBVIOUS

LEMMA RecordCount ==
  ASSUME NEW ns, NEW c, NEW q, q = [nodes |-> ns, count |-> c], NEW d
  PROVE  [q EXCEPT !.count = d] = [nodes |-> ns, count |-> d]
OBVIOUS

\* One entry more in node i, or in a node of its own before position i.
LEMMA EntryAdded ==
  ASSUME NEW q \in Exact, NEW r,
         \/ \E i \in DOMAIN q.nodes, zl \in Seq(Value) :
              /\ Len(zl) = q.nodes[i].count + 1
              /\ r = [q EXCEPT !.nodes[i] = Update(@, zl, 1)]
         \/ \E i \in 1 .. Len(q.nodes) + 1, v \in Value :
              r = __quicklistInsertNode(q, i, Node(<<v>>))
  PROVE  /\ [r EXCEPT !.count = @ + 1] \in Exact
         /\ [r EXCEPT !.count = @ + 1].count = q.count + 1
<1> DEFINE ns == q.nodes
           s == [r EXCEPT !.count = @ + 1]
<1>1. /\ ns \in Seq(Full) /\ Len(ns) \in Nat /\ DOMAIN ns = 1 .. Len(ns)
      /\ q.count = Size(ns) /\ Size(ns) \in Nat
      /\ q = [nodes |-> ns, count |-> q.count]
  BY ExactIs
<1> HIDE DEF ns
<1>2. ASSUME NEW t, r = [nodes |-> t, count |-> q.count]
      PROVE  s = [nodes |-> t, count |-> q.count + 1]
  <2>1. r.count = q.count
    BY <1>2
  <2> QED
    BY <1>2, <2>1, RecordCount
<1> HIDE DEF s
<1>3. ASSUME NEW i \in 1 .. Len(ns), NEW zl \in Seq(Value), Len(zl) = ns[i].count + 1,
             r = [q EXCEPT !.nodes[i] = Update(ns[i], zl, 1)]
      PROVE  s \in Exact /\ s.count = q.count + 1
  <2> DEFINE m == Update(ns[i], zl, 1)
             t == [ns EXCEPT ![i] = m]
  <2>1. ns[i] \in Full /\ ns[i].count \in Nat
    BY <1>1, FullNode
  <2>2. zl # <<>>
    BY <1>3, <2>1, EmptySeq
  <2>3. m \in Full /\ m.count = ns[i].count + 1
    BY <1>3, <2>1, <2>2, UpdatedFull
  <2>4. r = [q EXCEPT !.nodes[i] = m]
    BY <1>3
  <2> HIDE DEF m
  <2>5. r = [nodes |-> t, count |-> q.count]
    <3> DEFINE c == q.count
    <3>1. q = [nodes |-> ns, count |-> c]
      BY <1>1
    <3> HIDE DEF c
    <3>2. [q EXCEPT !.nodes[i] = m] = [nodes |-> [ns EXCEPT ![i] = m], count |-> c]
      BY <3>1, RecordNode, SMTT(60)
    <3> QED
      BY <2>4, <3>2 DEF c
  <2>6. t \in Seq(Full) /\ Size(t) = Size(ns) - ns[i].count + m.count
    BY <1>1, <2>3, SizeReplaced
  <2> HIDE DEF t
  <2>7. s = [nodes |-> t, count |-> q.count + 1]
    BY <1>2, <2>5
  <2>8. q.count + 1 = Size(t)
    BY <1>1, <2>1, <2>3, <2>6
  <2> QED
    BY <2>6, <2>7, <2>8, IsExact
<1>4. ASSUME NEW i \in 1 .. Len(ns) + 1, NEW v \in Value,
             r = __quicklistInsertNode(q, i, Node(<<v>>))
      PROVE  s \in Exact /\ s.count = q.count + 1
  <2> DEFINE z == <<v>>
             m == Node(z)
             t == InsertAt(ns, i, m)
  <2>1. z \in Seq(Value) /\ z # <<>> /\ Len(z) = 1
    OBVIOUS
  <2> HIDE DEF z
  <2>2. m \in Full /\ m.count = 1
    BY <2>1, NodeFull DEF Node
  <2>3. r = [q EXCEPT !.nodes = t]
    BY <1>4 DEF __quicklistInsertNode, z, ns
  <2> HIDE DEF m
  <2>4. t \in Seq(Full) /\ Size(t) = Size(ns) + m.count
    BY <1>1, <2>2, SizeInserted
  <2> HIDE DEF t
  <2>5. r = [nodes |-> t, count |-> q.count]
    BY <1>1, <2>3, RecordNodes
  <2>6. s = [nodes |-> t, count |-> q.count + 1]
    BY <1>2, <2>5
  <2> QED
    BY <1>1, <2>2, <2>4, <2>6, IsExact
<1> QED
  BY <1>1, <1>3, <1>4 DEF ns, s

LEMMA PushExact ==
  ASSUME NEW q \in Exact, NEW v \in Value, NEW where
  PROVE  /\ quicklistPush(q, v, where) \in Exact
         /\ quicklistPush(q, v, where).count = q.count + 1
<1> DEFINE ns == q.nodes
           Room1(i) == _quicklistNodeAllowInsert(q, i, v)
<1>1. ns \in Seq(Full) /\ Len(ns) \in Nat /\ DOMAIN ns = 1 .. Len(ns)
  BY ExactIs
<1>2. ASSUME NEW i, Room1(i) PROVE i \in DOMAIN q.nodes
  BY <1>2 DEF _quicklistNodeAllowInsert, Exists
<1>3. ASSUME NEW i \in DOMAIN q.nodes
      PROVE  /\ <<v>> \o ns[i].zl \in Seq(Value)
             /\ Len(<<v>> \o ns[i].zl) = ns[i].count + 1
             /\ Append(ns[i].zl, v) \in Seq(Value)
             /\ Len(Append(ns[i].zl, v)) = ns[i].count + 1
  <2>1. ns[i] \in Full
    BY <1>1
  <2>2. ns[i].zl \in Seq(Value) /\ ns[i].count = Len(ns[i].zl)
    BY <2>1, FullNode
  <2> QED
    BY <2>2, Grown
<1>4. quicklistPushHead(q, v) \in Exact /\ quicklistPushHead(q, v).count = q.count + 1
  <2> DEFINE r == IF Room1(1)
                  THEN [q EXCEPT !.nodes[1] = Update(@, <<v>> \o @.zl, 1)]
                  ELSE __quicklistInsertNode(q, 1, Node(<<v>>))
  <2>1. quicklistPushHead(q, v) = [r EXCEPT !.count = @ + 1]
    BY DEF quicklistPushHead
  <2>2. CASE Room1(1)
    <3> DEFINE zl == <<v>> \o ns[1].zl
    <3>1. 1 \in DOMAIN q.nodes /\ zl \in Seq(Value) /\ Len(zl) = q.nodes[1].count + 1
      BY <1>2, <1>3, <2>2
    <3>2. r = [q EXCEPT !.nodes[1] = Update(@, zl, 1)]
      BY <2>2
    <3> HIDE DEF zl, r
    <3>3. \E i \in DOMAIN q.nodes, z \in Seq(Value) :
            /\ Len(z) = q.nodes[i].count + 1
            /\ r = [q EXCEPT !.nodes[i] = Update(@, z, 1)]
      BY <3>1, <3>2
    <3>4. [r EXCEPT !.count = @ + 1] \in Exact /\ [r EXCEPT !.count = @ + 1].count = q.count + 1
      BY <3>3, EntryAdded
    <3> QED
      BY <2>1, <3>4, Zenon
  <2>3. CASE ~Room1(1)
    <3>1. 1 \in 1 .. Len(q.nodes) + 1
      BY <1>1
    <3>2. r = __quicklistInsertNode(q, 1, Node(<<v>>))
      BY <2>3
    <3> HIDE DEF r
    <3>3. \E i \in 1 .. Len(q.nodes) + 1, x \in Value : r = __quicklistInsertNode(q, i, Node(<<x>>))
      BY <3>1, <3>2
    <3>4. [r EXCEPT !.count = @ + 1] \in Exact /\ [r EXCEPT !.count = @ + 1].count = q.count + 1
      BY <3>3, EntryAdded
    <3> QED
      BY <2>1, <3>4, Zenon
  <2> QED
    BY <2>2, <2>3
<1>5. quicklistPushTail(q, v) \in Exact /\ quicklistPushTail(q, v).count = q.count + 1
  <2> DEFINE k == Len(q.nodes)
             r == IF Room1(k)
                  THEN [q EXCEPT !.nodes[k] = Update(@, Append(@.zl, v), 1)]
                  ELSE __quicklistInsertNode(q, k + 1, Node(<<v>>))
  <2>1. quicklistPushTail(q, v) = [r EXCEPT !.count = @ + 1]
    BY DEF quicklistPushTail
  <2>2. CASE Room1(k)
    <3> DEFINE zl == Append(ns[k].zl, v)
    <3>1. k \in DOMAIN q.nodes /\ zl \in Seq(Value) /\ Len(zl) = q.nodes[k].count + 1
      BY <1>2, <1>3, <2>2
    <3>2. r = [q EXCEPT !.nodes[k] = Update(@, zl, 1)]
      BY <2>2
    <3> HIDE DEF zl, r, k
    <3>3. \E i \in DOMAIN q.nodes, z \in Seq(Value) :
            /\ Len(z) = q.nodes[i].count + 1
            /\ r = [q EXCEPT !.nodes[i] = Update(@, z, 1)]
      BY <3>1, <3>2
    <3>4. [r EXCEPT !.count = @ + 1] \in Exact /\ [r EXCEPT !.count = @ + 1].count = q.count + 1
      BY <3>3, EntryAdded
    <3> QED
      BY <2>1, <3>4, Zenon
  <2>3. CASE ~Room1(k)
    <3>1. k + 1 \in 1 .. Len(q.nodes) + 1
      BY <1>1
    <3>2. r = __quicklistInsertNode(q, k + 1, Node(<<v>>))
      BY <2>3
    <3> HIDE DEF r, k
    <3>3. \E i \in 1 .. Len(q.nodes) + 1, x \in Value : r = __quicklistInsertNode(q, i, Node(<<x>>))
      BY <3>1, <3>2
    <3>4. [r EXCEPT !.count = @ + 1] \in Exact /\ [r EXCEPT !.count = @ + 1].count = q.count + 1
      BY <3>3, EntryAdded
    <3> QED
      BY <2>1, <3>4, Zenon
  <2> QED
    BY <2>2, <2>3
<1> QED
  BY <1>4, <1>5 DEF quicklistPush

-----------------------------------------------------------------------------
(* Deletions.                                                              *)

LEMMA RemoveUpdated ==
  ASSUME NEW S, NEW s \in Seq(S), NEW i \in 1 .. Len(s), NEW x
  PROVE  RemoveAt([s EXCEPT ![i] = x], i) = RemoveAt(s, i)
<1> DEFINE V == S \cup {x}
           t == [s EXCEPT ![i] = x]
<1>1. s \in Seq(V) /\ x \in V /\ Len(s) \in Nat /\ i \in Nat
  BY SeqMonotonic
<1>2. /\ t \in Seq(V) /\ Len(t) = Len(s)
      /\ \A j \in 1 .. Len(s) : t[j] = IF j = i THEN x ELSE s[j]
  BY <1>1, ExceptSeq
<1> HIDE DEF t, V
<1>3. i \in 1 .. Len(s) + 1 /\ i + 1 \in 1 .. Len(s) + 1
  OBVIOUS
<1> DEFINE a == Pre(s, i)
           b == Rest(s, i + 1)
           c == Pre(t, i)
           d == Rest(t, i + 1)
<1>4. /\ a \in Seq(V) /\ Len(a) = i - 1 /\ \A j \in 1 .. i - 1 : a[j] = s[j]
      /\ c \in Seq(V) /\ Len(c) = i - 1 /\ \A j \in 1 .. i - 1 : c[j] = t[j]
  <2>1. a \in Seq(V) /\ Len(a) = i - 1 /\ \A j \in 1 .. i - 1 : a[j] = s[j]
    BY <1>1, <1>3, Pieces
  <2>2. i \in 1 .. Len(t) + 1 /\ t \in Seq(V)
    BY <1>2, <1>3
  <2>3. c \in Seq(V) /\ Len(c) = i - 1 /\ \A j \in 1 .. i - 1 : c[j] = t[j]
    BY <2>2, Pieces
  <2> HIDE DEF a, c
  <2> QED
    BY <2>1, <2>3
<1>5. /\ b \in Seq(V) /\ Len(b) = Len(s) - (i + 1) + 1
      /\ \A j \in 1 .. Len(s) - (i + 1) + 1 : b[j] = s[(i + 1) + j - 1]
      /\ d \in Seq(V) /\ Len(d) = Len(s) - (i + 1) + 1
      /\ \A j \in 1 .. Len(s) - (i + 1) + 1 : d[j] = t[(i + 1) + j - 1]
  <2>1. /\ b \in Seq(V) /\ Len(b) = Len(s) - (i + 1) + 1
        /\ \A j \in 1 .. Len(s) - (i + 1) + 1 : b[j] = s[(i + 1) + j - 1]
    BY <1>1, <1>3, Pieces
  <2>2. i + 1 \in 1 .. Len(t) + 1 /\ t \in Seq(V)
    BY <1>2, <1>3
  <2>3. /\ d \in Seq(V) /\ Len(d) = Len(t) - (i + 1) + 1
        /\ \A j \in 1 .. Len(t) - (i + 1) + 1 : d[j] = t[(i + 1) + j - 1]
    BY <2>2, Pieces
  <2> HIDE DEF b, d
  <2> QED
    BY <1>2, <2>1, <2>3
<1> HIDE DEF a, b, c, d
<1>6. a = c
  <2>1. ASSUME NEW j \in 1 .. Len(a) PROVE a[j] = c[j]
    <3>1. j \in 1 .. i - 1 /\ j \in 1 .. Len(s) /\ j # i
      BY <1>1, <1>4
    <3> QED
      BY <1>2, <1>4, <3>1
  <2>2. Len(a) = Len(c)
    BY <1>4
  <2> QED
    BY <1>4, <2>1, <2>2, SeqEqual
<1>7. b = d
  <2>1. ASSUME NEW j \in 1 .. Len(b) PROVE b[j] = d[j]
    <3> DEFINE e == (i + 1) + j - 1
    <3>1. j \in 1 .. Len(s) - (i + 1) + 1 /\ e \in 1 .. Len(s) /\ e # i
      BY <1>1, <1>5
    <3>2. b[j] = s[e] /\ d[j] = t[e]
      BY <1>5, <3>1
    <3> HIDE DEF e
    <3> QED
      BY <1>2, <3>1, <3>2
  <2>2. Len(b) = Len(d)
    BY <1>5
  <2> QED
    BY <1>5, <2>1, <2>2, SeqEqual
<1>8. RemoveAt(s, i) = a \o b /\ RemoveAt(t, i) = c \o d
  BY <1>2 DEF RemoveAt, Pre, Rest, a, b, c, d
<1> QED
  BY <1>6, <1>7, <1>8 DEF t

\* The chain after node i is left with zl: the node goes with its last entry.
Left(ns, i, zl) == IF zl = <<>> THEN RemoveAt(ns, i) ELSE [ns EXCEPT ![i] = Node(zl)]

LEMMA LeftType ==
  ASSUME NEW ns \in Seq(Full), NEW i \in 1 .. Len(ns), NEW zl \in Seq(Value)
  PROVE  /\ Left(ns, i, zl) \in Seq(Full)
         /\ Len(Left(ns, i, zl)) = IF zl = <<>> THEN Len(ns) - 1 ELSE Len(ns)
         /\ Size(Left(ns, i, zl)) = Size(ns) - ns[i].count + Len(zl)
<1>1. ns[i].count \in Nat /\ Size(ns) \in Nat
  <2>1. ns[i] \in Full
    OBVIOUS
  <2> QED
    BY <2>1, FullNode, SizeType
<1>2. CASE zl = <<>>
  <2>1. /\ RemoveAt(ns, i) \in Seq(Full)
        /\ Len(RemoveAt(ns, i)) = Len(ns) - 1
        /\ Size(RemoveAt(ns, i)) = Size(ns) - ns[i].count
    BY SizeRemoved
  <2>2. Left(ns, i, zl) = RemoveAt(ns, i) /\ Len(zl) = 0
    BY <1>2 DEF Left
  <2>3. Size(ns) - ns[i].count + 0 = Size(ns) - ns[i].count
    BY <1>1
  <2> QED
    BY <1>2, <2>1, <2>2, <2>3
<1>3. CASE zl # <<>>
  <2> DEFINE m == Node(zl)
  <2>1. m \in Full /\ m.count = Len(zl)
    BY <1>3, NodeFull DEF Node
  <2>2. Left(ns, i, zl) = [ns EXCEPT ![i] = m]
    BY <1>3 DEF Left
  <2> HIDE DEF m
  <2>3. /\ [ns EXCEPT ![i] = m] \in Seq(Full)
        /\ Len([ns EXCEPT ![i] = m]) = Len(ns)
        /\ Size([ns EXCEPT ![i] = m]) = Size(ns) - ns[i].count + m.count
    BY <2>1, SizeReplaced
  <2> QED
    BY <1>3, <2>1, <2>2, <2>3
<1> QED
  BY <1>2, <1>3

\* The chain after the ziplist of node i became zl and its count changed by k.
Changed(ns, i, zl, k) == [ns EXCEPT ![i] = Update(ns[i], zl, k)]

\* quicklistDeleteIfEmpty.
Settled(q, i) == IF q.nodes[i].count = 0 THEN __quicklistDelNode(q, i) ELSE q

LEMMA Shrink ==
  ASSUME NEW ns \in Seq(Full), NEW i \in 1 .. Len(ns), NEW zl \in Seq(Value),
         NEW k \in Int, Len(zl) = ns[i].count + k, NEW c \in Int, NEW left,
         left = [nodes |-> Changed(ns, i, zl, k), count |-> c]
  PROVE  Settled(left, i) = [nodes |-> Left(ns, i, zl), count |-> c]
<1> DEFINE m == Update(ns[i], zl, k)
           t == [ns EXCEPT ![i] = m]
<1>1. m.count = Len(zl) /\ m = Node(zl)
  BY DEF Update, Node
<1> HIDE DEF m
<1>2. t[i] = m
  OBVIOUS
<1>3. left = [nodes |-> t, count |-> c]
  BY DEF m, Changed
<1>4. RemoveAt(t, i) = RemoveAt(ns, i)
  BY RemoveUpdated
<1> HIDE DEF t
<1>5. left.nodes = t /\ left.count = c
  BY <1>3
<1>6. CASE zl = <<>>
  <2>1. m.count = 0
    BY <1>1, <1>6
  <2>2. __quicklistDelNode(left, i) = [nodes |-> RemoveAt(t, i), count |-> c - m.count]
    BY <1>2, <1>5 DEF __quicklistDelNode
  <2>3. c - m.count = c
    BY <2>1
  <2> QED
    BY <1>2, <1>4, <1>5, <1>6, <2>1, <2>2, <2>3 DEF Left, Settled
<1>7. CASE zl # <<>>
  <2>1. m.count # 0
    BY <1>1, <1>7, EmptySeq
  <2>2. Left(ns, i, zl) = t
    BY <1>1, <1>7 DEF Left, t
  <2> QED
    BY <1>2, <1>3, <1>5, <2>1, <2>2 DEF Settled
<1> QED
  BY <1>6, <1>7

LEMMA EntryRemoved ==
  ASSUME NEW zl \in Seq(Value), NEW p \in 1 .. Len(zl)
  PROVE  RemoveAt(zl, p) \in Seq(Value) /\ Len(RemoveAt(zl, p)) = Len(zl) - 1
<1>1. zl[p] \in Value
  OBVIOUS
<1>2. [zl EXCEPT ![p] = zl[p]] = Put(Pre(zl, p), zl[p], Suf(zl, p))
      /\ RemoveAt(zl, p) \in Seq(Value) /\ Len(RemoveAt(zl, p)) = Len(zl) - 1
  BY <1>1, Around
<1> QED
  BY <1>2

LEMMA DelIndex ==
  ASSUME NEW q \in Exact, NEW i \in DOMAIN q.nodes, NEW p \in 1 .. Len(q.nodes[i].zl)
  PROVE  LET zl == RemoveAt(q.nodes[i].zl, p)
         IN  /\ quicklistDelIndex(q, i, p)
                  = [nodes |-> Left(q.nodes, i, zl), count |-> q.count - 1]
             /\ quicklistDelIndex(q, i, p) \in Exact
<1> DEFINE ns == q.nodes
           n == ns[i]
           zl == RemoveAt(n.zl, p)
           k == -1
           c == q.count
           left == [q EXCEPT !.nodes[i] = Update(n, zl, k)]
           both == Settled(left, i)
           t == Left(ns, i, zl)
<1>1. /\ ns \in Seq(Full) /\ Len(ns) \in Nat /\ DOMAIN ns = 1 .. Len(ns)
      /\ q.count = Size(ns) /\ Size(ns) \in Nat
      /\ q = [nodes |-> ns, count |-> c]
  BY ExactIs
<1>2. quicklistDelIndex(q, i, p) = [both EXCEPT !.count = @ - 1]
  BY DEF quicklistDelIndex, Settled
<1> HIDE DEF ns
<1>3. n \in Full
  BY <1>1 DEF ns
<1>4. n.zl \in Seq(Value) /\ n.count = Len(n.zl) /\ n.count \in Nat
  BY <1>3, FullNode
<1>5. zl \in Seq(Value) /\ Len(zl) = Len(n.zl) - 1
  BY <1>4, EntryRemoved DEF ns
<1> HIDE DEF zl
<1>6. i \in 1 .. Len(ns) /\ k \in Int /\ Len(zl) = ns[i].count + k /\ c \in Int
  BY <1>1, <1>4, <1>5 DEF ns
<1>7. left = [nodes |-> Changed(ns, i, zl, k), count |-> c]
  <2> DEFINE m == Update(n, zl, k)
  <2>1. q = [nodes |-> ns, count |-> c]
    BY <1>1
  <2> HIDE DEF c, m
  <2>2. [q EXCEPT !.nodes[i] = m] = [nodes |-> [ns EXCEPT ![i] = m], count |-> c]
    BY <2>1, RecordNode
  <2> QED
    BY <2>2 DEF m, Changed
<1> HIDE DEF left, k, c
<1>8. both = [nodes |-> t, count |-> c]
  <2>1. ns \in Seq(Full) /\ zl \in Seq(Value)
    BY <1>1, <1>5
  <2> QED
    BY <1>6, <1>7, <2>1, Shrink
<1>9. t \in Seq(Full) /\ Size(t) = Size(ns) - ns[i].count + Len(zl)
  BY <1>1, <1>5, <1>6, LeftType
<1> HIDE DEF both, t
<1>10. [both EXCEPT !.count = @ - 1] = [nodes |-> t, count |-> c - 1]
  BY <1>8
<1>11. c - 1 = Size(t)
  BY <1>1, <1>4, <1>5, <1>9 DEF c
<1> QED
  BY <1>2, <1>9, <1>10, <1>11, IsExact DEF c, t, zl, ns

-----------------------------------------------------------------------------
(* Indexes.                                                                *)

LEMMA MinIs ==
  ASSUME NEW A \in SUBSET Nat, A # {}
  PROVE  Min(A) \in A /\ \A y \in A : Min(A) <= y
<1>1. PICK m \in A : TRUE
  OBVIOUS
<1>2. \E n \in A : \A y \in A : n <= y
  BY LeastNatural
<1> QED
  BY <1>2 DEF Min

\* The entries before a node, and those from it on.
LEMMA SizeStep ==
  ASSUME NEW ns \in Seq(Full), NEW i \in 1 .. Len(ns)
  PROVE  /\ Size(Pre(ns, i + 1)) = Size(Pre(ns, i)) + ns[i].count
         /\ Size(Rest(ns, i)) = ns[i].count + Size(Rest(ns, i + 1))
         /\ Size(Pre(ns, i)) \in Nat /\ Size(Rest(ns, i + 1)) \in Nat
         /\ ns[i].count \in Nat \ {0}
<1> DEFINE a == Pre(ns, i)
           b == Rest(ns, i + 1)
           n == ns[i]
           c == <<n>>
<1>1. i \in 1 .. Len(ns) + 1 /\ i + 1 \in 1 .. Len(ns) + 1 /\ (i + 1) - 1 = i
  OBVIOUS
<1>2. n \in Full
  OBVIOUS
<1>3. n.count \in Nat \ {0} /\ n.count = Len(n.zl)
  BY <1>2, FullNode
<1>4. a \in Seq(Full) /\ b \in Seq(Full)
  BY <1>1, Pieces
<1>5. c \in Seq(Full) /\ Flat(c) = n.zl
  BY <1>2, FlatOne
<1>6. Pre(ns, i + 1) = a \o c
  <2>1. 1 \in 1 .. Len(ns) /\ i \in 1 .. Len(ns)
    OBVIOUS
  <2>2. SubSeq(ns, 1, i) = SubSeq(ns, 1, i - 1) \o <<ns[i]>>
    BY <2>1, SubSeqRecursiveSecond
  <2> QED
    BY <1>1, <2>2 DEF Pre
<1>7. Rest(ns, i) = c \o b
  <2>1. Len(ns) \in i .. Len(ns)
    OBVIOUS
  <2>2. SubSeq(ns, i, Len(ns)) = <<ns[i]>> \o SubSeq(ns, i + 1, Len(ns))
    BY <2>1, SubSeqRecursiveFirst
  <2> QED
    BY <2>2 DEF Rest
<1> HIDE DEF a, b, c, n
<1>8. Size(a \o c) = Size(a) + Size(c)
  BY <1>4, <1>5, FlatConcat DEF Size
<1>9. Size(c \o b) = Size(c) + Size(b)
  BY <1>4, <1>5, FlatConcat DEF Size
<1>10. Size(c) = n.count
  BY <1>3, <1>5 DEF Size
<1>11. Size(a) \in Nat /\ Size(b) \in Nat
  BY <1>4, SizeType
<1> QED
  BY <1>3, <1>6, <1>7, <1>8, <1>9, <1>10, <1>11 DEF a, b, n

LEMMA SizeEnds ==
  ASSUME NEW ns \in Seq(Full)
  PROVE  /\ Size(Pre(ns, 1)) = 0 /\ Size(Rest(ns, Len(ns) + 1)) = 0
         /\ Pre(ns, Len(ns) + 1) = ns /\ Rest(ns, 1) = ns
<1>1. Len(ns) \in Nat /\ (Len(ns) + 1) - 1 = Len(ns)
  OBVIOUS
<1>2. Pre(ns, 1) = <<>> /\ Rest(ns, Len(ns) + 1) = <<>>
  <2>1. SubSeq(ns, 1, 0) = <<>>
    BY SubSeqEmpty
  <2>2. SubSeq(ns, Len(ns) + 1, Len(ns)) = <<>>
    BY <1>1, SubSeqEmpty
  <2> QED
    BY <2>1, <2>2 DEF Pre, Rest
<1>3. Size(<<>>) = 0
  BY FlatEmpty DEF Size
<1>4. Pre(ns, Len(ns) + 1) = ns /\ Rest(ns, 1) = ns
  BY <1>1, SubSeqFull DEF Pre, Rest
<1> QED
  BY <1>2, <1>3, <1>4

\* A recursive sum is the one function that satisfies its equation.
IsSum(h, a, n) == h = [k \in 0 .. n |-> IF k = 0 THEN 0 ELSE h[k - 1] + a[k]]

LEMMA SumIs ==
  ASSUME NEW n \in Nat, NEW a, NEW w, IsSum(w, a, n), NEW h, IsSum(h, a, n)
  PROVE  h = w
<1>1. /\ w = [k \in 0 .. n |-> IF k = 0 THEN 0 ELSE w[k - 1] + a[k]]
      /\ h = [k \in 0 .. n |-> IF k = 0 THEN 0 ELSE h[k - 1] + a[k]]
  BY DEF IsSum
<1> DEFINE Bad == {k \in Nat : k <= n /\ h[k] # w[k]}
<1>2. ASSUME NEW m \in Bad PROVE FALSE
  <2>1. PICK j \in Bad : \A i \in Bad : j <= i
    BY LeastNatural
  <2>2. j \in 0 .. n
    OBVIOUS
  <2>3. CASE j = 0
    BY <1>1, <2>2, <2>3
  <2>4. CASE j # 0
    <3>1. j - 1 \in Nat /\ j - 1 <= n /\ ~(j <= j - 1)
      BY <2>2, <2>4
    <3>2. h[j - 1] = w[j - 1]
      BY <2>1, <3>1
    <3>3. h[j] = h[j - 1] + a[j] /\ w[j] = w[j - 1] + a[j]
      BY <1>1, <2>2, <2>4
    <3> QED
      BY <3>2, <3>3
  <2> QED
    BY <2>3, <2>4
<1>3. \A k \in 0 .. n : h[k] = w[k]
  BY <1>2
<1>4. h = [k \in 0 .. n |-> h[k]] /\ w = [k \in 0 .. n |-> w[k]]
  BY <1>1
<1> QED
  BY <1>3, <1>4

\* The running count of quicklistIndex, from the head or from the tail.
Walk(q, forward) ==
  CHOOSE b : b = [k \in 0 .. Len(q.nodes) |->
                    IF k = 0 THEN 0
                    ELSE b[k - 1] + q.nodes[IF forward THEN k
                                            ELSE Len(q.nodes) + 1 - k].count]

\* The number of entries in the first k nodes, or in the last k.
Passed(ns, forward, k) ==
  IF forward THEN Size(Pre(ns, k + 1)) ELSE Size(Rest(ns, Len(ns) + 1 - k))

LEMMA PassedStep ==
  ASSUME NEW ns \in Seq(Full), NEW forward \in BOOLEAN
  PROVE  /\ Passed(ns, forward, 0) = 0 /\ Passed(ns, forward, Len(ns)) = Size(ns)
         /\ \A k \in 1 .. Len(ns) :
              LET i == IF forward THEN k ELSE Len(ns) + 1 - k
              IN  /\ i \in 1 .. Len(ns) /\ ns[i].count \in Nat \ {0}
                  /\ Passed(ns, forward, k) = Passed(ns, forward, k - 1) + ns[i].count
                  /\ Passed(ns, forward, k - 1) \in Nat
<1> DEFINE n == Len(ns)
<1>1. n \in Nat /\ 0 + 1 = 1 /\ n + 1 - 0 = n + 1 /\ n + 1 - n = 1
  OBVIOUS
<1>2. Passed(ns, forward, 0) = 0 /\ Passed(ns, forward, n) = Size(ns)
  BY <1>1, SizeEnds DEF Passed
<1>3. ASSUME NEW k \in 1 .. n, NEW i, i = IF forward THEN k ELSE n + 1 - k
      PROVE  /\ i \in 1 .. n /\ ns[i].count \in Nat \ {0}
             /\ Passed(ns, forward, k) = Passed(ns, forward, k - 1) + ns[i].count
             /\ Passed(ns, forward, k - 1) \in Nat
  <2>1. i \in 1 .. n
    BY <1>1, <1>3
  <2>2. /\ Size(Pre(ns, i + 1)) = Size(Pre(ns, i)) + ns[i].count
        /\ Size(Rest(ns, i)) = ns[i].count + Size(Rest(ns, i + 1))
        /\ Size(Pre(ns, i)) \in Nat /\ Size(Rest(ns, i + 1)) \in Nat
        /\ ns[i].count \in Nat \ {0}
    BY <2>1, SizeStep
  <2>3. CASE forward
    <3>1. i = k /\ (k - 1) + 1 = k
      BY <1>3, <2>3
    <3>2. Passed(ns, forward, k) = Size(Pre(ns, i + 1))
      BY <2>3, <3>1 DEF Passed
    <3>3. Passed(ns, forward, k - 1) = Size(Pre(ns, i))
      BY <2>3, <3>1 DEF Passed
    <3> QED
      BY <2>1, <2>2, <3>2, <3>3
  <2>4. CASE ~forward
    <3>1. i = n + 1 - k /\ n + 1 - (k - 1) = i + 1
      BY <1>1, <1>3, <2>4
    <3>2. Passed(ns, forward, k) = Size(Rest(ns, i))
      BY <2>4, <3>1 DEF Passed
    <3>3. Passed(ns, forward, k - 1) = Size(Rest(ns, i + 1))
      BY <2>4, <3>1 DEF Passed
    <3> QED
      BY <2>1, <2>2, <3>2, <3>3
  <2> QED
    BY <2>3, <2>4
<1> QED
  BY <1>2, <1>3

LEMMA WalkIs ==
  ASSUME NEW q \in Exact, NEW forward \in BOOLEAN
  PROVE  \A k \in 0 .. Len(q.nodes) : Walk(q, forward)[k] = Passed(q.nodes, forward, k)
<1> DEFINE ns == q.nodes
           n == Len(ns)
           At(k) == ns[IF forward THEN k ELSE n + 1 - k].count
           Equation(b) == b = [k \in 0 .. n |-> IF k = 0 THEN 0 ELSE b[k - 1] + At(k)]
           w == [k \in 0 .. n |-> Passed(ns, forward, k)]
           a == [k \in 1 .. n |-> At(k)]
           h == Walk(q, forward)
<1>1. ns \in Seq(Full) /\ n \in Nat
  BY ExactIs
<1>2. h = CHOOSE b : Equation(b)
  BY DEF Walk
<1> HIDE DEF ns, n, h
<1>3. /\ Passed(ns, forward, 0) = 0
      /\ \A k \in 1 .. n : Passed(ns, forward, k) = Passed(ns, forward, k - 1) + At(k)
  BY <1>1, PassedStep DEF n
<1> HIDE DEF At
<1>4. \A k \in 0 .. n : k # 0 => k \in 1 .. n /\ k - 1 \in 0 .. n
  BY <1>1
<1>5. \A k \in 0 .. n : Passed(ns, forward, k) = IF k = 0 THEN 0 ELSE w[k - 1] + At(k)
  BY <1>3, <1>4
<1>6. Equation(w)
  BY <1>5
<1> HIDE DEF w
<1>7. Equation(h)
  BY <1>2, <1>6
<1>8. IsSum(w, a, n)
  BY <1>4, <1>6 DEF IsSum
<1>9. IsSum(h, a, n)
  BY <1>4, <1>7 DEF IsSum
<1> HIDE DEF a
<1>10. h = w
  BY <1>1, <1>8, <1>9, SumIs
<1> QED
  BY <1>10 DEF w, h, n, ns

\* Where an index leads: to a node and an offset, or nowhere when it is out
\* of range.
LEMMA IndexFound ==
  ASSUME NEW q \in Exact, NEW idx \in Int,
         NEW i, i = quicklistIndex(q, idx)[1], NEW o, o = quicklistIndex(q, idx)[2]
  PROVE  /\ i = 0 => o = 0 /\ (idx >= q.count \/ idx < -q.count)
         /\ i # 0 => /\ i \in 1 .. Len(q.nodes) /\ o \in Int
                     /\ idx >= 0 => /\ 0 <= o /\ o < q.nodes[i].count
                                    /\ idx = Size(Pre(q.nodes, i)) + o
                     /\ idx < 0 => /\ o < 0 /\ -o <= q.nodes[i].count
                                   /\ idx = o - Size(Rest(q.nodes, i + 1))
<1> DEFINE ns == q.nodes
           n == Len(ns)
           forward == idx >= 0
           index == IF forward THEN idx ELSE -idx - 1
           before == Walk(q, forward)
           Over == {j \in 1 .. n : before[j] > index}
           k == Min(Over)
           r == quicklistIndex(q, idx)
<1>1. /\ ns \in Seq(Full) /\ n \in Nat /\ q.count = Size(ns) /\ q.count \in Nat
  BY ExactIs
<1>2. r = IF index >= q.count \/ \A j \in 1 .. n : before[j] <= index THEN <<0, 0>>
          ELSE IF forward THEN <<k, index - before[k - 1]>>
          ELSE <<n + 1 - k, -index - 1 + before[k - 1]>>
  BY DEF quicklistIndex, Walk
<1>3. index \in Nat /\ forward \in BOOLEAN
  OBVIOUS
<1>4. i = r[1] /\ o = r[2]
  OBVIOUS
<1> HIDE DEF forward
<1>5. \A j \in 0 .. n : before[j] = Passed(ns, forward, j)
  BY <1>3, WalkIs
<1> HIDE DEF ns, n, before, r
<1>6. /\ Passed(ns, forward, 0) = 0 /\ Passed(ns, forward, n) = Size(ns)
      /\ \A j \in 1 .. n :
           LET m == IF forward THEN j ELSE n + 1 - j
           IN  /\ m \in 1 .. n /\ ns[m].count \in Nat \ {0}
               /\ Passed(ns, forward, j) = Passed(ns, forward, j - 1) + ns[m].count
               /\ Passed(ns, forward, j - 1) \in Nat
  BY <1>1, <1>3, PassedStep DEF n
<1>7. before[0] = 0 /\ \A j \in 0 .. n : before[j] \in Nat
  <2>1. before[0] = 0
    BY <1>1, <1>5, <1>6
  <2>2. ASSUME NEW j \in 1 .. n PROVE before[j] \in Nat
    <3> DEFINE m == IF forward THEN j ELSE n + 1 - j
    <3>1. /\ ns[m].count \in Nat \ {0}
          /\ Passed(ns, forward, j) = Passed(ns, forward, j - 1) + ns[m].count
          /\ Passed(ns, forward, j - 1) \in Nat
      BY <1>6
    <3>2. j \in 0 .. n
      BY <1>1
    <3> HIDE DEF m
    <3> QED
      BY <1>5, <3>1, <3>2
  <2>3. \A j \in 0 .. n : j = 0 \/ j \in 1 .. n
    BY <1>1
  <2> QED
    BY <2>1, <2>2, <2>3
<1>8. CASE index >= q.count \/ \A j \in 1 .. n : before[j] <= index
  <2>1. index >= q.count
    <3>1. CASE n = 0
      <4>1. q.count = 0
        BY <1>1, <1>6, <3>1
      <4> QED
        BY <1>3, <4>1
    <3>2. CASE n # 0
      <4>1. n \in 1 .. n /\ n \in 0 .. n
        BY <1>1, <3>2
      <4>2. before[n] = q.count
        BY <1>1, <1>5, <1>6, <4>1
      <4> QED
        BY <1>8, <4>1, <4>2
    <3> QED
      BY <3>1, <3>2
  <2>2. idx >= q.count \/ idx < -q.count
    BY <1>1, <2>1 DEF forward
  <2>3. i = 0 /\ o = 0
    BY <1>2, <1>4, <1>8
  <2> QED
    BY <2>2, <2>3
<1>9. CASE ~(index >= q.count \/ \A j \in 1 .. n : before[j] <= index)
  <2>1. Over # {} /\ Over \in SUBSET Nat
    BY <1>1, <1>3, <1>7, <1>9
  <2> HIDE DEF Over
  <2>2. k \in Over /\ \A j \in Over : k <= j
    BY <2>1, MinIs
  <2>3. k \in 1 .. n /\ before[k] > index
    BY <2>2 DEF Over
  <2> HIDE DEF k
  <2>4. k - 1 \in 0 .. n /\ k \in 0 .. n /\ k \in Nat
    BY <1>1, <2>3
  <2>5. before[k - 1] <= index
    <3>1. CASE k - 1 = 0
      BY <1>3, <1>7, <3>1
    <3>2. CASE k - 1 # 0
      <4>1. k - 1 \in 1 .. n /\ ~(k <= k - 1)
        BY <1>1, <2>3, <3>2
      <4>2. ~(before[k - 1] > index)
        BY <2>2, <4>1 DEF Over
      <4> QED
        BY <1>3, <1>7, <2>4, <4>2
    <3> QED
      BY <3>1, <3>2
  <2> DEFINE m == IF forward THEN k ELSE n + 1 - k
  <2>6. /\ m \in 1 .. n /\ ns[m].count \in Nat \ {0}
        /\ before[k] = before[k - 1] + ns[m].count
        /\ before[k - 1] \in Nat
    BY <1>5, <1>6, <2>3, <2>4
  <2>7. before[k - 1] = Passed(ns, forward, k - 1)
    BY <1>5, <2>4
  <2>8. CASE forward
    <3>1. i = k /\ o = idx - before[k - 1] /\ m = k
      BY <1>2, <1>4, <1>9, <2>8
    <3>2. (k - 1) + 1 = k
      BY <2>4
    <3>3. before[k - 1] = Size(Pre(ns, k))
      BY <2>7, <2>8, <3>2 DEF Passed
    <3>4. o < ns[k].count /\ 0 <= o
      BY <2>3, <2>5, <2>6, <2>8, <3>1 DEF forward
    <3>5. idx = Size(Pre(ns, k)) + o
      BY <2>6, <3>1, <3>3
    <3>6. i # 0 /\ i \in 1 .. n /\ o \in Int
      BY <2>3, <2>6, <3>1
    <3> QED
      BY <2>8, <3>1, <3>4, <3>5, <3>6 DEF ns, n, forward
  <2>9. CASE ~forward
    <3>1. i = n + 1 - k /\ o = idx + before[k - 1] /\ m = i
      BY <1>2, <1>4, <1>9, <2>6, <2>9 DEF forward
    <3>2. n + 1 - (k - 1) = i + 1
      BY <1>1, <2>4, <3>1
    <3>3. before[k - 1] = Size(Rest(ns, i + 1))
      BY <2>7, <2>9, <3>2 DEF Passed, n
    <3>4. o < 0 /\ -o <= ns[i].count
      BY <2>3, <2>5, <2>6, <2>9, <3>1 DEF forward
    <3>5. idx = o - Size(Rest(ns, i + 1))
      BY <2>6, <3>1, <3>3
    <3>6. i # 0 /\ i \in 1 .. n /\ o \in Int
      BY <2>6, <3>1
    <3> QED
      BY <2>9, <3>1, <3>4, <3>5, <3>6 DEF ns, n, forward
  <2> QED
    BY <2>8, <2>9
<1> QED
  BY <1>8, <1>9

-----------------------------------------------------------------------------
(* Folds: FoldLeft chooses a function on the sets of positions.  Such a    *)
(* function exists for any operation that stays in a set, and its values   *)
(* on the initial intervals are the rounds of the loop.                    *)

LEMMA MaxIs ==
  ASSUME NEW m \in Nat, NEW T \in SUBSET (1 .. m), T # {}
  PROVE  Max(T) \in T /\ \A y \in T : Max(T) >= y
<1> DEFINE A == {m - y : y \in T}
<1>1. PICK y \in T : TRUE
  OBVIOUS
<1>2. A \in SUBSET Nat /\ m - y \in A
  OBVIOUS
<1>3. PICK n \in A : \A i \in A : n <= i
  BY <1>2, LeastNatural
<1>4. PICK x \in T : n = m - x
  OBVIOUS
<1>5. ASSUME NEW z \in T PROVE x >= z
  <2>1. m - z \in A /\ x \in Nat /\ z \in Nat
    OBVIOUS
  <2>2. m - x <= m - z
    BY <1>3, <1>4, <2>1
  <2> QED
    BY <2>1, <2>2
<1>6. \E x1 \in T : \A z \in T : x1 >= z
  BY <1>5
<1> QED
  BY <1>6 DEF Max

LEMMA MaxIsTop ==
  ASSUME NEW m \in Nat, NEW T \in SUBSET (1 .. m + 1), m + 1 \in T
  PROVE  Max(T) = m + 1
<1>1. m + 1 \in Nat /\ T # {}
  OBVIOUS
<1>2. Max(T) \in T /\ Max(T) >= m + 1
  BY <1>1, MaxIs
<1>3. Max(T) \in 1 .. m + 1
  BY <1>2
<1> QED
  BY <1>2, <1>3

\* g folds the step function st over s.
Folds(g, st, base, s, m) ==
  g = [T \in SUBSET (1 .. m) |->
         IF T = {} THEN base ELSE st[<<g[T \ {Max(T)}], s[Max(T)]>>]]

HasFold(X, st, base, s, n) ==
  \E g \in [SUBSET (1 .. n) -> X] : Folds(g, st, base, s, n)

LEMMA FoldExists ==
  ASSUME NEW X, NEW Y, NEW st \in [X \X Y -> X], NEW base \in X,
         NEW n \in Nat, NEW s, \A i \in 1 .. n : s[i] \in Y
  PROVE  HasFold(X, st, base, s, n)
<1> DEFINE Has(m) == \E g \in [SUBSET (1 .. m) -> X] : Folds(g, st, base, s, m)
           Bad == {m \in Nat : m <= n /\ ~Has(m)}
<1>1. Has(0)
  <2> DEFINE g == [T \in SUBSET (1 .. 0) |-> base]
  <2>1. \A T \in SUBSET (1 .. 0) : T = {}
    OBVIOUS
  <2>2. g = [T \in SUBSET (1 .. 0) |->
               IF T = {} THEN base ELSE st[<<g[T \ {Max(T)}], s[Max(T)]>>]]
    BY <2>1
  <2>3. g \in [SUBSET (1 .. 0) -> X]
    OBVIOUS
  <2> HIDE DEF g
  <2> QED
    BY <2>2, <2>3 DEF Folds
<1>2. ASSUME NEW m \in Nat, m + 1 <= n, Has(m) PROVE Has(m + 1)
  <2>1. PICK g \in [SUBSET (1 .. m) -> X] : Folds(g, st, base, s, m)
    BY <1>2
  <2> DEFINE last(T) == st[<<g[T \ {m + 1}], s[m + 1]>>]
             value(T) == IF m + 1 \in T THEN last(T) ELSE g[T]
             f == [T \in SUBSET (1 .. m + 1) |-> value(T)]
  <2>2. \A T \in SUBSET (1 .. m + 1) :
          /\ T \ {m + 1} \in SUBSET (1 .. m)
          /\ m + 1 \notin T => T \in SUBSET (1 .. m)
    OBVIOUS
  <2>3. s[m + 1] \in Y
    BY <1>2
  <2>4. \A T \in SUBSET (1 .. m + 1) : last(T) \in X
    BY <2>2, <2>3
  <2>5. \A T \in SUBSET (1 .. m + 1) : value(T) \in X
    BY <2>2, <2>4
  <2>6. f \in [SUBSET (1 .. m + 1) -> X]
    BY <2>5
  <2>7. ASSUME NEW T \in SUBSET (1 .. m + 1)
        PROVE  value(T) = IF T = {} THEN base
                          ELSE st[<<f[T \ {Max(T)}], s[Max(T)]>>]
    <3>1. CASE m + 1 \in T
      <4>1. Max(T) = m + 1 /\ T # {}
        BY <3>1, MaxIsTop
      <4>2. T \ {m + 1} \in SUBSET (1 .. m + 1) /\ m + 1 \notin T \ {m + 1}
        OBVIOUS
      <4>3. f[T \ {m + 1}] = g[T \ {m + 1}]
        BY <4>2
      <4> QED
        BY <3>1, <4>1, <4>3
    <3>2. CASE m + 1 \notin T
      <4>1. T \in SUBSET (1 .. m)
        BY <2>2, <3>2
      <4>2. g[T] = IF T = {} THEN base ELSE st[<<g[T \ {Max(T)}], s[Max(T)]>>]
        BY <2>1, <4>1 DEF Folds
      <4>3. T \ {Max(T)} \in SUBSET (1 .. m + 1) /\ m + 1 \notin T \ {Max(T)}
        BY <3>2
      <4>4. f[T \ {Max(T)}] = g[T \ {Max(T)}]
        BY <4>3
      <4> HIDE DEF f
      <4> QED
        BY <3>2, <4>2, <4>4
    <3> QED
      BY <3>1, <3>2
  <2>8. f = [T \in SUBSET (1 .. m + 1) |->
               IF T = {} THEN base ELSE st[<<f[T \ {Max(T)}], s[Max(T)]>>]]
    <3> HIDE DEF value
    <3>1. f = [T \in SUBSET (1 .. m + 1) |-> value(T)]
      OBVIOUS
    <3> HIDE DEF f
    <3> QED
      BY <2>7, <3>1, Zenon
  <2> HIDE DEF f
  <2> QED
    BY <2>6, <2>8 DEF Folds
<1>3. ASSUME NEW m \in Bad PROVE FALSE
  <2> HIDE DEF Has
  <2>1. PICK k \in Bad : \A i \in Bad : k <= i
    BY LeastNatural
  <2>2. k # 0
    BY <1>1
  <2>3. k - 1 \in Nat /\ (k - 1) + 1 = k /\ k - 1 <= n /\ ~(k <= k - 1)
    BY <2>2
  <2>4. Has(k - 1)
    BY <2>1, <2>3
  <2>5. k <= n
    BY <2>1
  <2>6. Has((k - 1) + 1)
    BY <1>2, <2>3, <2>4, <2>5
  <2> QED
    BY <2>3, <2>6
<1> HIDE DEF Has
<1>4. Has(n)
  BY <1>3
<1> QED
  BY <1>4 DEF Has, HasFold

\* The rounds of a loop are the values of its fold on initial intervals.
LEMMA Rounds ==
  ASSUME NEW k \in Nat \ {0}
  PROVE  1 .. k # {} /\ Max(1 .. k) = k /\ (1 .. k) \ {k} = 1 .. (k - 1) /\ 1 .. 0 = {}
<1>1. k - 1 \in Nat /\ (k - 1) + 1 = k /\ k \in 1 .. k
  OBVIOUS
<1>2. 1 .. k \in SUBSET (1 .. (k - 1) + 1) /\ (k - 1) + 1 \in 1 .. k
  BY <1>1
<1>3. Max(1 .. k) = (k - 1) + 1
  BY <1>1, <1>2, MaxIsTop
<1> QED
  BY <1>1, <1>3

\* What holds at the start and is kept by every round holds at the end.
LEMMA Through ==
  ASSUME NEW n \in Nat, NEW p, NEW Good, p[0] \in Good[0],
         \A k \in 1 .. n : p[k - 1] \in Good[k - 1] => p[k] \in Good[k]
  PROVE  \A k \in 0 .. n : p[k] \in Good[k]
<1> DEFINE Bad == {k \in Nat : k <= n /\ p[k] \notin Good[k]}
<1>1. ASSUME NEW m \in Bad PROVE FALSE
  <2>1. PICK j \in Bad : \A i \in Bad : j <= i
    BY LeastNatural
  <2>2. j # 0
    OBVIOUS
  <2>3. j \in 1 .. n /\ j - 1 \in Nat /\ j - 1 <= n /\ ~(j <= j - 1)
    BY <2>2
  <2>4. p[j - 1] \in Good[j - 1]
    BY <2>1, <2>3
  <2> QED
    BY <2>3, <2>4
<1> QED
  BY <1>1

\* listTypePush, one push per value.
LEMMA PushFold ==
  ASSUME NEW q \in Exact, NEW vals \in Seq(Value), NEW where
  PROVE  \E p : /\ p[0] = q
                /\ \A k \in 1 .. Len(vals) : p[k] = quicklistPush(p[k - 1], vals[k], where)
                /\ listTypePush(q, vals, where) = p[Len(vals)]
<1> DEFINE n == Len(vals)
           Op(x, v) == quicklistPush(x, v, where)
           Equation(g) == g = [T \in SUBSET (1 .. n) |->
                                 IF T = {} THEN q
                                 ELSE Op(g[T \ {Max(T)}], vals[Max(T)])]
           h == CHOOSE g : Equation(g)
           st == [x \in Exact \X Value |-> Op(x[1], x[2])]
<1>1. n \in Nat /\ DOMAIN vals = 1 .. n /\ \A i \in 1 .. n : vals[i] \in Value
  OBVIOUS
<1>2. listTypePush(q, vals, where) = h[1 .. n]
  <2>1. listTypePush(q, vals, where)
          = LET g == CHOOSE g : g = [T \in SUBSET DOMAIN vals |->
                                       IF T = {} THEN q
                                       ELSE Op(g[T \ {Max(T)}], vals[Max(T)])]
            IN  g[DOMAIN vals]
    BY DEF listTypePush, FoldLeft, MapThenFoldSet
  <2> QED
    BY <1>1, <2>1
<1>3. st \in [Exact \X Value -> Exact]
  BY PushExact
<1>4. \E g : Equation(g)
  <2> HIDE DEF st, n
  <2>1. PICK g \in [SUBSET (1 .. n) -> Exact] : Folds(g, st, q, vals, n)
    <3>1. HasFold(Exact, st, q, vals, n)
      BY <1>1, <1>3, FoldExists
    <3> QED
      BY <3>1 DEF HasFold
  <2>2. ASSUME NEW T \in SUBSET (1 .. n), T # {}
        PROVE  st[<<g[T \ {Max(T)}], vals[Max(T)]>>] = Op(g[T \ {Max(T)}], vals[Max(T)])
    <3>1. Max(T) \in 1 .. n
      BY <1>1, <2>2, MaxIs
    <3>2. g[T \ {Max(T)}] \in Exact /\ vals[Max(T)] \in Value
      BY <1>1, <3>1
    <3> QED
      BY <3>2 DEF st
  <2>3. Equation(g)
    BY <2>1, <2>2 DEF Folds
  <2> QED
    BY <2>3
<1>5. Equation(h)
  BY <1>4
<1> HIDE DEF h, Op
<1> DEFINE p == [k \in 0 .. n |-> h[1 .. k]]
<1>6. p[0] = q
  BY <1>1, <1>5, Rounds
<1>7. ASSUME NEW k \in 1 .. n PROVE p[k] = Op(p[k - 1], vals[k])
  <2>1. /\ 1 .. k # {} /\ Max(1 .. k) = k /\ (1 .. k) \ {k} = 1 .. (k - 1)
        /\ k \in 0 .. n /\ k - 1 \in 0 .. n /\ 1 .. k \in SUBSET (1 .. n)
    BY <1>1, Rounds
  <2> QED
    BY <1>5, <2>1
<1>8. p[n] = h[1 .. n]
  BY <1>1
<1> HIDE DEF p
<1> QED
  BY <1>2, <1>6, <1>7, <1>8 DEF Op

LEMMA PushAllExact ==
  ASSUME NEW q \in Exact, NEW vals \in Seq(Value), NEW where
  PROVE  /\ listTypePush(q, vals, where) \in Exact
         /\ listTypePush(q, vals, where).count = q.count + Len(vals)
<1> DEFINE n == Len(vals)
           Good == [k \in 0 .. n |-> {x \in Exact : x.count = q.count + k}]
<1>1. PICK p : /\ p[0] = q
               /\ \A k \in 1 .. n : p[k] = quicklistPush(p[k - 1], vals[k], where)
               /\ listTypePush(q, vals, where) = p[n]
  BY PushFold
<1>2. n \in Nat /\ q.count \in Nat
  BY ExactIs
<1>3. p[0] \in Good[0]
  BY <1>1, <1>2
<1>4. ASSUME NEW k \in 1 .. n, p[k - 1] \in Good[k - 1] PROVE p[k] \in Good[k]
  <2>1. k - 1 \in 0 .. n /\ k \in 0 .. n /\ vals[k] \in Value
    BY <1>2
  <2>2. p[k - 1] \in Exact /\ p[k - 1].count = q.count + (k - 1)
    BY <1>4, <2>1
  <2>3. p[k] \in Exact /\ p[k].count = p[k - 1].count + 1
    BY <1>1, <2>1, <2>2, PushExact
  <2>4. p[k].count = q.count + k
    BY <1>2, <2>2, <2>3
  <2> QED
    BY <2>1, <2>3, <2>4
<1> HIDE DEF Good, n
<1>5. \A k \in 1 .. n : p[k - 1] \in Good[k - 1] => p[k] \in Good[k]
  BY <1>4
<1>6. \A k \in 0 .. n : p[k] \in Good[k]
  BY <1>2, <1>3, <1>5, Through
<1>7. p[n] \in Good[n]
  BY <1>2, <1>6
<1> QED
  BY <1>1, <1>2, <1>7 DEF Good, n

-----------------------------------------------------------------------------
(* Ranges within a ziplist.                                                *)

LEMMA ZiplistIndex ==
  ASSUME NEW zl \in Seq(Value), NEW o \in Int
  PROVE  /\ ziplistIndex(zl, o) \in 0 .. Len(zl)
         /\ 0 <= o /\ o < Len(zl) => ziplistIndex(zl, o) = o + 1
         /\ o >= Len(zl) => ziplistIndex(zl, o) = 0
         /\ o < 0 /\ -o <= Len(zl) => ziplistIndex(zl, o) = Len(zl) + o + 1
<1>1. Len(zl) \in Nat /\ DOMAIN zl = 1 .. Len(zl)
  OBVIOUS
<1> DEFINE n == Len(zl)
           p == IF o < 0 THEN n + o + 1 ELSE o + 1
<1>2. ziplistIndex(zl, o) = IF p \in 1 .. n THEN p ELSE 0
  BY <1>1 DEF ziplistIndex
<1> HIDE DEF n
<1> QED
  BY <1>1, <1>2 DEF n

LEMMA RangeDeleted ==
  ASSUME NEW zl \in Seq(Value), NEW o \in Int, NEW num \in Int, num >= -1,
         NEW p, p = ziplistIndex(zl, o), NEW z, z = ziplistDeleteRange(zl, o, num)
  PROVE  /\ z \in Seq(Value)
         /\ p = 0 => z = zl
         /\ p # 0 /\ num = -1 => Len(z) = p - 1
         /\ p # 0 /\ num # -1 /\ p - 1 + num <= Len(zl) => Len(z) = Len(zl) - num
<1> DEFINE n == IF num = -1 THEN Len(zl) ELSE num
           a == SubSeq(zl, 1, p - 1)
           b == SubSeq(zl, p + n, Len(zl))
<1>1. z = IF p = 0 THEN zl ELSE a \o b
  BY DEF ziplistDeleteRange
<1>2. p \in 0 .. Len(zl) /\ Len(zl) \in Nat /\ n \in Nat
  BY ZiplistIndex
<1>3. CASE p = 0
  BY <1>1, <1>3
<1>4. CASE p # 0
  <2>1. (\A j \in 1 .. p - 1 : zl[j] \in Value) /\ (\A j \in p + n .. Len(zl) : zl[j] \in Value)
    BY <1>2, <1>4
  <2>2. a \in Seq(Value) /\ Len(a) = IF 1 <= p - 1 THEN (p - 1) - 1 + 1 ELSE 0
    BY <1>2, <2>1, SubSeqProperties
  <2>3. b \in Seq(Value) /\ Len(b) = IF p + n <= Len(zl) THEN Len(zl) - (p + n) + 1 ELSE 0
    <3> HIDE DEF n
    <3> QED
      BY <1>2, <2>1, SubSeqProperties
  <2> HIDE DEF a, b
  <2>4. a \o b \in Seq(Value) /\ Len(a \o b) = Len(a) + Len(b)
    BY <2>2, <2>3, ConcatProperties
  <2> DEFINE la == Len(a)
             lb == Len(b)
             lz == Len(zl)
  <2>5. z \in Seq(Value) /\ Len(z) = la + lb
    BY <1>1, <1>4, <2>4
  <2>6. /\ p \in 1 .. lz /\ lz \in Nat /\ n \in Nat
        /\ la = IF 1 <= p - 1 THEN (p - 1) - 1 + 1 ELSE 0
        /\ lb = IF p + n <= lz THEN lz - (p + n) + 1 ELSE 0
    BY <1>2, <1>4, <2>2, <2>3
  <2> HIDE DEF la, lb, lz, n
  <2>7. la = p - 1
    BY <2>6
  <2>8. num = -1 => la + lb = p - 1
    BY <2>6, <2>7 DEF n, lz
  <2>9. num # -1 /\ p - 1 + num <= lz => la + lb = lz - num
    BY <2>6, <2>7 DEF n
  <2> QED
    BY <1>4, <2>5, <2>8, <2>9 DEF lz
<1> QED
  BY <1>3, <1>4

-----------------------------------------------------------------------------
(* Merges.                                                                 *)

\* The nodes with a and the next in one.
Joined(ns, a) ==
  RemoveAt([ns EXCEPT ![a] = Node(ns[a].zl \o ns[a + 1].zl)], a + 1)

LEMMA MergeIs ==
  ASSUME NEW d \in Int, NEW q \in Off(d), NEW a \in Int,
         _quicklistNodeAllowMerge(q, a, a + 1) \/ _quicklistNodeAllowMerge(q, a + 1, a)
  PROVE  /\ _quicklistZiplistMerge(q, a) \in Off(d)
         /\ _quicklistZiplistMerge(q, a).count = q.count
         /\ a \in 1 .. Len(q.nodes) /\ a + 1 \in 1 .. Len(q.nodes)
         /\ _quicklistZiplistMerge(q, a).nodes = Joined(q.nodes, a)
<1> DEFINE ns == q.nodes
           c == q.count
           x == ns[a]
           y == ns[a + 1]
           zl == x.zl \o y.zl
           m == Node(zl)
           t == [ns EXCEPT ![a] = m]
           e == [y EXCEPT !.count = 0]
           u == [t EXCEPT ![a + 1] = e]
           w == RemoveAt(t, a + 1)
<1>1. /\ ns \in Seq(Full) /\ Len(ns) \in Nat /\ DOMAIN ns = 1 .. Len(ns)
      /\ c = Size(ns) + d /\ c \in Int /\ Size(ns) \in Nat
      /\ q = [nodes |-> ns, count |-> c]
  BY OffIs
<1>2. a \in 1 .. Len(ns) /\ a + 1 \in 1 .. Len(ns)
  BY <1>1 DEF _quicklistNodeAllowMerge, Exists
<1>3. _quicklistZiplistMerge(q, a)
        = __quicklistDelNode([q EXCEPT !.nodes[a] = m, !.nodes[a + 1].count = 0], a + 1)
  BY DEF _quicklistZiplistMerge
<1> HIDE DEF ns, c
<1>4. x \in Full /\ y \in Full
  BY <1>1, <1>2
<1>5. /\ x.zl \in Seq(Value) /\ x.zl # <<>> /\ x.count = Len(x.zl) /\ x.count \in Nat \ {0}
      /\ y.zl \in Seq(Value) /\ y.count = Len(y.zl) /\ y.count \in Nat /\ y = Node(y.zl)
  BY <1>4, FullNode DEF Ziplists
<1>6. zl \in Seq(Value) /\ Len(zl) = Len(x.zl) + Len(y.zl)
  BY <1>5, ConcatProperties
<1>7. e.count = 0
  BY <1>5 DEF Node
<1> HIDE DEF zl, x, y, e
<1>8. zl # <<>>
  <2> DEFINE a1 == Len(x.zl)
             a2 == Len(y.zl)
  <2>1. a1 \in Nat /\ a1 # 0 /\ a2 \in Nat /\ Len(zl) = a1 + a2
    BY <1>5, <1>6
  <2> HIDE DEF a1, a2
  <2>2. Len(zl) # 0
    BY <2>1
  <2> QED
    BY <2>2
<1>9. m \in Full /\ m.count = x.count + y.count
  BY <1>5, <1>6, <1>8, NodeFull DEF Node
<1> HIDE DEF m
<1>10. /\ t \in Seq(Full) /\ Len(t) = Len(ns) /\ Size(t) = Size(ns) - x.count + m.count
  BY <1>1, <1>2, <1>9, SizeReplaced DEF x
<1>11. t[a + 1] = y
  BY <1>1, <1>2 DEF y
<1>12. [q EXCEPT !.nodes[a] = m, !.nodes[a + 1].count = 0] = [nodes |-> u, count |-> c]
  <2> DEFINE q1 == [q EXCEPT !.nodes[a] = m]
  <2>1. q1 = [nodes |-> t, count |-> c]
    BY <1>1, RecordNode
  <2>2. [q EXCEPT !.nodes[a] = m, !.nodes[a + 1].count = 0]
          = [q1 EXCEPT !.nodes[a + 1] = [q1.nodes[a + 1] EXCEPT !.count = 0]]
    OBVIOUS
  <2> HIDE DEF q1, t
  <2>3. q1.nodes = t
    BY <2>1
  <2>4. [q1 EXCEPT !.nodes[a + 1] = e] = [nodes |-> u, count |-> c]
    BY <2>1, RecordNode
  <2> QED
    BY <1>11, <2>2, <2>3, <2>4 DEF e
<1>13. u[a + 1] = e
  BY <1>2, <1>10
<1>14. RemoveAt(u, a + 1) = w
  BY <1>2, <1>10, RemoveUpdated
<1>15. w \in Seq(Full) /\ Size(w) = Size(t) - y.count
  BY <1>2, <1>10, <1>11, SizeRemoved
<1> HIDE DEF u, t, w, e
<1>16. _quicklistZiplistMerge(q, a) = [nodes |-> w, count |-> c - 0]
  BY <1>3, <1>7, <1>12, <1>13, <1>14 DEF __quicklistDelNode
<1>17. c - 0 = Size(w) + d
  <2> DEFINE sw == Size(w)
             sn == Size(ns)
             st == Size(t)
             xc == x.count
             yc == y.count
             mc == m.count
  <2>1. /\ c = sn + d /\ sn \in Nat /\ st = sn - xc + mc /\ sw = st - yc
        /\ mc = xc + yc /\ xc \in Nat /\ yc \in Nat
    BY <1>1, <1>5, <1>9, <1>10, <1>15
  <2> HIDE DEF sw, sn, st, xc, yc, mc
  <2>2. c - 0 = sw + d
    BY <2>1
  <2> QED
    BY <2>2 DEF sw
<1>18. [nodes |-> w, count |-> c - 0] \in Off(d)
  BY <1>15, <1>17, IsOff
<1>19. [nodes |-> w, count |-> c - 0].count = c /\ [nodes |-> w, count |-> c - 0].nodes = w
  BY <1>1
<1>20. w = Joined(q.nodes, a)
  BY DEF w, t, m, zl, x, y, ns, Joined
<1> QED
  BY <1>2, <1>16, <1>18, <1>19, <1>20 DEF c, ns

LEMMA MergeOff ==
  ASSUME NEW d \in Int, NEW q \in Off(d), NEW a \in Int,
         _quicklistNodeAllowMerge(q, a, a + 1) \/ _quicklistNodeAllowMerge(q, a + 1, a)
  PROVE  /\ _quicklistZiplistMerge(q, a) \in Off(d)
         /\ _quicklistZiplistMerge(q, a).count = q.count
BY MergeIs

LEMMA MergeNodesOff ==
  ASSUME NEW d \in Int, NEW q \in Off(d), NEW c \in Int
  PROVE  /\ _quicklistMergeNodes(q, c) \in Off(d)
         /\ _quicklistMergeNodes(q, c).count = q.count
<1> DEFINE left   == _quicklistNodeAllowMerge(q, c - 1, c - 2)
           ql1    == IF left THEN _quicklistZiplistMerge(q, c - 2) ELSE q
           c1     == IF left THEN c - 1 ELSE c
           ql2    == IF _quicklistNodeAllowMerge(ql1, c1 + 1, c1 + 2)
                     THEN _quicklistZiplistMerge(ql1, c1 + 1) ELSE ql1
           back   == _quicklistNodeAllowMerge(ql2, c1, c1 - 1)
           ql3    == IF back THEN _quicklistZiplistMerge(ql2, c1 - 1) ELSE ql2
           target == IF back THEN c1 - 1 ELSE c1
           ql4    == IF _quicklistNodeAllowMerge(ql3, target, target + 1)
                     THEN _quicklistZiplistMerge(ql3, target) ELSE ql3
<1>1. _quicklistMergeNodes(q, c) = ql4
  BY DEF _quicklistMergeNodes
<1>2. ql1 \in Off(d) /\ ql1.count = q.count /\ c1 \in Int
  <2>1. c - 2 \in Int /\ (c - 2) + 1 = c - 1
    OBVIOUS
  <2> QED
    BY <2>1, MergeOff
<1> HIDE DEF ql1, c1
<1>3. ql2 \in Off(d) /\ ql2.count = q.count
  <2>1. c1 + 1 \in Int /\ (c1 + 1) + 1 = c1 + 2
    BY <1>2
  <2> QED
    BY <1>2, <2>1, MergeOff
<1> HIDE DEF ql2
<1>4. ql3 \in Off(d) /\ ql3.count = q.count /\ target \in Int
  <2>1. c1 - 1 \in Int /\ (c1 - 1) + 1 = c1
    BY <1>2
  <2> QED
    BY <1>2, <1>3, <2>1, MergeOff
<1> HIDE DEF ql3, target
<1>5. ql4 \in Off(d) /\ ql4.count = q.count
  BY <1>4, MergeOff
<1> QED
  BY <1>1, <1>5

-----------------------------------------------------------------------------
(* Insertions beside an entry.                                             *)

\* What stays in a split node, and what goes to the new one.
Stays(zl, o, after) ==
  IF after THEN ziplistDeleteRange(zl, o + 1, -1) ELSE ziplistDeleteRange(zl, 0, o)
Goes(zl, o, after) ==
  IF after THEN ziplistDeleteRange(zl, 0, o + 1) ELSE ziplistDeleteRange(zl, o, -1)

\* A split loses no entry, and something stays in the node.
LEMMA SplitParts ==
  ASSUME NEW node, NEW zl \in Seq(Value), node.zl = zl, NEW o \in 0 .. Len(zl) - 1,
         NEW after, NEW parts, parts = _quicklistSplitNode(node, o, after)
  PROVE  \E a \in Seq(Value), b \in Seq(Value) :
           /\ a # <<>> /\ Len(a) + Len(b) = Len(zl)
           /\ parts[1] = Node(a) /\ parts[2] = Node(b)
           /\ a = Stays(zl, o, after) /\ b = Goes(zl, o, after)
<1>1. Len(zl) \in Nat /\ o \in Int /\ o \in Nat /\ o < Len(zl) /\ o + 1 \in Int /\ 0 \in Int
  OBVIOUS
<1>2. CASE after
  <2> DEFINE a == ziplistDeleteRange(zl, o + 1, -1)
             b == ziplistDeleteRange(zl, 0, o + 1)
  <2>1. parts[1] = Node(a) /\ parts[2] = Node(b)
    BY <1>2 DEF _quicklistSplitNode
  <2>6. a = Stays(zl, o, after) /\ b = Goes(zl, o, after)
    BY <1>2 DEF Stays, Goes
  <2>2. a \in Seq(Value) /\ Len(a) = o + 1
    <3> DEFINE p == ziplistIndex(zl, o + 1)
               m == -1
    <3>1. p = IF o + 1 < Len(zl) THEN o + 2 ELSE 0
      BY <1>1, ZiplistIndex
    <3>2. m \in Int /\ m >= -1
      OBVIOUS
    <3>3. /\ a \in Seq(Value)
          /\ p = 0 => a = zl
          /\ p # 0 /\ m = -1 => Len(a) = p - 1
      <4> HIDE DEF p
      <4> QED
        BY <1>1, <3>2, RangeDeleted DEF p
    <3> HIDE DEF a, p
    <3> QED
      BY <1>1, <3>1, <3>3
  <2>3. b \in Seq(Value) /\ Len(b) = Len(zl) - (o + 1)
    <3> DEFINE p == ziplistIndex(zl, 0)
               m == o + 1
    <3>1. p = 1
      BY <1>1, ZiplistIndex
    <3>2. m \in Int /\ m >= -1 /\ m # -1 /\ p - 1 + m <= Len(zl) /\ p # 0
      BY <1>1, <3>1
    <3>3. /\ b \in Seq(Value)
          /\ p # 0 /\ m # -1 /\ p - 1 + m <= Len(zl) => Len(b) = Len(zl) - m
      <4>1. b = ziplistDeleteRange(zl, 0, m)
        OBVIOUS
      <4> HIDE DEF p, m, b
      <4> QED
        BY <1>1, <3>2, <4>1, RangeDeleted DEF p
    <3> QED
      BY <3>2, <3>3
  <2> HIDE DEF a, b
  <2>4. Len(a) + Len(b) = Len(zl) /\ Len(a) # 0
    BY <1>1, <2>2, <2>3
  <2>5. a # <<>>
    BY <2>4
  <2> QED
    BY <2>1, <2>2, <2>3, <2>4, <2>5, <2>6
<1>3. CASE ~after
  <2> DEFINE a == ziplistDeleteRange(zl, 0, o)
             b == ziplistDeleteRange(zl, o, -1)
  <2>1. parts[1] = Node(a) /\ parts[2] = Node(b)
    BY <1>3 DEF _quicklistSplitNode
  <2>6. a = Stays(zl, o, after) /\ b = Goes(zl, o, after)
    BY <1>3 DEF Stays, Goes
  <2>2. a \in Seq(Value) /\ Len(a) = Len(zl) - o
    <3> DEFINE p == ziplistIndex(zl, 0)
    <3>1. p = 1
      BY <1>1, ZiplistIndex
    <3>2. o >= -1 /\ o # -1 /\ p - 1 + o <= Len(zl) /\ p # 0
      BY <1>1, <3>1
    <3>3. /\ a \in Seq(Value)
          /\ p # 0 /\ o # -1 /\ p - 1 + o <= Len(zl) => Len(a) = Len(zl) - o
      <4> HIDE DEF p
      <4> QED
        BY <1>1, <3>2, RangeDeleted DEF p
    <3> QED
      BY <3>2, <3>3
  <2>3. b \in Seq(Value) /\ Len(b) = o
    <3> DEFINE p == ziplistIndex(zl, o)
               m == -1
    <3>1. p = o + 1
      BY <1>1, ZiplistIndex
    <3>2. m \in Int /\ m >= -1
      OBVIOUS
    <3>3. b \in Seq(Value) /\ (p # 0 /\ m = -1 => Len(b) = p - 1)
      <4> HIDE DEF p
      <4> QED
        BY <1>1, <3>2, RangeDeleted DEF p
    <3> HIDE DEF b, p
    <3> QED
      BY <1>1, <3>1, <3>3
  <2> HIDE DEF a, b
  <2>4. Len(a) + Len(b) = Len(zl) /\ Len(a) # 0
    BY <1>1, <2>2, <2>3
  <2>5. a # <<>>
    BY <2>4
  <2> QED
    BY <2>1, <2>2, <2>3, <2>4, <2>5, <2>6
<1> QED
  BY <1>2, <1>3

WithNode(q, i, n) == [q EXCEPT !.nodes[i] = n]

LEMMA NodeChanged ==
  ASSUME NEW q \in Exact, NEW i, NEW n
  PROVE  WithNode(q, i, n) = [nodes |-> [q.nodes EXCEPT ![i] = n], count |-> q.count]
<1> DEFINE ns == q.nodes
           c == q.count
<1>1. q = [nodes |-> ns, count |-> c]
  BY ExactIs
<1> HIDE DEF ns, c
<1>2. [q EXCEPT !.nodes[i] = n] = [nodes |-> [ns EXCEPT ![i] = n], count |-> c]
  BY <1>1, RecordNode
<1> QED
  BY <1>2 DEF ns, c, WithNode

\* The nodes with a in node i and a new node, of w, at j.
Parted(ns, i, a, j, w) == InsertAt([ns EXCEPT ![i] = Node(a)], j, Node(w))

\* Node i becomes a, and a new node w, one entry longer than b, stands at j.
LEMMA SplitIs ==
  ASSUME NEW q \in Exact, NEW i \in 1 .. Len(q.nodes), NEW j \in 1 .. Len(q.nodes) + 1,
         NEW a \in Seq(Value), NEW b \in Seq(Value), NEW w \in Seq(Value),
         a # <<>>, Len(a) + Len(b) = q.nodes[i].count, Len(w) = Len(b) + 1,
         NEW split,
         split = __quicklistInsertNode(WithNode(q, i, Node(a)), j, Update(Node(b), w, 1))
  PROVE  /\ split \in Off(-1) /\ split.count = q.count
         /\ split.nodes = Parted(q.nodes, i, a, j, w)
<1> DEFINE ns == q.nodes
           c == q.count
           n == Node(a)
           m == Node(w)
           t == [ns EXCEPT ![i] = n]
           u == InsertAt(t, j, m)
           d == -1
<1>1. /\ ns \in Seq(Full) /\ Len(ns) \in Nat /\ c = Size(ns) /\ c \in Nat
      /\ q = [nodes |-> ns, count |-> c]
  BY ExactIs
<1>2. Update(Node(b), w, 1) = m
  BY DEF Update, Node
<1>3. Len(w) # 0
  <2> DEFINE lb == Len(b)
  <2>1. lb \in Nat /\ Len(w) = lb + 1
    OBVIOUS
  <2> HIDE DEF lb
  <2> QED
    BY <2>1
<1>4. w # <<>>
  BY <1>3
<1>5. n \in Full /\ n.count = Len(a) /\ m \in Full /\ m.count = Len(w)
  BY <1>4, NodeFull DEF Node
<1> HIDE DEF n, m
<1>6. t \in Seq(Full) /\ Len(t) = Len(ns) /\ Size(t) = Size(ns) - ns[i].count + n.count
  <2>1. i \in 1 .. Len(ns) /\ ns \in Seq(Full)
    BY <1>1
  <2> HIDE DEF ns
  <2> QED
    BY <1>5, <2>1, SizeReplaced, ZenonT(60)
<1>7. WithNode(q, i, n) = [nodes |-> t, count |-> c]
  BY NodeChanged
<1>8. j \in 1 .. Len(t) + 1
  BY <1>6
<1> HIDE DEF t
<1>9. u \in Seq(Full) /\ Size(u) = Size(t) + m.count
  BY <1>5, <1>6, <1>8, SizeInserted
<1> HIDE DEF c
<1>10. __quicklistInsertNode(WithNode(q, i, n), j, m) = [nodes |-> u, count |-> c]
  <2> DEFINE x == WithNode(q, i, n)
  <2>1. x = [nodes |-> t, count |-> c]
    BY <1>7
  <2> HIDE DEF x
  <2>2. [x EXCEPT !.nodes = InsertAt(@, j, m)] = [nodes |-> u, count |-> c]
    BY <2>1
  <2>3. __quicklistInsertNode(x, j, m) = [nodes |-> u, count |-> c]
    BY <2>2 DEF __quicklistInsertNode
  <2> QED
    BY <2>3 DEF x
<1> HIDE DEF u
<1>11. c = Size(u) + d
  <2> DEFINE sn == Size(ns)
             st == Size(t)
             su == Size(u)
             la == Len(a)
             lb == Len(b)
             lw == Len(w)
             k  == ns[i].count
  <2>1. /\ c = sn /\ sn \in Nat /\ st = sn - k + la /\ su = st + lw
        /\ la \in Nat /\ lb \in Nat /\ la + lb = k /\ lw = lb + 1
    BY <1>1, <1>5, <1>6, <1>9
  <2> HIDE DEF sn, st, su, la, lb, lw, k
  <2>2. c = su + d
    BY <2>1, SMTT(60)
  <2> QED
    BY <2>2 DEF su
<1>12. d \in Int
  OBVIOUS
<1> HIDE DEF d
<1>13. [nodes |-> u, count |-> c] \in Off(d)
  BY <1>9, <1>11, <1>12, IsOff
<1>14. [nodes |-> u, count |-> c].count = c /\ [nodes |-> u, count |-> c].nodes = u
  OBVIOUS
<1>15. u = Parted(q.nodes, i, a, j, w)
  BY DEF u, t, n, m, ns, Parted
<1> QED
  BY <1>2, <1>10, <1>13, <1>14, <1>15 DEF n, c, d

LEMMA SplitOff ==
  ASSUME NEW q \in Exact, NEW i \in 1 .. Len(q.nodes), NEW j \in 1 .. Len(q.nodes) + 1,
         NEW a \in Seq(Value), NEW b \in Seq(Value), NEW w \in Seq(Value),
         a # <<>>, Len(a) + Len(b) = q.nodes[i].count, Len(w) = Len(b) + 1,
         NEW split,
         split = __quicklistInsertNode(WithNode(q, i, Node(a)), j, Update(Node(b), w, 1))
  PROVE  split \in Off(-1) /\ split.count = q.count
BY SplitIs

\* The entry that was missing in the count.
LEMMA CountUp ==
  ASSUME NEW q \in Off(-1)
  PROVE  /\ [q EXCEPT !.count = @ + 1] \in Exact
         /\ [q EXCEPT !.count = @ + 1].count = q.count + 1
<1> DEFINE ns == q.nodes
           c == q.count
           d == -1
<1>1. d \in Int /\ q \in Off(d)
  OBVIOUS
<1> HIDE DEF d
<1>2. /\ ns \in Seq(Full) /\ Size(ns) \in Nat /\ c = Size(ns) + d /\ c \in Int
      /\ q = [nodes |-> ns, count |-> c]
  BY <1>1, OffIs
<1>3. [q EXCEPT !.count = @ + 1] = [nodes |-> ns, count |-> c + 1]
  BY <1>2
<1> HIDE DEF c, ns
<1>4. c + 1 = Size(ns)
  BY <1>2 DEF d
<1>5. [nodes |-> ns, count |-> c + 1] \in Exact
  BY <1>2, <1>4, IsExact
<1>6. [nodes |-> ns, count |-> c + 1].count = c + 1
  OBVIOUS
<1> QED
  BY <1>3, <1>5, <1>6 DEF c

LEMMA InsertExact ==
  ASSUME NEW q \in Exact, NEW i \in 1 .. Len(q.nodes), NEW o \in 0 .. q.nodes[i].count - 1,
         NEW v \in Value, NEW after
  PROVE  /\ _quicklistInsert(q, i, o, v, after) \in Exact
         /\ _quicklistInsert(q, i, o, v, after).count = q.count + 1
<1> DEFINE node      == q.nodes[i]
           full      == ~_quicklistNodeAllowInsert(q, i, v)
           at_tail   == after /\ o = node.count
           at_head   == ~after /\ o = 0
           near      == IF after THEN i + 1 ELSE i - 1
           full_near == ~_quicklistNodeAllowInsert(q, near, v)
           p         == IF after THEN o + 2 ELSE o + 1
           parts     == _quicklistSplitNode(node, o, after)
           new       == Update(parts[2], IF after THEN <<v>> \o parts[2].zl
                                         ELSE Append(parts[2].zl, v), 1)
           j         == IF after THEN i + 1 ELSE i
           k         == IF after THEN i ELSE i + 1
           split     == __quicklistInsertNode([q EXCEPT !.nodes[i] = parts[1]], j, new)
           grown     == [q EXCEPT !.nodes[i] = Update(@, InsertAt(@.zl, p, v), 1)]
           own       == __quicklistInsertNode(q, j, Node(<<v>>))
           beside    == [q EXCEPT !.nodes[near] =
                          Update(@, IF after THEN <<v>> \o @.zl ELSE Append(@.zl, v), 1)]
           merged    == _quicklistMergeNodes(split, k)
           inserted  == IF ~full THEN grown
                        ELSE IF (at_tail \/ at_head) /\ Exists(q, near)
                        THEN IF full_near THEN own ELSE beside
                        ELSE merged
           Up(r)     == [r EXCEPT !.count = @ + 1]
           Good(r)   == r \in Exact /\ r.count = q.count + 1
<1>1. _quicklistInsert(q, i, o, v, after) = Up(inserted)
  BY DEF _quicklistInsert
<1>2. /\ q.nodes \in Seq(Full) /\ Len(q.nodes) \in Nat /\ DOMAIN q.nodes = 1 .. Len(q.nodes)
      /\ i \in DOMAIN q.nodes
  BY ExactIs
<1>3. ASSUME NEW e \in DOMAIN q.nodes
      PROVE  /\ q.nodes[e].zl \in Seq(Value) /\ q.nodes[e].count = Len(q.nodes[e].zl)
             /\ q.nodes[e].count \in Nat
  <2>1. q.nodes[e] \in Full
    BY <1>2, <1>3
  <2> QED
    BY <2>1, FullNode
<1>4. j \in 1 .. Len(q.nodes) + 1 /\ k \in Int
  BY <1>2
<1>5. Good(Up(grown))
  <2> DEFINE zl == InsertAt(node.zl, p, v)
  <2>1. p \in 1 .. Len(node.zl) + 1 /\ node.zl \in Seq(Value)
    BY <1>2, <1>3
  <2> HIDE DEF p
  <2>2. zl \in Seq(Value) /\ Len(zl) = node.count + 1
    <3> DEFINE z0 == node.zl
    <3>1. z0 \in Seq(Value) /\ p \in 1 .. Len(z0) + 1 /\ node.count = Len(z0)
      BY <1>2, <1>3, <2>1
    <3> HIDE DEF z0
    <3>2. InsertAt(z0, p, v) \in Seq(Value) /\ Len(InsertAt(z0, p, v)) = Len(z0) + 1
      BY <3>1, Inserted
    <3> QED
      BY <3>1, <3>2 DEF z0
  <2>3. grown = [q EXCEPT !.nodes[i] = Update(@, zl, 1)]
    OBVIOUS
  <2> HIDE DEF zl, grown
  <2>4. \E e \in DOMAIN q.nodes, z \in Seq(Value) :
          /\ Len(z) = q.nodes[e].count + 1
          /\ grown = [q EXCEPT !.nodes[e] = Update(@, z, 1)]
    BY <1>2, <2>2, <2>3
  <2> QED
    BY <2>4, EntryAdded
<1>6. Good(Up(own))
  <2>1. \E e \in 1 .. Len(q.nodes) + 1, x \in Value : own = __quicklistInsertNode(q, e, Node(<<x>>))
    BY <1>4
  <2> HIDE DEF own
  <2> QED
    BY <2>1, EntryAdded
<1>7. ASSUME Exists(q, near) PROVE Good(Up(beside))
  <2> DEFINE z0 == q.nodes[near].zl
             zl == IF after THEN <<v>> \o z0 ELSE Append(z0, v)
  <2>1. near \in DOMAIN q.nodes
    BY <1>7 DEF Exists
  <2>2. z0 \in Seq(Value) /\ q.nodes[near].count = Len(z0)
    BY <1>3, <2>1
  <2>3. zl \in Seq(Value) /\ Len(zl) = q.nodes[near].count + 1
    <3> HIDE DEF z0
    <3> QED
      BY <2>2, Grown
  <2>4. beside = [q EXCEPT !.nodes[near] = Update(@, zl, 1)]
    OBVIOUS
  <2> HIDE DEF zl, beside, near
  <2>5. \E e \in DOMAIN q.nodes, z \in Seq(Value) :
          /\ Len(z) = q.nodes[e].count + 1
          /\ beside = [q EXCEPT !.nodes[e] = Update(@, z, 1)]
    BY <2>1, <2>3, <2>4
  <2> QED
    BY <2>5, EntryAdded
<1>8. Good(Up(merged))
  <2>1. \E a \in Seq(Value), b \in Seq(Value) :
          /\ a # <<>> /\ Len(a) + Len(b) = Len(node.zl)
          /\ parts[1] = Node(a) /\ parts[2] = Node(b)
    <3> DEFINE zl == node.zl
    <3>1. zl \in Seq(Value) /\ o \in 0 .. Len(zl) - 1 /\ node.zl = zl
      BY <1>2, <1>3
    <3>2. parts = _quicklistSplitNode(node, o, after)
      OBVIOUS
    <3> HIDE DEF zl, node, parts
    <3>3. \E a \in Seq(Value), b \in Seq(Value) :
            /\ a # <<>> /\ Len(a) + Len(b) = Len(zl)
            /\ parts[1] = Node(a) /\ parts[2] = Node(b)
      BY <3>1, <3>2, SplitParts
    <3> QED
      BY <3>3 DEF zl
  <2>2. PICK a \in Seq(Value), b \in Seq(Value) :
          /\ a # <<>> /\ Len(a) + Len(b) = q.nodes[i].count
          /\ parts[1] = Node(a) /\ parts[2] = Node(b)
    BY <1>2, <1>3, <2>1
  <2> HIDE DEF parts
  <2> DEFINE w == IF after THEN <<v>> \o b ELSE Append(b, v)
  <2>3. w \in Seq(Value) /\ Len(w) = Len(b) + 1
    BY Grown
  <2>4. new = Update(Node(b), w, 1)
    BY <2>2 DEF Node
  <2> HIDE DEF w
  <2>5. split = __quicklistInsertNode(WithNode(q, i, Node(a)), j, Update(Node(b), w, 1))
    BY <2>2, <2>4 DEF WithNode
  <2> HIDE DEF split, j, k
  <2>6. split \in Off(-1) /\ split.count = q.count
    <3>1. /\ i \in 1 .. Len(q.nodes) /\ j \in 1 .. Len(q.nodes) + 1
          /\ a # <<>> /\ Len(a) + Len(b) = q.nodes[i].count /\ Len(w) = Len(b) + 1
      BY <1>4, <2>2, <2>3
    <3> QED
      BY <2>3, <2>5, <3>1, SplitOff
  <2>7. merged \in Off(-1) /\ merged.count = q.count
    <3>1. -1 \in Int
      OBVIOUS
    <3> QED
      BY <1>4, <2>6, <3>1, MergeNodesOff
  <2> HIDE DEF merged
  <2> QED
    BY <2>7, CountUp
<1> HIDE DEF grown, own, beside, merged, Up, Good, full, at_tail, at_head, near, full_near
<1>9. Good(Up(inserted))
  BY <1>5, <1>6, <1>7, <1>8
<1> QED
  BY <1>1, <1>9 DEF Good

-----------------------------------------------------------------------------
(* Replacements and pops.                                                  *)

LEMMA NodeOf ==
  ASSUME NEW q \in Exact, NEW i \in DOMAIN q.nodes
  PROVE  /\ q.nodes[i] \in Full
         /\ q.nodes[i].zl \in Seq(Value) /\ q.nodes[i].zl # <<>>
         /\ q.nodes[i].count = Len(q.nodes[i].zl)
         /\ q.nodes[i].count \in Nat \ {0}
         /\ i \in 1 .. Len(q.nodes)
<1>1. q.nodes \in Seq(Full) /\ DOMAIN q.nodes = 1 .. Len(q.nodes)
  BY ExactIs
<1> DEFINE n == q.nodes[i]
<1>2. n \in Full
  BY <1>1
<1> HIDE DEF n
<1>3. /\ n.zl \in Seq(Value) /\ n.zl # <<>> /\ n.count = Len(n.zl)
      /\ n.count \in Nat \ {0}
  BY <1>2, FullNode DEF Ziplists
<1> QED
  BY <1>1, <1>2, <1>3 DEF n

LEMMA PositionOf ==
  ASSUME NEW q \in Exact, NEW i \in DOMAIN q.nodes, NEW o \in Int,
         \/ 0 <= o /\ o < q.nodes[i].count
         \/ o < 0 /\ -o <= q.nodes[i].count
  PROVE  ziplistIndex(q.nodes[i].zl, o) \in 1 .. Len(q.nodes[i].zl)
<1> DEFINE zl == q.nodes[i].zl
           n == Len(zl)
           k == ziplistIndex(zl, o)
<1>1. zl \in Seq(Value) /\ n \in Nat /\ ((0 <= o /\ o < n) \/ (o < 0 /\ -o <= n))
  BY NodeOf
<1>2. /\ 0 <= o /\ o < n => k = o + 1
      /\ o < 0 /\ -o <= n => k = n + o + 1
  BY <1>1, ZiplistIndex
<1> HIDE DEF n, k, zl
<1>3. k \in 1 .. n
  BY <1>1, <1>2
<1> QED
  BY <1>3 DEF n, k, zl

LEMMA ReplaceExact ==
  ASSUME NEW q \in Exact, NEW idx \in Int, NEW v \in Value,
         quicklistIndex(q, idx)[1] # 0
  PROVE  /\ quicklistReplaceAtIndex(q, idx, v) \in Exact
         /\ quicklistReplaceAtIndex(q, idx, v).count = q.count
<1> DEFINE at == quicklistIndex(q, idx)
           i == at[1]
           o == at[2]
           ns == q.nodes
           n == ns[i]
           p == ziplistIndex(n.zl, o)
           zl == ReplaceAt(n.zl, p, v)
           m == Update(n, zl, 0)
           t == [ns EXCEPT ![i] = m]
<1>1. /\ i \in 1 .. Len(ns) /\ o \in Int
      /\ (0 <= o /\ o < ns[i].count) \/ (o < 0 /\ -o <= ns[i].count)
  <2> HIDE DEF i, o
  <2> QED
    BY IndexFound DEF i, o
<1>2. /\ ns \in Seq(Full) /\ DOMAIN ns = 1 .. Len(ns) /\ q.count = Size(ns)
      /\ q.count \in Nat
  BY ExactIs
<1>3. quicklistReplaceAtIndex(q, idx, v) = WithNode(q, i, m)
  BY DEF quicklistReplaceAtIndex, WithNode
<1> HIDE DEF at, i, o
<1>4. i \in DOMAIN q.nodes
  BY <1>1, <1>2
<1>5. p \in 1 .. Len(n.zl)
  BY <1>1, <1>4, PositionOf
<1>6. n \in Full /\ n.zl \in Seq(Value) /\ n.count = Len(n.zl) /\ n.count \in Nat \ {0}
  BY <1>4, NodeOf
<1> HIDE DEF p, n
<1>7. zl \in Seq(Value) /\ Len(zl) = Len(n.zl)
  BY <1>5, <1>6 DEF ReplaceAt
<1> HIDE DEF zl
<1>8. zl # <<>> /\ n.count + 0 = Len(zl)
  BY <1>6, <1>7
<1>9. m \in Full /\ m.count = n.count + 0
  BY <1>6, <1>7, <1>8, UpdatedFull
<1> HIDE DEF m
<1>10. t \in Seq(Full) /\ Size(t) = Size(ns) - n.count + m.count
  BY <1>1, <1>2, <1>9, SizeReplaced DEF n
<1>11. WithNode(q, i, m) = [nodes |-> t, count |-> q.count]
  BY NodeChanged
<1> HIDE DEF t, ns
<1>12. q.count = Size(t)
  BY <1>2, <1>6, <1>9, <1>10
<1>13. [nodes |-> t, count |-> q.count] \in Exact
  BY <1>10, <1>12, IsExact
<1> QED
  BY <1>3, <1>11, <1>13

LEMMA NotEmpty ==
  ASSUME NEW q \in Exact, q.count > 0
  PROVE  Len(q.nodes) \in Nat \ {0}
<1>1. q.nodes \in Seq(Full) /\ Len(q.nodes) \in Nat /\ q.count = Size(q.nodes)
  BY ExactIs
<1>2. q.nodes # <<>>
  <2>1. Size(<<>>) = 0
    BY FlatEmpty DEF Size
  <2> QED
    BY <1>1, <2>1
<1> QED
  BY <1>1, <1>2, EmptySeq

LEMMA PopExact ==
  ASSUME NEW q \in Exact, q.count > 0, NEW where
  PROVE  quicklistPopCustom(q, where).ql \in Exact
<1> DEFINE i == IF where = "head" THEN 1 ELSE Len(q.nodes)
           o == IF where = "head" THEN 0 ELSE -1
           p == ziplistIndex(q.nodes[i].zl, o)
<1>1. quicklistPopCustom(q, where).ql = quicklistDelIndex(q, i, p)
  BY DEF quicklistPopCustom
<1>2. i \in DOMAIN q.nodes
  BY NotEmpty, ExactIs
<1>3. o \in Int /\ ((0 <= o /\ o < q.nodes[i].count) \/ (o < 0 /\ -o <= q.nodes[i].count))
  BY <1>2, NodeOf
<1> HIDE DEF i, o
<1>4. p \in 1 .. Len(q.nodes[i].zl)
  BY <1>2, <1>3, PositionOf
<1> HIDE DEF p
<1> QED
  BY <1>1, <1>2, <1>4, DelIndex

-----------------------------------------------------------------------------
(* Ranges of entries.                                                      *)

LEMMA RestOfCat ==
  ASSUME NEW S, NEW a \in Seq(S), NEW b \in Seq(S), NEW k, k = Len(a) + 1
  PROVE  Rest(Cat(a, b), k) = b
<1> DEFINE s == Cat(a, b)
           r == Rest(s, k)
           la == Len(a)
           lb == Len(b)
<1>1. /\ s \in Seq(S) /\ Len(s) = la + lb /\ la \in Nat /\ lb \in Nat
      /\ \A j \in 1 .. la + lb : s[j] = IF j <= la THEN a[j] ELSE b[j - la]
  BY ConcatProperties DEF Cat
<1> HIDE DEF s, la, lb
<1>2. k \in 1 .. Len(s) + 1 /\ k = la + 1
  BY <1>1 DEF la
<1>3. /\ r \in Seq(S) /\ Len(r) = Len(s) - k + 1
      /\ \A j \in 1 .. Len(s) - k + 1 : r[j] = s[k + j - 1]
  BY <1>1, <1>2, Pieces
<1> HIDE DEF r
<1>4. Len(r) = lb
  BY <1>1, <1>2, <1>3
<1>5. ASSUME NEW j \in 1 .. lb PROVE r[j] = b[j]
  <2> DEFINE e == k + j - 1
  <2>1. /\ j \in 1 .. Len(s) - k + 1 /\ e \in 1 .. la + lb /\ ~(e <= la) /\ e - la = j
    <3> HIDE DEF e
    <3>0. la \in Nat /\ lb \in Nat /\ Len(s) = la + lb /\ k = la + 1
      BY <1>1, <1>2
    <3>1. j \in Int /\ 1 <= j /\ j <= lb /\ la \in Nat /\ lb \in Nat /\ Len(s) - k + 1 = lb
      BY <3>0
    <3>2. e = la + j
      BY <3>0, <3>1 DEF e
    <3> QED
      BY <3>1, <3>2
  <2>2. r[j] = s[e]
    BY <1>3, <2>1
  <2> HIDE DEF e
  <2>3. s[e] = b[e - la]
    BY <1>1, <2>1
  <2> QED
    BY <2>1, <2>2, <2>3
<1>6. b \in Seq(S) /\ Len(b) = Len(r) /\ \A j \in 1 .. Len(r) : r[j] = b[j]
  BY <1>4, <1>5 DEF lb
<1> QED
  BY <1>3, <1>6, SeqEqual DEF r, s

\* What follows node i does not change with it.
LEMMA RestLeft ==
  ASSUME NEW ns \in Seq(Full), NEW i \in 1 .. Len(ns), NEW zl \in Seq(Value)
  PROVE  Rest(Left(ns, i, zl), IF zl = <<>> THEN i ELSE i + 1) = Rest(ns, i + 1)
<1> DEFINE a == Pre(ns, i)
           b == Suf(ns, i)
           n == ns[i]
<1>1. b = Rest(ns, i + 1)
  BY DEF Suf, Rest
<1>2. n \in Full /\ i \in 1 .. Len(ns) + 1
  OBVIOUS
<1>3. a \in Seq(Full) /\ Len(a) = i - 1
  BY <1>2, Pieces
<1>4. b \in Seq(Full) /\ RemoveAt(ns, i) = Cat(a, b)
  <2> HIDE DEF n
  <2>1. /\ Pre(ns, i) \in Seq(Full) /\ Suf(ns, i) \in Seq(Full)
        /\ RemoveAt(ns, i) = Cat(Pre(ns, i), Suf(ns, i))
    BY <1>2, Around
  <2> QED
    BY <2>1
<1>5. CASE zl = <<>>
  <2> HIDE DEF a, b
  <2>1. i = Len(a) + 1
    BY <1>3
  <2>2. Rest(Cat(a, b), i) = b
    BY <1>3, <1>4, <2>1, RestOfCat
  <2> QED
    BY <1>1, <1>4, <1>5, <2>2 DEF Left
<1>6. CASE zl # <<>>
  <2> DEFINE m == Node(zl)
             c == a \o <<m>>
  <2>1. m \in Full
    BY <1>6, NodeFull
  <2> HIDE DEF m
  <2>2. [ns EXCEPT ![i] = m] = Put(a, m, b)
    BY <2>1, Around
  <2> HIDE DEF a, b
  <2>3. <<m>> \in Seq(Full) /\ Len(<<m>>) = 1
    BY <2>1
  <2>4. c \in Seq(Full) /\ Len(c) = Len(a) + Len(<<m>>)
    BY <1>3, <2>3, ConcatProperties
  <2>5. Put(a, m, b) = Cat(c, b)
    BY DEF Put, Cat
  <2> HIDE DEF c
  <2>6. i + 1 = Len(c) + 1
    BY <1>3, <2>3, <2>4
  <2>7. Rest(Cat(c, b), i + 1) = b
    BY <1>4, <2>4, <2>6, RestOfCat
  <2>8. Left(ns, i, zl) = Cat(c, b)
    BY <1>6, <2>2, <2>5 DEF Left, m
  <2> QED
    BY <1>1, <1>6, <2>7, <2>8
<1> QED
  BY <1>5, <1>6

LEMMA SizeSplit ==
  ASSUME NEW ns \in Seq(Full), NEW i \in 1 .. Len(ns) + 1
  PROVE  /\ Size(ns) = Size(Pre(ns, i)) + Size(Rest(ns, i))
         /\ Size(Pre(ns, i)) \in Nat /\ Size(Rest(ns, i)) \in Nat
<1> DEFINE a == Pre(ns, i)
           b == Rest(ns, i)
<1>1. a \in Seq(Full) /\ b \in Seq(Full) /\ ns = a \o b
  BY Pieces
<1> HIDE DEF a, b
<1>2. Size(a \o b) = Size(a) + Size(b)
  BY <1>1, FlatConcat DEF Size
<1>3. Size(a) \in Nat /\ Size(b) \in Nat
  BY <1>1, SizeType
<1> QED
  BY <1>1, <1>2, <1>3 DEF a, b

\* Something follows node i, so there is a node after it.
LEMMA SomeRest ==
  ASSUME NEW ns \in Seq(Full), NEW i \in 1 .. Len(ns), Size(Rest(ns, i + 1)) > 0
  PROVE  i + 1 \in 1 .. Len(ns)
<1>1. Len(ns) \in Nat /\ i \in 1 .. Len(ns)
  OBVIOUS
<1>2. CASE i = Len(ns)
  <2>1. Size(Rest(ns, Len(ns) + 1)) = 0
    BY SizeEnds
  <2>2. Size(Rest(ns, i + 1)) = 0
    BY <1>2, <2>1
  <2> QED
    BY <2>2
<1>3. CASE i # Len(ns)
  BY <1>1, <1>3
<1> QED
  BY <1>2, <1>3

LEMMA NodeCountChanged ==
  ASSUME NEW q \in Exact, NEW i, NEW n, NEW c
  PROVE  WithBoth(q, i, n, c) = [nodes |-> [q.nodes EXCEPT ![i] = n], count |-> c]
<1> DEFINE ns == q.nodes
           d == q.count
<1>1. q = [nodes |-> ns, count |-> d]
  BY ExactIs
<1> HIDE DEF ns, d
<1>2. WithBoth(q, i, n, c) = [nodes |-> [ns EXCEPT ![i] = n], count |-> c]
  BY <1>1, RecordNodeCount
<1> QED
  BY <1>2 DEF ns

\* DelFromNode leaves the rest of the chain and counts what it deletes.
LEMMA DelFromExact ==
  ASSUME NEW q \in Exact, NEW i \in DOMAIN q.nodes, NEW o \in Int, NEW del \in Nat,
         \/ o = 0 /\ del <= q.nodes[i].count
         \/ o < 0 /\ -o <= q.nodes[i].count /\ del <= -o
  PROVE  \E zl \in Seq(Value) :
           /\ zl = ziplistDeleteRange(q.nodes[i].zl, o, del)
           /\ Len(zl) = q.nodes[i].count - del
           /\ DelFromNode(q, i, o, del)
                = [nodes |-> Left(q.nodes, i, zl), count |-> q.count - del]
           /\ DelFromNode(q, i, o, del) \in Exact
<1> DEFINE ns == q.nodes
           n == ns[i]
           p == ziplistIndex(n.zl, o)
           zl == ziplistDeleteRange(n.zl, o, del)
           k == -del
           c == q.count - del
           left == [q EXCEPT !.nodes[i] = Update(n, zl, k), !.count = @ - del]
           t == Left(ns, i, zl)
<1>1. /\ ns \in Seq(Full) /\ Len(ns) \in Nat /\ DOMAIN ns = 1 .. Len(ns)
      /\ q.count = Size(ns) /\ q.count \in Nat /\ q = [nodes |-> ns, count |-> q.count]
  BY ExactIs
<1>2. DelFromNode(q, i, o, del) = Settled(left, i)
  BY DEF DelFromNode, Settled
<1>3. /\ n.zl \in Seq(Value) /\ n.count = Len(n.zl) /\ n.count \in Nat \ {0}
      /\ i \in 1 .. Len(ns)
  BY NodeOf
<1> HIDE DEF ns
<1>4. /\ del \in Int /\ del >= -1 /\ del # -1
      /\ (o = 0 /\ del <= Len(n.zl)) \/ (o < 0 /\ -o <= Len(n.zl) /\ del <= -o)
  BY <1>3 DEF ns
<1> HIDE DEF n
<1>5. p = IF o = 0 THEN 1 ELSE Len(n.zl) + o + 1
  <2> DEFINE l == Len(n.zl)
  <2>1. /\ l \in Nat /\ l # 0
        /\ 0 <= o /\ o < l => p = o + 1
        /\ o < 0 /\ -o <= l => p = l + o + 1
    BY <1>3, ZiplistIndex
  <2> HIDE DEF l, p
  <2> QED
    BY <1>4, <2>1 DEF l
<1>6. p # 0 /\ p - 1 + del <= Len(n.zl)
  <2> HIDE DEF p
  <2> QED
    BY <1>3, <1>4, <1>5
<1>7. zl \in Seq(Value) /\ Len(zl) = Len(n.zl) - del
  <2>1. zl = ziplistDeleteRange(n.zl, o, del) /\ p = ziplistIndex(n.zl, o)
    OBVIOUS
  <2> DEFINE z0 == n.zl
  <2>2. z0 \in Seq(Value) /\ p - 1 + del <= Len(z0)
    BY <1>3, <1>6
  <2>3. zl = ziplistDeleteRange(z0, o, del) /\ p = ziplistIndex(z0, o)
    BY <2>1
  <2> HIDE DEF zl, p, z0
  <2>4. /\ zl \in Seq(Value)
        /\ p # 0 /\ del # -1 /\ p - 1 + del <= Len(z0) => Len(zl) = Len(z0) - del
    BY <1>4, <2>2, <2>3, RangeDeleted
  <2> QED
    BY <1>4, <1>6, <2>2, <2>4 DEF z0
<1>15. zl = ziplistDeleteRange(q.nodes[i].zl, o, del)
  BY DEF n, ns
<1> HIDE DEF zl
<1>8. k \in Int /\ Len(zl) = ns[i].count + k /\ c \in Int
  BY <1>1, <1>3, <1>7 DEF n
<1>9. left = [nodes |-> Changed(ns, i, zl, k), count |-> c]
  <2> DEFINE m == Update(n, zl, k)
             e == q.count - del
  <2>2. left = [q EXCEPT !.nodes[i] = m, !.count = e]
    OBVIOUS
  <2> HIDE DEF m, e
  <2>3. WithBoth(q, i, m, e) = [nodes |-> [ns EXCEPT ![i] = m], count |-> e]
    BY NodeCountChanged DEF ns
  <2> QED
    BY <2>2, <2>3 DEF m, n, e, Changed, WithBoth
<1> HIDE DEF left, k, c
<1>10. Settled(left, i) = [nodes |-> t, count |-> c]
  BY <1>1, <1>3, <1>7, <1>8, <1>9, Shrink
<1>11. t \in Seq(Full) /\ Size(t) = Size(ns) - ns[i].count + Len(zl)
  BY <1>1, <1>3, <1>7, LeftType
<1> HIDE DEF t
<1>12. c = Size(t)
  BY <1>1, <1>3, <1>7, <1>11 DEF c, n
<1>13. [nodes |-> t, count |-> c] \in Exact
  BY <1>11, <1>12, IsExact
<1>14. Len(zl) = q.nodes[i].count - del
  BY <1>3, <1>7 DEF ns, n
<1> QED
  BY <1>2, <1>7, <1>10, <1>13, <1>14, <1>15 DEF c, t, ns

\* The rounds of quicklistDelRange: as long as entries are still to go, the
\* node is there and what is to go is within reach.  LTRIM starts at a node
\* border or at an offset from the end of a node.
Reach(s) ==
  /\ s.i \in DOMAIN s.ql.nodes
  /\ \/ s.offset = 0 /\ s.extent <= Size(Rest(s.ql.nodes, s.i))
     \/ /\ s.offset < 0 /\ -s.offset <= s.ql.nodes[s.i].count
        /\ s.extent <= -s.offset + Size(Rest(s.ql.nodes, s.i + 1))

DelStates == {s \in [ql : Exact, i : Nat, offset : Int, extent : Nat] :
                s.extent # 0 => Reach(s)}

LEMMA DelState ==
  ASSUME NEW q \in Exact, NEW i \in Nat, NEW o \in Int, NEW x \in Nat,
         NEW s, s = [ql |-> q, i |-> i, offset |-> o, extent |-> x],
         x # 0 => Reach(s)
  PROVE  s \in DelStates
BY DEF DelStates

\* What is left of the node of a round, of which del entries go.
Spared(s, del) ==
  LET n == s.ql.nodes[s.i]
  IN  IF s.offset = 0 /\ s.extent >= n.count THEN <<>>
      ELSE ziplistDeleteRange(n.zl, s.offset, del)

IsRound(s, r, zl, del) ==
  /\ r.ql \in Exact /\ r.ql.nodes = Left(s.ql.nodes, s.i, zl)
  /\ zl = Spared(s, del)
  /\ s.offset = 0 /\ s.extent >= s.ql.nodes[s.i].count => del = s.ql.nodes[s.i].count
  /\ s.offset = 0 /\ s.extent < s.ql.nodes[s.i].count => del = s.extent
  /\ s.offset < 0 => del \in {-s.offset, s.extent} /\ del <= -s.offset
  /\ del <= s.extent /\ r.extent = s.extent - del /\ r.offset = 0
  /\ r.i = IF zl = <<>> THEN s.i ELSE s.i + 1
  /\ Size(Rest(r.ql.nodes, r.i)) = Size(Rest(s.ql.nodes, s.i + 1))
  /\ Len(r.ql.nodes) = IF zl = <<>> THEN Len(s.ql.nodes) - 1 ELSE Len(s.ql.nodes)

LEMMA DelRoundIs ==
  ASSUME NEW s \in DelStates, s.extent # 0, NEW t, t = DelRound(s)
  PROVE  /\ t \in DelStates
         /\ \E zl \in Seq(Value), del \in Nat : IsRound(s, t, zl, del)
<1> DEFINE q == s.ql
           i == s.i
           o == s.offset
           x == s.extent
           ns == q.nodes
           cnt == ns[i].count
           rest == Size(Rest(ns, i + 1))
           whole == o = 0 /\ x >= cnt
           del == IF whole THEN cnt
                  ELSE IF o >= 0 /\ x >= cnt THEN cnt - o
                  ELSE IF o < 0 THEN Min({-o, x})
                  ELSE x
           ql == IF whole THEN __quicklistDelNode(q, i) ELSE DelFromNode(q, i, o, del)
           j == IF Len(ql.nodes) < Len(ns) THEN i ELSE i + 1
           r == [ql |-> ql, i |-> j, offset |-> 0, extent |-> x - del]
<1>1. DelRound(s) = r
  BY DEF DelRound
<1>2. q \in Exact /\ i \in Nat /\ o \in Int /\ x \in Nat /\ x # 0 /\ i \in DOMAIN ns
  BY DEF DelStates, Reach
<1>3. \/ o = 0 /\ x <= Size(Rest(ns, i))
      \/ o < 0 /\ -o <= cnt /\ x <= -o + rest
  BY DEF DelStates, Reach
<1> HIDE DEF q, i, o, x
<1>4. /\ ns \in Seq(Full) /\ Len(ns) \in Nat /\ DOMAIN ns = 1 .. Len(ns)
      /\ q.count = Size(ns) /\ q.count \in Nat
  BY <1>2, ExactIs
<1> HIDE DEF ns
<1>5. i \in 1 .. Len(ns)
  BY <1>2, <1>4
<1>6. Size(Rest(ns, i)) = cnt + rest /\ rest \in Nat /\ cnt \in Nat \ {0}
  BY <1>4, <1>5, SizeStep
<1> HIDE DEF cnt, rest
<1>7. /\ o < 0 => del \in {-o, x} /\ del <= -o /\ del <= x
      /\ whole => del = cnt
      /\ ~whole /\ ~(o < 0) => del = x
  <2>1. o < 0 => Min({-o, x}) \in {-o, x} /\ Min({-o, x}) <= -o /\ Min({-o, x}) <= x
    <3>1. SUFFICES ASSUME o < 0
                   PROVE  Min({-o, x}) \in {-o, x} /\ Min({-o, x}) <= -o /\ Min({-o, x}) <= x
      OBVIOUS
    <3> DEFINE A == {-o, x}
    <3>2. A \in SUBSET Nat /\ A # {} /\ -o \in A /\ x \in A
      BY <1>2, <3>1
    <3> HIDE DEF A
    <3>3. Min(A) \in A /\ Min(A) <= -o /\ Min(A) <= x
      BY <3>2, MinIs
    <3> QED
      BY <3>3 DEF A
  <2> QED
    BY <1>2, <1>3, <1>6, <2>1
<1> HIDE DEF del
<1>8. /\ del \in Nat /\ del <= x /\ (x - del # 0 => x - del <= rest)
      /\ ~whole => \/ o = 0 /\ del <= cnt
                   \/ o < 0 /\ -o <= cnt /\ del <= -o
  BY <1>2, <1>3, <1>6, <1>7
<1>9. \E zl \in Seq(Value) : /\ ql \in Exact /\ ql.nodes = Left(ns, i, zl)
                             /\ zl = Spared(s, del)
  <2>1. CASE whole
    <3> DEFINE cut == RemoveAt(ns, i)
               c == q.count
    <3>1. ql = [nodes |-> cut, count |-> c - cnt]
      BY <2>1 DEF __quicklistDelNode, ns, cnt
    <3>2. cut \in Seq(Full) /\ Size(cut) = Size(ns) - cnt
      BY <1>4, <1>5, SizeRemoved DEF cnt
    <3>3. cut = Left(ns, i, <<>>)
      BY DEF Left
    <3>4. c - cnt = Size(cut)
      BY <1>4, <3>2
    <3> HIDE DEF ql, cut, c
    <3>5. [nodes |-> cut, count |-> c - cnt] \in Exact
      BY <3>2, <3>4, IsExact
    <3>6. ql \in Exact /\ ql.nodes = cut
      BY <3>1, <3>5
    <3>7. <<>> \in Seq(Value)
      BY EmptySeq
    <3>8. Spared(s, del) = <<>>
      BY <2>1 DEF Spared, q, i, o, x, ns, cnt
    <3> QED
      BY <3>3, <3>6, <3>7, <3>8
  <2>2. CASE ~whole
    <3>1. ql = DelFromNode(q, i, o, del)
      BY <2>2
    <3>2. \/ o = 0 /\ del <= q.nodes[i].count
          \/ o < 0 /\ -o <= q.nodes[i].count /\ del <= -o
      BY <1>8, <2>2 DEF cnt, ns
    <3>3. i \in DOMAIN q.nodes /\ o \in Int /\ del \in Nat
      BY <1>2, <1>8 DEF ns
    <3>4. \E zl \in Seq(Value) :
            /\ zl = ziplistDeleteRange(q.nodes[i].zl, o, del)
            /\ DelFromNode(q, i, o, del)
                 = [nodes |-> Left(q.nodes, i, zl), count |-> q.count - del]
            /\ DelFromNode(q, i, o, del) \in Exact
      BY <1>2, <3>2, <3>3, DelFromExact
    <3>5. Spared(s, del) = ziplistDeleteRange(q.nodes[i].zl, o, del)
      BY <2>2 DEF Spared, q, i, o, x, ns, cnt
    <3> HIDE DEF ql
    <3> QED
      BY <3>1, <3>4, <3>5 DEF ns
  <2> QED
    BY <2>1, <2>2
<1>19. /\ o = 0 /\ x >= cnt => del = cnt
       /\ o = 0 /\ x < cnt => del = x
       /\ o < 0 => del \in {-o, x} /\ del <= -o
  BY <1>2, <1>6, <1>7
<1> HIDE DEF ql, whole
<1>10. PICK zl \in Seq(Value) : /\ ql \in Exact /\ ql.nodes = Left(ns, i, zl)
                                /\ zl = Spared(s, del)
  BY <1>9
<1>11. Len(ql.nodes) = IF zl = <<>> THEN Len(ns) - 1 ELSE Len(ns)
  <2>1. Len(Left(ns, i, zl)) = IF zl = <<>> THEN Len(ns) - 1 ELSE Len(ns)
    BY <1>4, <1>5, LeftType
  <2> QED
    BY <1>10, <2>1, Zenon
<1>12. j = IF zl = <<>> THEN i ELSE i + 1
  BY <1>4, <1>11
<1>13. Size(Rest(ql.nodes, j)) = rest
  BY <1>4, <1>5, <1>10, <1>12, RestLeft DEF rest
<1>14. ASSUME x - del # 0 PROVE Reach(r)
  <2>1. rest > 0
    BY <1>2, <1>6, <1>8, <1>14
  <2>2. i + 1 \in 1 .. Len(ns)
    BY <1>4, <1>5, <2>1, SomeRest DEF rest
  <2>3. DOMAIN ql.nodes = 1 .. Len(ql.nodes)
    BY <1>10, ExactIs
  <2>4. j \in DOMAIN ql.nodes
    BY <1>4, <1>5, <1>11, <1>12, <2>2, <2>3
  <2>5. x - del <= Size(Rest(ql.nodes, j))
    BY <1>8, <1>13, <1>14
  <2> HIDE DEF j
  <2> QED
    BY <2>4, <2>5 DEF Reach
<1>15. j \in Nat /\ x - del \in Nat /\ 0 \in Int
  BY <1>2, <1>8
<1> DEFINE y == x - del
           z == 0
<1>16. r = [ql |-> ql, i |-> j, offset |-> z, extent |-> y]
  OBVIOUS
<1>17. y # 0 => Reach(r)
  BY <1>14
<1> HIDE DEF r, j, y
<1>18. r \in DelStates
  BY <1>10, <1>15, <1>16, <1>17, DelState DEF y
<1>20. r.ql = ql /\ r.i = j /\ r.offset = 0 /\ r.extent = x - del
  BY <1>16 DEF y
<1>21. IsRound(s, r, zl, del)
  BY <1>8, <1>10, <1>11, <1>12, <1>13, <1>19, <1>20 DEF IsRound, q, i, o, x, ns, cnt, rest
<1> QED
  BY <1>1, <1>8, <1>18, <1>21

LEMMA DelRoundKept ==
  ASSUME NEW s \in DelStates, s.extent # 0
  PROVE  DelRound(s) \in DelStates
BY DelRoundIs

-----------------------------------------------------------------------------
(* Iterators: the current node is in the chain, the entry in hand is in    *)
(* the node, and the offset counts from the end the iterator comes from.   *)

Iters ==
  {it \in [ql : Exact, current : Nat, offset : Int, zi : BOOLEAN, direction : {1, -1}] :
     it.current # 0 =>
       /\ it.current \in DOMAIN it.ql.nodes
       /\ it.direction = 1 => it.offset >= 0
       /\ it.direction = -1 => it.offset < 0
       /\ it.zi => InHand(it) # 0}

LEMMA IterIs ==
  ASSUME NEW it \in Iters
  PROVE  /\ it.ql \in Exact /\ it.current \in Nat /\ it.offset \in Int
         /\ it.zi \in BOOLEAN /\ it.direction \in {1, -1}
         /\ it = [ql |-> it.ql, current |-> it.current, offset |-> it.offset,
                  zi |-> it.zi, direction |-> it.direction]
         /\ it.current # 0 =>
              /\ it.current \in DOMAIN it.ql.nodes
              /\ it.direction = 1 => it.offset >= 0
              /\ it.direction = -1 => it.offset < 0
              /\ it.zi => InHand(it) # 0
BY DEF Iters

LEMMA IsIter ==
  ASSUME NEW q \in Exact, NEW c \in Nat, NEW o \in Int, NEW z \in BOOLEAN,
         NEW d \in {1, -1}, NEW it,
         it = [ql |-> q, current |-> c, offset |-> o, zi |-> z, direction |-> d],
         c # 0 => /\ c \in DOMAIN q.nodes
                  /\ d = 1 => o >= 0
                  /\ d = -1 => o < 0
                  /\ z => ziplistIndex(q.nodes[c].zl, o) # 0
  PROVE  it \in Iters
BY DEF Iters, InHand

\* An iterator at an index that counts from the end it comes from; where
\* there is a node, that entry is in it.
LEMMA IterAt ==
  ASSUME NEW q \in Exact, NEW d \in {1, -1}, NEW idx \in Int,
         d = 1 => idx >= 0, d = -1 => idx < 0,
         NEW it, it = quicklistGetIteratorAtIdx(q, d, idx)
  PROVE  /\ it \in Iters /\ it.ql = q /\ it.direction = d /\ ~it.zi
         /\ it.current = quicklistIndex(q, idx)[1] /\ it.offset = quicklistIndex(q, idx)[2]
         /\ it.current # 0 => InHand(it) # 0
<1> DEFINE i == quicklistIndex(q, idx)[1]
           o == quicklistIndex(q, idx)[2]
<1>1. it = [ql |-> q, current |-> i, offset |-> o, zi |-> FALSE, direction |-> d]
  BY DEF quicklistGetIteratorAtIdx
<1>2. /\ idx \in Int /\ (d = 1 => idx >= 0) /\ (d = -1 => idx < 0)
  OBVIOUS
<1>3. /\ i = 0 => o = 0
      /\ i # 0 => /\ i \in 1 .. Len(q.nodes) /\ o \in Int
                  /\ idx >= 0 => 0 <= o /\ o < q.nodes[i].count
                  /\ idx < 0 => o < 0 /\ -o <= q.nodes[i].count
  <2> HIDE DEF i, o
  <2> QED
    BY <1>2, IndexFound DEF i, o
<1>4. Len(q.nodes) \in Nat /\ DOMAIN q.nodes = 1 .. Len(q.nodes)
  BY ExactIs
<1> HIDE DEF i, o
<1>5. i \in Nat /\ o \in Int
  BY <1>3, <1>4
<1>6. i # 0 => /\ i \in DOMAIN q.nodes /\ (d = 1 => o >= 0) /\ (d = -1 => o < 0)
               /\ (0 <= o /\ o < q.nodes[i].count) \/ (o < 0 /\ -o <= q.nodes[i].count)
  BY <1>2, <1>3, <1>4
<1> DEFINE z == FALSE
<1>7. it = [ql |-> q, current |-> i, offset |-> o, zi |-> z, direction |-> d]
  BY <1>1
<1>8. z \in BOOLEAN /\ ~z
  OBVIOUS
<1> HIDE DEF z
<1>9. it \in Iters
  BY <1>5, <1>6, <1>7, <1>8, IsIter
<1>10. it.ql = q /\ it.direction = d /\ it.current = i /\ it.offset = o /\ it.zi = z
  BY <1>7
<1>11. ASSUME i # 0 PROVE InHand(it) # 0
  <2>1. ziplistIndex(q.nodes[i].zl, o) \in 1 .. Len(q.nodes[i].zl)
    BY <1>5, <1>6, <1>11, PositionOf
  <2>2. ziplistIndex(q.nodes[i].zl, o) # 0
    BY <2>1
  <2> QED
    BY <1>10, <2>2 DEF InHand
<1> QED
  BY <1>8, <1>9, <1>10, <1>11 DEF i, o

\* The same of an iterator at the first or the last entry.
LEMMA IterStart ==
  ASSUME NEW q \in Exact, NEW d \in {1, -1}, NEW it, it = listTypeInitIterator(q, d)
  PROVE  /\ it \in Iters /\ it.ql = q /\ it.direction = d
         /\ it.current # 0 => InHand(it) # 0
<1> DEFINE idx == IF d = 1 THEN 0 ELSE -1
<1>1. /\ idx \in Int /\ (d = 1 => idx >= 0) /\ (d = -1 => idx < 0)
  OBVIOUS
<1>2. it = quicklistGetIteratorAtIdx(q, d, idx)
  BY DEF listTypeInitIterator
<1> HIDE DEF idx
<1> QED
  BY <1>1, <1>2, IterAt

LEMMA NextKept ==
  ASSUME NEW it \in Iters, NEW r, r = quicklistNext(it)
  PROVE  /\ r \in Iters /\ r.ql = it.ql /\ r.direction = it.direction
         /\ r.current # 0 => InHand(r) # 0
<1> DEFINE q == it.ql
           c == it.current
           o == it.offset
           zi == it.zi
           d == it.direction
           ns == q.nodes
           later == {j \in DOMAIN ns : /\ IF d = 1 THEN j > c ELSE j < c
                                       /\ ns[j].zl # <<>>}
<1>1. /\ q \in Exact /\ c \in Nat /\ o \in Int /\ zi \in BOOLEAN /\ d \in {1, -1}
      /\ it = [ql |-> q, current |-> c, offset |-> o, zi |-> zi, direction |-> d]
      /\ c # 0 => /\ c \in DOMAIN ns
                  /\ d = 1 => o >= 0
                  /\ d = -1 => o < 0
                  /\ zi => InHand(it) # 0
  BY IterIs
<1>2. CASE c = 0
  <2>1. r = it
    BY <1>2 DEF quicklistNext
  <2> QED
    BY <1>2, <2>1
<1>3. CASE c # 0 /\ Reached(it) # 0
  <2> DEFINE o2 == IF zi THEN o + d ELSE o
             zl == ns[c].zl
             here == ziplistIndex(zl, o)
             t == TRUE
  <2>1. r = [it EXCEPT !.zi = TRUE, !.offset = IF zi THEN @ + d ELSE @]
    BY <1>3 DEF quicklistNext
  <2>2. r = [ql |-> q, current |-> c, offset |-> o2, zi |-> t, direction |-> d]
    <3>0. it = [ql |-> q, current |-> c, offset |-> o, zi |-> zi, direction |-> d]
      BY <1>1
    <3> HIDE DEF q, c, o, zi, d
    <3> QED
      BY <2>1, <3>0
  <2>3. zl \in Seq(Value) /\ Len(zl) \in Nat /\ DOMAIN zl = 1 .. Len(zl)
    <3>1. zl \in Seq(Value)
      BY <1>1, <1>3, NodeOf
    <3> HIDE DEF zl
    <3> QED
      BY <3>1
  <2>4. here \in 0 .. Len(zl)
    BY <1>1, <2>3, ZiplistIndex
  <2>5. IF zi THEN here + d \in 1 .. Len(zl) ELSE here # 0
    <3>1. Reached(it) = IF ~zi THEN here ELSE IF here + d \in DOMAIN zl THEN here + d ELSE 0
      BY DEF Reached
    <3> HIDE DEF here, zl
    <3> QED
      BY <1>3, <2>3, <3>1
  <2>6. zi => here # 0
    BY <1>1, <1>3 DEF InHand
  <2>7. here # 0 => here = IF o < 0 THEN Len(zl) + o + 1 ELSE o + 1
    BY DEF ziplistIndex
  <2>8. o2 \in Int /\ (d = 1 => o2 >= 0) /\ (d = -1 => o2 < 0)
    BY <1>1, <1>3
  <2>9. ziplistIndex(zl, o2) # 0
    <3>1. CASE zi
      <4> DEFINE p == IF o2 < 0 THEN Len(zl) + o2 + 1 ELSE o2 + 1
      <4>1. p = here + d
        <5> HIDE DEF here, zl, o2, q, c, o, zi, d
        <5>1. o2 = o + d
          BY <3>1 DEF o2
        <5>2. here = IF o < 0 THEN Len(zl) + o + 1 ELSE o + 1
          BY <2>6, <2>7, <3>1
        <5>3. (d = 1 /\ o >= 0) \/ (d = -1 /\ o < 0)
          BY <1>1, <1>3
        <5> QED
          BY <1>1, <2>3, <2>8, <5>1, <5>2, <5>3
      <4>2. ziplistIndex(zl, o2) = IF p \in DOMAIN zl THEN p ELSE 0
        BY DEF ziplistIndex
      <4> HIDE DEF p, here, zl
      <4> QED
        BY <2>3, <2>5, <3>1, <4>1, <4>2
    <3>2. CASE ~zi
      BY <2>5, <3>2
    <3> QED
      BY <3>1, <3>2
  <2>10. r.ql = q /\ r.current = c /\ r.offset = o2 /\ r.direction = d
    BY <2>2
  <2>11. InHand(r) # 0
    BY <2>9, <2>10 DEF InHand
  <2>12. t \in BOOLEAN
    OBVIOUS
  <2>13. c \in DOMAIN ns
    BY <1>1, <1>3
  <2> HIDE DEF o2, t, q, c, d, o, zi
  <2>14. r \in Iters
    BY <1>1, <2>2, <2>8, <2>9, <2>12, <2>13, IsIter
  <2> QED
    BY <2>10, <2>11, <2>14 DEF q, d
<1>4. CASE c # 0 /\ Reached(it) = 0 /\ later = {}
  <2> DEFINE z == 0
  <2>1. r = [it EXCEPT !.current = 0]
    BY <1>4 DEF quicklistNext
  <2>2. r = [ql |-> q, current |-> z, offset |-> o, zi |-> zi, direction |-> d]
    <3>0. it = [ql |-> q, current |-> c, offset |-> o, zi |-> zi, direction |-> d]
      BY <1>1
    <3> HIDE DEF q, c, o, zi, d
    <3> QED
      BY <2>1, <3>0
  <2>3. z \in Nat /\ z = 0
    OBVIOUS
  <2> HIDE DEF z, q, c, o, zi, d
  <2>4. r \in Iters
    BY <1>1, <2>2, <2>3, IsIter
  <2> QED
    BY <2>2, <2>3, <2>4 DEF q, d
<1>5. CASE c # 0 /\ Reached(it) = 0 /\ later # {}
  <2> DEFINE j == IF d = 1 THEN Min(later) ELSE Max(later)
             o2 == IF d = 1 THEN 0 ELSE -1
             t == TRUE
  <2>1. r = [it EXCEPT !.current = IF d = 1 THEN Min(later) ELSE Max(later),
                       !.offset  = IF d = 1 THEN 0 ELSE -1,
                       !.zi      = TRUE]
    BY <1>5 DEF quicklistNext
  <2>2. r = [ql |-> q, current |-> j, offset |-> o2, zi |-> t, direction |-> d]
    <3>0. it = [ql |-> q, current |-> c, offset |-> o, zi |-> zi, direction |-> d]
      BY <1>1
    <3>1. r = [it EXCEPT !.current = j, !.offset = o2, !.zi = t]
      BY <2>1
    <3> HIDE DEF q, c, o, zi, d, j, o2, t
    <3> QED
      BY <3>0, <3>1
  <2>3. DOMAIN ns = 1 .. Len(ns) /\ Len(ns) \in Nat
    BY <1>1, ExactIs
  <2>4. j \in DOMAIN ns
    <3>1. later \in SUBSET (1 .. Len(ns)) /\ later \in SUBSET Nat /\ later # {}
      BY <1>5, <2>3
    <3> HIDE DEF later
    <3>2. Min(later) \in later /\ Max(later) \in later
      BY <2>3, <3>1, MinIs, MaxIs
    <3> QED
      BY <2>3, <3>1, <3>2
  <2> HIDE DEF j
  <2>5. o2 \in Int /\ (d = 1 => o2 >= 0) /\ (d = -1 => o2 < 0)
        /\ ((0 <= o2 /\ o2 < ns[j].count) \/ (o2 < 0 /\ -o2 <= ns[j].count))
    BY <1>1, <2>4, NodeOf
  <2>6. j \in Nat /\ t \in BOOLEAN
    BY <2>3, <2>4
  <2> HIDE DEF o2, t
  <2>7. ziplistIndex(ns[j].zl, o2) # 0
    <3>1. ziplistIndex(ns[j].zl, o2) \in 1 .. Len(ns[j].zl)
      BY <1>1, <2>4, <2>5, PositionOf
    <3> QED
      BY <3>1
  <2>8. r.ql = q /\ r.current = j /\ r.offset = o2 /\ r.direction = d
    BY <2>2
  <2>9. InHand(r) # 0
    BY <2>7, <2>8 DEF InHand
  <2> HIDE DEF q, c, o, zi, d
  <2>10. r \in Iters
    BY <1>1, <2>2, <2>4, <2>5, <2>6, <2>7, IsIter
  <2> QED
    BY <2>8, <2>9, <2>10 DEF q, d
<1> QED
  BY <1>2, <1>3, <1>4, <1>5

LEMMA DelKept ==
  ASSUME NEW it \in Iters, it.current # 0, InHand(it) # 0
  PROVE  quicklistDelEntry(it) \in Iters
<1> DEFINE q == it.ql
           c == it.current
           o == it.offset
           d == it.direction
           zi == it.zi
           p == InHand(it)
           ql == quicklistDelIndex(q, c, p)
           gone == Len(ql.nodes) < Len(q.nodes)
           step == IF d = 1 THEN c ELSE c - 1
           r == quicklistDelEntry(it)
           c2 == IF ~gone THEN c ELSE IF step \in DOMAIN ql.nodes THEN step ELSE 0
           o2 == IF ~gone THEN o ELSE IF d = 1 THEN 0 ELSE -1
           f == FALSE
<1>1. /\ q \in Exact /\ c \in Nat /\ o \in Int /\ d \in {1, -1} /\ c \in DOMAIN q.nodes
      /\ it = [ql |-> q, current |-> c, offset |-> o, zi |-> zi, direction |-> d]
      /\ (d = 1 => o >= 0) /\ (d = -1 => o < 0)
  BY IterIs
<1>2. p \in 1 .. Len(q.nodes[c].zl)
  <2>1. q.nodes[c].zl \in Seq(Value)
    BY <1>1, NodeOf
  <2>2. ziplistIndex(q.nodes[c].zl, o) \in 0 .. Len(q.nodes[c].zl) /\ Len(q.nodes[c].zl) \in Nat
    <3> DEFINE zl == q.nodes[c].zl
    <3> HIDE DEF zl
    <3>1. zl \in Seq(Value)
      BY <2>1 DEF zl
    <3>2. ziplistIndex(zl, o) \in 0 .. Len(zl) /\ Len(zl) \in Nat
      BY <1>1, <3>1, ZiplistIndex
    <3> QED
      BY <3>2 DEF zl
  <2>3. p = ziplistIndex(q.nodes[c].zl, o)
    BY DEF InHand
  <2>4. p # 0
    OBVIOUS
  <2> HIDE DEF p
  <2> QED
    BY <2>2, <2>3, <2>4
<1>3. r = [ql |-> ql, current |-> c2, offset |-> o2, zi |-> f, direction |-> d]
  <2>0. it = [ql |-> q, current |-> c, offset |-> o, zi |-> zi, direction |-> d]
    BY <1>1
  <2>1. CASE gone
    <3>1. r = [it EXCEPT !.ql = ql, !.zi = FALSE,
                         !.current = IF step \in DOMAIN ql.nodes THEN step ELSE 0,
                         !.offset  = IF d = 1 THEN 0 ELSE -1]
      BY <2>1 DEF quicklistDelEntry
    <3>2. r = [it EXCEPT !.ql = ql, !.zi = f, !.current = c2, !.offset = o2]
      BY <2>1, <3>1
    <3> HIDE DEF q, c, o, zi, d, ql, c2, o2, f, r
    <3> QED
      BY <2>0, <3>2
  <2>2. CASE ~gone
    <3>1. r = [it EXCEPT !.ql = ql, !.zi = f]
      BY <2>2 DEF quicklistDelEntry
    <3>2. c2 = c /\ o2 = o
      BY <2>2
    <3> HIDE DEF q, c, o, zi, d, ql, c2, o2, f, r
    <3> QED
      BY <2>0, <3>1, <3>2
  <2> QED
    BY <2>1, <2>2
<1> HIDE DEF p
<1>4. ql \in Exact /\ (~gone => c \in DOMAIN ql.nodes) /\ Len(ql.nodes) \in Nat
  <2> DEFINE zl == RemoveAt(q.nodes[c].zl, p)
  <2>1. ql = [nodes |-> Left(q.nodes, c, zl), count |-> q.count - 1] /\ ql \in Exact
    BY <1>1, <1>2, DelIndex
  <2>2. q.nodes \in Seq(Full) /\ Len(q.nodes) \in Nat /\ DOMAIN q.nodes = 1 .. Len(q.nodes)
    BY <1>1, ExactIs
  <2>3. zl \in Seq(Value)
    <3>1. q.nodes[c].zl \in Seq(Value)
      BY <1>1, NodeOf
    <3> QED
      BY <1>2, <3>1, EntryRemoved
  <2>4. ql.nodes = Left(q.nodes, c, zl)
    BY <2>1
  <2> HIDE DEF ql, zl, q, c
  <2>5. Len(ql.nodes) \in Nat /\ DOMAIN ql.nodes = 1 .. Len(ql.nodes)
    BY <2>1, ExactIs
  <2> QED
    BY <1>1, <2>1, <2>2, <2>5
<1>5. f \in BOOLEAN /\ ~f
  OBVIOUS
<1>6. c2 \in Nat /\ (c2 # 0 => c2 \in DOMAIN ql.nodes)
  <2>1. DOMAIN ql.nodes = 1 .. Len(ql.nodes)
    BY <1>4, ExactIs
  <2> HIDE DEF ql, q, c, o, d, zi, gone
  <2> QED
    BY <1>1, <1>4, <2>1
<1>7. o2 \in Int /\ (d = 1 => o2 >= 0) /\ (d = -1 => o2 < 0)
  BY <1>1
<1> HIDE DEF q, c, o, d, zi, ql, gone, step, r, c2, o2, f
<1>8. r \in Iters
  BY <1>1, <1>3, <1>4, <1>5, <1>6, <1>7, IsIter
<1> QED
  BY <1>8 DEF r

-----------------------------------------------------------------------------
(* The three loops that change a list or seek in it.                       *)

DelAll(first, s) ==
  FoldLeft(LAMBDA x, y : IF x.extent = 0 THEN x ELSE DelRound(x), first, s)

SeekAll(first, s, pivot) ==
  FoldLeft(LAMBDA x, y : IF x.current # 0 /\ x.zi /\ ElementOf(x) = pivot
                         THEN x ELSE quicklistNext(x), first, s)

RemAll(first, s, v) == FoldLeft(LAMBDA x, y : RemoveNext(x, v), first, s)

\* The forward iterators over q whose entry, where there is one, is in the node, and
\* the states of the loop of LREM.
Seekers(q) == {it \in Iters : /\ it.ql = q /\ it.direction = 1
                              /\ it.current # 0 => InHand(it) # 0}
Sweeps     == [it : Iters, left : Int]

LEMMA RemoveNextKept ==
  ASSUME NEW s \in Sweeps, NEW v
  PROVE  RemoveNext(s, v) \in Sweeps
<1> DEFINE it == quicklistNext(s.it)
           r == RemoveNext(s, v)
<1>1. s.it \in Iters /\ s.left \in Int /\ s = [it |-> s.it, left |-> s.left]
  BY DEF Sweeps
<1>2. it \in Iters /\ (it.current # 0 => InHand(it) # 0)
  BY <1>1, NextKept
<1> HIDE DEF it
<1>3. CASE s.left = 0
  BY <1>3 DEF RemoveNext
<1>4. CASE s.left # 0 /\ (it.current = 0 \/ ElementOf(it) # v)
  <2>1. r = [s EXCEPT !.it = it]
    BY <1>4 DEF RemoveNext, it
  <2>2. r = [it |-> it, left |-> s.left]
    BY <1>1, <2>1
  <2> QED
    BY <1>1, <1>2, <2>2 DEF Sweeps
<1>5. CASE s.left # 0 /\ ~(it.current = 0 \/ ElementOf(it) # v)
  <2>1. r = [it |-> quicklistDelEntry(it), left |-> s.left - 1]
    BY <1>5 DEF RemoveNext, it
  <2>2. quicklistDelEntry(it) \in Iters
    BY <1>2, <1>5, DelKept
  <2> QED
    BY <1>1, <2>1, <2>2 DEF Sweeps
<1> QED
  BY <1>3, <1>4, <1>5

\* The loops stay among their states.
LEMMA DelFold ==
  ASSUME NEW first \in DelStates, NEW Y, NEW s \in Seq(Y)
  PROVE  \E p : /\ p[0] = first /\ DelAll(first, s) = p[Len(s)]
                /\ \A k \in 0 .. Len(s) : p[k] \in DelStates
                /\ \A k \in 1 .. Len(s) : p[k] = IF p[k - 1].extent = 0 THEN p[k - 1] ELSE DelRound(p[k - 1])
<1> DEFINE n == Len(s)
           Op(x, y) == IF x.extent = 0 THEN x ELSE DelRound(x)
           Equation(g) == g = [T \in SUBSET (1 .. n) |->
                                 IF T = {} THEN first
                                 ELSE Op(g[T \ {Max(T)}], s[Max(T)])]
           h == CHOOSE g : Equation(g)
           st == [z \in DelStates \X Y |-> Op(z[1], z[2])]
           p == [k \in 0 .. n |-> h[1 .. k]]
           Good == [k \in 0 .. n |-> DelStates]
<1>1. n \in Nat /\ DOMAIN s = 1 .. n /\ \A i \in 1 .. n : s[i] \in Y
  OBVIOUS
<1>2. DelAll(first, s) = h[1 .. n]
  <2>1. DelAll(first, s)
          = LET g == CHOOSE g : g = [T \in SUBSET DOMAIN s |->
                                       IF T = {} THEN first
                                       ELSE Op(g[T \ {Max(T)}], s[Max(T)])]
            IN  g[DOMAIN s]
    BY DEF DelAll, FoldLeft, MapThenFoldSet
  <2> QED
    BY <1>1, <2>1
<1>3. ASSUME NEW x \in DelStates, NEW y PROVE Op(x, y) \in DelStates
  BY <1>3, DelRoundKept
<1> HIDE DEF Op, n
<1>4. st \in [DelStates \X Y -> DelStates]
  BY <1>3
<1>5. \E g : Equation(g)
  <2> HIDE DEF st
  <2>1. PICK g \in [SUBSET (1 .. n) -> DelStates] : Folds(g, st, first, s, n)
    <3>1. HasFold(DelStates, st, first, s, n)
      BY <1>1, <1>4, FoldExists
    <3> QED
      BY <3>1 DEF HasFold
  <2>2. ASSUME NEW T \in SUBSET (1 .. n), T # {}
        PROVE  st[<<g[T \ {Max(T)}], s[Max(T)]>>] = Op(g[T \ {Max(T)}], s[Max(T)])
    <3>1. Max(T) \in 1 .. n
      BY <1>1, <2>2, MaxIs
    <3>2. g[T \ {Max(T)}] \in DelStates /\ s[Max(T)] \in Y
      BY <1>1, <3>1
    <3> QED
      BY <3>2 DEF st
  <2>3. Equation(g)
    BY <2>1, <2>2 DEF Folds
  <2> QED
    BY <2>3
<1>6. Equation(h)
  BY <1>5
<1> HIDE DEF h
<1>7. p[0] \in Good[0]
  BY <1>1, <1>6, Rounds
<1>8. \A k \in 1 .. n : p[k - 1] \in Good[k - 1] => p[k] \in Good[k]
  <2>1. SUFFICES ASSUME NEW k \in 1 .. n, p[k - 1] \in Good[k - 1] PROVE p[k] \in Good[k]
    OBVIOUS
  <2>2. /\ 1 .. k # {} /\ Max(1 .. k) = k /\ (1 .. k) \ {k} = 1 .. (k - 1)
        /\ k \in 0 .. n /\ k - 1 \in 0 .. n /\ 1 .. k \in SUBSET (1 .. n)
    <3>1. k \in Nat \ {0} /\ k \in 0 .. n /\ k - 1 \in 0 .. n /\ 1 .. k \in SUBSET (1 .. n)
      BY <1>1
    <3> QED
      BY <3>1, Rounds
  <2>3. h[1 .. (k - 1)] \in DelStates
    BY <2>1, <2>2
  <2>4. h[1 .. k] = Op(h[1 .. (k - 1)], s[k])
    BY <1>6, <2>2
  <2> QED
    BY <1>3, <2>2, <2>3, <2>4
<1>11. \A k \in 1 .. n : p[k] = Op(p[k - 1], s[k])
  <2>1. SUFFICES ASSUME NEW k \in 1 .. n PROVE p[k] = Op(p[k - 1], s[k])
    OBVIOUS
  <2>2. /\ 1 .. k # {} /\ Max(1 .. k) = k /\ (1 .. k) \ {k} = 1 .. (k - 1)
        /\ k \in 0 .. n /\ k - 1 \in 0 .. n /\ 1 .. k \in SUBSET (1 .. n)
    <3>1. k \in Nat \ {0} /\ k \in 0 .. n /\ k - 1 \in 0 .. n /\ 1 .. k \in SUBSET (1 .. n)
      BY <1>1
    <3> QED
      BY <3>1, Rounds
  <2> QED
    BY <1>6, <2>2
<1>12. p[0] = first
  BY <1>1, <1>6, Rounds
<1>9. p[n] = h[1 .. n] /\ Good[n] = DelStates /\ n \in 0 .. n
  BY <1>1
<1> HIDE DEF p, Good
<1>10. \A k \in 0 .. n : p[k] \in Good[k]
  BY <1>1, <1>7, <1>8, Through
<1>13. \A k \in 0 .. n : Good[k] = DelStates
  BY DEF Good
<1>14. \A k \in 1 .. n : p[k] = IF p[k - 1].extent = 0 THEN p[k - 1] ELSE DelRound(p[k - 1])
  BY <1>11 DEF Op
<1>15. \A k \in 0 .. n : p[k] \in DelStates
  BY <1>10, <1>13
<1> QED
  BY <1>2, <1>9, <1>12, <1>14, <1>15 DEF n

LEMMA DelAllKept ==
  ASSUME NEW first \in DelStates, NEW Y, NEW s \in Seq(Y)
  PROVE  DelAll(first, s) \in DelStates
BY DelFold

LEMMA SeekFold ==
  ASSUME NEW q, NEW first \in Seekers(q), NEW Y, NEW s \in Seq(Y), NEW pivot
  PROVE  \E p : /\ p[0] = first /\ SeekAll(first, s, pivot) = p[Len(s)]
                /\ \A k \in 0 .. Len(s) : p[k] \in Seekers(q)
                /\ \A k \in 1 .. Len(s) : p[k] = IF p[k - 1].current # 0 /\ p[k - 1].zi /\ ElementOf(p[k - 1]) = pivot
                                         THEN p[k - 1] ELSE quicklistNext(p[k - 1])
<1> DEFINE n == Len(s)
           Op(x, y) == IF x.current # 0 /\ x.zi /\ ElementOf(x) = pivot
                       THEN x ELSE quicklistNext(x)
           Equation(g) == g = [T \in SUBSET (1 .. n) |->
                                 IF T = {} THEN first
                                 ELSE Op(g[T \ {Max(T)}], s[Max(T)])]
           h == CHOOSE g : Equation(g)
           st == [z \in Seekers(q) \X Y |-> Op(z[1], z[2])]
           p == [k \in 0 .. n |-> h[1 .. k]]
           Good == [k \in 0 .. n |-> Seekers(q)]
<1>1. n \in Nat /\ DOMAIN s = 1 .. n /\ \A i \in 1 .. n : s[i] \in Y
  OBVIOUS
<1>2. SeekAll(first, s, pivot) = h[1 .. n]
  <2>1. SeekAll(first, s, pivot)
          = LET g == CHOOSE g : g = [T \in SUBSET DOMAIN s |->
                                       IF T = {} THEN first
                                       ELSE Op(g[T \ {Max(T)}], s[Max(T)])]
            IN  g[DOMAIN s]
    BY DEF SeekAll, FoldLeft, MapThenFoldSet
  <2> QED
    BY <1>1, <2>1
<1>3. ASSUME NEW x \in Seekers(q), NEW y PROVE Op(x, y) \in Seekers(q)
  BY <1>3, NextKept DEF Seekers
<1> HIDE DEF Op, n
<1>4. st \in [Seekers(q) \X Y -> Seekers(q)]
  BY <1>3
<1>5. \E g : Equation(g)
  <2> HIDE DEF st
  <2>1. PICK g \in [SUBSET (1 .. n) -> Seekers(q)] : Folds(g, st, first, s, n)
    <3>1. HasFold(Seekers(q), st, first, s, n)
      BY <1>1, <1>4, FoldExists
    <3> QED
      BY <3>1 DEF HasFold
  <2>2. ASSUME NEW T \in SUBSET (1 .. n), T # {}
        PROVE  st[<<g[T \ {Max(T)}], s[Max(T)]>>] = Op(g[T \ {Max(T)}], s[Max(T)])
    <3>1. Max(T) \in 1 .. n
      BY <1>1, <2>2, MaxIs
    <3>2. g[T \ {Max(T)}] \in Seekers(q) /\ s[Max(T)] \in Y
      BY <1>1, <3>1
    <3> QED
      BY <3>2 DEF st
  <2>3. Equation(g)
    BY <2>1, <2>2 DEF Folds
  <2> QED
    BY <2>3
<1>6. Equation(h)
  BY <1>5
<1> HIDE DEF h
<1>7. p[0] \in Good[0]
  BY <1>1, <1>6, Rounds
<1>8. \A k \in 1 .. n : p[k - 1] \in Good[k - 1] => p[k] \in Good[k]
  <2>1. SUFFICES ASSUME NEW k \in 1 .. n, p[k - 1] \in Good[k - 1] PROVE p[k] \in Good[k]
    OBVIOUS
  <2>2. /\ 1 .. k # {} /\ Max(1 .. k) = k /\ (1 .. k) \ {k} = 1 .. (k - 1)
        /\ k \in 0 .. n /\ k - 1 \in 0 .. n /\ 1 .. k \in SUBSET (1 .. n)
    <3>1. k \in Nat \ {0} /\ k \in 0 .. n /\ k - 1 \in 0 .. n /\ 1 .. k \in SUBSET (1 .. n)
      BY <1>1
    <3> QED
      BY <3>1, Rounds
  <2>3. h[1 .. (k - 1)] \in Seekers(q)
    BY <2>1, <2>2
  <2>4. h[1 .. k] = Op(h[1 .. (k - 1)], s[k])
    BY <1>6, <2>2
  <2> QED
    BY <1>3, <2>2, <2>3, <2>4
<1>11. \A k \in 1 .. n : p[k] = Op(p[k - 1], s[k])
  <2>1. SUFFICES ASSUME NEW k \in 1 .. n PROVE p[k] = Op(p[k - 1], s[k])
    OBVIOUS
  <2>2. /\ 1 .. k # {} /\ Max(1 .. k) = k /\ (1 .. k) \ {k} = 1 .. (k - 1)
        /\ k \in 0 .. n /\ k - 1 \in 0 .. n /\ 1 .. k \in SUBSET (1 .. n)
    <3>1. k \in Nat \ {0} /\ k \in 0 .. n /\ k - 1 \in 0 .. n /\ 1 .. k \in SUBSET (1 .. n)
      BY <1>1
    <3> QED
      BY <3>1, Rounds
  <2> QED
    BY <1>6, <2>2
<1>12. p[0] = first
  BY <1>1, <1>6, Rounds
<1>9. p[n] = h[1 .. n] /\ Good[n] = Seekers(q) /\ n \in 0 .. n
  BY <1>1
<1> HIDE DEF p, Good
<1>10. \A k \in 0 .. n : p[k] \in Good[k]
  BY <1>1, <1>7, <1>8, Through
<1>13. \A k \in 0 .. n : Good[k] = Seekers(q)
  BY DEF Good
<1>14. \A k \in 1 .. n : p[k] = IF p[k - 1].current # 0 /\ p[k - 1].zi /\ ElementOf(p[k - 1]) = pivot
                                         THEN p[k - 1] ELSE quicklistNext(p[k - 1])
  BY <1>11 DEF Op
<1>15. \A k \in 0 .. n : p[k] \in Seekers(q)
  BY <1>10, <1>13
<1> QED
  BY <1>2, <1>9, <1>12, <1>14, <1>15 DEF n

LEMMA SeekAllKept ==
  ASSUME NEW q, NEW first \in Seekers(q), NEW Y, NEW s \in Seq(Y), NEW pivot
  PROVE  SeekAll(first, s, pivot) \in Seekers(q)
BY SeekFold

LEMMA RemFold ==
  ASSUME NEW first \in Sweeps, NEW Y, NEW s \in Seq(Y), NEW v
  PROVE  \E p : /\ p[0] = first /\ RemAll(first, s, v) = p[Len(s)]
                /\ \A k \in 0 .. Len(s) : p[k] \in Sweeps
                /\ \A k \in 1 .. Len(s) : p[k] = RemoveNext(p[k - 1], v)
<1> DEFINE n == Len(s)
           Op(x, y) == RemoveNext(x, v)
           Equation(g) == g = [T \in SUBSET (1 .. n) |->
                                 IF T = {} THEN first
                                 ELSE Op(g[T \ {Max(T)}], s[Max(T)])]
           h == CHOOSE g : Equation(g)
           st == [z \in Sweeps \X Y |-> Op(z[1], z[2])]
           p == [k \in 0 .. n |-> h[1 .. k]]
           Good == [k \in 0 .. n |-> Sweeps]
<1>1. n \in Nat /\ DOMAIN s = 1 .. n /\ \A i \in 1 .. n : s[i] \in Y
  OBVIOUS
<1>2. RemAll(first, s, v) = h[1 .. n]
  <2>1. RemAll(first, s, v)
          = LET g == CHOOSE g : g = [T \in SUBSET DOMAIN s |->
                                       IF T = {} THEN first
                                       ELSE Op(g[T \ {Max(T)}], s[Max(T)])]
            IN  g[DOMAIN s]
    BY DEF RemAll, FoldLeft, MapThenFoldSet
  <2> QED
    BY <1>1, <2>1
<1>3. ASSUME NEW x \in Sweeps, NEW y PROVE Op(x, y) \in Sweeps
  BY <1>3, RemoveNextKept
<1> HIDE DEF Op, n
<1>4. st \in [Sweeps \X Y -> Sweeps]
  BY <1>3
<1>5. \E g : Equation(g)
  <2> HIDE DEF st
  <2>1. PICK g \in [SUBSET (1 .. n) -> Sweeps] : Folds(g, st, first, s, n)
    <3>1. HasFold(Sweeps, st, first, s, n)
      BY <1>1, <1>4, FoldExists
    <3> QED
      BY <3>1 DEF HasFold
  <2>2. ASSUME NEW T \in SUBSET (1 .. n), T # {}
        PROVE  st[<<g[T \ {Max(T)}], s[Max(T)]>>] = Op(g[T \ {Max(T)}], s[Max(T)])
    <3>1. Max(T) \in 1 .. n
      BY <1>1, <2>2, MaxIs
    <3>2. g[T \ {Max(T)}] \in Sweeps /\ s[Max(T)] \in Y
      BY <1>1, <3>1
    <3> QED
      BY <3>2 DEF st
  <2>3. Equation(g)
    BY <2>1, <2>2 DEF Folds
  <2> QED
    BY <2>3
<1>6. Equation(h)
  BY <1>5
<1> HIDE DEF h
<1>7. p[0] \in Good[0]
  BY <1>1, <1>6, Rounds
<1>8. \A k \in 1 .. n : p[k - 1] \in Good[k - 1] => p[k] \in Good[k]
  <2>1. SUFFICES ASSUME NEW k \in 1 .. n, p[k - 1] \in Good[k - 1] PROVE p[k] \in Good[k]
    OBVIOUS
  <2>2. /\ 1 .. k # {} /\ Max(1 .. k) = k /\ (1 .. k) \ {k} = 1 .. (k - 1)
        /\ k \in 0 .. n /\ k - 1 \in 0 .. n /\ 1 .. k \in SUBSET (1 .. n)
    <3>1. k \in Nat \ {0} /\ k \in 0 .. n /\ k - 1 \in 0 .. n /\ 1 .. k \in SUBSET (1 .. n)
      BY <1>1
    <3> QED
      BY <3>1, Rounds
  <2>3. h[1 .. (k - 1)] \in Sweeps
    BY <2>1, <2>2
  <2>4. h[1 .. k] = Op(h[1 .. (k - 1)], s[k])
    BY <1>6, <2>2
  <2> QED
    BY <1>3, <2>2, <2>3, <2>4
<1>11. \A k \in 1 .. n : p[k] = Op(p[k - 1], s[k])
  <2>1. SUFFICES ASSUME NEW k \in 1 .. n PROVE p[k] = Op(p[k - 1], s[k])
    OBVIOUS
  <2>2. /\ 1 .. k # {} /\ Max(1 .. k) = k /\ (1 .. k) \ {k} = 1 .. (k - 1)
        /\ k \in 0 .. n /\ k - 1 \in 0 .. n /\ 1 .. k \in SUBSET (1 .. n)
    <3>1. k \in Nat \ {0} /\ k \in 0 .. n /\ k - 1 \in 0 .. n /\ 1 .. k \in SUBSET (1 .. n)
      BY <1>1
    <3> QED
      BY <3>1, Rounds
  <2> QED
    BY <1>6, <2>2
<1>12. p[0] = first
  BY <1>1, <1>6, Rounds
<1>9. p[n] = h[1 .. n] /\ Good[n] = Sweeps /\ n \in 0 .. n
  BY <1>1
<1> HIDE DEF p, Good
<1>10. \A k \in 0 .. n : p[k] \in Good[k]
  BY <1>1, <1>7, <1>8, Through
<1>13. \A k \in 0 .. n : Good[k] = Sweeps
  BY DEF Good
<1>14. \A k \in 1 .. n : p[k] = RemoveNext(p[k - 1], v)
  BY <1>11 DEF Op
<1>15. \A k \in 0 .. n : p[k] \in Sweeps
  BY <1>10, <1>13
<1> QED
  BY <1>2, <1>9, <1>12, <1>14, <1>15 DEF n

LEMMA RemAllKept ==
  ASSUME NEW first \in Sweeps, NEW Y, NEW s \in Seq(Y), NEW v
  PROVE  RemAll(first, s, v) \in Sweeps
BY RemFold

-----------------------------------------------------------------------------
(* What each command leaves of an exact list.                              *)

\* Where the loop of quicklistDelRange begins when LTRIM calls it.
DelRangeFirst(q, start, count) ==
  [ql     |-> q,
   i      |-> quicklistIndex(q, start)[1],
   offset |-> quicklistIndex(q, start)[2],
   extent |-> Min({count, IF start >= 0 THEN q.count - start ELSE -start})]

LEMMA DelRangeFrom ==
  ASSUME NEW q \in Exact, NEW start \in Int, NEW count \in Int,
         start = 0 \/ start = -count, count > 0, quicklistIndex(q, start)[1] # 0
  PROVE  /\ DelRangeFirst(q, start, count) \in DelStates
         /\ DelRangeFirst(q, start, count).extent \in
              {count, IF start >= 0 THEN q.count - start ELSE -start}
         /\ DelRangeFirst(q, start, count).extent <= count
         /\ DelRangeFirst(q, start, count).extent <=
              IF start >= 0 THEN q.count - start ELSE -start
<1> DEFINE a == count
           b == IF start >= 0 THEN q.count - start ELSE -start
           x == Min({a, b})
           i == quicklistIndex(q, start)[1]
           o == quicklistIndex(q, start)[2]
           ns == q.nodes
           first == DelRangeFirst(q, start, count)
<1>1. /\ ns \in Seq(Full) /\ Len(ns) \in Nat /\ DOMAIN ns = 1 .. Len(ns)
      /\ q.count = Size(ns) /\ q.count \in Nat
  BY ExactIs
<1>2. /\ i \in 1 .. Len(ns) /\ o \in Int
      /\ start >= 0 => 0 <= o /\ o < ns[i].count /\ start = Size(Pre(ns, i)) + o
      /\ start < 0 => /\ o < 0 /\ -o <= ns[i].count
                      /\ start = o - Size(Rest(ns, i + 1))
  <2> HIDE DEF i, o
  <2> QED
    BY IndexFound DEF i, o
<1>12. first = [ql |-> q, i |-> i, offset |-> o, extent |-> x]
  BY DEF DelRangeFirst
<1> HIDE DEF i, o, first
<1>3. i \in 1 .. Len(ns) + 1
  BY <1>1, <1>2
<1>4. /\ Size(ns) = Size(Pre(ns, i)) + Size(Rest(ns, i))
      /\ Size(Pre(ns, i)) \in Nat /\ Size(Rest(ns, i)) \in Nat
  BY <1>1, <1>3, SizeSplit
<1>5. Size(Rest(ns, i + 1)) \in Nat
  BY <1>1, <1>2, SizeStep
<1> DEFINE sn == Size(ns)
           sp == Size(Pre(ns, i))
           sr == Size(Rest(ns, i))
           sa == Size(Rest(ns, i + 1))
<1>6. a \in Nat /\ b \in Nat
  BY <1>1
<1>7. x \in {a, b} /\ x <= a /\ x <= b
  <2> DEFINE A == {a, b}
  <2>1. A \in SUBSET Nat /\ A # {} /\ a \in A /\ b \in A
    BY <1>6
  <2> HIDE DEF A, a, b
  <2>2. Min(A) \in A /\ Min(A) <= a /\ Min(A) <= b
    BY <2>1, MinIs
  <2> QED
    BY <2>2 DEF A
<1> HIDE DEF x, ns
<1>8. \/ o = 0 /\ x <= Size(Rest(ns, i))
      \/ o < 0 /\ -o <= ns[i].count /\ x <= -o + Size(Rest(ns, i + 1))
  <2>1. CASE start = 0
    <3>1. b = sn /\ sp + o = 0 /\ 0 <= o
      BY <1>1, <1>2, <2>1
    <3>2. o = 0 /\ sp = 0
      BY <1>2, <1>4, <3>1
    <3>3. x <= sr
      BY <1>4, <1>6, <1>7, <3>1, <3>2
    <3> QED
      BY <3>2, <3>3
  <2>2. CASE start # 0
    <3>1. start = -count /\ start < 0
      BY <2>2
    <3>2. b = -o + sa
      BY <1>2, <1>5, <3>1
    <3> QED
      BY <1>2, <1>6, <1>7, <3>1, <3>2
  <2> QED
    BY <2>1, <2>2
<1>9. x \in Nat /\ i \in Nat /\ o \in Int /\ i \in DOMAIN ns
  BY <1>1, <1>2, <1>6, <1>7
<1>10. first.ql = q /\ first.i = i /\ first.offset = o /\ first.extent = x
  BY <1>12
<1>11. Reach(first)
  BY <1>8, <1>9, <1>10 DEF Reach, ns
<1>13. first \in DelStates
  BY <1>9, <1>11, <1>12, DelState
<1> QED
  BY <1>7, <1>10, <1>13 DEF first

LEMMA DelRangeExact ==
  ASSUME NEW q \in Exact, NEW start \in Int, NEW count \in Int,
         start = 0 \/ start = -count
  PROVE  quicklistDelRange(q, start, count) \in Exact
<1> DEFINE i == quicklistIndex(q, start)[1]
           ns == q.nodes
           first == DelRangeFirst(q, start, count)
           last == DelAll(first, ns)
<1>1. quicklistDelRange(q, start, count) = IF count <= 0 \/ i = 0 THEN q ELSE last.ql
  BY DEF quicklistDelRange, DelAll, DelRangeFirst
<1>2. CASE count <= 0 \/ i = 0
  BY <1>1, <1>2
<1>3. CASE ~(count <= 0 \/ i = 0)
  <2>1. ns \in Seq(Full)
    BY ExactIs
  <2>2. first \in DelStates
    BY <1>3, DelRangeFrom
  <2> HIDE DEF first
  <2>3. last \in DelStates
    BY <2>1, <2>2, DelAllKept
  <2> HIDE DEF last
  <2>4. last.ql \in Exact
    BY <2>3 DEF DelStates
  <2> QED
    BY <1>1, <1>3, <2>4
<1> QED
  BY <1>2, <1>3

LEMMA EntriesIs ==
  ASSUME NEW q \in Exact
  PROVE  Entries(q) = Flat(q.nodes) /\ Entries(q) \in Seq(Value) /\ Len(Entries(q)) = q.count
<1>1. q.nodes \in Seq(Full) /\ q.count = Size(q.nodes)
  BY ExactIs
<1>2. Entries(q) = Flat(q.nodes)
  BY DEF Entries, Flat, Zls
<1>3. Flat(q.nodes) \in Seq(Value)
  BY <1>1, FlatType
<1> QED
  BY <1>1, <1>2, <1>3 DEF Size

\* The entry LINSERT finds is one of the list.
LEMMA SeekFound ==
  ASSUME NEW q \in Exact, NEW pivot, NEW it,
         it = SeekAll(listTypeInitIterator(q, 1), <<"first">> \o Entries(q), pivot),
         it.current # 0
  PROVE  /\ it.current \in 1 .. Len(q.nodes)
         /\ it.offset \in 0 .. q.nodes[it.current].count - 1
<1> DEFINE s == <<"first">> \o Entries(q)
           Y == {"first"} \cup Value
           first == listTypeInitIterator(q, 1)
           c == it.current
           o == it.offset
<1>1. s \in Seq(Y)
  <2> DEFINE e == Entries(q)
             w == <<"first">>
  <2>1. e \in Seq(Y)
    BY EntriesIs, SeqMonotonic
  <2>2. w \in Seq(Y)
    OBVIOUS
  <2> HIDE DEF e, w, Y
  <2>3. w \o e \in Seq(Y)
    BY <2>1, <2>2, ConcatProperties
  <2> QED
    BY <2>3 DEF w, e
<1>2. 1 \in {1, -1}
  OBVIOUS
<1>3. first \in Iters /\ first.ql = q /\ first.direction = 1
      /\ (first.current # 0 => InHand(first) # 0)
  BY <1>2, IterStart
<1> HIDE DEF first, s, Y
<1>4. first \in Seekers(q)
  BY <1>3 DEF Seekers
<1>5. it \in Seekers(q)
  BY <1>1, <1>4, SeekAllKept DEF first, s
<1>6. /\ it \in Iters /\ it.ql = q /\ it.direction = 1 /\ InHand(it) # 0
  BY <1>5 DEF Seekers
<1>7. /\ c \in DOMAIN q.nodes /\ o \in Int /\ o >= 0 /\ c \in Nat
  BY <1>6, IterIs
<1> DEFINE zl == q.nodes[c].zl
           n == Len(zl)
<1>8. zl \in Seq(Value) /\ q.nodes[c].count = n /\ n \in Nat /\ c \in 1 .. Len(q.nodes)
  BY <1>7, NodeOf
<1>9. ziplistIndex(zl, o) # 0
  BY <1>6 DEF InHand
<1> HIDE DEF zl, c, o
<1>10. o >= n => ziplistIndex(zl, o) = 0
  BY <1>7, <1>8, ZiplistIndex
<1> HIDE DEF n
<1>11. o \in 0 .. n - 1
  BY <1>7, <1>8, <1>9, <1>10
<1> QED
  BY <1>8, <1>11 DEF c, o

\* What LREM leaves.
LEMMA SweptExact ==
  ASSUME NEW q \in Exact, NEW d \in {1, -1}, NEW size \in Int, NEW v
  PROVE  RemAll([it |-> listTypeInitIterator(q, d), left |-> size], Entries(q), v).it.ql \in Exact
<1> DEFINE first == [it |-> listTypeInitIterator(q, d), left |-> size]
           s == Entries(q)
<1>1. first \in Sweeps
  BY IterStart DEF Sweeps
<1>2. s \in Seq(Value)
  BY EntriesIs
<1> HIDE DEF first, s
<1>3. RemAll(first, s, v) \in Sweeps
  BY <1>1, <1>2, RemAllKept
<1>4. RemAll(first, s, v).it \in Iters
  BY <1>3 DEF Sweeps
<1>5. RemAll(first, s, v).it.ql \in Exact
  BY <1>4, IterIs
<1> QED
  BY <1>5 DEF first, s

-----------------------------------------------------------------------------
(* The invariant: a key that holds a list holds an exact one with entries. *)

Holds(x) ==
  \/ x \in {None, Foreign}
  \/ \E q \in Exact : q.count > 0 /\ x = List(q)

ListInv == Holds(val)

LEMMA HeldList ==
  ASSUME ListInv, IsList
  PROVE  val.ql \in Exact /\ val.ql.count > 0 /\ val.ql.count \in Nat
<1>1. PICK q \in Exact : q.count > 0 /\ val = List(q)
  BY DEF ListInv, Holds, IsList, None, Foreign
<1>2. val.ql = q
  BY <1>1 DEF List
<1> QED
  BY <1>1, <1>2, ExactIs

LEMMA KeepHolds ==
  ASSUME NEW q \in Exact
  PROVE  Holds(Keep(q))
<1>1. q.count \in Nat
  BY ExactIs
<1> QED
  BY <1>1 DEF Keep, Holds

LEMMA ListHolds ==
  ASSUME NEW q \in Exact, q.count > 0
  PROVE  Holds(List(q))
BY DEF Holds

LEMMA CreateExact ==
  quicklistCreate \in Exact /\ quicklistCreate.count = 0
<1> DEFINE ns == <<>>
           c == 0
<1>1. ns \in Seq(Full) /\ c = Size(ns)
  BY EmptySeq, FlatEmpty DEF Size
<1>2. quicklistCreate = [nodes |-> ns, count |-> c]
  BY DEF quicklistCreate
<1> HIDE DEF ns
<1>3. [nodes |-> ns, count |-> c] \in Exact
  BY <1>1, IsExact
<1> QED
  BY <1>2, <1>3

LEMMA PushHolds ==
  ASSUME NEW q \in Exact, NEW vals \in ValueLists, NEW where
  PROVE  Holds(List(listTypePush(q, vals, where)))
<1>1. vals \in Seq(Value) /\ vals # <<>>
  BY ListTypeAssumption
<1>2. Len(vals) \in Nat \ {0} /\ q.count \in Nat
  BY <1>1, EmptySeq, ExactIs
<1> DEFINE r == listTypePush(q, vals, where)
<1>3. r \in Exact /\ r.count = q.count + Len(vals)
  BY <1>1, PushAllExact
<1> HIDE DEF r
<1>4. r.count > 0
  BY <1>2, <1>3
<1>5. Holds(List(r))
  BY <1>3, <1>4, ListHolds
<1> QED
  BY <1>5 DEF r

\* The bounds of a trim are integers.
LEMMA OfTwo ==
  ASSUME NEW a \in Int, NEW b \in Int
  PROVE  Max({a, b}) \in Int /\ Min({a, b}) \in Int
<1> DEFINE A == {a, b}
           P(x) == x \in A /\ \A y \in A : x >= y
           R(x) == x \in A /\ \A y \in A : x <= y
<1>1. (\E x : P(x)) /\ (\E x : R(x))
  <2>1. CASE a <= b
    <3>1. P(b) /\ R(a)
      BY <2>1
    <3> QED
      BY <3>1
  <2>2. CASE ~(a <= b)
    <3>1. P(a) /\ R(b)
      BY <2>2
    <3> QED
      BY <3>1
  <2> QED
    BY <2>1, <2>2
<1>2. Max(A) = CHOOSE x : P(x)
  BY DEF Max
<1>3. Min(A) = CHOOSE x : R(x)
  BY DEF Min
<1>4. P(CHOOSE x : P(x)) /\ R(CHOOSE x : R(x))
  <2> HIDE DEF P, R
  <2> QED
    BY <1>1
<1>5. Max(A) \in A /\ Min(A) \in A
  BY <1>2, <1>3, <1>4
<1> HIDE DEF A
<1>6. A \subseteq Int
  BY DEF A
<1>7. Max(A) \in Int /\ Min(A) \in Int
  BY <1>5, <1>6
<1> QED
  BY <1>7 DEF A

LEMMA InitHolds ==
  ASSUME Init
  PROVE  ListInv
BY DEF Init, ListInv, Holds

LEMMA PushStep ==
  ASSUME ListInv, NEW vals \in ValueLists, NEW where,
         pushGenericCommand(where, vals) \/ pushxGenericCommand(where, vals)
  PROVE  ListInv'
<1>1. CASE UNCHANGED val
  BY <1>1 DEF ListInv
<1>2. CASE ~(UNCHANGED val)
  <2> DEFINE q == IF IsList THEN val.ql ELSE quicklistCreate
  <2>1. q \in Exact
    BY HeldList, CreateExact
  <2>2. val' = List(listTypePush(q, vals, where))
    BY <1>2 DEF pushGenericCommand, pushxGenericCommand, NotAList
  <2> HIDE DEF q
  <2> QED
    BY <2>1, <2>2, PushHolds DEF ListInv
<1> QED
  BY <1>1, <1>2

LEMMA PopStep ==
  ASSUME ListInv, NEW where, popGenericCommand(where)
  PROVE  ListInv'
<1>1. CASE NotAList("pop", where)
  BY <1>1 DEF NotAList, ListInv
<1>2. CASE ~NotAList("pop", where)
  <2>1. IsList /\ val' = Keep(quicklistPopCustom(val.ql, where).ql)
    BY <1>2 DEF popGenericCommand
  <2>2. quicklistPopCustom(val.ql, where).ql \in Exact
    BY <2>1, HeldList, PopExact
  <2> QED
    BY <2>1, <2>2, KeepHolds DEF ListInv
<1> QED
  BY <1>1, <1>2

LEMMA InsertStep ==
  ASSUME ListInv, NEW w \in Ends, NEW pivot \in Value, NEW v \in Value,
         RcLInsert(w, pivot, v)
  PROVE  ListInv'
<1>1. CASE NotAList("linsert", <<w, pivot, v>>)
  BY <1>1 DEF NotAList, ListInv
<1>2. CASE ~NotAList("linsert", <<w, pivot, v>>)
  <2> DEFINE q == val.ql
             after == w = "tail"
             found == SeekAll(listTypeInitIterator(q, 1), <<"first">> \o Entries(q), pivot)
             c == found.current
             o == found.offset
             r == _quicklistInsert(q, c, o, v, after)
  <2>1. IsList /\ val' = IF c = 0 THEN val ELSE List(r)
    BY <1>2 DEF RcLInsert, SeekAll
  <2>2. q \in Exact /\ q.count \in Nat
    BY <2>1, HeldList
  <2>3. CASE c = 0
    BY <2>1, <2>3 DEF ListInv
  <2>4. CASE c # 0
    <3> HIDE DEF q, after
    <3>1. c \in 1 .. Len(q.nodes) /\ o \in 0 .. q.nodes[c].count - 1
      <4> HIDE DEF found
      <4> QED
        BY <2>2, <2>4, SeekFound DEF found
    <3> HIDE DEF c, o
    <3>2. r \in Exact /\ r.count = q.count + 1
      BY <2>2, <3>1, InsertExact
    <3> HIDE DEF r
    <3>3. r.count > 0
      BY <2>2, <3>2
    <3>4. val' = List(r)
      BY <2>1, <2>4
    <3> QED
      BY <3>2, <3>3, <3>4, ListHolds DEF ListInv
  <2> QED
    BY <2>3, <2>4
<1> QED
  BY <1>1, <1>2

LEMMA RemStep ==
  ASSUME ListInv, NEW count \in Indexes, NEW v \in Value, RcLRem(count, v)
  PROVE  ListInv'
<1>1. CASE NotAList("lrem", <<count, v>>)
  BY <1>1 DEF NotAList, ListInv
<1>2. CASE ~NotAList("lrem", <<count, v>>)
  <2> DEFINE q == val.ql
             d == IF count < 0 THEN -1 ELSE 1
             size == IF count < 0 THEN -count ELSE IF count = 0 THEN -1 ELSE count
             swept == RemAll([it |-> listTypeInitIterator(q, d), left |-> size], Entries(q), v)
  <2>1. IsList /\ val' = Keep(swept.it.ql)
    BY <1>2 DEF RcLRem, RemAll
  <2>2. q \in Exact
    BY <2>1, HeldList
  <2>3. d \in {1, -1} /\ size \in Int
    BY ListTypeAssumption
  <2>4. swept.it.ql \in Exact
    <3> HIDE DEF q, d, size
    <3> QED
      BY <2>2, <2>3, SweptExact
  <2> HIDE DEF swept
  <2> QED
    BY <2>1, <2>4, KeepHolds DEF ListInv
<1> QED
  BY <1>1, <1>2

LEMMA SetStep ==
  ASSUME ListInv, NEW i \in Indexes, NEW v \in Value, RcLSet(i, v)
  PROVE  ListInv'
<1>1. CASE UNCHANGED val
  BY <1>1 DEF ListInv
<1>2. CASE ~(UNCHANGED val)
  <2> DEFINE r == quicklistReplaceAtIndex(val.ql, i, v)
  <2>1. IsList /\ quicklistIndex(val.ql, i)[1] # 0 /\ val' = List(r)
    BY <1>2 DEF RcLSet, NotAList
  <2>2. val.ql \in Exact /\ val.ql.count > 0 /\ i \in Int
    BY <2>1, HeldList, ListTypeAssumption
  <2>3. r \in Exact /\ r.count = val.ql.count
    BY <2>1, <2>2, ReplaceExact
  <2> HIDE DEF r
  <2>4. r.count > 0
    BY <2>2, <2>3
  <2> QED
    BY <2>1, <2>3, <2>4, ListHolds DEF ListInv
<1> QED
  BY <1>1, <1>2

LEMMA TrimStep ==
  ASSUME ListInv, NEW start \in Indexes, NEW end \in Indexes, RcLTrim(start, end)
  PROVE  ListInv'
<1>1. CASE NotAList("ltrim", <<start, end>>)
  BY <1>1 DEF NotAList, ListInv
<1>2. CASE ~NotAList("ltrim", <<start, end>>)
  <2> DEFINE q == val.ql
             llen == q.count
             empty == First(start, llen) > Final(end, llen)
             ltrim == IF empty THEN llen ELSE First(start, llen)
             rtrim == IF empty THEN 0 ELSE llen - Final(end, llen) - 1
             left == quicklistDelRange(q, 0, ltrim)
             r == quicklistDelRange(left, -rtrim, rtrim)
  <2>1. IsList /\ val' = Keep(r)
    BY <1>2 DEF RcLTrim
  <2>2. q \in Exact /\ llen \in Int
    BY <2>1, HeldList
  <2>3. First(start, llen) \in Int /\ Final(end, llen) \in Int
    <3> HIDE DEF llen
    <3>1. start \in Int /\ end \in Int
      BY ListTypeAssumption
    <3> DEFINE a == IF start < 0 THEN llen + start ELSE start
               b == IF end < 0 THEN llen + end ELSE end
               k == llen - 1
    <3>2. a \in Int /\ b \in Int /\ k \in Int /\ 0 \in Int
      BY <2>2, <3>1
    <3> HIDE DEF a, b, k
    <3>3. Max({0, a}) \in Int /\ Min({k, b}) \in Int
      BY <3>2, OfTwo
    <3> QED
      BY <3>3 DEF First, Final, a, b, k
  <2>4. ltrim \in Int /\ rtrim \in Int /\ -rtrim \in Int /\ 0 \in Int
    BY <2>2, <2>3
  <2> HIDE DEF q, ltrim, rtrim
  <2>5. left \in Exact
    BY <2>2, <2>4, DelRangeExact
  <2> HIDE DEF left
  <2>6. r \in Exact
    BY <2>4, <2>5, DelRangeExact
  <2> HIDE DEF r
  <2> QED
    BY <2>1, <2>6, KeepHolds DEF ListInv
<1> QED
  BY <1>1, <1>2

LEMMA StepHolds ==
  ASSUME ListInv, [Next]_vars
  PROVE  ListInv'
<1>1. ASSUME NEW vals \in ValueLists,
             RcLPush(vals) \/ RcRPush(vals) \/ RcLPushx(vals) \/ RcRPushx(vals)
      PROVE  ListInv'
  BY <1>1, PushStep DEF RcLPush, RcRPush, RcLPushx, RcRPushx
<1>2. ASSUME RcLPop \/ RcRPop PROVE ListInv'
  BY <1>2, PopStep DEF RcLPop, RcRPop
<1>3. ASSUME NEW w \in Ends, NEW pivot \in Value, NEW v \in Value, RcLInsert(w, pivot, v)
      PROVE  ListInv'
  BY <1>3, InsertStep
<1>4. ASSUME NEW i \in Indexes, NEW v \in Value, RcLRem(i, v) \/ RcLSet(i, v)
      PROVE  ListInv'
  BY <1>4, RemStep, SetStep
<1>5. ASSUME NEW i \in Indexes, NEW j \in Indexes, RcLTrim(i, j) \/ RcLRange(i, j)
      PROVE  ListInv'
  <2>1. CASE RcLTrim(i, j)
    BY <2>1, TrimStep
  <2>2. CASE RcLRange(i, j)
    BY <2>2 DEF RcLRange, NotAList, ListInv
  <2> QED
    BY <1>5, <2>1, <2>2
<1>6. ASSUME NEW i \in Indexes, RcLIndex(i) PROVE ListInv'
  BY <1>6 DEF RcLIndex, NotAList, ListInv
<1>7. ASSUME RcLLen PROVE ListInv'
  BY <1>7 DEF RcLLen, NotAList, ListInv
<1>8. ASSUME Vanish \/ Become PROVE ListInv'
  BY <1>8 DEF Vanish, Become, ListInv, Holds
<1>9. ASSUME UNCHANGED vars PROVE ListInv'
  BY <1>9 DEF vars, ListInv
<1> QED
  BY <1>1, <1>2, <1>3, <1>4, <1>5, <1>6, <1>7, <1>8, <1>9 DEF Next

LEMMA InvCounts ==
  ASSUME ListInv
  PROVE  NodesCounted /\ NoEmptyList
<1>1. ASSUME val.type = "list" PROVE NodesCounted /\ NoEmptyList
  <2> DEFINE q == val.ql
  <2>1. q \in Exact /\ q.count > 0
    BY <1>1, HeldList DEF IsList
  <2>2. q.count = Len(Entries(q))
    BY <2>1, EntriesIs
  <2>3. ASSUME NEW i \in DOMAIN q.nodes
        PROVE  /\ q.nodes[i].zl \in Seq(Value) \ {<<>>}
               /\ q.nodes[i].count = Len(q.nodes[i].zl)
               /\ q.nodes[i].sz = ziplistBlobLen(q.nodes[i].zl)
    BY <2>1, NodeOf, FullNode
  <2> QED
    BY <2>1, <2>2, <2>3 DEF NodesCounted, NoEmptyList
<1> QED
  BY <1>1 DEF NodesCounted, NoEmptyList

\* Whatever the commands do, in whatever order, the cached counts and sizes of
\* a list are those of its entries, and no node is empty (quicklist.c).
THEOREM CountsHold == Spec => []NodesCounted
<1>1. Init => ListInv
  BY InitHolds
<1>2. ListInv /\ [Next]_vars => ListInv'
  BY StepHolds
<1>3. ListInv => NodesCounted
  BY InvCounts
<1> QED
  BY <1>1, <1>2, <1>3, PTL DEF Spec

\* A command that takes the last entry takes the key with it (t_list.c).
THEOREM NoEmptyListStays == Spec => []NoEmptyList
<1>1. Init => ListInv
  BY InitHolds
<1>2. ListInv /\ [Next]_vars => ListInv'
  BY StepHolds
<1>3. ListInv => NoEmptyList
  BY InvCounts
<1> QED
  BY <1>1, <1>2, <1>3, PTL DEF Spec

-----------------------------------------------------------------------------
(* Sequences position by position: what is inserted, what is cut out, and  *)
(* what such a change of a part does to the whole.                         *)

\* r is s with x before position i.
IsInsert(r, s, i, x) ==
  /\ Len(r) = Len(s) + 1
  /\ \A j \in 1 .. Len(r) : r[j] = IF j < i THEN s[j] ELSE IF j = i THEN x ELSE s[j - 1]

\* r is s without the k elements behind position p.
IsCut(r, s, p, k) ==
  /\ Len(r) = Len(s) - k
  /\ \A j \in 1 .. Len(r) : r[j] = IF j <= p THEN s[j] ELSE s[j + k]

\* f is a, z and b, end to end.
IsThree(f, a, z, b) ==
  /\ Len(f) = Len(a) + Len(z) + Len(b)
  /\ \A j \in 1 .. Len(f) :
       f[j] = IF j <= Len(a) THEN a[j]
              ELSE IF j <= Len(a) + Len(z) THEN z[j - Len(a)]
              ELSE b[j - Len(a) - Len(z)]

Cut(s, p, k) == SubSeq(s, 1, p) \o SubSeq(s, p + k + 1, Len(s))

LEMMA ThreeIs ==
  ASSUME NEW S, NEW a \in Seq(S), NEW z \in Seq(S), NEW b \in Seq(S)
  PROVE  /\ (a \o z) \o b \in Seq(S)
         /\ IsThree((a \o z) \o b, a, z, b)
<1> DEFINE d == a \o z
           f == d \o b
<1>1. /\ d \in Seq(S) /\ Len(d) = Len(a) + Len(z)
      /\ \A j \in 1 .. Len(a) + Len(z) : d[j] = IF j <= Len(a) THEN a[j] ELSE z[j - Len(a)]
  BY ConcatProperties
<1> HIDE DEF d
<1>2. /\ f \in Seq(S) /\ Len(f) = Len(d) + Len(b)
      /\ \A j \in 1 .. Len(d) + Len(b) : f[j] = IF j <= Len(d) THEN d[j] ELSE b[j - Len(d)]
  <2>1. d \in Seq(S) /\ b \in Seq(S)
    BY <1>1
  <2> QED
    BY <2>1, ConcatProperties
<1> HIDE DEF f
<1> DEFINE la == Len(a)
           lz == Len(z)
           lb == Len(b)
<1>3. la \in Nat /\ lz \in Nat /\ lb \in Nat
  OBVIOUS
<1>4. /\ \A j \in 1 .. la + lz : d[j] = IF j <= la THEN a[j] ELSE z[j - la]
      /\ \A j \in 1 .. (la + lz) + lb :
           f[j] = IF j <= la + lz THEN d[j] ELSE b[j - (la + lz)]
      /\ Len(f) = (la + lz) + lb
  BY <1>1, <1>2
<1> HIDE DEF la, lz, lb
<1>5. ASSUME NEW j \in 1 .. la + lz + lb
      PROVE  f[j] = IF j <= la THEN a[j] ELSE IF j <= la + lz THEN z[j - la] ELSE b[j - la - lz]
  <2>1. j \in 1 .. (la + lz) + lb /\ (j <= la => j <= la + lz) /\ j - (la + lz) = j - la - lz
    BY <1>3
  <2>2. CASE j <= la + lz
    <3>1. j \in 1 .. la + lz
      BY <1>3, <2>2
    <3> QED
      BY <1>4, <2>1, <2>2, <3>1
  <2>3. CASE ~(j <= la + lz)
    BY <1>4, <2>1, <2>3
  <2> QED
    BY <2>2, <2>3
<1> QED
  BY <1>2, <1>3, <1>4, <1>5 DEF IsThree, d, f, la, lz, lb

LEMMA InsertIs ==
  ASSUME NEW S, NEW s \in Seq(S), NEW i \in 1 .. Len(s) + 1, NEW x \in S
  PROVE  InsertAt(s, i, x) \in Seq(S) /\ IsInsert(InsertAt(s, i, x), s, i, x)
<1> DEFINE a == Pre(s, i)
           c == <<x>>
           b == Rest(s, i)
           r == (a \o c) \o b
           n == Len(s)
<1>1. /\ a \in Seq(S) /\ Len(a) = i - 1 /\ \A j \in 1 .. i - 1 : a[j] = s[j]
      /\ b \in Seq(S) /\ Len(b) = n - i + 1
      /\ \A j \in 1 .. n - i + 1 : b[j] = s[i + j - 1]
  BY Pieces
<1>2. c \in Seq(S) /\ Len(c) = 1 /\ c[1] = x
  OBVIOUS
<1>3. InsertAt(s, i, x) = r
  BY DEF InsertAt, Pre, Rest
<1>4. n \in Nat /\ i \in 1 .. n + 1
  OBVIOUS
<1> HIDE DEF a, c, b, n
<1>5. r \in Seq(S) /\ IsThree(r, a, c, b)
  BY <1>1, <1>2, ThreeIs
<1> HIDE DEF r
<1>6. Len(r) = n + 1
  BY <1>1, <1>2, <1>4, <1>5 DEF IsThree
<1>7. ASSUME NEW j \in 1 .. Len(r)
      PROVE  r[j] = IF j < i THEN s[j] ELSE IF j = i THEN x ELSE s[j - 1]
  <2>1. r[j] = IF j <= i - 1 THEN a[j] ELSE IF j <= (i - 1) + 1 THEN c[j - (i - 1)]
               ELSE b[j - (i - 1) - 1]
    BY <1>1, <1>2, <1>5 DEF IsThree
  <2>2. CASE j < i
    <3>1. j \in 1 .. i - 1 /\ j <= i - 1
      BY <1>4, <1>6, <2>2
    <3> QED
      BY <1>1, <2>1, <2>2, <3>1
  <2>3. CASE j = i
    <3>1. ~(j <= i - 1) /\ j <= (i - 1) + 1 /\ j - (i - 1) = 1 /\ ~(j < i)
      BY <1>4, <2>3
    <3> QED
      BY <1>2, <2>1, <2>3, <3>1
  <2>4. CASE j > i
    <3>1. /\ ~(j <= i - 1) /\ ~(j <= (i - 1) + 1) /\ ~(j < i) /\ j # i
          /\ j - (i - 1) - 1 \in 1 .. n - i + 1 /\ i + (j - (i - 1) - 1) - 1 = j - 1
      BY <1>4, <1>6, <2>4
    <3> QED
      BY <1>1, <2>1, <3>1
  <2> QED
    BY <1>4, <1>6, <2>2, <2>3, <2>4
<1> QED
  BY <1>3, <1>5, <1>6, <1>7 DEF IsInsert, n

\* A sequence is known by its positions.
LEMMA IsInserted ==
  ASSUME NEW S, NEW s \in Seq(S), NEW i \in 1 .. Len(s) + 1, NEW x \in S,
         NEW r \in Seq(S), IsInsert(r, s, i, x)
  PROVE  r = InsertAt(s, i, x)
<1> DEFINE t == InsertAt(s, i, x)
<1>1. t \in Seq(S) /\ IsInsert(t, s, i, x)
  BY InsertIs
<1> HIDE DEF t
<1>2. Len(r) = Len(t) /\ \A j \in 1 .. Len(r) : r[j] = t[j]
  BY <1>1 DEF IsInsert
<1>3. r = t
  BY <1>1, <1>2, SeqEqual
<1> QED
  BY <1>3 DEF t

LEMMA CutIs ==
  ASSUME NEW S, NEW s \in Seq(S), NEW p \in Nat, NEW k \in Nat, p + k <= Len(s)
  PROVE  Cut(s, p, k) \in Seq(S) /\ IsCut(Cut(s, p, k), s, p, k)
<1> DEFINE n == Len(s)
           a == Pre(s, p + 1)
           b == Rest(s, p + k + 1)
           r == a \o b
<1>1. n \in Nat /\ p + k <= n /\ p + 1 \in 1 .. n + 1 /\ p + k + 1 \in 1 .. n + 1
  OBVIOUS
<1>2. /\ a \in Seq(S) /\ Len(a) = (p + 1) - 1 /\ \A j \in 1 .. (p + 1) - 1 : a[j] = s[j]
  BY <1>1, Pieces
<1>3. /\ b \in Seq(S) /\ Len(b) = n - (p + k + 1) + 1
      /\ \A j \in 1 .. n - (p + k + 1) + 1 : b[j] = s[(p + k + 1) + j - 1]
  BY <1>1, Pieces
<1>4. Cut(s, p, k) = r
  <2>1. (p + 1) - 1 = p
    OBVIOUS
  <2> QED
    BY <2>1 DEF Cut, Pre, Rest
<1> HIDE DEF n, a, b
<1>5. /\ r \in Seq(S) /\ Len(r) = Len(a) + Len(b)
      /\ \A j \in 1 .. Len(a) + Len(b) : r[j] = IF j <= Len(a) THEN a[j] ELSE b[j - Len(a)]
  BY <1>2, <1>3, ConcatProperties
<1> HIDE DEF r
<1>6. Len(a) = p /\ Len(b) = n - (p + k) /\ Len(r) = n - k
  BY <1>1, <1>2, <1>3, <1>5
<1>7. ASSUME NEW j \in 1 .. Len(r) PROVE r[j] = IF j <= p THEN s[j] ELSE s[j + k]
  <2>1. r[j] = IF j <= p THEN a[j] ELSE b[j - p]
    BY <1>5, <1>6
  <2>2. CASE j <= p
    <3>1. j \in 1 .. (p + 1) - 1
      BY <1>1, <1>6, <2>2
    <3> QED
      BY <1>2, <2>1, <2>2, <3>1
  <2>3. CASE ~(j <= p)
    <3>1. j - p \in 1 .. n - (p + k + 1) + 1 /\ (p + k + 1) + (j - p) - 1 = j + k
      BY <1>1, <1>6, <2>3
    <3> QED
      BY <1>3, <2>1, <2>3, <3>1
  <2> QED
    BY <2>2, <2>3
<1> QED
  BY <1>4, <1>5, <1>6, <1>7 DEF IsCut, n

LEMMA IsCutOut ==
  ASSUME NEW S, NEW s \in Seq(S), NEW p \in Nat, NEW k \in Nat, p + k <= Len(s),
         NEW r \in Seq(S), IsCut(r, s, p, k)
  PROVE  r = Cut(s, p, k)
<1> DEFINE t == Cut(s, p, k)
<1>1. t \in Seq(S) /\ IsCut(t, s, p, k)
  BY CutIs
<1> HIDE DEF t
<1>2. Len(r) = Len(t) /\ \A j \in 1 .. Len(r) : r[j] = t[j]
  BY <1>1 DEF IsCut
<1>3. r = t
  BY <1>1, <1>2, SeqEqual
<1> QED
  BY <1>3 DEF t

\* What is done to the middle part is done to the whole, further on.
LEMMA ThreeInsert ==
  ASSUME NEW S, NEW a \in Seq(S), NEW z \in Seq(S), NEW w \in Seq(S), NEW b \in Seq(S),
         NEW f \in Seq(S), NEW g \in Seq(S), IsThree(f, a, z, b), IsThree(g, a, w, b),
         NEW i \in 1 .. Len(z) + 1, NEW x, IsInsert(w, z, i, x)
  PROVE  IsInsert(g, f, Len(a) + i, x)
<1> DEFINE la == Len(a)
           lz == Len(z)
           lw == Len(w)
           lb == Len(b)
           lf == Len(f)
           lg == Len(g)
<1>1. /\ la \in Nat /\ lz \in Nat /\ lb \in Nat /\ i \in 1 .. lz + 1
      /\ lf = la + lz + lb /\ lg = la + lw + lb /\ lw = lz + 1
  BY DEF IsThree, IsInsert
<1>2. \A j \in 1 .. lf : f[j] = IF j <= la THEN a[j]
                               ELSE IF j <= la + lz THEN z[j - la] ELSE b[j - la - lz]
  BY DEF IsThree
<1>3. \A j \in 1 .. lg : g[j] = IF j <= la THEN a[j]
                               ELSE IF j <= la + lw THEN w[j - la] ELSE b[j - la - lw]
  BY DEF IsThree
<1>4. \A j \in 1 .. lw : w[j] = IF j < i THEN z[j] ELSE IF j = i THEN x ELSE z[j - 1]
  BY DEF IsInsert
<1> HIDE DEF la, lz, lw, lb, lf, lg
<1>5. ASSUME NEW j \in 1 .. lg
      PROVE  g[j] = IF j < la + i THEN f[j] ELSE IF j = la + i THEN x ELSE f[j - 1]
  <2>1. CASE j <= la
    <3>1. j \in 1 .. lf /\ j < la + i
      BY <1>1, <2>1
    <3>2. g[j] = a[j] /\ f[j] = a[j]
      BY <1>2, <1>3, <2>1, <3>1
    <3> QED
      BY <3>1, <3>2
  <2>2. CASE j > la /\ j <= la + lw
    <3>1. j - la \in 1 .. lw /\ g[j] = w[j - la]
      <4>1. j - la \in 1 .. lw /\ ~(j <= la)
        BY <1>1, <2>2
      <4> QED
        BY <1>3, <2>2, <4>1
    <3>2. w[j - la] = IF j - la < i THEN z[j - la] ELSE IF j - la = i THEN x
                      ELSE z[j - la - 1]
      BY <1>4, <3>1
    <3>3. j < la + i => f[j] = z[j - la]
      BY <1>1, <1>2, <2>2
    <3>4. j > la + i => f[j - 1] = z[j - la - 1]
      <4>1. SUFFICES ASSUME j > la + i PROVE f[j - 1] = z[j - la - 1]
        BY Zenon
      <4>2. /\ j - 1 \in 1 .. lf /\ ~(j - 1 <= la) /\ j - 1 <= la + lz
            /\ (j - 1) - la = j - la - 1
        BY <1>1, <2>2, <4>1
      <4> QED
        BY <1>2, <4>2
    <3> QED
      BY <1>1, <3>1, <3>2, <3>3, <3>4
  <2>3. CASE j > la + lw
    <3>1. /\ ~(j <= la) /\ ~(j <= la + lw) /\ ~(j < la + i) /\ j # la + i
          /\ j - 1 \in 1 .. lf /\ ~(j - 1 <= la) /\ ~(j - 1 <= la + lz)
          /\ j - la - lw = (j - 1) - la - lz
      BY <1>1, <2>3
    <3> QED
      BY <1>2, <1>3, <3>1
  <2> QED
    BY <1>1, <2>1, <2>2, <2>3
<1>6. lg = lf + 1
  BY <1>1
<1> QED
  BY <1>5, <1>6 DEF IsInsert, la, lf, lg

LEMMA ThreeCut ==
  ASSUME NEW S, NEW a \in Seq(S), NEW z \in Seq(S), NEW w \in Seq(S), NEW b \in Seq(S),
         NEW f \in Seq(S), NEW g \in Seq(S), IsThree(f, a, z, b), IsThree(g, a, w, b),
         NEW p \in Nat, NEW k \in Nat, p + k <= Len(z), IsCut(w, z, p, k)
  PROVE  IsCut(g, f, Len(a) + p, k)
<1> DEFINE la == Len(a)
           lz == Len(z)
           lw == Len(w)
           lb == Len(b)
           lf == Len(f)
           lg == Len(g)
<1>1. /\ la \in Nat /\ lz \in Nat /\ lb \in Nat /\ p + k <= lz
      /\ lf = la + lz + lb /\ lg = la + lw + lb /\ lw = lz - k
  BY DEF IsThree, IsCut
<1>2. \A j \in 1 .. lf : f[j] = IF j <= la THEN a[j]
                               ELSE IF j <= la + lz THEN z[j - la] ELSE b[j - la - lz]
  BY DEF IsThree
<1>3. \A j \in 1 .. lg : g[j] = IF j <= la THEN a[j]
                               ELSE IF j <= la + lw THEN w[j - la] ELSE b[j - la - lw]
  BY DEF IsThree
<1>4. \A j \in 1 .. lw : w[j] = IF j <= p THEN z[j] ELSE z[j + k]
  BY DEF IsCut
<1> HIDE DEF la, lz, lw, lb, lf, lg
<1>5. ASSUME NEW j \in 1 .. lg PROVE g[j] = IF j <= la + p THEN f[j] ELSE f[j + k]
  <2>1. CASE j <= la
    BY <1>1, <1>2, <1>3, <2>1
  <2>2. CASE j > la /\ j <= la + lw
    <3>1. j - la \in 1 .. lw /\ g[j] = w[j - la]
      <4>1. j - la \in 1 .. lw /\ ~(j <= la)
        BY <1>1, <2>2
      <4> QED
        BY <1>3, <2>2, <4>1
    <3>2. w[j - la] = IF j - la <= p THEN z[j - la] ELSE z[(j - la) + k]
      BY <1>4, <3>1
    <3>3. j <= la + p => f[j] = z[j - la]
      BY <1>1, <1>2, <2>2
    <3>4. f[j + k] = z[(j - la) + k]
      <4>1. /\ j + k \in 1 .. lf /\ ~(j + k <= la) /\ j + k <= la + lz
            /\ (j + k) - la = (j - la) + k
        BY <1>1, <2>2
      <4> QED
        BY <1>2, <4>1
    <3> QED
      BY <1>1, <3>1, <3>2, <3>3, <3>4, SMTT(60)
  <2>3. CASE j > la + lw
    <3>1. /\ ~(j <= la) /\ ~(j <= la + lw) /\ ~(j <= la + p)
          /\ j + k \in 1 .. lf /\ ~(j + k <= la) /\ ~(j + k <= la + lz)
          /\ j - la - lw = (j + k) - la - lz
      BY <1>1, <2>3
    <3> QED
      BY <1>1, <1>2, <1>3, <2>3, <3>1
  <2> QED
    BY <1>1, <2>1, <2>2, <2>3
<1>6. lg = lf - k
  BY <1>1
<1> QED
  BY <1>5, <1>6 DEF IsCut, la, lf, lg

LEMMA ThreeReplace ==
  ASSUME NEW S, NEW a \in Seq(S), NEW z \in Seq(S), NEW b \in Seq(S), NEW x \in S,
         NEW p \in 1 .. Len(z), NEW w, w = ReplaceAt(z, p, x),
         NEW f \in Seq(S), NEW g \in Seq(S), IsThree(f, a, z, b), IsThree(g, a, w, b)
  PROVE  /\ Len(a) + p \in 1 .. Len(f)
         /\ g = ReplaceAt(f, Len(a) + p, x)
<1> DEFINE la == Len(a)
           lz == Len(z)
           lb == Len(b)
           lf == Len(f)
           lg == Len(g)
           h == [f EXCEPT ![la + p] = x]
<1>1. /\ w \in Seq(S) /\ Len(w) = lz
      /\ \A j \in 1 .. lz : w[j] = IF j = p THEN x ELSE z[j]
  BY ExceptSeq DEF ReplaceAt
<1>2. /\ la \in Nat /\ lz \in Nat /\ lb \in Nat /\ p \in 1 .. lz
      /\ lf = la + lz + lb /\ lg = la + lz + lb
  BY <1>1 DEF IsThree
<1>3. \A j \in 1 .. lf : f[j] = IF j <= la THEN a[j]
                               ELSE IF j <= la + lz THEN z[j - la] ELSE b[j - la - lz]
  BY DEF IsThree
<1>4. \A j \in 1 .. lg : g[j] = IF j <= la THEN a[j]
                               ELSE IF j <= la + lz THEN w[j - la] ELSE b[j - la - lz]
  BY <1>1 DEF IsThree
<1>5. la + p \in 1 .. lf /\ lf \in Nat
  <2> HIDE DEF la, lz, lb, lf, lg
  <2> QED
    BY <1>2
<1>6. /\ h \in Seq(S) /\ Len(h) = lf
      /\ \A j \in 1 .. lf : h[j] = IF j = la + p THEN x ELSE f[j]
  BY <1>5, ExceptSeq
<1> HIDE DEF la, lz, lb, lf, lg, h
<1>7. ASSUME NEW j \in 1 .. lf PROVE g[j] = h[j]
  <2>1. h[j] = IF j = la + p THEN x ELSE f[j]
    BY <1>6
  <2>2. CASE j > la /\ j <= la + lz
    <3>1. j - la \in 1 .. lz /\ g[j] = w[j - la] /\ f[j] = z[j - la]
      BY <1>2, <1>3, <1>4, <2>2
    <3>2. j = la + p <=> j - la = p
      BY <1>2
    <3> QED
      BY <1>1, <2>1, <3>1, <3>2
  <2>3. CASE ~(j > la /\ j <= la + lz)
    BY <1>2, <1>3, <1>4, <2>1, <2>3
  <2> QED
    BY <2>2, <2>3
<1>8. g = h
  <2>1. Len(g) = lf /\ Len(g) = Len(h)
    BY <1>2, <1>6 DEF lg
  <2>2. \A j \in 1 .. Len(g) : g[j] = h[j]
    BY <1>7, <2>1
  <2> QED
    BY <1>6, <2>1, <2>2, SeqEqual
<1> QED
  BY <1>5, <1>8 DEF h, la, lf, ReplaceAt

-----------------------------------------------------------------------------
(* What a list holds after a change of one node.                           *)

\* The entries before node i, in it, and after it.
LEMMA NodeThree ==
  ASSUME NEW ns \in Seq(Full), NEW i \in 1 .. Len(ns)
  PROVE  /\ Before(ns, i) \in Seq(Value) /\ After(ns, i) \in Seq(Value)
         /\ ns[i].zl \in Seq(Value) /\ Flat(ns) \in Seq(Value)
         /\ Len(Before(ns, i)) = Size(Pre(ns, i)) /\ Len(Before(ns, i)) \in Nat
         /\ IsThree(Flat(ns), Before(ns, i), ns[i].zl, After(ns, i))
<1> DEFINE a == Before(ns, i)
           b == After(ns, i)
           z == ns[i].zl
<1>1. ns[i] \in Full /\ a \in Seq(Value) /\ b \in Seq(Value) /\ Len(a) \in Nat
  BY ChainAt
<1>2. Flat(ns) = (a \o z) \o b
  BY ChainAt
<1>3. z \in Seq(Value)
  BY <1>1, FullNode
<1>4. Len(a) = Size(Pre(ns, i))
  BY DEF Size, Before
<1> HIDE DEF a, b, z
<1>5. (a \o z) \o b \in Seq(Value) /\ IsThree((a \o z) \o b, a, z, b)
  BY <1>1, <1>3, ThreeIs
<1> QED
  BY <1>1, <1>2, <1>3, <1>4, <1>5 DEF a, b, z

LEMMA LeftThree ==
  ASSUME NEW ns \in Seq(Full), NEW i \in 1 .. Len(ns), NEW zl \in Seq(Value)
  PROVE  /\ Flat(Left(ns, i, zl)) \in Seq(Value)
         /\ IsThree(Flat(Left(ns, i, zl)), Before(ns, i), zl, After(ns, i))
<1> DEFINE a == Before(ns, i)
           b == After(ns, i)
           f == Flat(Left(ns, i, zl))
<1>1. a \in Seq(Value) /\ b \in Seq(Value)
  BY ChainAt
<1>2. f = (a \o zl) \o b
  <2>1. CASE zl = <<>>
    <3>1. f = a \o b
      BY <2>1, NodeRemoved DEF Left
    <3> HIDE DEF a, b
    <3>2. a \o <<>> = a
      BY <1>1, ConcatEmptySeq
    <3> QED
      BY <2>1, <3>1, <3>2
  <2>2. CASE zl # <<>>
    <3> DEFINE m == Node(zl)
    <3>1. m \in Full /\ m.zl = zl
      BY <2>2, NodeFull DEF Node
    <3>2. Left(ns, i, zl) = [ns EXCEPT ![i] = m]
      BY <2>2 DEF Left
    <3> HIDE DEF m
    <3>3. Flat([ns EXCEPT ![i] = m]) = (a \o m.zl) \o b
      BY <3>1, NodeReplaced
    <3> QED
      BY <3>1, <3>2, <3>3
  <2> QED
    BY <2>1, <2>2
<1> HIDE DEF a, b, f
<1>3. (a \o zl) \o b \in Seq(Value) /\ IsThree((a \o zl) \o b, a, zl, b)
  BY <1>1, ThreeIs
<1> QED
  BY <1>2, <1>3 DEF a, b, f

\* An entry more in node i, and an entry in a node of its own.
LEMMA InsertedInNode ==
  ASSUME NEW ns \in Seq(Full), NEW i \in 1 .. Len(ns), NEW zl \in Seq(Value),
         NEW p \in 1 .. Len(ns[i].zl) + 1, NEW v, IsInsert(zl, ns[i].zl, p, v)
  PROVE  IsInsert(Flat([ns EXCEPT ![i] = Node(zl)]), Flat(ns), Size(Pre(ns, i)) + p, v)
<1> DEFINE a == Before(ns, i)
           b == After(ns, i)
           z == ns[i].zl
           f == Flat(ns)
           g == Flat(Left(ns, i, zl))
<1>1. /\ a \in Seq(Value) /\ b \in Seq(Value) /\ z \in Seq(Value) /\ f \in Seq(Value)
      /\ Len(a) = Size(Pre(ns, i)) /\ IsThree(f, a, z, b)
  BY NodeThree
<1>2. g \in Seq(Value) /\ IsThree(g, a, zl, b)
  BY LeftThree
<1>3. Left(ns, i, zl) = [ns EXCEPT ![i] = Node(zl)]
  <2>1. Len(zl) = Len(z) + 1
    BY DEF IsInsert
  <2> HIDE DEF z
  <2>2. Len(z) \in Nat
    BY <1>1
  <2>3. Len(zl) # 0
    BY <2>1, <2>2
  <2>4. zl # <<>>
    BY <2>3
  <2> QED
    BY <2>4 DEF Left
<1>4. IsInsert(zl, z, p, v) /\ p \in 1 .. Len(z) + 1
  OBVIOUS
<1> HIDE DEF a, b, z, f, g
<1>5. IsInsert(g, f, Len(a) + p, v)
  BY <1>1, <1>2, <1>4, ThreeInsert
<1> QED
  BY <1>1, <1>3, <1>5 DEF f, g

LEMMA InsertedAlone ==
  ASSUME NEW ns \in Seq(Full), NEW i \in 1 .. Len(ns) + 1, NEW v \in Value
  PROVE  IsInsert(Flat(InsertAt(ns, i, Node(<<v>>))), Flat(ns), Size(Pre(ns, i)) + 1, v)
<1> DEFINE a == Before(ns, i)
           b == From(ns, i)
           w == <<v>>
           m == Node(w)
           z == <<>>
           f == Flat(ns)
           g == Flat(InsertAt(ns, i, m))
<1>1. w \in Seq(Value) /\ w # <<>> /\ z \in Seq(Value)
  OBVIOUS
<1>2. IsInsert(w, z, 1, v) /\ 1 \in 1 .. Len(z) + 1
  <2>1. Len(w) = 1 /\ Len(z) = 0 /\ w[1] = v
    OBVIOUS
  <2> HIDE DEF w, z
  <2>2. \A j \in 1 .. Len(w) : j = 1
    BY <2>1
  <2> QED
    BY <2>1, <2>2 DEF IsInsert
<1> HIDE DEF w
<1>3. m \in Full /\ m.zl = w
  BY <1>1, NodeFull DEF Node
<1> HIDE DEF m
<1>4. a \in Seq(Value) /\ b \in Seq(Value) /\ f = a \o b /\ g = (a \o w) \o b
  BY <1>3, NodeInserted
<1>5. Len(a) = Size(Pre(ns, i))
  BY DEF Size, Before
<1> HIDE DEF a, b, z, f, g
<1>6. f = (a \o z) \o b
  BY <1>4, ConcatEmptySeq DEF z
<1>7. f \in Seq(Value) /\ IsThree(f, a, z, b)
  BY <1>1, <1>4, <1>6, ThreeIs
<1>8. g \in Seq(Value) /\ IsThree(g, a, w, b)
  BY <1>1, <1>4, ThreeIs
<1>9. IsInsert(g, f, Len(a) + 1, v)
  BY <1>1, <1>2, <1>4, <1>7, <1>8, ThreeInsert
<1> QED
  BY <1>5, <1>9 DEF f, g, m, w

LEMMA GrownIs ==
  ASSUME NEW zl \in Seq(Value), NEW v \in Value
  PROVE  /\ IsInsert(<<v>> \o zl, zl, 1, v)
         /\ IsInsert(Append(zl, v), zl, Len(zl) + 1, v)
<1> DEFINE c == <<v>>
           r == c \o zl
           n == Len(zl)
<1>1. c \in Seq(Value) /\ Len(c) = 1 /\ c[1] = v /\ n \in Nat
  OBVIOUS
<1> HIDE DEF c
<1>2. /\ r \in Seq(Value) /\ Len(r) = Len(c) + Len(zl)
      /\ \A j \in 1 .. Len(c) + Len(zl) : r[j] = IF j <= Len(c) THEN c[j] ELSE zl[j - Len(c)]
  BY <1>1, ConcatProperties
<1> HIDE DEF r, n
<1>3. Len(r) = n + 1 /\ \A j \in 1 .. n + 1 : r[j] = IF j <= 1 THEN c[j] ELSE zl[j - 1]
  BY <1>1, <1>2 DEF n
<1>4. IsInsert(r, zl, 1, v)
  <2>1. ASSUME NEW j \in 1 .. Len(r)
        PROVE  r[j] = IF j < 1 THEN zl[j] ELSE IF j = 1 THEN v ELSE zl[j - 1]
    BY <1>1, <1>3
  <2> QED
    BY <1>3, <2>1 DEF IsInsert, n
<1> DEFINE s == Append(zl, v)
<1>5. Len(s) = n + 1 /\ (\A j \in 1 .. n : s[j] = zl[j]) /\ s[n + 1] = v
  BY AppendProperties DEF n
<1> HIDE DEF s
<1>6. IsInsert(s, zl, n + 1, v)
  <2>1. ASSUME NEW j \in 1 .. Len(s)
        PROVE  s[j] = IF j < n + 1 THEN zl[j] ELSE IF j = n + 1 THEN v ELSE zl[j - 1]
    BY <1>1, <1>5
  <2> QED
    BY <1>5, <2>1 DEF IsInsert, n
<1> QED
  BY <1>4, <1>6 DEF c, r, s, n

\* The nodes after an entry was added, whose count goes up last.
LEMMA NodesAdded ==
  ASSUME NEW q \in Exact, NEW r, NEW t, r = [nodes |-> t, count |-> q.count]
  PROVE  [r EXCEPT !.count = @ + 1].nodes = t
OBVIOUS

LEMMA AddedTo ==
  ASSUME NEW q \in Exact, NEW i \in DOMAIN q.nodes, NEW zl \in Seq(Value),
         NEW p \in 1 .. Len(q.nodes[i].zl) + 1, NEW v, IsInsert(zl, q.nodes[i].zl, p, v),
         NEW r, r = [q EXCEPT !.nodes[i] = Update(@, zl, 1)]
  PROVE  IsInsert(Flat([r EXCEPT !.count = @ + 1].nodes), Flat(q.nodes),
                  Size(Pre(q.nodes, i)) + p, v)
<1> DEFINE ns == q.nodes
           n == ns[i]
           m == Update(n, zl, 1)
           t == [ns EXCEPT ![i] = Node(zl)]
<1>1. /\ ns \in Seq(Full) /\ i \in 1 .. Len(ns) /\ n \in Full /\ n.count = Len(n.zl)
  BY ExactIs, NodeOf
<1>2. m = Node(zl)
  <2>1. Len(zl) = n.count + 1
    BY <1>1 DEF IsInsert
  <2> QED
    BY <1>1, <2>1, UpdateIsNode
<1>3. r = WithNode(q, i, m)
  BY DEF WithNode
<1> HIDE DEF m
<1>4. r = [nodes |-> t, count |-> q.count]
  BY <1>2, <1>3, NodeChanged
<1> HIDE DEF t
<1>5. [r EXCEPT !.count = @ + 1].nodes = t
  BY <1>4, NodesAdded
<1> HIDE DEF ns
<1>6. IsInsert(Flat([ns EXCEPT ![i] = Node(zl)]), Flat(ns), Size(Pre(ns, i)) + p, v)
  BY <1>1, InsertedInNode DEF n, ns
<1> QED
  BY <1>5, <1>6 DEF t, ns

LEMMA AddedAlone ==
  ASSUME NEW q \in Exact, NEW i \in 1 .. Len(q.nodes) + 1, NEW v \in Value,
         NEW r, r = __quicklistInsertNode(q, i, Node(<<v>>))
  PROVE  IsInsert(Flat([r EXCEPT !.count = @ + 1].nodes), Flat(q.nodes),
                  Size(Pre(q.nodes, i)) + 1, v)
<1> DEFINE ns == q.nodes
           m == Node(<<v>>)
           t == InsertAt(ns, i, m)
           c == q.count
<1>1. ns \in Seq(Full) /\ q = [nodes |-> ns, count |-> c]
  BY ExactIs
<1>2. r = [q EXCEPT !.nodes = t]
  BY DEF __quicklistInsertNode
<1> HIDE DEF t
<1>3. r = [nodes |-> t, count |-> q.count]
  <2> HIDE DEF c, ns
  <2> QED
    BY <1>1, <1>2, RecordNodes DEF c
<1>4. [r EXCEPT !.count = @ + 1].nodes = t
  BY <1>3, NodesAdded
<1>5. IsInsert(Flat(t), Flat(ns), Size(Pre(ns, i)) + 1, v)
  BY <1>1, InsertedAlone DEF t
<1> QED
  BY <1>4, <1>5

\* A push is an insertion at one end.
LEMMA PushAt ==
  ASSUME NEW q \in Exact, NEW v \in Value, NEW where
  PROVE  IsInsert(Flat(quicklistPush(q, v, where).nodes), Flat(q.nodes),
                  IF where = "head" THEN 1 ELSE Len(Flat(q.nodes)) + 1, v)
<1> DEFINE ns == q.nodes
           Room1(i) == _quicklistNodeAllowInsert(q, i, v)
<1>1. /\ ns \in Seq(Full) /\ Len(ns) \in Nat /\ DOMAIN ns = 1 .. Len(ns)
  BY ExactIs
<1>2. ASSUME NEW i, Room1(i) PROVE i \in DOMAIN q.nodes
  BY <1>2 DEF _quicklistNodeAllowInsert, Exists
<1>3. Size(Pre(ns, 1)) = 0 /\ Pre(ns, Len(ns) + 1) = ns
  BY <1>1, SizeEnds
<1>4. IsInsert(Flat(quicklistPushHead(q, v).nodes), Flat(ns), 1, v)
  <2> DEFINE r == IF Room1(1)
                  THEN [q EXCEPT !.nodes[1] = Update(@, <<v>> \o @.zl, 1)]
                  ELSE __quicklistInsertNode(q, 1, Node(<<v>>))
  <2>1. quicklistPushHead(q, v) = [r EXCEPT !.count = @ + 1]
    BY DEF quicklistPushHead
  <2>2. IsInsert(Flat([r EXCEPT !.count = @ + 1].nodes), Flat(q.nodes),
                 Size(Pre(q.nodes, 1)) + 1, v)
    <3>1. CASE Room1(1)
      <4> DEFINE z == ns[1].zl
                 zl == <<v>> \o z
      <4>1. 1 \in DOMAIN q.nodes
        BY <1>2, <3>1
      <4>2. z \in Seq(Value) /\ 1 \in 1 .. Len(z) + 1
        BY <4>1, NodeOf
      <4>3. zl \in Seq(Value) /\ IsInsert(zl, z, 1, v)
        <5> HIDE DEF z
        <5> QED
          BY <4>2, Grown, GrownIs
      <4>4. r = [q EXCEPT !.nodes[1] = Update(@, zl, 1)]
        BY <3>1
      <4> HIDE DEF zl, r
      <4> QED
        BY <4>1, <4>2, <4>3, <4>4, AddedTo
    <3>2. CASE ~Room1(1)
      <4>1. 1 \in 1 .. Len(q.nodes) + 1
        BY <1>1
      <4>2. r = __quicklistInsertNode(q, 1, Node(<<v>>))
        BY <3>2
      <4> HIDE DEF r
      <4> QED
        BY <4>1, <4>2, AddedAlone
    <3> QED
      BY <3>1, <3>2
  <2>3. Size(Pre(q.nodes, 1)) + 1 = 1
    BY <1>3
  <2> HIDE DEF r
  <2> QED
    BY <2>1, <2>2, <2>3
<1>5. IsInsert(Flat(quicklistPushTail(q, v).nodes), Flat(ns), Len(Flat(ns)) + 1, v)
  <2> DEFINE k == Len(q.nodes)
             r == IF Room1(k)
                  THEN [q EXCEPT !.nodes[k] = Update(@, Append(@.zl, v), 1)]
                  ELSE __quicklistInsertNode(q, k + 1, Node(<<v>>))
  <2>1. quicklistPushTail(q, v) = [r EXCEPT !.count = @ + 1]
    BY DEF quicklistPushTail
  <2>2. IsInsert(Flat([r EXCEPT !.count = @ + 1].nodes), Flat(q.nodes),
                 Len(Flat(q.nodes)) + 1, v)
    <3>1. CASE Room1(k)
      <4> DEFINE z == ns[k].zl
                 zl == Append(z, v)
      <4>1. k \in DOMAIN q.nodes
        BY <1>2, <3>1
      <4>2. z \in Seq(Value) /\ Len(z) + 1 \in 1 .. Len(z) + 1 /\ ns[k].count = Len(z)
        BY <4>1, NodeOf
      <4>3. zl \in Seq(Value) /\ IsInsert(zl, z, Len(z) + 1, v)
        <5> HIDE DEF z
        <5> QED
          BY <4>2, Grown, GrownIs
      <4>4. r = [q EXCEPT !.nodes[k] = Update(@, zl, 1)]
        BY <3>1
      <4> HIDE DEF zl, r
      <4>5. IsInsert(Flat([r EXCEPT !.count = @ + 1].nodes), Flat(q.nodes),
                     Size(Pre(q.nodes, k)) + (Len(z) + 1), v)
        BY <4>1, <4>2, <4>3, <4>4, AddedTo
      <4>6. Size(Pre(q.nodes, k)) + (Len(z) + 1) = Len(Flat(q.nodes)) + 1
        <5>1. /\ Size(Pre(ns, k + 1)) = Size(Pre(ns, k)) + ns[k].count
              /\ Size(Pre(ns, k)) \in Nat
          BY <1>1, <4>1, SizeStep
        <5>2. Size(Pre(ns, k + 1)) = Len(Flat(q.nodes))
          BY <1>3 DEF Size
        <5> HIDE DEF z, k, ns
        <5>3. Len(z) \in Nat
          BY <4>2
        <5> QED
          BY <4>2, <5>1, <5>2, <5>3 DEF ns
      <4> QED
        BY <4>5, <4>6
    <3>2. CASE ~Room1(k)
      <4>1. k + 1 \in 1 .. Len(q.nodes) + 1
        BY <1>1
      <4>2. r = __quicklistInsertNode(q, k + 1, Node(<<v>>))
        BY <3>2
      <4> HIDE DEF r
      <4>3. Size(Pre(q.nodes, k + 1)) = Len(Flat(q.nodes))
        BY <1>3 DEF Size
      <4> HIDE DEF k
      <4>4. IsInsert(Flat([r EXCEPT !.count = @ + 1].nodes), Flat(q.nodes),
                     Size(Pre(q.nodes, k + 1)) + 1, v)
        BY <4>1, <4>2, AddedAlone
      <4> QED
        BY <4>3, <4>4
    <3> QED
      BY <3>1, <3>2
  <2> HIDE DEF r, k
  <2> QED
    BY <2>1, <2>2
<1> QED
  BY <1>4, <1>5 DEF quicklistPush

-----------------------------------------------------------------------------
(* Pushes and pops.                                                        *)

Held(q) == Flat(q.nodes)

LEMMA HeldType ==
  ASSUME NEW q \in Exact
  PROVE  Held(q) \in Seq(Value) /\ Len(Held(q)) \in Nat /\ Len(Held(q)) = q.count
<1>1. q.nodes \in Seq(Full) /\ q.count = Size(q.nodes)
  BY ExactIs
<1> QED
  BY <1>1, FlatType DEF Held, Size

\* f with the first k values of vals pushed to one end.
IsPushed(g, f, vals, where, k) ==
  /\ Len(g) = Len(f) + k
  /\ \A j \in 1 .. Len(g) :
       g[j] = IF where = "head" THEN IF j <= k THEN vals[k - j + 1] ELSE f[j - k]
              ELSE IF j <= Len(f) THEN f[j] ELSE vals[j - Len(f)]

LEMMA PushedOne ==
  ASSUME NEW f \in Seq(Value), NEW g \in Seq(Value), NEW h \in Seq(Value),
         NEW vals \in Seq(Value), NEW where, NEW k \in 1 .. Len(vals),
         IsPushed(g, f, vals, where, k - 1),
         IsInsert(h, g, IF where = "head" THEN 1 ELSE Len(g) + 1, vals[k])
  PROVE  IsPushed(h, f, vals, where, k)
<1> DEFINE lf == Len(f)
           lg == Len(g)
           lh == Len(h)
           v == vals[k]
<1>1. lf \in Nat /\ lg = lf + (k - 1) /\ lh = lg + 1 /\ k \in Nat \ {0}
  BY DEF IsPushed, IsInsert
<1>2. CASE where = "head"
  <2>1. \A j \in 1 .. lg : g[j] = IF j <= k - 1 THEN vals[(k - 1) - j + 1] ELSE f[j - (k - 1)]
    BY <1>2 DEF IsPushed
  <2>2. \A j \in 1 .. lh : h[j] = IF j < 1 THEN g[j] ELSE IF j = 1 THEN v ELSE g[j - 1]
    BY <1>2 DEF IsInsert
  <2> HIDE DEF lf, lg, lh
  <2>3. ASSUME NEW j \in 1 .. lh PROVE h[j] = IF j <= k THEN vals[k - j + 1] ELSE f[j - k]
    <3>1. CASE j = 1
      <4>1. k - j + 1 = k /\ j <= k /\ ~(j < 1)
        BY <1>1, <3>1
      <4> QED
        BY <2>2, <3>1, <4>1
    <3>2. CASE j # 1
      <4>1. /\ j - 1 \in 1 .. lg /\ ~(j < 1) /\ (j - 1 <= k - 1 <=> j <= k)
            /\ (k - 1) - (j - 1) + 1 = k - j + 1 /\ (j - 1) - (k - 1) = j - k
        BY <1>1, <3>2
      <4> QED
        BY <2>1, <2>2, <3>2, <4>1
    <3> QED
      BY <3>1, <3>2
  <2>4. lh = lf + k
    BY <1>1
  <2> QED
    BY <1>2, <2>3, <2>4 DEF IsPushed, lf, lh
<1>3. CASE where # "head"
  <2>1. \A j \in 1 .. lg : g[j] = IF j <= lf THEN f[j] ELSE vals[j - lf]
    BY <1>3 DEF IsPushed
  <2>2. \A j \in 1 .. lh : h[j] = IF j < lg + 1 THEN g[j] ELSE IF j = lg + 1 THEN v ELSE g[j - 1]
    BY <1>3 DEF IsInsert
  <2> HIDE DEF lf, lg, lh
  <2>3. ASSUME NEW j \in 1 .. lh PROVE h[j] = IF j <= lf THEN f[j] ELSE vals[j - lf]
    <3>1. CASE j = lg + 1
      <4>1. ~(j <= lf) /\ j - lf = k /\ ~(j < lg + 1)
        BY <1>1, <3>1
      <4> QED
        BY <2>2, <3>1, <4>1
    <3>2. CASE j # lg + 1
      <4>1. j \in 1 .. lg /\ j < lg + 1
        BY <1>1, <3>2
      <4> QED
        BY <2>1, <2>2, <4>1
    <3> QED
      BY <3>1, <3>2
  <2>4. lh = lf + k
    BY <1>1
  <2> QED
    BY <1>3, <2>3, <2>4 DEF IsPushed, lf, lh
<1> QED
  BY <1>2, <1>3

LEMMA PushedAll ==
  ASSUME NEW q \in Exact, NEW vals \in Seq(Value), NEW where
  PROVE  Held(listTypePush(q, vals, where))
           = IF where = "head" THEN Reverse(vals) \o Held(q) ELSE Held(q) \o vals
<1> DEFINE n == Len(vals)
           f == Held(q)
           Good == [k \in 0 .. n |-> {x \in Exact : IsPushed(Held(x), f, vals, where, k)}]
<1>1. PICK p : /\ p[0] = q
               /\ \A k \in 1 .. n : p[k] = quicklistPush(p[k - 1], vals[k], where)
               /\ listTypePush(q, vals, where) = p[n]
  BY PushFold
<1>2. n \in Nat /\ f \in Seq(Value) /\ Len(f) \in Nat
  BY HeldType
<1>3. p[0] \in Good[0]
  <2>1. IsPushed(f, f, vals, where, 0)
    <3> HIDE DEF f
    <3> DEFINE lf == Len(f)
    <3>1. lf \in Nat
      BY <1>2
    <3> HIDE DEF lf
    <3>2. ASSUME NEW j \in 1 .. lf PROVE j <= lf /\ ~(j <= 0) /\ j - 0 = j
      BY <3>1
    <3>3. lf = lf + 0
      BY <3>1
    <3> QED
      BY <3>2, <3>3 DEF IsPushed, lf
  <2>2. 0 \in 0 .. n
    BY <1>2
  <2> HIDE DEF f
  <2> QED
    BY <1>1, <2>1, <2>2 DEF f
<1>4. ASSUME NEW k \in 1 .. n, p[k - 1] \in Good[k - 1] PROVE p[k] \in Good[k]
  <2> DEFINE x == p[k - 1]
             y == p[k]
  <2>1. k - 1 \in 0 .. n /\ k \in 0 .. n /\ vals[k] \in Value
    BY <1>2
  <2>2. x \in Exact /\ IsPushed(Held(x), f, vals, where, k - 1)
    BY <1>4, <2>1
  <2>3. y = quicklistPush(x, vals[k], where)
    BY <1>1
  <2> HIDE DEF x, y
  <2>4. y \in Exact
    BY <2>1, <2>2, <2>3, PushExact
  <2>5. IsInsert(Held(y), Held(x), IF where = "head" THEN 1 ELSE Len(Held(x)) + 1, vals[k])
    BY <2>1, <2>2, <2>3, PushAt DEF Held
  <2>6. Held(x) \in Seq(Value) /\ Held(y) \in Seq(Value)
    BY <2>2, <2>4, HeldType
  <2> HIDE DEF f
  <2>7. IsPushed(Held(y), f, vals, where, k)
    BY <1>2, <2>2, <2>5, <2>6, PushedOne
  <2> QED
    BY <2>1, <2>4, <2>7 DEF y
<1> HIDE DEF Good
<1>5. \A k \in 1 .. n : p[k - 1] \in Good[k - 1] => p[k] \in Good[k]
  BY <1>4
<1>6. p[n] \in Good[n]
  <2> HIDE DEF n
  <2>1. \A k \in 0 .. n : p[k] \in Good[k]
    BY <1>2, <1>3, <1>5, Through
  <2> QED
    BY <1>2, <2>1
<1> DEFINE g == Held(p[n])
           s == IF where = "head" THEN Reverse(vals) \o f ELSE f \o vals
<1>7. g \in Seq(Value) /\ IsPushed(g, f, vals, where, n)
  <2>1. p[n] \in Exact /\ IsPushed(Held(p[n]), f, vals, where, n)
    BY <1>2, <1>6 DEF Good
  <2> QED
    BY <2>1, HeldType
<1> HIDE DEF f, g
<1>8. CASE where = "head"
  <2> DEFINE r == Reverse(vals)
             u == r \o f
  <2>1. r \in Seq(Value) /\ Len(r) = n /\ \A j \in 1 .. n : r[j] = vals[(n - j) + 1]
    <3>1. r = [j \in 1 .. n |-> vals[(n - j) + 1]]
      BY DEF Reverse
    <3> HIDE DEF r
    <3>2. \A j \in 1 .. n : (n - j) + 1 \in 1 .. n /\ vals[(n - j) + 1] \in Value
      BY <1>2
    <3> HIDE DEF n
    <3> QED
      BY <1>2, <3>1, <3>2
  <2> HIDE DEF r
  <2>2. /\ u \in Seq(Value) /\ Len(u) = n + Len(f)
        /\ \A j \in 1 .. n + Len(f) : u[j] = IF j <= n THEN r[j] ELSE f[j - n]
    <3>1. r \in Seq(Value) /\ f \in Seq(Value)
      BY <1>2, <2>1
    <3> HIDE DEF n
    <3> QED
      BY <2>1, <3>1, ConcatProperties
  <2> HIDE DEF u, n
  <2>3. Len(g) = Len(f) + n
    BY <1>7 DEF IsPushed
  <2>4. ASSUME NEW j \in 1 .. Len(g) PROVE g[j] = u[j]
    <3>1. g[j] = IF j <= n THEN vals[n - j + 1] ELSE f[j - n]
      BY <1>7, <1>8 DEF IsPushed
    <3>2. j \in 1 .. n + Len(f) /\ (j <= n => j \in 1 .. n)
      BY <1>2, <2>3
    <3> QED
      BY <2>1, <2>2, <3>1, <3>2
  <2>5. Len(g) = Len(u)
    BY <1>2, <2>2, <2>3
  <2>6. g = u
    BY <1>7, <2>2, <2>4, <2>5, SeqEqual
  <2> QED
    BY <1>1, <1>8, <2>6 DEF g, u, r, f
<1>9. CASE where # "head"
  <2> DEFINE u == f \o vals
  <2>2. /\ u \in Seq(Value) /\ Len(u) = Len(f) + n
        /\ \A j \in 1 .. Len(f) + n : u[j] = IF j <= Len(f) THEN f[j] ELSE vals[j - Len(f)]
    BY <1>2, ConcatProperties
  <2> HIDE DEF u, n
  <2>3. Len(g) = Len(f) + n
    BY <1>7 DEF IsPushed
  <2>4. ASSUME NEW j \in 1 .. Len(g) PROVE g[j] = u[j]
    BY <1>7, <1>9, <2>2, <2>3 DEF IsPushed
  <2>6. g = u
    BY <1>7, <2>2, <2>3, <2>4, SeqEqual
  <2> QED
    BY <1>1, <1>9, <2>6 DEF g, u, f
<1> QED
  BY <1>8, <1>9

-----------------------------------------------------------------------------
(* One entry read, and one entry gone.                                     *)

LEMMA EntryAt ==
  ASSUME NEW ns \in Seq(Full), NEW i \in 1 .. Len(ns), NEW p \in 1 .. Len(ns[i].zl)
  PROVE  /\ Size(Pre(ns, i)) \in Nat
         /\ Size(Pre(ns, i)) + p \in 1 .. Len(Flat(ns))
         /\ Flat(ns)[Size(Pre(ns, i)) + p] = ns[i].zl[p]
<1> DEFINE f == Flat(ns)
           a == Before(ns, i)
           z == ns[i].zl
           b == After(ns, i)
<1>1. /\ a \in Seq(Value) /\ b \in Seq(Value) /\ z \in Seq(Value)
      /\ Len(a) = Size(Pre(ns, i)) /\ Len(a) \in Nat /\ IsThree(f, a, z, b)
  BY NodeThree
<1>2. p \in 1 .. Len(z)
  OBVIOUS
<1> HIDE DEF f, a, z, b
<1>3. Len(z) \in Nat /\ Len(b) \in Nat /\ Len(f) = Len(a) + Len(z) + Len(b)
  BY <1>1 DEF IsThree
<1>4. /\ Len(a) + p \in 1 .. Len(f) /\ ~(Len(a) + p <= Len(a))
      /\ Len(a) + p <= Len(a) + Len(z) /\ (Len(a) + p) - Len(a) = p
  BY <1>1, <1>2, <1>3
<1>5. f[Len(a) + p] = z[p]
  BY <1>1, <1>4 DEF IsThree
<1> QED
  BY <1>1, <1>4, <1>5 DEF f, z

LEMMA RemoveIsCut ==
  ASSUME NEW S, NEW s \in Seq(S), NEW p \in 1 .. Len(s)
  PROVE  /\ RemoveAt(s, p) = Cut(s, p - 1, 1)
         /\ RemoveAt(s, p) \in Seq(S) /\ IsCut(RemoveAt(s, p), s, p - 1, 1)
<1>1. (p - 1) + 1 + 1 = p + 1 /\ p - 1 \in Nat /\ (p - 1) + 1 <= Len(s)
  OBVIOUS
<1>2. RemoveAt(s, p) = Cut(s, p - 1, 1)
  BY <1>1 DEF RemoveAt, Cut
<1>3. Cut(s, p - 1, 1) \in Seq(S) /\ IsCut(Cut(s, p - 1, 1), s, p - 1, 1)
  BY <1>1, CutIs
<1> QED
  BY <1>2, <1>3

\* What is left of node i, cut in the middle.
LEMMA NodeCut ==
  ASSUME NEW ns \in Seq(Full), NEW i \in 1 .. Len(ns), NEW zl \in Seq(Value),
         NEW p \in Nat, NEW k \in Nat, p + k <= Len(ns[i].zl), IsCut(zl, ns[i].zl, p, k)
  PROVE  /\ Size(Pre(ns, i)) + p + k <= Len(Flat(ns))
         /\ IsCut(Flat(Left(ns, i, zl)), Flat(ns), Size(Pre(ns, i)) + p, k)
<1> DEFINE f == Flat(ns)
           a == Before(ns, i)
           z == ns[i].zl
           b == After(ns, i)
           g == Flat(Left(ns, i, zl))
<1>1. /\ a \in Seq(Value) /\ b \in Seq(Value) /\ z \in Seq(Value) /\ f \in Seq(Value)
      /\ Len(a) = Size(Pre(ns, i)) /\ Len(a) \in Nat /\ IsThree(f, a, z, b)
  BY NodeThree
<1>2. g \in Seq(Value) /\ IsThree(g, a, zl, b)
  BY LeftThree
<1>3. p + k <= Len(z) /\ IsCut(zl, z, p, k)
  OBVIOUS
<1> HIDE DEF f, a, z, b, g
<1>4. IsCut(g, f, Len(a) + p, k)
  BY <1>1, <1>2, <1>3, ThreeCut
<1>5. Len(a) + p + k <= Len(f)
  <2>1. Len(z) \in Nat /\ Len(b) \in Nat /\ Len(f) = Len(a) + Len(z) + Len(b)
    BY <1>1 DEF IsThree
  <2> QED
    BY <1>1, <1>3, <2>1
<1> QED
  BY <1>1, <1>4, <1>5 DEF f, g

LEMMA DelIndexHeld ==
  ASSUME NEW q \in Exact, NEW i \in DOMAIN q.nodes, NEW p \in 1 .. Len(q.nodes[i].zl),
         NEW r, r = quicklistDelIndex(q, i, p),
         NEW at, at = Size(Pre(q.nodes, i)) + p
  PROVE  /\ r \in Exact /\ r.nodes = Left(q.nodes, i, RemoveAt(q.nodes[i].zl, p))
         /\ at \in 1 .. Len(Held(q)) /\ Held(q)[at] = q.nodes[i].zl[p]
         /\ IsCut(Held(r), Held(q), at - 1, 1)
         /\ Held(r) = RemoveAt(Held(q), at)
<1> DEFINE ns == q.nodes
           z == ns[i].zl
           zl == RemoveAt(z, p)
<1>1. ns \in Seq(Full) /\ i \in 1 .. Len(ns) /\ z \in Seq(Value) /\ p \in 1 .. Len(z)
  BY ExactIs, NodeOf
<1>2. r = [nodes |-> Left(q.nodes, i, zl), count |-> q.count - 1] /\ r \in Exact
  BY DelIndex
<1>3. /\ Size(Pre(ns, i)) \in Nat /\ at \in 1 .. Len(Flat(ns)) /\ Flat(ns)[at] = z[p]
  BY <1>1, EntryAt
<1>4. zl \in Seq(Value) /\ IsCut(zl, z, p - 1, 1)
  BY <1>1, RemoveIsCut
<1>5. p - 1 \in Nat /\ (p - 1) + 1 <= Len(z)
  BY <1>1
<1>6. r.nodes = Left(ns, i, zl)
  BY <1>2
<1> HIDE DEF ns, zl
<1>7. IsCut(Flat(Left(ns, i, zl)), Flat(ns), Size(Pre(ns, i)) + (p - 1), 1)
  BY <1>1, <1>4, <1>5, NodeCut
<1>8. Size(Pre(ns, i)) + (p - 1) = at - 1
  BY <1>1, <1>3 DEF ns
<1>9. IsCut(Held(r), Held(q), at - 1, 1)
  BY <1>6, <1>7, <1>8 DEF Held, ns
<1>10. Held(r) = RemoveAt(Held(q), at)
  <2> DEFINE s == Held(q)
  <2>1. s \in Seq(Value) /\ Held(r) \in Seq(Value)
    BY <1>2, HeldType
  <2>2. at \in 1 .. Len(s) /\ IsCut(Held(r), s, at - 1, 1)
    BY <1>3, <1>9 DEF Held, ns
  <2> HIDE DEF s
  <2>3. at - 1 \in Nat /\ (at - 1) + 1 <= Len(s)
    BY <2>1, <2>2
  <2>4. Held(r) = Cut(s, at - 1, 1)
    BY <2>1, <2>2, <2>3, IsCutOut
  <2>5. RemoveAt(s, at) = Cut(s, at - 1, 1)
    BY <2>1, <2>2, RemoveIsCut
  <2> QED
    BY <2>4, <2>5 DEF s
<1> QED
  BY <1>2, <1>3, <1>6, <1>9, <1>10 DEF Held, ns, zl

LEMMA EndsRemoved ==
  ASSUME NEW S, NEW s \in Seq(S), s # <<>>
  PROVE  RemoveAt(s, 1) = Tail(s) /\ RemoveAt(s, Len(s)) = Front(s)
<1> DEFINE n == Len(s)
           t == Tail(s)
           u == Front(s)
<1>1. n \in Nat \ {0}
  OBVIOUS
<1>2. t \in Seq(S) /\ Len(t) = n - 1 /\ \A j \in 1 .. n - 1 : t[j] = s[j + 1]
  BY <1>1
<1>3. u \in Seq(S) /\ Len(u) = n - 1 /\ \A j \in 1 .. n - 1 : u[j] = s[j]
  <2>1. u = Pre(s, n)
    BY DEF Front, Pre
  <2>2. n \in 1 .. Len(s) + 1
    BY <1>1
  <2> HIDE DEF u
  <2> QED
    BY <2>1, <2>2, Pieces
<1>4. 1 \in 1 .. n /\ n \in 1 .. n
  BY <1>1
<1> DEFINE v == RemoveAt(s, 1)
           w == RemoveAt(s, n)
<1>5. v \in Seq(S) /\ IsCut(v, s, 1 - 1, 1)
  BY <1>4, RemoveIsCut
<1>6. w \in Seq(S) /\ IsCut(w, s, n - 1, 1)
  BY <1>4, RemoveIsCut
<1> HIDE DEF t, u, v, w
<1>7. Len(v) = n - 1 /\ \A j \in 1 .. n - 1 : v[j] = s[j + 1]
  BY <1>1, <1>5 DEF IsCut
<1>8. Len(w) = n - 1 /\ \A j \in 1 .. n - 1 : w[j] = s[j]
  BY <1>1, <1>6 DEF IsCut
<1> HIDE DEF n
<1>9. v = t
  BY <1>2, <1>5, <1>7, SeqEqual
<1>10. w = u
  BY <1>3, <1>6, <1>8, SeqEqual
<1> QED
  BY <1>9, <1>10 DEF t, u, v, w, n

\* A pop gives and removes the first or the last entry.
LEMMA PopHeld ==
  ASSUME NEW q \in Exact, q.count > 0, NEW where, NEW popped,
         popped = quicklistPopCustom(q, where)
  PROVE  /\ popped.ql \in Exact /\ Held(q) # <<>>
         /\ where = "head" => /\ Held(popped.ql) = Tail(Held(q))
                              /\ popped.value = Held(q)[1]
         /\ where # "head" => /\ Held(popped.ql) = Front(Held(q))
                              /\ popped.value = Last(Held(q))
<1> DEFINE n == Len(q.nodes)
           i == IF where = "head" THEN 1 ELSE n
           o == IF where = "head" THEN 0 ELSE -1
           z == q.nodes[i].zl
           p == ziplistIndex(z, o)
           at == Size(Pre(q.nodes, i)) + p
           l == Held(q)
<1>1. /\ q.nodes \in Seq(Full) /\ n \in Nat \ {0} /\ DOMAIN q.nodes = 1 .. n
      /\ q.count = Size(q.nodes)
  BY ExactIs, NotEmpty
<1>2. i \in DOMAIN q.nodes
  BY <1>1
<1> HIDE DEF i
<1>3. z \in Seq(Value) /\ Len(z) \in Nat \ {0} /\ q.nodes[i].count = Len(z)
  BY <1>2, NodeOf
<1>4. l \in Seq(Value) /\ Len(l) = q.count /\ l # <<>>
  BY HeldType
<1> HIDE DEF z, l
<1>5. p = IF where = "head" THEN 1 ELSE Len(z)
  BY <1>3, ZiplistIndex
<1>6. p \in 1 .. Len(z)
  BY <1>3, <1>5
<1>7. at = IF where = "head" THEN 1 ELSE Len(l)
  <2>1. /\ Size(Pre(q.nodes, 1)) = 0 /\ Pre(q.nodes, n + 1) = q.nodes
    BY <1>1, SizeEnds
  <2>2. CASE where = "head"
    <3>1. at = 0 + 1
      BY <1>5, <2>1, <2>2 DEF i
    <3> QED
      BY <2>2, <3>1
  <2>3. CASE where # "head"
    <3>1. Size(Pre(q.nodes, n + 1)) = Size(Pre(q.nodes, n)) + q.nodes[n].count
      BY <1>1, SizeStep
    <3>2. i = n
      BY <2>3 DEF i
    <3> QED
      BY <1>1, <1>3, <1>4, <1>5, <2>1, <2>3, <3>1, <3>2
  <2> QED
    BY <2>2, <2>3
<1> DEFINE r == quicklistDelIndex(q, i, p)
<1>8. popped.ql = r /\ popped.value = z[p]
  BY DEF quicklistPopCustom, i, z
<1> HIDE DEF p, r, at
<1>9. /\ r \in Exact /\ Held(q)[at] = q.nodes[i].zl[p] /\ Held(r) = RemoveAt(Held(q), at)
  BY <1>2, <1>6, DelIndexHeld DEF r, at, z
<1>10. RemoveAt(l, 1) = Tail(l) /\ RemoveAt(l, Len(l)) = Front(l)
  BY <1>4, EndsRemoved
<1>11. Last(l) = l[Len(l)]
  BY DEF Last
<1> QED
  BY <1>4, <1>7, <1>8, <1>9, <1>10, <1>11 DEF l, z

-----------------------------------------------------------------------------
(* Indexes.                                                                *)

\* The position an index stands for in a list of n entries.
PosOf(idx, n) == IF idx < 0 THEN n + idx + 1 ELSE idx + 1

LEMMA IndexHeld ==
  ASSUME NEW q \in Exact, NEW idx \in Int,
         NEW i, i = quicklistIndex(q, idx)[1], NEW o, o = quicklistIndex(q, idx)[2],
         NEW n, n = Len(Held(q))
  PROVE  /\ i = 0 => PosOf(idx, n) \notin 1 .. n
         /\ i # 0 => /\ i \in 1 .. Len(q.nodes) /\ i \in DOMAIN q.nodes /\ o \in Int
                     /\ ziplistIndex(q.nodes[i].zl, o) \in 1 .. Len(q.nodes[i].zl)
                     /\ PosOf(idx, n) = Size(Pre(q.nodes, i)) + ziplistIndex(q.nodes[i].zl, o)
                     /\ PosOf(idx, n) \in 1 .. n
                     /\ Held(q)[PosOf(idx, n)]
                          = q.nodes[i].zl[ziplistIndex(q.nodes[i].zl, o)]
<1> DEFINE ns == q.nodes
           P == PosOf(idx, n)
<1>1. /\ ns \in Seq(Full) /\ DOMAIN ns = 1 .. Len(ns) /\ q.count = Size(ns)
      /\ n = Size(ns) /\ n \in Nat
  BY ExactIs, HeldType DEF Held, Size
<1>2. /\ i = 0 => o = 0 /\ (idx >= q.count \/ idx < -q.count)
      /\ i # 0 => /\ i \in 1 .. Len(q.nodes) /\ o \in Int
                  /\ idx >= 0 => /\ 0 <= o /\ o < q.nodes[i].count
                                 /\ idx = Size(Pre(q.nodes, i)) + o
                  /\ idx < 0 => /\ o < 0 /\ -o <= q.nodes[i].count
                                /\ idx = o - Size(Rest(q.nodes, i + 1))
  BY IndexFound
<1>3. CASE i = 0
  BY <1>1, <1>2, <1>3 DEF PosOf
<1>4. CASE i # 0
  <2> DEFINE z == ns[i].zl
             p == ziplistIndex(z, o)
             c == ns[i].count
             a == Size(Pre(ns, i))
             r == Size(Rest(ns, i + 1))
  <2>1. i \in 1 .. Len(ns) /\ i \in DOMAIN q.nodes /\ o \in Int
    BY <1>1, <1>2, <1>4
  <2>2. z \in Seq(Value) /\ c = Len(z) /\ c \in Nat \ {0}
    BY <2>1, NodeOf
  <2>3. /\ idx >= 0 => 0 <= o /\ o < c /\ idx = a + o
        /\ idx < 0 => o < 0 /\ -o <= c /\ idx = o - r
    BY <1>2, <1>4
  <2>4. Size(Pre(ns, i + 1)) = a + c /\ a \in Nat
    BY <1>1, <2>1, SizeStep
  <2>5. i + 1 \in 1 .. Len(ns) + 1
    BY <2>1
  <2>6. n = Size(Pre(ns, i + 1)) + r /\ r \in Nat
    BY <1>1, <2>5, SizeSplit
  <2> HIDE DEF z, c, a, r
  <2>7. /\ 0 <= o /\ o < Len(z) => p = o + 1
        /\ o < 0 /\ -o <= Len(z) => p = Len(z) + o + 1
    BY <2>1, <2>2, ZiplistIndex
  <2> HIDE DEF p
  <2> DEFINE lz == Len(z)
  <2>10. n = (a + lz) + r /\ a \in Nat /\ r \in Nat /\ lz \in Nat \ {0}
    BY <2>2, <2>4, <2>6
  <2>11. /\ idx >= 0 => 0 <= o /\ o < lz /\ idx = a + o
         /\ idx < 0 => o < 0 /\ -o <= lz /\ idx = o - r
         /\ 0 <= o /\ o < lz => p = o + 1
         /\ o < 0 /\ -o <= lz => p = lz + o + 1
    BY <2>2, <2>3, <2>7
  <2> HIDE DEF lz
  <2>12. P = IF idx < 0 THEN n + idx + 1 ELSE idx + 1
    BY DEF PosOf
  <2> HIDE DEF P
  <2>13. p \in 1 .. lz /\ P = a + p /\ P \in 1 .. n
    <3>3. o \in Int
      BY <2>1
    <3>1. CASE idx >= 0
      BY <2>10, <2>11, <2>12, <3>1, <3>3
    <3>2. CASE idx < 0
      <4>1. p = lz + o + 1 /\ -o <= lz /\ o < 0
        BY <2>11, <3>2
      <4>2. P = n + idx + 1 /\ idx = o - r
        BY <2>11, <2>12, <3>2
      <4> QED
        BY <2>10, <3>3, <4>1, <4>2
    <3> QED
      BY <3>1, <3>2
  <2>8. p \in 1 .. Len(z) /\ P = a + p /\ P \in 1 .. n
    BY <2>13 DEF lz
  <2> HIDE DEF P
  <2>9. Flat(ns)[a + p] = z[p]
    BY <1>1, <2>1, <2>8, EntryAt DEF a, z
  <2> QED
    BY <1>4, <2>1, <2>8, <2>9 DEF Held, P, a, p, z
<1> QED
  BY <1>3, <1>4

LEMMA SetHeld ==
  ASSUME NEW q \in Exact, NEW idx \in Int, NEW v \in Value,
         quicklistIndex(q, idx)[1] # 0, NEW r, r = quicklistReplaceAtIndex(q, idx, v)
  PROVE  /\ r \in Exact
         /\ Held(r) = ReplaceAt(Held(q), PosOf(idx, Len(Held(q))), v)
<1> DEFINE at == quicklistIndex(q, idx)
           i == at[1]
           o == at[2]
           ns == q.nodes
           n == ns[i]
           z == n.zl
           p == ziplistIndex(z, o)
           zl == ReplaceAt(z, p, v)
           m == Update(n, zl, 0)
           P == PosOf(idx, Len(Held(q)))
<1>1. r \in Exact
  BY ReplaceExact
<1>2. r = WithNode(q, i, m)
  BY DEF quicklistReplaceAtIndex, WithNode
<1>3. /\ ns \in Seq(Full) /\ DOMAIN ns = 1 .. Len(ns)
  BY ExactIs
<1> HIDE DEF at, i, o
<1>4. /\ i \in 1 .. Len(ns) /\ i \in DOMAIN q.nodes /\ p \in 1 .. Len(z)
      /\ P = Size(Pre(ns, i)) + p
  BY IndexHeld, SMTT(60) DEF i, o, at
<1> HIDE DEF p, P
<1>5. n \in Full /\ z \in Seq(Value) /\ z # <<>> /\ n.count = Len(z) /\ n.count \in Nat \ {0}
  BY <1>4, NodeOf
<1>6. zl = [z EXCEPT ![p] = v] /\ zl \in Seq(Value) /\ Len(zl) = Len(z)
  <2> HIDE DEF z
  <2>1. zl = [z EXCEPT ![p] = v]
    BY DEF ReplaceAt
  <2> HIDE DEF zl
  <2> QED
    BY <1>4, <1>5, <2>1, ExceptSeq
<1> HIDE DEF zl, z, n
<1>7. n.count + 0 = Len(zl) /\ zl # <<>>
  BY <1>5, <1>6
<1>8. m = Node(zl)
  BY <1>5, <1>7, UpdateIsNode
<1> HIDE DEF m
<1>9. r.nodes = [ns EXCEPT ![i] = m]
  BY <1>2, NodeChanged
<1>10. r.nodes = Left(ns, i, zl)
  BY <1>7, <1>8, <1>9 DEF Left
<1> DEFINE f == Flat(ns)
           g == Flat(r.nodes)
           a == Before(ns, i)
           b == After(ns, i)
<1>11. /\ a \in Seq(Value) /\ b \in Seq(Value) /\ z \in Seq(Value) /\ f \in Seq(Value)
       /\ Len(a) = Size(Pre(ns, i)) /\ IsThree(f, a, z, b)
  <2> HIDE DEF ns
  <2> QED
    BY <1>3, <1>4, NodeThree DEF z, n
<1>12. g \in Seq(Value) /\ IsThree(g, a, zl, b)
  <2> HIDE DEF ns
  <2> QED
    BY <1>3, <1>4, <1>6, <1>10, LeftThree
<1> HIDE DEF f, g, a, b, ns
<1>13. g = ReplaceAt(f, Len(a) + p, v)
  <2>1. p \in 1 .. Len(z) /\ zl = ReplaceAt(z, p, v)
    BY <1>4 DEF zl
  <2>2. /\ a \in Seq(Value) /\ z \in Seq(Value) /\ b \in Seq(Value) /\ f \in Seq(Value)
        /\ g \in Seq(Value) /\ IsThree(f, a, z, b) /\ IsThree(g, a, zl, b)
    BY <1>11, <1>12
  <2> QED
    BY <2>1, <2>2, ThreeReplace
<1> QED
  BY <1>1, <1>4, <1>11, <1>13 DEF f, g, Held, P, ns

-----------------------------------------------------------------------------
(* Merges and splits.                                                      *)

LEMMA BeforeStep ==
  ASSUME NEW ns \in Seq(Full), NEW i \in 1 .. Len(ns)
  PROVE  /\ Before(ns, i + 1) = Before(ns, i) \o ns[i].zl
         /\ From(ns, i) = ns[i].zl \o From(ns, i + 1)
         /\ After(ns, i) = From(ns, i + 1)
<1> DEFINE a == Pre(ns, i)
           b == Rest(ns, i + 1)
           n == ns[i]
           c == <<n>>
<1>1. i \in 1 .. Len(ns) + 1 /\ i + 1 \in 1 .. Len(ns) + 1 /\ (i + 1) - 1 = i
  OBVIOUS
<1>2. n \in Full
  OBVIOUS
<1>4. a \in Seq(Full) /\ b \in Seq(Full)
  BY <1>1, Pieces
<1>5. c \in Seq(Full) /\ Flat(c) = n.zl
  BY <1>2, FlatOne
<1>6. Pre(ns, i + 1) = a \o c
  <2>1. 1 \in 1 .. Len(ns) /\ i \in 1 .. Len(ns)
    OBVIOUS
  <2>2. SubSeq(ns, 1, i) = SubSeq(ns, 1, i - 1) \o <<ns[i]>>
    BY <2>1, SubSeqRecursiveSecond
  <2> QED
    BY <1>1, <2>2 DEF Pre
<1>7. Rest(ns, i) = c \o b
  <2>1. Len(ns) \in i .. Len(ns)
    OBVIOUS
  <2>2. SubSeq(ns, i, Len(ns)) = <<ns[i]>> \o SubSeq(ns, i + 1, Len(ns))
    BY <2>1, SubSeqRecursiveFirst
  <2> QED
    BY <2>2 DEF Rest
<1> HIDE DEF a, b, c, n
<1>8. Flat(a \o c) = Flat(a) \o Flat(c)
  BY <1>4, <1>5, FlatConcat
<1>9. Flat(c \o b) = Flat(c) \o Flat(b)
  BY <1>4, <1>5, FlatConcat
<1>10. After(ns, i) = From(ns, i + 1)
  BY DEF After, From, Suf, Rest
<1> QED
  BY <1>5, <1>6, <1>7, <1>8, <1>9, <1>10 DEF a, b, n, Before, From

LEMMA FlatSplit ==
  ASSUME NEW ns \in Seq(Full), NEW i \in 1 .. Len(ns) + 1
  PROVE  /\ Before(ns, i) \in Seq(Value) /\ From(ns, i) \in Seq(Value)
         /\ Flat(ns) = Before(ns, i) \o From(ns, i)
<1> DEFINE a == Pre(ns, i)
           b == Rest(ns, i)
<1>1. a \in Seq(Full) /\ b \in Seq(Full) /\ ns = a \o b
  BY Pieces
<1> HIDE DEF a, b
<1>2. Flat(a \o b) = Flat(a) \o Flat(b) /\ Flat(a) \in Seq(Value) /\ Flat(b) \in Seq(Value)
  BY <1>1, FlatConcat, FlatType
<1> QED
  BY <1>1, <1>2 DEF a, b, Before, From

\* A change of element i does not reach the others.
LEMMA PiecesKept ==
  ASSUME NEW S, NEW s \in Seq(S), NEW i \in 1 .. Len(s), NEW x \in S,
         NEW t, t = ReplaceAt(s, i, x)
  PROVE  /\ t \in Seq(S) /\ Len(t) = Len(s) /\ t[i] = x
         /\ \A k \in 1 .. i : Pre(t, k) = Pre(s, k)
         /\ \A k \in i + 1 .. Len(s) + 1 : Rest(t, k) = Rest(s, k)
<1> DEFINE n == Len(s)
<1>1. /\ t \in Seq(S) /\ Len(t) = n
      /\ \A j \in 1 .. n : t[j] = IF j = i THEN x ELSE s[j]
  BY ExceptSeq DEF ReplaceAt
<1>2. n \in Nat /\ i \in 1 .. n
  OBVIOUS
<1>3. ASSUME NEW k \in 1 .. i PROVE Pre(t, k) = Pre(s, k)
  <2> DEFINE a == Pre(t, k)
             b == Pre(s, k)
  <2>1. k \in 1 .. Len(s) + 1 /\ k \in 1 .. Len(t) + 1
    BY <1>1, <1>2
  <2>2. b \in Seq(S) /\ Len(b) = k - 1 /\ \A j \in 1 .. k - 1 : b[j] = s[j]
    BY <2>1, Pieces
  <2>3. a \in Seq(S) /\ Len(a) = k - 1 /\ \A j \in 1 .. k - 1 : a[j] = t[j]
    BY <1>1, <2>1, Pieces
  <2> HIDE DEF a, b, n
  <2>4. ASSUME NEW j \in 1 .. Len(a) PROVE a[j] = b[j]
    <3>1. j \in 1 .. k - 1 /\ j \in 1 .. n /\ j # i
      BY <1>2, <2>3
    <3> QED
      BY <1>1, <2>2, <2>3, <3>1
  <2>5. Len(a) = Len(b)
    BY <2>2, <2>3
  <2>6. a = b
    BY <2>2, <2>3, <2>4, <2>5, SeqEqual
  <2> QED
    BY <2>6 DEF a, b
<1>4. ASSUME NEW k \in i + 1 .. n + 1 PROVE Rest(t, k) = Rest(s, k)
  <2> DEFINE a == Rest(t, k)
             b == Rest(s, k)
  <2>1. k \in 1 .. Len(s) + 1 /\ k \in 1 .. Len(t) + 1
    BY <1>1, <1>2
  <2>2. b \in Seq(S) /\ Len(b) = n - k + 1 /\ \A j \in 1 .. n - k + 1 : b[j] = s[k + j - 1]
    BY <2>1, Pieces
  <2>7. /\ a \in Seq(S) /\ Len(a) = Len(t) - k + 1
        /\ \A j \in 1 .. Len(t) - k + 1 : a[j] = t[k + j - 1]
    BY <1>1, <2>1, Pieces
  <2>3. a \in Seq(S) /\ Len(a) = n - k + 1 /\ \A j \in 1 .. n - k + 1 : a[j] = t[k + j - 1]
    BY <1>1, <2>7
  <2> HIDE DEF a, b, n
  <2>4. ASSUME NEW j \in 1 .. Len(a) PROVE a[j] = b[j]
    <3>1. j \in 1 .. n - k + 1 /\ k + j - 1 \in 1 .. n /\ k + j - 1 # i
      BY <1>2, <2>3
    <3> QED
      BY <1>1, <2>2, <2>3, <3>1
  <2>5. Len(a) = Len(b)
    BY <2>2, <2>3
  <2>6. a = b
    BY <2>2, <2>3, <2>4, <2>5, SeqEqual
  <2> QED
    BY <2>6 DEF a, b
<1>5. t[i] = x
  BY <1>1, <1>2
<1> QED
  BY <1>1, <1>3, <1>4, <1>5

\* Two nodes in one hold what they held.
LEMMA JoinedFlat ==
  ASSUME NEW ns \in Seq(Full), NEW i \in 1 .. Len(ns), i + 1 \in 1 .. Len(ns)
  PROVE  Flat(Joined(ns, i)) = Flat(ns)
<1> DEFINE x == ns[i].zl
           y == ns[i + 1].zl
           z == x \o y
           m == Node(z)
           t == ReplaceAt(ns, i, m)
           A == Before(ns, i)
           B == From(ns, i + 2)
<1>1. Joined(ns, i) = RemoveAt(t, i + 1)
  BY DEF Joined, ReplaceAt
<1>2. ns[i] \in Full /\ ns[i + 1] \in Full
  OBVIOUS
<1>3. x \in Seq(Value) /\ x # <<>> /\ y \in Seq(Value)
  BY <1>2, FullNode DEF Ziplists
<1> HIDE DEF x, y
<1>4. z \in Seq(Value) /\ z # <<>>
  <2>1. z \in Seq(Value) /\ Len(z) = Len(x) + Len(y)
    BY <1>3, ConcatProperties
  <2> HIDE DEF z
  <2>2. Len(x) \in Nat /\ Len(x) # 0 /\ Len(y) \in Nat
    BY <1>3
  <2>3. Len(z) # 0
    BY <2>1, <2>2
  <2> QED
    BY <2>1, <2>3
<1>5. m \in Full /\ m.zl = z
  BY <1>4, NodeFull DEF Node
<1> HIDE DEF m, z
<1>6. i + 2 \in i + 1 .. Len(ns) + 1 /\ i \in 1 .. i /\ (i + 1) + 1 = i + 2
  OBVIOUS
<1>7. /\ t \in Seq(Full) /\ Len(t) = Len(ns) /\ t[i] = m
      /\ Pre(t, i) = Pre(ns, i) /\ Rest(t, i + 2) = Rest(ns, i + 2)
  BY <1>5, <1>6, PiecesKept
<1>8. Before(t, i) = A /\ From(t, i + 2) = B
  BY <1>7 DEF Before, From
<1> HIDE DEF t, A, B
<1>9. Before(t, i + 1) = A \o z
  BY <1>5, <1>7, <1>8, BeforeStep
<1>10. After(t, i + 1) = B
  BY <1>6, <1>7, <1>8, BeforeStep
<1>11. Flat(RemoveAt(t, i + 1)) = (A \o z) \o B
  <2>1. i + 1 \in 1 .. Len(t)
    BY <1>7
  <2> QED
    BY <1>7, <1>9, <1>10, <2>1, NodeRemoved
<1>12. Before(ns, i + 1) = A \o x
  BY BeforeStep DEF A, x
<1>13. Before(ns, i + 2) = (A \o x) \o y
  BY <1>6, <1>12, BeforeStep DEF y
<1>14. /\ B \in Seq(Value) /\ Flat(ns) = ((A \o x) \o y) \o B
  <2>1. i + 2 \in 1 .. Len(ns) + 1
    BY <1>6
  <2> QED
    BY <1>13, <2>1, FlatSplit DEF B
<1>15. A \in Seq(Value)
  BY ChainAt DEF A
<1>16. A \o z = (A \o x) \o y
  <2>2. A \in Seq(Value) /\ x \in Seq(Value) /\ y \in Seq(Value)
    BY <1>3, <1>15
  <2>1. (A \o x) \o y = A \o (x \o y)
    BY <2>2, ConcatAssociative, SMTT(60)
  <2> QED
    BY <2>1 DEF z
<1> QED
  BY <1>1, <1>11, <1>14, <1>16

LEMMA MergeHeld ==
  ASSUME NEW d \in Int, NEW q \in Off(d), NEW a \in Int,
         _quicklistNodeAllowMerge(q, a, a + 1) \/ _quicklistNodeAllowMerge(q, a + 1, a)
  PROVE  /\ _quicklistZiplistMerge(q, a) \in Off(d)
         /\ Held(_quicklistZiplistMerge(q, a)) = Held(q)
<1>1. /\ _quicklistZiplistMerge(q, a) \in Off(d)
      /\ a \in 1 .. Len(q.nodes) /\ a + 1 \in 1 .. Len(q.nodes)
      /\ _quicklistZiplistMerge(q, a).nodes = Joined(q.nodes, a)
  BY MergeIs
<1>2. q.nodes \in Seq(Full)
  BY OffIs
<1> QED
  BY <1>1, <1>2, JoinedFlat DEF Held

\* _quicklistMergeNodes moves no entry.
LEMMA MergeNodesHeld ==
  ASSUME NEW d \in Int, NEW q \in Off(d), NEW c \in Int
  PROVE  /\ _quicklistMergeNodes(q, c) \in Off(d)
         /\ Held(_quicklistMergeNodes(q, c)) = Held(q)
<1> DEFINE left   == _quicklistNodeAllowMerge(q, c - 1, c - 2)
           ql1    == IF left THEN _quicklistZiplistMerge(q, c - 2) ELSE q
           c1     == IF left THEN c - 1 ELSE c
           ql2    == IF _quicklistNodeAllowMerge(ql1, c1 + 1, c1 + 2)
                     THEN _quicklistZiplistMerge(ql1, c1 + 1) ELSE ql1
           back   == _quicklistNodeAllowMerge(ql2, c1, c1 - 1)
           ql3    == IF back THEN _quicklistZiplistMerge(ql2, c1 - 1) ELSE ql2
           target == IF back THEN c1 - 1 ELSE c1
           ql4    == IF _quicklistNodeAllowMerge(ql3, target, target + 1)
                     THEN _quicklistZiplistMerge(ql3, target) ELSE ql3
<1>1. _quicklistMergeNodes(q, c) = ql4
  BY DEF _quicklistMergeNodes
<1>2. ql1 \in Off(d) /\ Held(ql1) = Held(q) /\ c1 \in Int
  <2>1. c - 2 \in Int /\ (c - 2) + 1 = c - 1
    OBVIOUS
  <2> QED
    BY <2>1, MergeHeld
<1> HIDE DEF ql1, c1
<1>3. ql2 \in Off(d) /\ Held(ql2) = Held(q)
  <2>1. c1 + 1 \in Int /\ (c1 + 1) + 1 = c1 + 2
    BY <1>2
  <2> QED
    BY <1>2, <2>1, MergeHeld
<1> HIDE DEF ql2
<1>4. ql3 \in Off(d) /\ Held(ql3) = Held(q) /\ target \in Int
  <2>1. c1 - 1 \in Int /\ (c1 - 1) + 1 = c1
    BY <1>2
  <2> QED
    BY <1>2, <1>3, <2>1, MergeHeld
<1> HIDE DEF ql3, target
<1>5. ql4 \in Off(d) /\ Held(ql4) = Held(q)
  BY <1>4, MergeHeld
<1> QED
  BY <1>1, <1>5

LEMMA CatCat ==
  ASSUME NEW S, NEW x \in Seq(S), NEW y \in Seq(S), NEW z \in Seq(S)
  PROVE  Cat(Cat(x, y), z) = Cat(x, Cat(y, z))
BY ConcatAssociative DEF Cat

\* What ziplistDeleteRange cuts out.
LEMMA RangeIs ==
  ASSUME NEW zl \in Seq(Value), NEW o \in Int, NEW p, p = ziplistIndex(zl, o)
  PROVE  /\ p # 0 => \A num \in Nat : ziplistDeleteRange(zl, o, num) = Cut(zl, p - 1, num)
         /\ ziplistDeleteRange(zl, o, -1) = IF p = 0 THEN zl ELSE Pre(zl, p)
<1>1. p \in 0 .. Len(zl) /\ Len(zl) \in Nat
  BY ZiplistIndex
<1>2. ASSUME p # 0, NEW num \in Nat
      PROVE  ziplistDeleteRange(zl, o, num) = Cut(zl, p - 1, num)
  <2>1. num # -1 /\ (p - 1) + num + 1 = p + num
    BY <1>1
  <2>2. ziplistDeleteRange(zl, o, num) = SubSeq(zl, 1, p - 1) \o SubSeq(zl, p + num, Len(zl))
    BY <1>2, <2>1 DEF ziplistDeleteRange
  <2> QED
    BY <2>1, <2>2 DEF Cut
<1>3. CASE p = 0
  BY <1>2, <1>3 DEF ziplistDeleteRange
<1>4. CASE p # 0
  <2> DEFINE a == Pre(zl, p)
             b == SubSeq(zl, p + Len(zl), Len(zl))
  <2>1. ziplistDeleteRange(zl, o, -1) = a \o b
    BY <1>4 DEF ziplistDeleteRange, Pre
  <2>2. b = <<>>
    BY <1>1, <1>4, SubSeqEmpty
  <2>3. a \in Seq(Value)
    <3>1. p \in 1 .. Len(zl) + 1
      BY <1>1, <1>4
    <3> QED
      BY <3>1, Pieces
  <2> HIDE DEF a, b
  <2>4. a \o b = a
    BY <2>2, <2>3, ConcatEmptySeq
  <2> QED
    BY <1>2, <1>4, <2>1, <2>4 DEF a
<1> QED
  BY <1>3, <1>4

LEMMA CutEnds ==
  ASSUME NEW S, NEW s \in Seq(S), NEW k \in 0 .. Len(s)
  PROVE  /\ Cut(s, 0, k) = Rest(s, k + 1)
         /\ Pre(s, Len(s) + 1) = s /\ Rest(s, 1) = s
<1> DEFINE b == Rest(s, k + 1)
<1>1. k + 1 \in 1 .. Len(s) + 1 /\ 0 + k + 1 = k + 1 /\ (Len(s) + 1) - 1 = Len(s)
  OBVIOUS
<1>2. Cut(s, 0, k) = SubSeq(s, 1, 0) \o b
  BY <1>1 DEF Cut, Rest
<1>3. SubSeq(s, 1, 0) = <<>>
  BY SubSeqEmpty
<1>4. b \in Seq(S)
  BY <1>1, Pieces
<1> HIDE DEF b
<1>5. <<>> \o b = b
  BY <1>4, ConcatEmptySeq
<1>6. Pre(s, Len(s) + 1) = s /\ Rest(s, 1) = s
  BY <1>1, SubSeqFull DEF Pre, Rest
<1> QED
  BY <1>2, <1>3, <1>5, <1>6 DEF b

\* The two parts of a split node, and the entry that goes between them.
More(zl, v, after) == IF after THEN <<v>> \o zl ELSE Append(zl, v)

LEMMA SplitContent ==
  ASSUME NEW zl \in Seq(Value), NEW o \in 0 .. Len(zl) - 1, NEW after, NEW v \in Value
  PROVE  LET a == Stays(zl, o, after)
             b == Goes(zl, o, after)
             w == More(b, v, after)
         IN  /\ a \in Seq(Value) /\ b \in Seq(Value) /\ w \in Seq(Value)
             /\ after => Cat(a, w) = InsertAt(zl, o + 2, v)
             /\ ~after => Cat(w, a) = InsertAt(zl, o + 1, v)
<1> DEFINE n == Len(zl)
           a == Stays(zl, o, after)
           b == Goes(zl, o, after)
           w == More(b, v, after)
<1> HIDE DEF a, b, w
<1>1. n \in Nat /\ o \in Nat /\ o < n /\ o \in Int /\ o + 1 \in Int /\ 0 \in Int
  OBVIOUS
<1>2. \A k \in 0 .. n : ziplistDeleteRange(zl, 0, k) = Rest(zl, k + 1)
  <2> DEFINE p == ziplistIndex(zl, 0)
  <2>1. p = 1
    BY <1>1, ZiplistIndex
  <2> HIDE DEF p
  <2>2. p # 0 => \A num \in Nat : ziplistDeleteRange(zl, 0, num) = Cut(zl, p - 1, num)
    BY <1>1, RangeIs DEF p
  <2>3. \A num \in Nat : ziplistDeleteRange(zl, 0, num) = Cut(zl, 0, num)
    BY <2>1, <2>2
  <2>4. \A k \in 0 .. n : k \in Nat /\ Cut(zl, 0, k) = Rest(zl, k + 1)
    BY CutEnds
  <2> QED
    BY <2>3, <2>4
<1>3. \A k \in 0 .. n : ziplistDeleteRange(zl, k, -1) = Pre(zl, k + 1)
  <2> SUFFICES ASSUME NEW k \in 0 .. n PROVE ziplistDeleteRange(zl, k, -1) = Pre(zl, k + 1)
    OBVIOUS
  <2> DEFINE p == ziplistIndex(zl, k)
  <2>2. k \in Int /\ 0 <= k /\ (k < n \/ k >= n)
    BY <1>1
  <2>1. p = IF k < n THEN k + 1 ELSE 0
    <3>1. /\ 0 <= k /\ k < Len(zl) => p = k + 1
          /\ k >= Len(zl) => p = 0
      BY <2>2, ZiplistIndex
    <3> QED
      BY <1>1, <2>2, <3>1
  <2> HIDE DEF p
  <2>3. ziplistDeleteRange(zl, k, -1) = IF p = 0 THEN zl ELSE Pre(zl, p)
    BY <2>2, RangeIs DEF p
  <2>4. Pre(zl, n + 1) = zl
    <3>1. 0 \in 0 .. Len(zl)
      BY <1>1
    <3> QED
      BY <3>1, CutEnds
  <2>5. CASE k < n
    BY <1>1, <2>1, <2>3, <2>5
  <2>6. CASE ~(k < n)
    <3>1. k = n
      BY <1>1, <2>6
    <3> QED
      BY <2>1, <2>3, <2>4, <2>6, <3>1
  <2> QED
    BY <2>5, <2>6
<1> DEFINE c == <<v>>
<1>4. c \in Seq(Value)
  OBVIOUS
<1>5. CASE after
  <2>1. /\ o + 1 \in 0 .. n /\ (o + 1) + 1 = o + 2 /\ o + 2 \in 1 .. n + 1
    BY <1>1
  <2>2. a = Pre(zl, o + 2) /\ b = Rest(zl, o + 2)
    BY <1>2, <1>3, <1>5, <2>1 DEF a, b, Stays, Goes
  <2>3. a \in Seq(Value) /\ b \in Seq(Value)
    BY <2>1, <2>2, Pieces
  <2>4. InsertAt(zl, o + 2, v) = (a \o c) \o b
    BY <2>2 DEF InsertAt, Pre, Rest
  <2>5. w = c \o b
    BY <1>5 DEF w, More
  <2> HIDE DEF c
  <2>6. (a \o c) \o b = a \o (c \o b)
    <3>1. a \in Seq(Value) /\ b \in Seq(Value) /\ c \in Seq(Value)
      BY <1>4, <2>3
    <3>2. Cat(Cat(a, c), b) = Cat(a, Cat(c, b))
      BY <3>1, CatCat
    <3> QED
      BY <3>2 DEF Cat
  <2>7. c \o b \in Seq(Value)
    BY <1>4, <2>3, ConcatProperties
  <2>8. a \o w = InsertAt(zl, o + 2, v)
    BY <2>4, <2>5, <2>6, Zenon
  <2>9. w \in Seq(Value)
    BY <2>5, <2>7, Zenon
  <2> QED
    BY <1>5, <2>3, <2>8, <2>9, Zenon DEF Cat, a, b, w
<1>6. CASE ~after
  <2>1. o \in 0 .. n /\ o + 1 \in 1 .. n + 1
    BY <1>1
  <2>2. b = Pre(zl, o + 1) /\ a = Rest(zl, o + 1)
    BY <1>2, <1>3, <1>6, <2>1 DEF a, b, Stays, Goes
  <2>3. a \in Seq(Value) /\ b \in Seq(Value)
    BY <2>1, <2>2, Pieces
  <2>4. InsertAt(zl, o + 1, v) = (b \o c) \o a
    BY <2>2 DEF InsertAt, Pre, Rest
  <2>5. w = b \o c
    BY <1>6, <2>3, AppendIsConcat DEF w, More
  <2> HIDE DEF c
  <2>7. b \o c \in Seq(Value)
    BY <1>4, <2>3, ConcatProperties
  <2>8. w \o a = InsertAt(zl, o + 1, v)
    BY <2>4, <2>5, Zenon
  <2>9. w \in Seq(Value)
    BY <2>5, <2>7, Zenon
  <2> QED
    BY <1>6, <2>3, <2>8, <2>9, Zenon DEF Cat, a, b, w
<1> QED
  BY <1>5, <1>6

LEMMA PartedFlat ==
  ASSUME NEW ns \in Seq(Full), NEW i \in 1 .. Len(ns),
         NEW a \in Seq(Value), a # <<>>, NEW w \in Seq(Value), w # <<>>
  PROVE  /\ Flat(Parted(ns, i, a, i + 1, w)) = Cat(Cat(Before(ns, i), Cat(a, w)), After(ns, i))
         /\ Flat(Parted(ns, i, a, i, w)) = Cat(Cat(Before(ns, i), Cat(w, a)), After(ns, i))
<1> DEFINE m == Node(a)
           n == Node(w)
           t == ReplaceAt(ns, i, m)
           A == Before(ns, i)
           B == After(ns, i)
<1>1. m \in Full /\ m.zl = a /\ n \in Full /\ n.zl = w
  BY NodeFull DEF Node
<1>2. \A j : Parted(ns, i, a, j, w) = InsertAt(t, j, n)
  BY DEF Parted, ReplaceAt
<1> HIDE DEF m, n
<1>3. i + 1 \in i + 1 .. Len(ns) + 1 /\ i \in 1 .. i
  OBVIOUS
<1>4. /\ t \in Seq(Full) /\ Len(t) = Len(ns) /\ t[i] = m
      /\ Pre(t, i) = Pre(ns, i) /\ Rest(t, i + 1) = Rest(ns, i + 1)
  BY <1>1, <1>3, PiecesKept
<1> HIDE DEF t
<1>5. Before(t, i) = A /\ From(t, i + 1) = From(ns, i + 1)
  BY <1>4 DEF Before, From
<1>6. From(ns, i + 1) = B
  BY BeforeStep
<1>7. A \in Seq(Value) /\ B \in Seq(Value)
  BY ChainAt
<1> HIDE DEF A, B
<1>8. /\ Before(t, i + 1) = Cat(A, a) /\ From(t, i) = Cat(a, B)
  BY <1>1, <1>4, <1>5, <1>6, BeforeStep DEF Cat
<1>9. i + 1 \in 1 .. Len(t) + 1 /\ i \in 1 .. Len(t) + 1
  BY <1>4
<1>10. /\ Flat(InsertAt(t, i + 1, n)) = Cat(Cat(Cat(A, a), w), B)
       /\ Flat(InsertAt(t, i, n)) = Cat(Cat(A, w), Cat(a, B))
  BY <1>1, <1>4, <1>5, <1>6, <1>8, <1>9, NodeInserted, ZenonT(60) DEF Cat
<1>11. Cat(Cat(A, a), w) = Cat(A, Cat(a, w))
  BY <1>7, CatCat
<1>12. Cat(Cat(A, w), Cat(a, B)) = Cat(Cat(A, Cat(w, a)), B)
  <2>1. Cat(A, w) \in Seq(Value)
    BY <1>7, ConcatProperties DEF Cat
  <2>2. Cat(Cat(Cat(A, w), a), B) = Cat(Cat(A, w), Cat(a, B))
    BY <1>7, <2>1, CatCat
  <2>3. Cat(Cat(A, w), a) = Cat(A, Cat(w, a))
    BY <1>7, CatCat
  <2> QED
    BY <2>2, <2>3
<1> QED
  BY <1>2, <1>10, <1>11, <1>12 DEF A, B

\* The one entry more, wherever _quicklistInsert puts it.
LEMMA CountedHeld ==
  ASSUME NEW q, NEW c, NEW r, r = [q EXCEPT !.count = c]
  PROVE  Held(r) = Held(q)
<1>1. r.nodes = q.nodes
  OBVIOUS
<1> QED
  BY <1>1 DEF Held

LEMMA SplitInsert ==
  ASSUME NEW ns \in Seq(Full), NEW i \in 1 .. Len(ns), NEW z, z = ns[i].zl,
         NEW o \in 0 .. Len(z) - 1, NEW after, NEW v \in Value,
         NEW a, a = Stays(z, o, after), a # <<>>,
         NEW w, w = More(Goes(z, o, after), v, after)
  PROVE  IsInsert(Flat(Parted(ns, i, a, IF after THEN i + 1 ELSE i, w)), Flat(ns),
                  Size(Pre(ns, i)) + IF after THEN o + 2 ELSE o + 1, v)
<1> DEFINE p == IF after THEN o + 2 ELSE o + 1
           y == InsertAt(z, p, v)
           g == Flat(Parted(ns, i, a, IF after THEN i + 1 ELSE i, w))
           f == Flat(ns)
           A == Before(ns, i)
           B == After(ns, i)
<1>1. z \in Seq(Value)
  BY NodeThree
<1>2. /\ a \in Seq(Value) /\ w \in Seq(Value)
      /\ after => Cat(a, w) = InsertAt(z, o + 2, v)
      /\ ~after => Cat(w, a) = InsertAt(z, o + 1, v)
  BY <1>1, SplitContent
<1>3. w # <<>>
  <2> DEFINE b == Goes(z, o, after)
  <2>1. b \in Seq(Value)
    BY <1>1, SplitContent
  <2> HIDE DEF b
  <2>2. <<v>> \o b # <<>> /\ Append(b, v) # <<>>
    BY <2>1, Grown
  <2> QED
    BY <2>2 DEF More, b
<1>4. /\ A \in Seq(Value) /\ B \in Seq(Value) /\ f \in Seq(Value)
      /\ Len(A) = Size(Pre(ns, i)) /\ IsThree(f, A, z, B)
  BY NodeThree
<1>5. p \in 1 .. Len(z) + 1
  BY <1>1
<1>6. y \in Seq(Value) /\ IsInsert(y, z, p, v)
  <2> HIDE DEF p
  <2> QED
    BY <1>1, <1>5, InsertIs
<1>7. g = (A \o y) \o B
  <2>1. /\ Flat(Parted(ns, i, a, i + 1, w)) = Cat(Cat(A, Cat(a, w)), B)
        /\ Flat(Parted(ns, i, a, i, w)) = Cat(Cat(A, Cat(w, a)), B)
    BY <1>2, <1>3, PartedFlat
  <2>2. (after => Cat(a, w) = y) /\ (~after => Cat(w, a) = y)
    BY <1>2
  <2>3. g = Cat(Cat(A, y), B)
    <3> HIDE DEF y, A, B, p
    <3> QED
      BY <2>1, <2>2
  <2> QED
    BY <2>3 DEF Cat
<1> HIDE DEF g, y, A, B, f, p
<1>8. g \in Seq(Value) /\ IsThree(g, A, y, B)
  BY <1>4, <1>6, <1>7, ThreeIs
<1>9. IsInsert(g, f, Len(A) + p, v)
  BY <1>1, <1>4, <1>5, <1>6, <1>8, ThreeInsert
<1> QED
  BY <1>4, <1>9 DEF g, f, p

LEMMA InsertHeld ==
  ASSUME NEW q \in Exact, NEW i \in 1 .. Len(q.nodes), NEW o \in 0 .. q.nodes[i].count - 1,
         NEW v \in Value, NEW after, NEW r, r = _quicklistInsert(q, i, o, v, after)
  PROVE  /\ r \in Exact
         /\ IsInsert(Held(r), Held(q),
                     Size(Pre(q.nodes, i)) + IF after THEN o + 2 ELSE o + 1, v)
<1> DEFINE node      == q.nodes[i]
           full      == ~_quicklistNodeAllowInsert(q, i, v)
           at_tail   == after /\ o = node.count
           at_head   == ~after /\ o = 0
           near      == IF after THEN i + 1 ELSE i - 1
           full_near == ~_quicklistNodeAllowInsert(q, near, v)
           p         == IF after THEN o + 2 ELSE o + 1
           parts     == _quicklistSplitNode(node, o, after)
           new       == Update(parts[2], IF after THEN <<v>> \o parts[2].zl
                                         ELSE Append(parts[2].zl, v), 1)
           j         == IF after THEN i + 1 ELSE i
           k         == IF after THEN i ELSE i + 1
           split     == __quicklistInsertNode([q EXCEPT !.nodes[i] = parts[1]], j, new)
           grown     == [q EXCEPT !.nodes[i] = Update(@, InsertAt(@.zl, p, v), 1)]
           own       == __quicklistInsertNode(q, j, Node(<<v>>))
           beside    == [q EXCEPT !.nodes[near] =
                          Update(@, IF after THEN <<v>> \o @.zl ELSE Append(@.zl, v), 1)]
           merged    == _quicklistMergeNodes(split, k)
           inserted  == IF ~full THEN grown
                        ELSE IF (at_tail \/ at_head) /\ Exists(q, near)
                        THEN IF full_near THEN own ELSE beside
                        ELSE merged
           Up(x)     == [x EXCEPT !.count = @ + 1]
           P         == Size(Pre(q.nodes, i)) + p
           Good(x)   == IsInsert(Held(x), Held(q), P, v)
<1>1. r = Up(inserted)
  BY DEF _quicklistInsert
<1>2. /\ q.nodes \in Seq(Full) /\ Len(q.nodes) \in Nat /\ DOMAIN q.nodes = 1 .. Len(q.nodes)
      /\ i \in DOMAIN q.nodes
  BY ExactIs
<1>3. ASSUME NEW e \in DOMAIN q.nodes
      PROVE  /\ q.nodes[e].zl \in Seq(Value) /\ q.nodes[e].count = Len(q.nodes[e].zl)
             /\ q.nodes[e].count \in Nat
  BY NodeOf
<1>4. j \in 1 .. Len(q.nodes) + 1 /\ k \in Int
  BY <1>2
<1>5. Good(Up(grown))
  <2> DEFINE z0 == node.zl
             zl == InsertAt(z0, p, v)
  <2>1. p \in 1 .. Len(z0) + 1 /\ z0 \in Seq(Value)
    BY <1>2, <1>3
  <2> HIDE DEF p
  <2>2. zl \in Seq(Value) /\ IsInsert(zl, z0, p, v)
    <3> HIDE DEF z0
    <3> QED
      BY <2>1, InsertIs
  <2>3. grown = [q EXCEPT !.nodes[i] = Update(@, zl, 1)]
    OBVIOUS
  <2> HIDE DEF zl, grown
  <2> QED
    BY <1>2, <2>1, <2>2, <2>3, AddedTo DEF Held
<1>6. ASSUME at_tail \/ at_head, Exists(q, near)
      PROVE  Good(Up(own)) /\ Good(Up(beside))
  <2>1. ~after /\ o = 0 /\ near = i - 1 /\ j = i /\ p = 1
    <3>1. node.count \in Nat
      BY <1>2, <1>3
    <3> HIDE DEF node
    <3>2. ~at_tail
      BY <3>1 DEF node
    <3> QED
      BY <1>6, <3>2
  <2>2. i - 1 \in DOMAIN q.nodes
    BY <1>6, <2>1 DEF Exists
  <2>3. Good(Up(own))
    <3>1. own = __quicklistInsertNode(q, i, Node(<<v>>)) /\ i \in 1 .. Len(q.nodes) + 1
      BY <1>4, <2>1
    <3> HIDE DEF own, p
    <3> QED
      BY <2>1, <3>1, AddedAlone DEF Held
  <2>4. Good(Up(beside))
    <3> DEFINE h == i - 1
               z0 == q.nodes[h].zl
               zl == Append(z0, v)
    <3>1. z0 \in Seq(Value) /\ q.nodes[h].count = Len(z0) /\ Len(z0) + 1 \in 1 .. Len(z0) + 1
      BY <1>3, <2>2
    <3>2. zl \in Seq(Value) /\ IsInsert(zl, z0, Len(z0) + 1, v)
      <4> HIDE DEF z0
      <4> QED
        BY <3>1, Grown, GrownIs
    <3>3. beside = [q EXCEPT !.nodes[h] = Update(@, zl, 1)]
      BY <2>1
    <3>4. Size(Pre(q.nodes, h)) + (Len(z0) + 1) = P
      <4>1. h \in 1 .. Len(q.nodes) /\ h + 1 = i
        BY <1>2, <2>2
      <4>2. Size(Pre(q.nodes, h + 1)) = Size(Pre(q.nodes, h)) + q.nodes[h].count
            /\ Size(Pre(q.nodes, h)) \in Nat
        BY <1>2, <4>1, SizeStep
      <4>3. Size(Pre(q.nodes, i)) = Size(Pre(q.nodes, h)) + Len(z0)
        BY <3>1, <4>1, <4>2
      <4> HIDE DEF z0, h, p
      <4> QED
        BY <2>1, <3>1, <4>2, <4>3
    <3> HIDE DEF zl, beside, P
    <3>5. h \in DOMAIN q.nodes
      BY <2>2
    <3> HIDE DEF h
    <3>6. IsInsert(Flat(Up(beside).nodes), Flat(q.nodes), Size(Pre(q.nodes, h)) + (Len(z0) + 1), v)
      BY <3>1, <3>2, <3>3, <3>5, AddedTo
    <3> QED
      BY <3>4, <3>6 DEF Held
  <2> QED
    BY <2>3, <2>4
<1>7. Good(Up(merged))
  <2> DEFINE z == node.zl
             a == Stays(z, o, after)
             b == Goes(z, o, after)
             w == More(b, v, after)
             n == q.nodes[i]
  <2>1. z \in Seq(Value) /\ o \in 0 .. Len(z) - 1 /\ n.count = Len(z) /\ z = n.zl
    BY <1>2, <1>3
  <2>2. a # <<>> /\ Len(a) + Len(b) = Len(z) /\ parts[1] = Node(a) /\ parts[2] = Node(b)
    <3>1. parts = _quicklistSplitNode(node, o, after) /\ node.zl = z
      OBVIOUS
    <3>3. z \in Seq(Value) /\ o \in 0 .. Len(z) - 1
      BY <2>1
    <3> HIDE DEF z, node, parts, n
    <3>2. \E x \in Seq(Value), y \in Seq(Value) :
            /\ x # <<>> /\ Len(x) + Len(y) = Len(z)
            /\ parts[1] = Node(x) /\ parts[2] = Node(y)
            /\ x = Stays(z, o, after) /\ y = Goes(z, o, after)
      BY <3>1, <3>3, SplitParts
    <3> QED
      BY <3>2
  <2> HIDE DEF z, node, parts, n
  <2>3. a \in Seq(Value) /\ b \in Seq(Value) /\ w \in Seq(Value)
    BY <2>1, SplitContent
  <2>4. Len(w) = Len(b) + 1
    <3> HIDE DEF b
    <3> QED
      BY <2>3, Grown DEF More
  <2>5. new = Update(Node(b), w, 1)
    <3> HIDE DEF b
    <3> QED
      BY <2>2 DEF Node, More
  <2> HIDE DEF new, w, a, b
  <2>6. split = __quicklistInsertNode(WithNode(q, i, Node(a)), j, Update(Node(b), w, 1))
    BY <2>2, <2>5 DEF WithNode
  <2> HIDE DEF split
  <2>7. split \in Off(-1) /\ split.nodes = Parted(q.nodes, i, a, j, w)
    <3>1. /\ i \in 1 .. Len(q.nodes) /\ j \in 1 .. Len(q.nodes) + 1
          /\ a # <<>> /\ Len(a) + Len(b) = q.nodes[i].count /\ Len(w) = Len(b) + 1
      BY <1>4, <2>1, <2>2, <2>4 DEF n
    <3> HIDE DEF j
    <3> QED
      BY <2>3, <2>6, <3>1, SplitIs
  <2>8. IsInsert(Held(split), Held(q), P, v)
    <3> DEFINE ns == q.nodes
    <3>1. ns \in Seq(Full) /\ i \in 1 .. Len(ns) /\ z = ns[i].zl
      BY <1>2, <2>1 DEF n
    <3> HIDE DEF ns
    <3>2. IsInsert(Flat(Parted(ns, i, a, IF after THEN i + 1 ELSE i, w)), Flat(ns),
                   Size(Pre(ns, i)) + IF after THEN o + 2 ELSE o + 1, v)
      BY <2>1, <2>2, <3>1, SplitInsert DEF a, b, w
    <3> QED
      BY <2>7, <3>2 DEF Held, ns
  <2>9. merged \in Off(-1) /\ Held(merged) = Held(split)
    <3>1. -1 \in Int
      OBVIOUS
    <3> QED
      BY <1>4, <2>7, <3>1, MergeNodesHeld
  <2> HIDE DEF merged, P
  <2>10. Held(Up(merged)) = Held(merged)
    BY CountedHeld
  <2> QED
    BY <2>8, <2>9, <2>10
<1> HIDE DEF grown, own, beside, merged, Up, Good, full, at_tail, at_head, near, full_near
<1>8. Good(Up(inserted))
  BY <1>5, <1>6, <1>7
<1>9. r \in Exact
  BY InsertExact
<1> QED
  BY <1>1, <1>8, <1>9 DEF Good

-----------------------------------------------------------------------------
(* Ranges that are deleted.                                                *)

LEMMA CutCut ==
  ASSUME NEW S, NEW f \in Seq(S), NEW p \in Nat, NEW d \in Nat, NEW y \in Nat,
         p + d + y <= Len(f), NEW g, g = Cut(f, p, d)
  PROVE  /\ g \in Seq(S) /\ Len(g) = Len(f) - d
         /\ Cut(g, p, y) = Cut(f, p, d + y)
         /\ y = 0 => g = Cut(f, p, d + y)
<1> DEFINE h == Cut(g, p, y)
           lf == Len(f)
           lg == Len(g)
           lh == Len(h)
<1>1. g \in Seq(S) /\ IsCut(g, f, p, d)
  <2>1. p + d <= Len(f)
    OBVIOUS
  <2> QED
    BY <2>1, CutIs
<1>2. lf \in Nat /\ p + d + y <= lf
  OBVIOUS
<1>3. lg = lf - d /\ \A j \in 1 .. lg : g[j] = IF j <= p THEN f[j] ELSE f[j + d]
  BY <1>1 DEF IsCut
<1> HIDE DEF lf, lg
<1>4. p + y <= lg /\ lg \in Nat
  BY <1>2, <1>3
<1>5. h \in Seq(S) /\ IsCut(h, g, p, y)
  BY <1>1, <1>4, CutIs DEF lg
<1> HIDE DEF h
<1>6. lh = lg - y /\ \A j \in 1 .. lh : h[j] = IF j <= p THEN g[j] ELSE g[j + y]
  BY <1>5 DEF IsCut, lg
<1> HIDE DEF lh
<1>7. ASSUME NEW j \in 1 .. lh PROVE h[j] = IF j <= p THEN f[j] ELSE f[j + (d + y)]
  <2>1. CASE j <= p
    <3>1. j \in 1 .. lg
      BY <1>3, <1>6, <1>4
    <3> QED
      BY <1>3, <1>6, <2>1, <3>1
  <2>2. CASE ~(j <= p)
    <3>1. j + y \in 1 .. lg /\ ~(j + y <= p) /\ (j + y) + d = j + (d + y)
      BY <1>3, <1>6, <1>4, <2>2
    <3> QED
      BY <1>3, <1>6, <2>2, <3>1
  <2> QED
    BY <2>1, <2>2
<1>8. IsCut(h, f, p, d + y)
  <2>1. lh = lf - (d + y)
    BY <1>2, <1>3, <1>6
  <2> QED
    BY <1>7, <2>1 DEF IsCut, lf, lh
<1>9. h = Cut(f, p, d + y)
  <2>1. d + y \in Nat /\ p + (d + y) <= Len(f)
    BY <1>2 DEF lf
  <2> QED
    BY <1>5, <1>8, <2>1, IsCutOut
<1>10. y = 0 => d + y = d
  OBVIOUS
<1> QED
  BY <1>1, <1>3, <1>9, <1>10 DEF h, lf, lg

LEMMA CutNone ==
  ASSUME NEW S, NEW f \in Seq(S), NEW p \in 0 .. Len(f)
  PROVE  Cut(f, p, 0) = f
<1>1. p \in Nat /\ p + 0 <= Len(f) /\ 0 \in Nat
  OBVIOUS
<1>2. \A j \in 1 .. Len(f) : j + 0 = j
  OBVIOUS
<1>3. Len(f) = Len(f) - 0
  OBVIOUS
<1>4. IsCut(f, f, p, 0)
  BY <1>2, <1>3 DEF IsCut
<1> QED
  BY <1>1, <1>4, IsCutOut

\* The entries from the offset of s on, and the position before them.
Ahead(s) ==
  IF s.offset = 0 THEN Size(Rest(s.ql.nodes, s.i))
  ELSE -s.offset + Size(Rest(s.ql.nodes, s.i + 1))
Behind(s) == Size(s.ql.nodes) - Ahead(s)

LEMMA SparedCut ==
  ASSUME NEW s \in DelStates, s.extent # 0, NEW zl \in Seq(Value), NEW del \in Nat,
         NEW t, IsRound(s, t, zl, del)
  PROVE  LET z == s.ql.nodes[s.i].zl
             p == IF s.offset = 0 THEN 0 ELSE Len(z) + s.offset
         IN  p \in Nat /\ p + del <= Len(z) /\ IsCut(zl, z, p, del)
<1> DEFINE n == s.ql.nodes[s.i]
           z == n.zl
           c == Len(z)
           o == s.offset
           x == s.extent
           p == IF o = 0 THEN 0 ELSE c + o
<1>1. s.ql \in Exact /\ s.i \in DOMAIN s.ql.nodes /\ o \in Int /\ x \in Nat /\ x # 0
  BY DEF DelStates, Reach
<1>2. z \in Seq(Value) /\ n.count = c /\ c \in Nat \ {0}
  BY <1>1, NodeOf
<1>3. o = 0 \/ (o < 0 /\ -o <= c)
  BY <1>2 DEF DelStates, Reach
<1>4. /\ zl = IF o = 0 /\ x >= c THEN <<>> ELSE ziplistDeleteRange(z, o, del)
      /\ o = 0 /\ x >= c => del = c
      /\ o = 0 /\ x < c => del = x
      /\ o < 0 => del <= -o
  BY <1>2 DEF IsRound, Spared
<1> HIDE DEF n, z, o, x
<1>5. p \in Nat /\ p + del <= c
  <2> HIDE DEF c
  <2> QED
    BY <1>1, <1>2, <1>3, <1>4
<1>6. CASE o = 0 /\ x >= c
  <2>1. zl = <<>> /\ del = c /\ p = 0
    BY <1>4, <1>6
  <2>2. Len(zl) = 0 /\ Len(zl) = Len(z) - del
    BY <1>2, <2>1
  <2>3. IsCut(zl, z, p, del)
    BY <2>2 DEF IsCut
  <2> QED
    BY <1>5, <2>3 DEF z, n, o
<1>7. CASE ~(o = 0 /\ x >= c)
  <2> DEFINE k == ziplistIndex(z, o)
  <2>1. k = p + 1
    <3>1. /\ 0 <= o /\ o < Len(z) => k = o + 1
          /\ o < 0 /\ -o <= Len(z) => k = Len(z) + o + 1
      BY <1>1, <1>2, ZiplistIndex
    <3> HIDE DEF k
    <3> DEFINE e == Len(z)
    <3>2. e \in Nat \ {0} /\ (0 <= o /\ o < e => k = o + 1) /\ (o < 0 /\ -o <= e => k = e + o + 1)
      BY <1>2, <3>1
    <3>3. c = e
      OBVIOUS
    <3> HIDE DEF e, c
    <3> QED
      BY <1>1, <1>3, <3>2, <3>3
  <2> HIDE DEF k
  <2>2. ziplistDeleteRange(z, o, del) = Cut(z, k - 1, del)
    <3>1. k # 0 => \A num \in Nat : ziplistDeleteRange(z, o, num) = Cut(z, k - 1, num)
      BY <1>1, <1>2, RangeIs DEF k
    <3>2. k # 0
      BY <1>5, <2>1
    <3> QED
      BY <3>1, <3>2
  <2>3. k - 1 = p
    BY <1>5, <2>1
  <2> HIDE DEF p, c
  <2>4. zl = Cut(z, p, del)
    BY <1>4, <1>7, <2>2, <2>3
  <2>5. IsCut(Cut(z, p, del), z, p, del)
    BY <1>2, <1>5, CutIs DEF c
  <2> QED
    BY <1>5, <2>4, <2>5 DEF z, n, o, p, c
<1> QED
  BY <1>6, <1>7

LEMMA DelRoundHeld ==
  ASSUME NEW s \in DelStates, s.extent # 0, NEW t, t = DelRound(s)
  PROVE  /\ t \in DelStates
         /\ Behind(s) \in Nat /\ Behind(s) + s.extent <= Len(Held(s.ql))
         /\ t.extent <= s.extent
         /\ Held(t.ql) = Cut(Held(s.ql), Behind(s), s.extent - t.extent)
         /\ t.extent # 0 => Behind(t) = Behind(s)
         /\ Len(t.ql.nodes) - t.i = Len(s.ql.nodes) - s.i - 1
<1>1. t \in DelStates
  BY DelRoundIs
<1>2. PICK zl \in Seq(Value), del \in Nat : IsRound(s, t, zl, del)
  BY DelRoundIs
<1> DEFINE ns == s.ql.nodes
           i == s.i
           n == ns[i]
           z == n.zl
           c == Len(z)
           o == s.offset
           x == s.extent
           p == IF o = 0 THEN 0 ELSE c + o
           f == Held(s.ql)
           g == Held(t.ql)
           a == Size(Pre(ns, i))
           b == Size(Rest(ns, i + 1))
<1>3. s.ql \in Exact /\ i \in DOMAIN s.ql.nodes /\ o \in Int /\ x \in Nat /\ x # 0 /\ t.ql \in Exact
  BY <1>1 DEF DelStates, Reach
<1>4. ns \in Seq(Full) /\ i \in 1 .. Len(ns) /\ z \in Seq(Value) /\ n.count = c /\ c \in Nat \ {0}
  BY <1>3, ExactIs, NodeOf
<1>5. p \in Nat /\ p + del <= c /\ IsCut(zl, z, p, del)
  BY <1>2, SparedCut
<1>6. \/ o = 0 /\ x <= Size(Rest(ns, i))
      \/ o < 0 /\ -o <= c /\ x <= -o + b
  BY <1>4 DEF DelStates, Reach
<1>7. /\ t.ql.nodes = Left(ns, i, zl)
      /\ o = 0 /\ x >= c => del = c
      /\ o = 0 /\ x < c => del = x
      /\ o < 0 => del \in {-o, x}
      /\ del <= x /\ t.extent = x - del /\ t.offset = 0
      /\ t.i = IF zl = <<>> THEN i ELSE i + 1
      /\ Size(Rest(t.ql.nodes, t.i)) = b
      /\ Len(t.ql.nodes) = IF zl = <<>> THEN Len(ns) - 1 ELSE Len(ns)
  BY <1>2, <1>4 DEF IsRound
<1> HIDE DEF p
<1>8. /\ a + p + del <= Len(Flat(ns))
      /\ IsCut(Flat(Left(ns, i, zl)), Flat(ns), a + p, del)
  <2> HIDE DEF ns
  <2>1. p + del <= Len(ns[i].zl)
    BY <1>5
  <2> QED
    BY <1>4, <1>5, <2>1, NodeCut
<1>9. f \in Seq(Value) /\ g \in Seq(Value) /\ Len(f) = Size(ns) /\ Len(g) = Size(t.ql.nodes)
  BY <1>3, HeldType DEF Held, Size
<1>10. /\ Size(ns) = a + Size(Rest(ns, i)) /\ a \in Nat /\ Size(Rest(ns, i)) = c + b /\ b \in Nat
  <2>1. i \in 1 .. Len(ns) + 1
    BY <1>4
  <2>2. Size(ns) = a + Size(Rest(ns, i)) /\ a \in Nat
    BY <1>4, <2>1, SizeSplit
  <2>3. Size(Rest(ns, i)) = c + b /\ b \in Nat
    BY <1>4, SizeStep
  <2> QED
    BY <2>2, <2>3
<1>11. Behind(s) = Size(ns) - IF o = 0 THEN Size(Rest(ns, i)) ELSE -o + b
  BY DEF Behind, Ahead
<1>12. Behind(t) = Size(t.ql.nodes) - b
  BY <1>7 DEF Behind, Ahead
<1>13. /\ IsCut(g, f, a + p, del) /\ a + p + del <= Len(f)
  BY <1>7, <1>8 DEF Held
<1>20. t.i \in Int /\ Len(ns) \in Nat
  BY <1>3, <1>4, <1>7
<1>14. /\ Len(t.ql.nodes) - t.i = Len(ns) - i - 1
  BY <1>4, <1>7, <1>20
<1> DEFINE sn == Size(ns)
           st == Size(t.ql.nodes)
           sr == Size(Rest(ns, i))
<1>15. st = sn - del
  BY <1>9, <1>13 DEF IsCut
<1>16. p = IF o = 0 THEN 0 ELSE c + o
  BY DEF p
<1> HIDE DEF ns, i, z, c, o, x, a, b, sn, st, sr, n
<1>17. Behind(s) = a + p
  BY <1>3, <1>4, <1>5, <1>10, <1>11, <1>16 DEF sn, sr
<1>18. a + p + x <= Len(f)
  BY <1>3, <1>4, <1>6, <1>9, <1>10, <1>16
<1>19. ASSUME t.extent # 0 PROVE Behind(t) = Behind(s)
  <2>1. del # x
    BY <1>3, <1>7, <1>19
  <2>2. del = IF o = 0 THEN c ELSE -o
    BY <1>3, <1>4, <1>6, <1>7, <2>1
  <2>3. sn = a + (c + b) /\ sr = c + b
    BY <1>10 DEF sn, sr
  <2>4. Behind(t) = sn - del - b
    BY <1>12, <1>15 DEF st
  <2>5. a \in Nat /\ b \in Nat /\ c \in Nat /\ o \in Int /\ p \in Nat /\ sn \in Nat
    <3>1. a \in Nat
      BY <1>10 DEF a, ns, i
    <3>2. b \in Nat
      BY <1>10 DEF b, ns, i
    <3> QED
      BY <1>3, <1>4, <1>5, <2>3, <3>1, <3>2
  <2>6. CASE o = 0
    BY <1>16, <1>17, <2>2, <2>3, <2>4, <2>5, <2>6
  <2>7. CASE o # 0
    BY <1>16, <1>17, <2>2, <2>3, <2>4, <2>5, <2>7
  <2> QED
    BY <2>6, <2>7
<1>21. g = Cut(f, a + p, del)
  <2>1. a + p \in Nat
    BY <1>5, <1>10
  <2> QED
    BY <1>9, <1>13, <2>1, IsCutOut
<1>22. s.extent - t.extent = del /\ t.extent <= s.extent
  <2>1. s.extent = x
    BY DEF x
  <2> QED
    BY <1>3, <1>7, <2>1
<1> QED
  BY <1>1, <1>5, <1>10, <1>14, <1>17, <1>18, <1>19, <1>21, <1>22 DEF f, g, ns, i, x

\* A state of the loop k rounds after it began at first.
Deleted(s, first, k) ==
  /\ s \in DelStates /\ s.extent <= first.extent
  /\ Held(s.ql) = Cut(Held(first.ql), Behind(first), first.extent - s.extent)
  /\ s.extent # 0 => /\ Behind(s) = Behind(first)
                     /\ Len(s.ql.nodes) - s.i = Len(first.ql.nodes) - first.i - k

LEMMA DeletedOne ==
  ASSUME NEW first \in DelStates, first.extent # 0, NEW s, NEW k \in Nat \ {0},
         Deleted(s, first, k - 1), NEW t,
         t = IF s.extent = 0 THEN s ELSE DelRound(s)
  PROVE  Deleted(t, first, k)
<1> DEFINE f == Held(first.ql)
           b == Behind(first)
           x == first.extent
           g == Held(s.ql)
           es == s.extent
           et == t.extent
           ls == Len(s.ql.nodes) - s.i
           lt == Len(t.ql.nodes) - t.i
           lf == Len(first.ql.nodes) - first.i
<1>1. s \in DelStates /\ es \in Nat /\ x \in Nat /\ es <= x /\ first.ql \in Exact
  BY DEF Deleted, DelStates
<1>2. CASE es = 0
  <2>1. t = s
    BY <1>2
  <2> QED
    BY <1>1, <1>2, <2>1 DEF Deleted
<1>3. CASE es # 0
  <2>1. t = DelRound(s)
    BY <1>3
  <2>2. /\ b \in Nat /\ b + x <= Len(f)
    <3> DEFINE u == DelRound(first)
    <3>1. u = DelRound(first)
      OBVIOUS
    <3> HIDE DEF u
    <3> QED
      BY <3>1, DelRoundHeld
  <2>3. /\ t \in DelStates /\ et <= es
        /\ Held(t.ql) = Cut(g, Behind(s), es - et)
        /\ et # 0 => Behind(t) = Behind(s)
        /\ lt = ls - 1
    <3> HIDE DEF Deleted
    <3> QED
      BY <1>1, <1>3, <2>1, DelRoundHeld
  <2>4. /\ Behind(s) = b /\ ls = lf - (k - 1) /\ g = Cut(f, b, x - es)
    BY <1>3 DEF Deleted
  <2>5. et \in Nat /\ lf \in Int
    <3>1. Len(first.ql.nodes) \in Nat
      BY <1>1, ExactIs
    <3> QED
      BY <2>3, <3>1 DEF DelStates
  <2>6. f \in Seq(Value)
    BY <1>1, HeldType
  <2> HIDE DEF f, b, x, g, es, et, lf, ls, lt
  <2> DEFINE d == x - es
             y == es - et
  <2>7. d \in Nat /\ y \in Nat /\ b + d + y <= Len(f) /\ d + y = x - et /\ et <= x
    <3>1. Len(f) \in Nat
      BY <2>6
    <3> HIDE DEF f
    <3>2. d \in Nat /\ y \in Nat /\ d + y = x - et /\ et <= x
      BY <1>1, <2>3, <2>5
    <3>3. b + d + y = b + (d + y)
      BY <2>2, <3>2
    <3> QED
      BY <1>1, <2>2, <2>3, <2>5, <3>1, <3>2, <3>3
  <2> HIDE DEF d, y
  <2>8. Cut(g, b, y) = Cut(f, b, d + y)
    <3>1. g = Cut(f, b, d)
      BY <2>4 DEF d
    <3> QED
      BY <2>2, <2>6, <2>7, <3>1, CutCut
  <2>9. Held(t.ql) = Cut(f, b, x - et)
    BY <2>3, <2>4, <2>7, <2>8 DEF y
  <2>10. lt = lf - k
    BY <2>3, <2>4, <2>5
  <2> QED
    BY <2>3, <2>4, <2>7, <2>9, <2>10 DEF Deleted, f, b, x, et, lt, lf
<1> QED
  BY <1>2, <1>3

LEMMA DeletedAll ==
  ASSUME NEW first \in DelStates, first.extent # 0,
         NEW r, r = DelAll(first, first.ql.nodes)
  PROVE  /\ r \in DelStates
         /\ Behind(first) \in Nat /\ Behind(first) + first.extent <= Len(Held(first.ql))
         /\ Held(r.ql) = Cut(Held(first.ql), Behind(first), first.extent)
<1> DEFINE ns == first.ql.nodes
           n == Len(ns)
<1>1. ns \in Seq(Full) /\ n \in Nat /\ first.ql \in Exact /\ first.i \in 1 .. n
  <2>1. first.ql \in Exact /\ first.i \in DOMAIN ns
    BY DEF DelStates, Reach
  <2> QED
    BY <2>1, ExactIs
<1>2. PICK p : /\ p[0] = first /\ DelAll(first, ns) = p[n]
               /\ \A k \in 0 .. n : p[k] \in DelStates
               /\ \A k \in 1 .. n : p[k] = IF p[k - 1].extent = 0 THEN p[k - 1] ELSE DelRound(p[k - 1])
  <2> HIDE DEF ns
  <2> QED
    BY <1>1, DelFold
<1>3. /\ Behind(first) \in Nat /\ Behind(first) + first.extent <= Len(Held(first.ql))
  <2> DEFINE u == DelRound(first)
  <2>1. u = DelRound(first)
    OBVIOUS
  <2> HIDE DEF u
  <2> QED
    BY <2>1, DelRoundHeld
<1> DEFINE f == Held(first.ql)
           b == Behind(first)
           x == first.extent
<1>4. f \in Seq(Value) /\ x \in Nat
  BY <1>1, HeldType DEF DelStates
<1>5. Deleted(first, first, 0)
  <2>1. Cut(f, b, 0) = f
    <3>1. b \in 0 .. Len(f)
      BY <1>3, <1>4
    <3> HIDE DEF f, b
    <3> QED
      BY <1>4, <3>1, CutNone
  <2>2. x - x = 0 /\ x <= x
    BY <1>4
  <2>3. n - first.i - 0 = n - first.i
    BY <1>1
  <2> QED
    BY <2>1, <2>2, <2>3 DEF Deleted
<1> DEFINE Good == [k \in 0 .. n |-> {s \in DelStates : Deleted(s, first, k)}]
<1>6. p[0] \in Good[0]
  BY <1>1, <1>2, <1>5
<1>7. \A k \in 1 .. n : p[k - 1] \in Good[k - 1] => p[k] \in Good[k]
  <2>1. SUFFICES ASSUME NEW k \in 1 .. n, p[k - 1] \in Good[k - 1] PROVE p[k] \in Good[k]
    OBVIOUS
  <2>2. k \in Nat \ {0} /\ k \in 0 .. n /\ k - 1 \in 0 .. n
    BY <1>1
  <2>3. Deleted(p[k - 1], first, k - 1)
    BY <2>1, <2>2
  <2>4. p[k] = IF p[k - 1].extent = 0 THEN p[k - 1] ELSE DelRound(p[k - 1])
    BY <1>2
  <2> HIDE DEF n
  <2>5. Deleted(p[k], first, k)
    BY <2>2, <2>3, <2>4, DeletedOne
  <2> QED
    BY <1>2, <2>2, <2>5
<1> HIDE DEF Good
<1>8. \A k \in 0 .. n : p[k] \in Good[k]
  BY <1>1, <1>6, <1>7, Through
<1>9. Deleted(r, first, n)
  <2>1. n \in 0 .. n
    BY <1>1
  <2> QED
    BY <1>2, <1>8, <2>1 DEF Good
<1>10. r.extent = 0
  <2>1. SUFFICES ASSUME r.extent # 0 PROVE FALSE
    OBVIOUS
  <2>2. r \in DelStates /\ Len(r.ql.nodes) - r.i = n - first.i - n
    BY <1>9, <2>1 DEF Deleted
  <2>3. r.ql \in Exact /\ r.i \in DOMAIN r.ql.nodes
    BY <2>1, <2>2 DEF DelStates, Reach
  <2>4. r.i \in 1 .. Len(r.ql.nodes) /\ Len(r.ql.nodes) \in Nat
    BY <2>3, ExactIs
  <2> QED
    BY <1>1, <2>2, <2>4
<1>11. Held(r.ql) = Cut(f, b, x - r.extent) /\ r \in DelStates
  BY <1>9 DEF Deleted
<1>12. x - r.extent = x
  BY <1>4, <1>10
<1> QED
  BY <1>3, <1>11, <1>12

\* A range at the head or at the tail of the list.
LEMMA DelRangeHeld ==
  ASSUME NEW q \in Exact, NEW start, NEW count \in 0 .. q.count,
         start = 0 \/ start = -count,
         NEW r, r = quicklistDelRange(q, start, count),
         NEW p, p = IF start = 0 THEN 0 ELSE q.count - count
  PROVE  /\ r \in Exact /\ p \in Nat /\ p + count <= Len(Held(q))
         /\ Held(r) = Cut(Held(q), p, count)
<1> DEFINE f == Held(q)
           ns == q.nodes
           i == quicklistIndex(q, start)[1]
           o == quicklistIndex(q, start)[2]
           first == DelRangeFirst(q, start, count)
           last == DelAll(first, ns)
<1>1. f \in Seq(Value) /\ Len(f) = q.count /\ q.count \in Nat /\ q.count = Size(ns)
  BY HeldType, ExactIs
<1>2. start \in Int /\ count \in Int /\ count \in Nat /\ count <= q.count
  BY <1>1
<1>3. r \in Exact
  BY <1>2, DelRangeExact
<1>4. p \in Nat /\ p + count <= q.count
  BY <1>1, <1>2
<1>5. r = IF count <= 0 \/ i = 0 THEN q ELSE last.ql
  BY DEF quicklistDelRange, DelAll, DelRangeFirst
<1>6. CASE count = 0
  <2>1. r = q
    BY <1>5, <1>6
  <2>2. Cut(f, p, 0) = f
    <3>1. p \in 0 .. Len(f)
      BY <1>1, <1>4, <1>6
    <3> HIDE DEF f
    <3> QED
      BY <1>1, <3>1, CutNone
  <2> QED
    BY <1>1, <1>3, <1>4, <1>6, <2>1, <2>2
<1>7. CASE count # 0
  <2>1. /\ i = 0 => o = 0 /\ (start >= q.count \/ start < -q.count)
        /\ i # 0 => /\ i \in 1 .. Len(ns) /\ o \in Int
                    /\ start >= 0 => /\ 0 <= o /\ o < ns[i].count
                                     /\ start = Size(Pre(ns, i)) + o
                    /\ start < 0 => /\ o < 0 /\ -o <= ns[i].count
                                    /\ start = o - Size(Rest(ns, i + 1))
    <3> HIDE DEF i, o
    <3> QED
      BY <1>2, IndexFound DEF i, o
  <2> HIDE DEF o
  <2>2. i # 0
    BY <1>1, <1>2, <1>7, <2>1
  <2>3. first.ql = q /\ first.i = i /\ first.offset = o
    BY DEF DelRangeFirst, o
  <2>4. /\ first \in DelStates
        /\ first.extent \in {count, IF start >= 0 THEN q.count - start ELSE -start}
        /\ first.extent <= count
    BY <1>2, <1>7, <2>2, DelRangeFrom
  <2>5. first.extent = count /\ first.extent # 0
    <3>1. CASE start = 0
      <4> HIDE DEF first
      <4> QED
        BY <1>1, <1>2, <1>7, <2>4, <3>1
    <3>2. CASE start # 0
      <4> HIDE DEF first
      <4> QED
        BY <1>1, <1>2, <1>7, <2>4, <3>2
    <3> QED
      BY <3>1, <3>2
  <2> HIDE DEF first, i
  <2>6. Behind(first) = p
    <3> DEFINE sn == Size(ns)
               sp == Size(Pre(ns, i))
               sr == Size(Rest(ns, i))
               sa == Size(Rest(ns, i + 1))
    <3>1. ns \in Seq(Full) /\ Len(ns) \in Nat /\ i \in 1 .. Len(ns) /\ i \in 1 .. Len(ns) + 1
      BY <2>1, <2>2, ExactIs
    <3>2. sn = sp + sr /\ sp \in Nat /\ sr \in Nat
      BY <3>1, SizeSplit
    <3>3. sa \in Nat
      BY <3>1, SizeStep
    <3>4. Behind(first) = sn - (IF o = 0 THEN sr ELSE -o + sa)
      BY <2>3 DEF Behind, Ahead
    <3>5. start >= 0 => 0 <= o /\ start = sp + o
      BY <2>1, <2>2
    <3>6. start < 0 => o < 0 /\ start = o - sa
      BY <2>1, <2>2
    <3>7. o \in Int /\ sn = q.count
      BY <1>1, <2>1, <2>2
    <3> HIDE DEF sn, sp, sr, sa
    <3>8. CASE start = 0
      <4>1. o = 0 /\ sp = 0
        BY <3>2, <3>5, <3>7, <3>8
      <4> QED
        BY <3>2, <3>4, <3>8, <4>1
    <3>9. CASE start # 0
      <4>1. start < 0 /\ start = -count
        BY <1>2, <3>9
      <4>2. o # 0 /\ -o + sa = count
        BY <1>2, <3>3, <3>6, <3>7, <4>1
      <4> QED
        BY <1>1, <1>2, <3>4, <3>7, <3>9, <4>2
    <3> QED
      BY <3>8, <3>9
  <2>7. Held(last.ql) = Cut(Held(first.ql), Behind(first), first.extent)
    <3>1. last = DelAll(first, first.ql.nodes)
      BY <2>3
    <3> HIDE DEF last
    <3> QED
      BY <2>4, <2>5, <3>1, DeletedAll
  <2>8. r = last.ql
    BY <1>2, <1>5, <1>7, <2>2
  <2> HIDE DEF last
  <2> QED
    BY <1>1, <1>3, <1>4, <2>3, <2>5, <2>6, <2>7, <2>8
<1> QED
  BY <1>6, <1>7

-----------------------------------------------------------------------------
(* The elements of a sequence that Lists takes with At: those at the       *)
(* positions of a set, in order.                                           *)

PickAll(first, s, f, I) ==
  FoldLeft(LAMBDA x, y : IF y \in I THEN Append(x, f[y]) ELSE x, first, s)

Picked(f, I) == PickAll(<<>>, [i \in 1 .. Len(f) |-> i], f, I)

\* The rounds of PickAll.
PickRounds(p, first, s, f, I) ==
  /\ p[0] = first /\ PickAll(first, s, f, I) = p[Len(s)]
  /\ \A k \in 0 .. Len(s) : p[k] \in Seq(Value)
  /\ \A k \in 1 .. Len(s) :
       p[k] = IF s[k] \in I THEN Append(p[k - 1], f[s[k]]) ELSE p[k - 1]

LEMMA PickFold ==
  ASSUME NEW f \in Seq(Value), NEW I, NEW first \in Seq(Value),
         NEW s \in Seq(1 .. Len(f))
  PROVE  \E p : PickRounds(p, first, s, f, I)
<1> DEFINE n == Len(s)
           Y == 1 .. Len(f)
           Op(x, y) == IF y \in I THEN Append(x, f[y]) ELSE x
           Equation(g) == g = [T \in SUBSET (1 .. n) |->
                                 IF T = {} THEN first
                                 ELSE Op(g[T \ {Max(T)}], s[Max(T)])]
           h == CHOOSE g : Equation(g)
           st == [z \in Seq(Value) \X Y |-> Op(z[1], z[2])]
           p == [k \in 0 .. n |-> h[1 .. k]]
           Good == [k \in 0 .. n |-> Seq(Value)]
<1>1. n \in Nat /\ DOMAIN s = 1 .. n /\ \A i \in 1 .. n : s[i] \in Y
  OBVIOUS
<1>2. PickAll(first, s, f, I) = h[1 .. n]
  <2>1. PickAll(first, s, f, I)
          = LET g == CHOOSE g : g = [T \in SUBSET DOMAIN s |->
                                       IF T = {} THEN first
                                       ELSE Op(g[T \ {Max(T)}], s[Max(T)])]
            IN  g[DOMAIN s]
    BY DEF PickAll, FoldLeft, MapThenFoldSet
  <2> QED
    BY <1>1, <2>1
<1>3. ASSUME NEW x \in Seq(Value), NEW y \in Y PROVE Op(x, y) \in Seq(Value)
  <2>1. f[y] \in Value
    BY <1>3
  <2>2. Append(x, f[y]) \in Seq(Value)
    BY <1>3, <2>1
  <2> QED
    BY <1>3, <2>2
<1> HIDE DEF Op, n, Y
<1>4. st \in [Seq(Value) \X Y -> Seq(Value)]
  BY <1>3
<1>5. \E g : Equation(g)
  <2> HIDE DEF st
  <2>1. PICK g \in [SUBSET (1 .. n) -> Seq(Value)] : Folds(g, st, first, s, n)
    <3>1. HasFold(Seq(Value), st, first, s, n)
      BY <1>1, <1>4, FoldExists
    <3> QED
      BY <3>1 DEF HasFold
  <2>2. ASSUME NEW T \in SUBSET (1 .. n), T # {}
        PROVE  st[<<g[T \ {Max(T)}], s[Max(T)]>>] = Op(g[T \ {Max(T)}], s[Max(T)])
    <3>1. Max(T) \in 1 .. n
      BY <1>1, <2>2, MaxIs
    <3>2. g[T \ {Max(T)}] \in Seq(Value) /\ s[Max(T)] \in Y
      BY <1>1, <3>1
    <3> QED
      BY <3>2 DEF st
  <2>3. Equation(g)
    BY <2>1, <2>2 DEF Folds
  <2> QED
    BY <2>3
<1>6. Equation(h)
  BY <1>5
<1> HIDE DEF h
<1>7. p[0] \in Good[0]
  BY <1>1, <1>6, Rounds
<1>8. \A k \in 1 .. n : p[k - 1] \in Good[k - 1] => p[k] \in Good[k]
  <2>1. SUFFICES ASSUME NEW k \in 1 .. n, p[k - 1] \in Good[k - 1] PROVE p[k] \in Good[k]
    OBVIOUS
  <2>2. /\ 1 .. k # {} /\ Max(1 .. k) = k /\ (1 .. k) \ {k} = 1 .. (k - 1)
        /\ k \in 0 .. n /\ k - 1 \in 0 .. n /\ 1 .. k \in SUBSET (1 .. n)
    <3>1. k \in Nat \ {0} /\ k \in 0 .. n /\ k - 1 \in 0 .. n /\ 1 .. k \in SUBSET (1 .. n)
      BY <1>1
    <3> QED
      BY <3>1, Rounds
  <2>3. h[1 .. (k - 1)] \in Seq(Value)
    BY <2>1, <2>2
  <2>4. h[1 .. k] = Op(h[1 .. (k - 1)], s[k])
    BY <1>6, <2>2
  <2> QED
    BY <1>1, <1>3, <2>2, <2>3, <2>4
<1>11. \A k \in 1 .. n : p[k] = Op(p[k - 1], s[k])
  <2>1. SUFFICES ASSUME NEW k \in 1 .. n PROVE p[k] = Op(p[k - 1], s[k])
    OBVIOUS
  <2>2. /\ 1 .. k # {} /\ Max(1 .. k) = k /\ (1 .. k) \ {k} = 1 .. (k - 1)
        /\ k \in 0 .. n /\ k - 1 \in 0 .. n /\ 1 .. k \in SUBSET (1 .. n)
    <3>1. k \in Nat \ {0} /\ k \in 0 .. n /\ k - 1 \in 0 .. n /\ 1 .. k \in SUBSET (1 .. n)
      BY <1>1
    <3> QED
      BY <3>1, Rounds
  <2> QED
    BY <1>6, <2>2
<1>12. p[0] = first
  BY <1>1, <1>6, Rounds
<1>9. p[n] = h[1 .. n] /\ Good[n] = Seq(Value) /\ n \in 0 .. n
  BY <1>1
<1> HIDE DEF p, Good
<1>10. \A k \in 0 .. n : p[k] \in Good[k]
  BY <1>1, <1>7, <1>8, Through
<1>13. \A k \in 0 .. n : Good[k] = Seq(Value)
  BY DEF Good
<1>14. \A k \in 1 .. n : p[k] = IF s[k] \in I THEN Append(p[k - 1], f[s[k]]) ELSE p[k - 1]
  BY <1>11 DEF Op
<1>15. \A k \in 0 .. n : p[k] \in Seq(Value)
  BY <1>10, <1>13
<1> QED
  BY <1>2, <1>9, <1>12, <1>14, <1>15 DEF n, PickRounds

\* A choice of positions, in order.
Rising(e, n) == e \in Seq(1 .. n) /\ \A i, j \in 1 .. Len(e) : i < j => e[i] < e[j]

\* The elements of f at those positions.
IsChosen(g, f, e) == Len(g) = Len(e) /\ \A j \in 1 .. Len(e) : g[j] = f[e[j]]

LEMMA PickedIs ==
  ASSUME NEW f \in Seq(Value), NEW g \in Seq(Value), NEW n, n = Len(f),
         NEW e, Rising(e, n), IsChosen(g, f, e),
         NEW I, I = {e[j] : j \in 1 .. Len(e)}
  PROVE  Picked(f, I) = g
<1> DEFINE s == [i \in 1 .. n |-> i]
           w == <<>>
           m == Len(e)
           \* k elements of f have been seen, l of them taken.
           Took(x, k) == /\ x \in Seq(Value)
                         /\ \E l \in 0 .. m :
                              /\ Len(x) = l /\ \A j \in 1 .. l : x[j] = g[j]
                              /\ \A j \in 1 .. m : e[j] <= k <=> j <= l
<1>1. n \in Nat /\ m \in Nat /\ \A j \in 1 .. m : e[j] \in 1 .. n
  BY DEF Rising
<1>2. s \in Seq(1 .. n) /\ Len(s) = n /\ \A k \in 1 .. n : s[k] = k
  BY <1>1
<1>3. w \in Seq(Value)
  BY EmptySeq
<1> HIDE DEF s, w, m
<1>4. PICK p : /\ p[0] = w /\ PickAll(w, s, f, I) = p[n]
               /\ \A k \in 0 .. n : p[k] \in Seq(Value)
               /\ \A k \in 1 .. n : p[k] = IF s[k] \in I THEN Append(p[k - 1], f[s[k]]) ELSE p[k - 1]
  <2>1. s \in Seq(1 .. Len(f)) /\ Len(s) = n
    BY <1>2
  <2>2. PICK p : PickRounds(p, w, s, f, I)
    BY <1>3, <2>1, PickFold
  <2> QED
    BY <2>1, <2>2 DEF PickRounds
<1>5. Took(p[0], 0)
  <2>1. Len(w) = 0
    BY DEF w
  <2>2. 0 \in 0 .. m /\ \A j \in 1 .. m : ~(e[j] <= 0) /\ ~(j <= 0)
    BY <1>1
  <2> QED
    BY <1>3, <1>4, <2>1, <2>2
<1>6. ASSUME NEW k \in 1 .. n, Took(p[k - 1], k - 1) PROVE Took(p[k], k)
  <2> DEFINE x == p[k - 1]
             y == p[k]
  <2>1. y = IF k \in I THEN Append(x, f[k]) ELSE x
    BY <1>2, <1>4
  <2>2. PICK l \in 0 .. m : /\ x \in Seq(Value) /\ Len(x) = l /\ \A j \in 1 .. l : x[j] = g[j]
                            /\ \A j \in 1 .. m : e[j] <= k - 1 <=> j <= l
    BY <1>6
  <2>3. y \in Seq(Value) /\ k \in Nat /\ l \in Nat
    BY <1>1, <1>4
  <2> HIDE DEF x, y
  <2>4. CASE k \in I
    <3>1. PICK i \in 1 .. m : e[i] = k
      BY <2>4 DEF m
    <3>2. ~(i <= l)
      BY <1>1, <2>2, <2>3, <3>1
    <3>3. l + 1 \in 1 .. m /\ l + 1 <= i
      BY <1>1, <2>3, <3>2
    <3>4. i = l + 1
      <4>1. SUFFICES ASSUME l + 1 < i PROVE FALSE
        BY <1>1, <3>3
      <4>2. e[l + 1] < e[i]
        BY <3>3, <4>1 DEF Rising, m
      <4>3. e[l + 1] <= k - 1
        BY <1>1, <2>3, <3>1, <3>3, <4>2
      <4> QED
        BY <2>2, <2>3, <3>3, <4>3
    <3>5. y = Append(x, f[k]) /\ g[l + 1] = f[k]
      BY <2>1, <2>4, <3>1, <3>3, <3>4 DEF IsChosen, m
    <3>6. f[k] \in Value
      OBVIOUS
    <3>7. Len(y) = l + 1 /\ \A j \in 1 .. l + 1 : y[j] = g[j]
      BY <2>2, <2>3, <3>5, <3>6
    <3>8. \A j \in 1 .. m : e[j] <= k <=> j <= l + 1
      <4>1. SUFFICES ASSUME NEW j \in 1 .. m PROVE e[j] <= k <=> j <= l + 1
        OBVIOUS
      <4>2. CASE j <= l
        <5>1. e[j] <= k - 1
          BY <2>2, <4>2
        <5>2. e[j] \in Nat /\ j \in Nat
          BY <1>1
        <5> QED
          BY <2>3, <4>2, <5>1, <5>2
      <4>3. CASE j = l + 1
        BY <1>1, <2>3, <3>1, <3>4, <4>3
      <4>4. CASE j > l + 1
        <5>1. e[l + 1] < e[j]
          BY <3>3, <4>4 DEF Rising, m
        <5> QED
          BY <1>1, <2>3, <3>1, <3>4, <4>4, <5>1
      <4> QED
        BY <1>1, <2>3, <4>2, <4>3, <4>4
    <3>9. l + 1 \in 0 .. m
      BY <3>3
    <3> QED
      BY <2>3, <3>7, <3>8, <3>9 DEF y
  <2>5. CASE k \notin I
    <3>1. y = x
      BY <2>1, <2>5
    <3>2. \A j \in 1 .. m : e[j] # k
      BY <2>5 DEF m
    <3>3. \A j \in 1 .. m : e[j] <= k <=> j <= l
      BY <1>1, <2>2, <2>3, <3>2
    <3> QED
      BY <2>2, <2>3, <3>1, <3>3 DEF y
  <2> QED
    BY <2>4, <2>5
<1> DEFINE Good == [k \in 0 .. n |-> {x \in Seq(Value) : Took(x, k)}]
<1>7. \A k \in 0 .. n : p[k] \in Good[k]
  <2>1. p[0] \in Good[0]
    BY <1>1, <1>4, <1>5
  <2>2. ASSUME NEW k \in 1 .. n, p[k - 1] \in Good[k - 1] PROVE p[k] \in Good[k]
    <3>1. k \in 0 .. n /\ k - 1 \in 0 .. n
      BY <1>1
    <3>2. Took(p[k - 1], k - 1)
      BY <2>2, <3>1
    <3> HIDE DEF Took
    <3>3. Took(p[k], k)
      BY <1>6, <3>2
    <3> QED
      BY <1>4, <3>1, <3>3
  <2> HIDE DEF Good
  <2> QED
    BY <1>1, <2>1, <2>2, Through
<1>8. Took(p[n], n)
  <2>1. n \in 0 .. n
    BY <1>1
  <2> QED
    BY <1>7, <2>1
<1>9. p[n] = g
  <2> DEFINE x == p[n]
  <2>1. PICK l \in 0 .. m : /\ x \in Seq(Value) /\ Len(x) = l /\ \A j \in 1 .. l : x[j] = g[j]
                            /\ \A j \in 1 .. m : e[j] <= n <=> j <= l
    BY <1>8
  <2>2. l = m
    <3>1. \A j \in 1 .. m : e[j] <= n
      BY <1>1
    <3>2. m # 0 => m <= l
      BY <1>1, <2>1, <3>1
    <3> QED
      BY <1>1, <3>2
  <2>3. Len(g) = m
    BY DEF IsChosen, m
  <2> HIDE DEF x
  <2>4. x = g
    BY <1>1, <2>1, <2>2, <2>3, SeqEqual
  <2> QED
    BY <2>4 DEF x
<1>10. Picked(f, I) = PickAll(w, s, f, I)
  BY DEF Picked, w, s
<1> QED
  BY <1>4, <1>9, <1>10

\* The positions behind lo up to hi.
Inside(n, lo, hi) == {p \in 1 .. n : lo < p /\ p <= hi}

LEMMA SpanPicked ==
  ASSUME NEW f \in Seq(Value), NEW g \in Seq(Value), NEW a \in Nat, NEW k \in Nat,
         a + k <= Len(f), Len(g) = k, \A j \in 1 .. k : g[j] = f[a + j],
         NEW I, I = Inside(Len(f), a, a + k)
  PROVE  Picked(f, I) = g
<1> DEFINE n == Len(f)
           e == [j \in 1 .. k |-> a + j]
<1>1. n \in Nat /\ a + k <= n
  OBVIOUS
<1> HIDE DEF n
<1>2. e \in Seq(1 .. n) /\ Len(e) = k /\ \A j \in 1 .. k : e[j] = a + j
  <2>1. \A j \in 1 .. k : a + j \in 1 .. n
    BY <1>1
  <2> QED
    BY <2>1
<1> HIDE DEF e
<1>3. Rising(e, n)
  <2>1. \A i, j \in 1 .. k : i < j => a + i < a + j
    OBVIOUS
  <2> QED
    BY <1>2, <2>1 DEF Rising
<1>4. IsChosen(g, f, e)
  BY <1>2 DEF IsChosen
<1>5. I = {e[j] : j \in 1 .. Len(e)}
  <2>1. ASSUME NEW p \in I PROVE p \in {e[j] : j \in 1 .. Len(e)}
    <3>1. p - a \in 1 .. k /\ a + (p - a) = p
      BY <1>1 DEF Inside
    <3>2. e[p - a] = p
      BY <1>2, <3>1
    <3> QED
      BY <1>2, <3>1, <3>2
  <2>2. ASSUME NEW j \in 1 .. Len(e) PROVE e[j] \in I
    <3>1. j \in 1 .. k /\ e[j] = a + j
      BY <1>2
    <3>2. a + j \in 1 .. n /\ a < a + j /\ a + j <= a + k
      BY <1>1, <3>1
    <3> QED
      BY <3>1, <3>2 DEF n, Inside
  <2> QED
    BY <2>1, <2>2
<1> QED
  BY <1>3, <1>4, <1>5, PickedIs DEF n

LEMMA TwoIs ==
  ASSUME NEW a \in Int, NEW b \in Int
  PROVE  /\ Max({a, b}) = IF a >= b THEN a ELSE b
         /\ Min({a, b}) = IF a <= b THEN a ELSE b
<1> DEFINE A == {a, b}
           P(x) == x \in A /\ \A y \in A : x >= y
           R(x) == x \in A /\ \A y \in A : x <= y
           hi == IF a >= b THEN a ELSE b
           lo == IF a <= b THEN a ELSE b
<1>1. P(hi) /\ R(lo)
  OBVIOUS
<1>2. \A x : P(x) => x = hi
  OBVIOUS
<1>3. \A x : R(x) => x = lo
  OBVIOUS
<1>4. Max(A) = CHOOSE x : P(x)
  BY DEF Max
<1>5. Min(A) = CHOOSE x : R(x)
  BY DEF Min
<1>6. P(CHOOSE x : P(x)) /\ R(CHOOSE x : R(x))
  <2> HIDE DEF P, R
  <2> QED
    BY <1>1
<1> HIDE DEF P, R, hi, lo
<1>7. Max(A) = hi /\ Min(A) = lo
  BY <1>2, <1>3, <1>4, <1>5, <1>6
<1> QED
  BY <1>7 DEF hi, lo

\* The positions LRANGE and LTRIM name.
Ranged(n, start, end) == {p \in 1 .. n : PosOf(start, n) <= p /\ p <= PosOf(end, n)}

LEMMA RangedIs ==
  ASSUME NEW n \in Nat, NEW start \in Int, NEW end \in Int
  PROVE  /\ First(start, n) \in Nat /\ Final(end, n) \in Int /\ Final(end, n) <= n - 1
         /\ Ranged(n, start, end) = Inside(n, First(start, n), Final(end, n) + 1)
<1> DEFINE a == First(start, n)
           b == Final(end, n)
           x == IF start < 0 THEN n + start ELSE start
           y == IF end < 0 THEN n + end ELSE end
           m == n - 1
<1>1. x \in Int /\ y \in Int /\ m \in Int /\ 0 \in Int
  OBVIOUS
<1>2. a = Max({0, x}) /\ b = Min({m, y})
  BY DEF First, Final
<1>3. PosOf(start, n) = x + 1 /\ PosOf(end, n) = y + 1
  BY DEF PosOf
<1> HIDE DEF x, y, a, b
<1>4. a = (IF 0 >= x THEN 0 ELSE x) /\ b = (IF m <= y THEN m ELSE y)
  BY <1>1, <1>2, TwoIs
<1>5. a \in Nat /\ b \in Int /\ b <= n - 1
  BY <1>1, <1>4
<1>6. ASSUME NEW p \in 1 .. n
      PROVE  (x + 1 <= p /\ p <= y + 1) <=> (a < p /\ p <= b + 1)
  BY <1>1, <1>4
<1> QED
  BY <1>3, <1>5, <1>6 DEF Ranged, Inside, a, b

\* Both ends deleted.
LEMMA SpanHeld ==
  ASSUME NEW q \in Exact, NEW lt \in Nat, NEW rt \in Nat, lt + rt <= q.count, NEW s, s = -rt
  PROVE  LET r == quicklistDelRange(quicklistDelRange(q, 0, lt), s, rt)
         IN  /\ r \in Exact
             /\ Held(r) = Picked(Held(q), Inside(Len(Held(q)), lt, Len(Held(q)) - rt))
<1> DEFINE left == quicklistDelRange(q, 0, lt)
           r == quicklistDelRange(left, s, rt)
           f == Held(q)
           g == Held(left)
           h == Held(r)
           n == Len(f)
           z == 0
           k == n - lt - rt
           p == IF s = 0 THEN 0 ELSE left.count - rt
<1>1. f \in Seq(Value) /\ q.count = n /\ n \in Nat
  BY HeldType
<1>2. left \in Exact /\ g = Cut(f, z, lt)
  <2>1. lt \in 0 .. q.count /\ z = 0 /\ z = IF 0 = 0 THEN 0 ELSE q.count - lt
    BY <1>1
  <2> HIDE DEF z
  <2> QED
    BY <2>1, DelRangeHeld
<1>3. g \in Seq(Value) /\ Len(g) = left.count
  BY <1>2, HeldType
<1>4. z \in Nat /\ z + lt <= n /\ lt + rt <= n
  BY <1>1
<1> HIDE DEF left, f, g
<1>5. IsCut(g, f, z, lt)
  BY <1>1, <1>2, <1>4, CutIs
<1> HIDE DEF n
<1>6. Len(g) = n - lt /\ \A j \in 1 .. n - lt : g[j] = f[lt + j]
  <2>1. \A j \in 1 .. n - lt : ~(j <= z) /\ j + lt = lt + j
    BY <1>1
  <2>2. Len(g) = n - lt
    BY <1>5 DEF IsCut, n
  <2>3. \A j \in 1 .. n - lt : g[j] = IF j <= z THEN f[j] ELSE f[j + lt]
    BY <1>5, <2>2 DEF IsCut
  <2> HIDE DEF z
  <2> QED
    BY <2>1, <2>2, <2>3
<1>7. rt \in 0 .. left.count /\ (s = 0 \/ s = -rt)
  BY <1>1, <1>3, <1>4, <1>6
<1>8. p = IF s = 0 THEN 0 ELSE left.count - rt
  OBVIOUS
<1>9. r = quicklistDelRange(left, s, rt)
  OBVIOUS
<1> HIDE DEF p, r
<1>10. r \in Exact /\ h = Cut(g, p, rt) /\ p \in Nat /\ p + rt <= Len(g)
  BY <1>2, <1>7, <1>8, <1>9, DelRangeHeld DEF g
<1> HIDE DEF h
<1>11. h \in Seq(Value) /\ IsCut(h, g, p, rt)
  BY <1>3, <1>10, CutIs
<1>12. rt # 0 => p = k
  <2>1. rt # 0 => s # 0
    OBVIOUS
  <2>2. left.count = n - lt
    BY <1>3, <1>6
  <2> QED
    BY <1>8, <2>1, <2>2
<1>13. k \in Nat /\ Len(h) = k
  BY <1>1, <1>4, <1>6, <1>11 DEF IsCut
<1>14. \A j \in 1 .. k : h[j] = f[lt + j]
  <2>1. SUFFICES ASSUME NEW j \in 1 .. k PROVE h[j] = f[lt + j]
    OBVIOUS
  <2>2. h[j] = IF j <= p THEN g[j] ELSE g[j + rt]
    BY <1>11, <1>13 DEF IsCut
  <2>3. rt = 0 => j + rt = j
    BY <1>13
  <2>4. rt # 0 => j <= p
    BY <1>12, <1>13
  <2>5. h[j] = g[j]
    BY <2>2, <2>3, <2>4
  <2>6. j \in 1 .. n - lt
    BY <1>1, <1>4
  <2> QED
    BY <1>6, <2>5, <2>6
<1>15. lt + k = n - rt /\ lt + k <= n
  BY <1>1, <1>4
<1> HIDE DEF k
<1>16. Inside(n, lt, n - rt) = Inside(Len(f), lt, lt + k)
  BY <1>15 DEF n
<1> DEFINE I == Inside(n, lt, n - rt)
<1>17. I = Inside(Len(f), lt, lt + k) /\ lt + k <= Len(f)
  BY <1>15, <1>16 DEF n
<1> HIDE DEF I
<1>18. Picked(f, I) = h
  BY <1>1, <1>11, <1>13, <1>14, <1>17, SpanPicked
<1> QED
  BY <1>10, <1>18 DEF I, n, f, h, r, left

LEMMA TrimHeld ==
  ASSUME NEW q \in Exact, NEW start \in Int, NEW end \in Int
  PROVE  LET n  == q.count
             a  == First(start, n)
             b  == Final(end, n)
             lt == IF a > b THEN n ELSE a
             rt == IF a > b THEN 0 ELSE n - b - 1
             r  == quicklistDelRange(quicklistDelRange(q, 0, lt), -rt, rt)
         IN  r \in Exact /\ Held(r) = Picked(Held(q), Ranged(Len(Held(q)), start, end))
<1> DEFINE n  == q.count
           a  == First(start, n)
           b  == Final(end, n)
           lt == IF a > b THEN n ELSE a
           rt == IF a > b THEN 0 ELSE n - b - 1
           s  == -rt
           f  == Held(q)
<1>1. Len(f) = n /\ n \in Nat
  BY HeldType
<1> HIDE DEF n, f
<1>2. a = First(start, n) /\ b = Final(end, n)
  OBVIOUS
<1> HIDE DEF a, b
<1>3. /\ a \in Nat /\ b \in Int /\ b <= n - 1
      /\ Ranged(n, start, end) = Inside(n, a, b + 1)
  BY <1>1, <1>2, RangedIs
<1>4. lt \in Nat /\ rt \in Nat /\ lt + rt <= n
  BY <1>1, <1>3
<1>5. Inside(n, a, b + 1) = Inside(n, lt, n - rt)
  <2>1. ASSUME NEW i \in 1 .. n
        PROVE  (a < i /\ i <= b + 1) <=> (lt < i /\ i <= n - rt)
    <3>1. CASE a > b
      <4>1. lt = n /\ rt = 0
        BY <3>1
      <4> QED
        BY <1>1, <1>3, <3>1, <4>1
    <3>2. CASE ~(a > b)
      <4>1. lt = a /\ rt = n - b - 1
        BY <3>2
      <4>2. n - rt = b + 1
        BY <1>1, <1>3, <4>1
      <4> QED
        BY <4>1, <4>2
    <3> QED
      BY <3>1, <3>2
  <2> QED
    BY <2>1 DEF Inside
<1> HIDE DEF lt, rt
<1> DEFINE r == quicklistDelRange(quicklistDelRange(q, 0, lt), s, rt)
<1>6. r \in Exact /\ Held(r) = Picked(f, Inside(Len(f), lt, Len(f) - rt))
  <2>1. lt + rt <= q.count /\ s = -rt
    BY <1>4 DEF n
  <2> HIDE DEF s
  <2> QED
    BY <1>4, <2>1, SpanHeld DEF f
<1>7. Held(r) = Picked(f, Ranged(Len(f), start, end))
  BY <1>1, <1>3, <1>5, <1>6
<1> QED
  BY <1>6, <1>7 DEF f, n, a, b, lt, rt, s

-----------------------------------------------------------------------------
(* Iterators.  The position of an iterator in the list, and the position   *)
(* its next entry has.                                                     *)

Spot(it) ==
  LET ns == it.ql.nodes
  IN  Size(Pre(ns, IF it.direction = 1 THEN it.current ELSE it.current + 1)) + it.offset + 1

Upcoming(it) == Spot(it) + (IF it.zi THEN it.direction ELSE 0)

\* The offset is in the node or, behind an entry that was deleted, one beyond.
Bounded(it) ==
  LET n == Len(it.ql.nodes[it.current].zl)
  IN  /\ it.direction = 1 => it.offset <= n
      /\ it.direction = -1 => -it.offset <= n + 1

\* The next entry is the one at position u, if there is one.
Awaits(it, u) ==
  IF it.current = 0 THEN u \notin 1 .. Len(Held(it.ql))
  ELSE Bounded(it) /\ u = Upcoming(it)

\* The entry in hand is the one at position u.
Grasps(it, u) ==
  /\ it.current # 0 /\ it.zi /\ InHand(it) # 0
  /\ u \in 1 .. Len(Held(it.ql)) /\ Spot(it) = u
  /\ InHand(it) \in 1 .. Len(it.ql.nodes[it.current].zl)
  /\ u = Size(Pre(it.ql.nodes, it.current)) + InHand(it)
  /\ ElementOf(it) = Held(it.ql)[u]
  /\ Awaits(it, u + it.direction)

LEMMA InHandAt ==
  ASSUME NEW it \in Iters, it.current # 0, InHand(it) # 0
  PROVE  /\ InHand(it) \in 1 .. Len(it.ql.nodes[it.current].zl)
         /\ Spot(it) \in 1 .. Len(Held(it.ql))
         /\ Spot(it) = Size(Pre(it.ql.nodes, it.current)) + InHand(it)
         /\ ElementOf(it) = Held(it.ql)[Spot(it)]
         /\ Bounded(it)
<1> DEFINE q == it.ql
           ns == q.nodes
           c == it.current
           o == it.offset
           d == it.direction
           z == ns[c].zl
           n == Len(z)
           p == InHand(it)
           a == Size(Pre(ns, c))
           b == Size(Pre(ns, c + 1))
           u == Spot(it)
<1>1. /\ q \in Exact /\ c \in DOMAIN ns /\ o \in Int /\ d \in {1, -1}
      /\ (d = 1 => o >= 0) /\ (d = -1 => o < 0)
  BY IterIs
<1>2. /\ ns \in Seq(Full) /\ c \in 1 .. Len(ns) /\ z \in Seq(Value) /\ ns[c].count = n
      /\ n \in Nat \ {0}
  BY <1>1, ExactIs, NodeOf
<1>3. b = a + n /\ a \in Nat
  <2> HIDE DEF ns
  <2>1. b = a + ns[c].count /\ a \in Nat
    BY <1>2, SizeStep
  <2> QED
    BY <1>2, <2>1
<1>4. p = ziplistIndex(z, o) /\ p # 0
  BY DEF InHand
<1> HIDE DEF z, p
<1>5. /\ p \in 0 .. n
      /\ 0 <= o /\ o < n => p = o + 1
      /\ o >= n => p = 0
      /\ o < 0 /\ -o <= n => p = n + o + 1
  BY <1>1, <1>2, <1>4, ZiplistIndex
<1>6. o < 0 => -o <= n
  <2>1. ziplistIndex(z, o) = IF (IF o < 0 THEN n + o + 1 ELSE o + 1) \in DOMAIN z
                             THEN (IF o < 0 THEN n + o + 1 ELSE o + 1) ELSE 0
    BY DEF ziplistIndex
  <2>2. DOMAIN z = 1 .. n
    BY <1>2
  <2> HIDE DEF n
  <2> QED
    BY <1>1, <1>2, <1>4, <2>1, <2>2
<1>7. u = (IF d = 1 THEN a ELSE b) + o + 1
  BY DEF Spot
<1> HIDE DEF u, a, b, n, c, o, d, q, ns
<1>8. p \in 1 .. n
  BY <1>2, <1>4, <1>5
<1>9. u = a + p
  <2>1. CASE d = 1
    <3>1. o < n
      BY <1>1, <1>2, <1>4, <1>5, <2>1
    <3>2. p = o + 1
      BY <1>1, <1>5, <2>1, <3>1
    <3> QED
      BY <1>1, <1>3, <1>7, <2>1, <3>2
  <2>2. CASE d = -1
    <3>1. p = n + o + 1
      BY <1>1, <1>5, <1>6, <2>2
    <3> QED
      BY <1>1, <1>2, <1>3, <1>7, <2>2, <3>1
  <2> QED
    BY <1>1, <2>1, <2>2
<1>10. /\ a + p \in 1 .. Len(Flat(ns)) /\ Flat(ns)[a + p] = ns[c].zl[p]
  <2>1. p \in 1 .. Len(ns[c].zl)
    BY <1>8 DEF n, z
  <2> QED
    BY <1>2, <2>1, EntryAt DEF a
<1>11. Bounded(it)
  <2>1. (d = 1 => o <= n) /\ (d = -1 => -o <= n + 1)
    BY <1>1, <1>2, <1>4, <1>5, <1>6
  <2> QED
    BY <2>1 DEF Bounded, d, o, n, z, ns, q, c
<1>12. ElementOf(it) = ns[c].zl[p]
  BY DEF ElementOf, ns, c, p, q
<1> QED
  BY <1>8, <1>9, <1>10, <1>11, <1>12 DEF Held, u, a, ns, q, c, n, z, p

\* What quicklistNext comes to.
LEMMA NextReaches ==
  ASSUME NEW it \in Iters, NEW u \in Int, Awaits(it, u), NEW r, r = quicklistNext(it)
  PROVE  /\ r \in Iters /\ r.ql = it.ql /\ r.direction = it.direction
         /\ u \in 1 .. Len(Held(it.ql)) => Grasps(r, u)
         /\ u \notin 1 .. Len(Held(it.ql)) => r.current = 0 /\ Awaits(r, u)
<1> DEFINE q == it.ql
           ns == q.nodes
           c == it.current
           o == it.offset
           zi == it.zi
           d == it.direction
           z == ns[c].zl
           n == Len(z)
           here == ziplistIndex(z, o)
           a == Size(Pre(ns, c))
           b == Size(Pre(ns, c + 1))
           l == Len(Held(q))
           later == {j \in DOMAIN ns : /\ IF d = 1 THEN j > c ELSE j < c
                                       /\ ns[j].zl # <<>>}
<1>0. /\ r \in Iters /\ r.ql = q /\ r.direction = d
      /\ r.current # 0 => InHand(r) # 0
  BY NextKept
<1>1. /\ q \in Exact /\ c \in Nat /\ o \in Int /\ d \in {1, -1} /\ zi \in BOOLEAN
      /\ it = [ql |-> q, current |-> c, offset |-> o, zi |-> zi, direction |-> d]
      /\ c # 0 => /\ c \in DOMAIN ns /\ (d = 1 => o >= 0) /\ (d = -1 => o < 0)
                  /\ zi => InHand(it) # 0
  BY IterIs
<1>2. CASE c = 0
  <2>1. r = it
    BY <1>2 DEF quicklistNext
  <2> QED
    BY <1>2, <2>1 DEF Awaits
<1>3. CASE c # 0
  <2>1. /\ ns \in Seq(Full) /\ DOMAIN ns = 1 .. Len(ns) /\ c \in 1 .. Len(ns)
        /\ z \in Seq(Value) /\ ns[c].count = n /\ n \in Nat \ {0} /\ Len(ns) \in Nat
        /\ Len(Flat(ns)) = Size(ns)
    BY <1>1, <1>3, ExactIs, NodeOf DEF Size
  <2>2. b = a + n /\ a \in Nat
    <3> HIDE DEF ns
    <3>1. b = a + ns[c].count /\ a \in Nat
      BY <2>1, SizeStep
    <3> QED
      BY <2>1, <3>1
  <2>3. /\ u = (IF d = 1 THEN a ELSE b) + o + 1 + (IF zi THEN d ELSE 0)
        /\ (d = 1 => o <= n) /\ (d = -1 => -o <= n + 1)
    BY <1>3 DEF Awaits, Upcoming, Spot, Bounded
  <2>4. /\ here \in 0 .. n
        /\ 0 <= o /\ o < n => here = o + 1
        /\ o >= n => here = 0
        /\ o < 0 /\ -o <= n => here = n + o + 1
    <3> HIDE DEF z
    <3> QED
      BY <1>1, <2>1, ZiplistIndex
  <2>5. zi => here # 0
    BY <1>1, <1>3 DEF InHand
  <2>6. Reached(it) = IF ~zi THEN here ELSE IF here + d \in DOMAIN z THEN here + d ELSE 0
    BY DEF Reached
  <2>7. DOMAIN z = 1 .. n
    BY <2>1
  <2>8. -o = n + 1 => here = 0
    <3>1. here = IF (IF o < 0 THEN n + o + 1 ELSE o + 1) \in DOMAIN z
                             THEN (IF o < 0 THEN n + o + 1 ELSE o + 1) ELSE 0
      BY DEF ziplistIndex
    <3> HIDE DEF here, z, n
    <3> QED
      BY <1>1, <2>1, <2>7, <3>1
  <2>9. l = Size(ns) /\ l \in Nat
    BY <1>1, <2>1, HeldType DEF Held
  <2>10. SUFFICES /\ u \in 1 .. l => r.current # 0 /\ r.zi /\ Spot(r) = u
                  /\ u \notin 1 .. l => r.current = 0
    <3>1. ASSUME u \in 1 .. l PROVE Grasps(r, u)
      <4>1. r.current # 0 /\ r.zi /\ Spot(r) = u /\ InHand(r) # 0 /\ r \in Iters
        BY <1>0, <2>10, <3>1
      <4>2. /\ InHand(r) \in 1 .. Len(r.ql.nodes[r.current].zl)
            /\ Spot(r) \in 1 .. Len(Held(r.ql))
            /\ Spot(r) = Size(Pre(r.ql.nodes, r.current)) + InHand(r)
            /\ ElementOf(r) = Held(r.ql)[Spot(r)]
            /\ Bounded(r)
        BY <4>1, InHandAt
      <4>3. Upcoming(r) = u + r.direction
        BY <4>1 DEF Upcoming
      <4>4. Awaits(r, u + r.direction)
        BY <4>1, <4>2, <4>3 DEF Awaits
      <4> QED
        BY <4>1, <4>2, <4>4 DEF Grasps
    <3>2. ASSUME u \notin 1 .. l PROVE r.current = 0 /\ Awaits(r, u)
      BY <1>0, <2>10, <3>2 DEF Awaits
    <3> QED
      BY <1>0, <3>1, <3>2
  <2>11. CASE Reached(it) # 0
    <3> DEFINE o2 == IF zi THEN o + d ELSE o
               t == TRUE
    <3>1. r = [it EXCEPT !.zi = TRUE, !.offset = IF zi THEN @ + d ELSE @]
      BY <1>3, <2>11 DEF quicklistNext
    <3>2. r = [ql |-> q, current |-> c, offset |-> o2, zi |-> t, direction |-> d]
      <4> HIDE DEF q, c, o, zi, d
      <4> QED
        BY <1>1, <3>1
    <3>3. r.current = c /\ r.zi /\ r.offset = o2
      BY <3>2
    <3>4. Spot(r) = (IF d = 1 THEN a ELSE b) + o2 + 1
      BY <1>0, <3>3 DEF Spot
    <3>5. Spot(r) \in 1 .. l
      BY <1>0, <1>3, <3>3, InHandAt
    <3> HIDE DEF a, b, d, zi, o, o2, c, l
    <3>6. Spot(r) = u
      <4>1. a \in Nat /\ b \in Nat
        BY <2>1, <2>2, SMTT(60)
      <4>2. CASE zi
        BY <1>1, <2>3, <3>4, <4>1, <4>2 DEF o2
      <4>3. CASE ~zi
        BY <1>1, <2>3, <3>4, <4>1, <4>3 DEF o2
      <4> QED
        BY <4>2, <4>3
    <3> QED
      BY <1>3, <3>3, <3>5, <3>6
  <2>12. CASE Reached(it) = 0
    <3>1. /\ d = 1 => u = b + 1
          /\ d = -1 => u = a
      <4>1. /\ ~zi => here = 0
            /\ zi => here + d \notin 1 .. n
        <5> HIDE DEF here, z, n
        <5>1. ASSUME zi, here + d \in 1 .. n PROVE FALSE
          <6>1. here + d = 0
            BY <2>6, <2>7, <2>12, <5>1
          <6> QED
            BY <5>1, <6>1
        <5> QED
          BY <2>6, <2>12, <5>1
      <4> HIDE DEF a, b, here, d, zi, o, c, n
      <4>2. CASE d = 1
        <5>1. (~zi /\ o = n) \/ (zi /\ o = n - 1)
          <6>1. CASE zi
            <7>1. here # 0 /\ here = n
              BY <1>1, <2>1, <2>4, <2>5, <4>1, <4>2, <6>1
            <7>2. o < n
              BY <1>1, <1>3, <2>1, <2>4, <4>2, <7>1
            <7> QED
              BY <1>1, <1>3, <2>1, <2>4, <4>2, <6>1, <7>1, <7>2
          <6>2. CASE ~zi
            <7>1. here = 0 /\ 0 <= o /\ o <= n
              BY <1>1, <1>3, <2>3, <4>1, <4>2, <6>2
            <7>2. ~(o < n)
              BY <1>1, <2>4, <7>1
            <7> QED
              BY <1>1, <2>1, <6>2, <7>1, <7>2
          <6> QED
            BY <6>1, <6>2
        <5> QED
          BY <1>1, <2>1, <2>2, <2>3, <4>2, <5>1
      <4>3. CASE d = -1
        <5>1. (~zi /\ -o = n + 1) \/ (zi /\ -o = n)
          <6>1. CASE zi
            <7>1. here # 0 /\ here = 1
              BY <1>1, <2>1, <2>4, <2>5, <4>1, <4>3, <6>1
            <7>2. -o <= n
              BY <1>1, <1>3, <2>1, <2>3, <2>8, <4>3, <7>1
            <7> QED
              BY <1>1, <1>3, <2>1, <2>4, <4>3, <6>1, <7>1, <7>2
          <6>2. CASE ~zi
            <7>1. here = 0 /\ o < 0 /\ -o <= n + 1
              BY <1>1, <1>3, <2>3, <4>1, <4>3, <6>2
            <7>2. ~(-o <= n)
              <8>1. SUFFICES ASSUME -o <= n PROVE FALSE
                OBVIOUS
              <8>2. n + o + 1 = 0
                BY <2>4, <7>1, <8>1
              <8> QED
                BY <1>1, <2>1, <8>1, <8>2
            <7> QED
              BY <1>1, <2>1, <6>2, <7>1, <7>2
          <6> QED
            BY <6>1, <6>2
        <5>2. CASE zi
          BY <1>1, <2>1, <2>2, <2>3, <4>3, <5>1, <5>2
        <5>3. CASE ~zi
          BY <1>1, <2>1, <2>2, <2>3, <4>3, <5>1, <5>3
        <5> QED
          BY <5>2, <5>3
      <4> QED
        BY <1>1, <4>2, <4>3
    <3>2. later = {j \in 1 .. Len(ns) : IF d = 1 THEN j > c ELSE j < c}
      <4>1. \A j \in DOMAIN ns : ns[j].zl # <<>>
        BY <1>1, NodeOf
      <4> QED
        BY <2>1, <4>1
    <3>3. /\ Size(Pre(ns, 1)) = 0 /\ Pre(ns, Len(ns) + 1) = ns
      BY <2>1, SizeEnds
    <3>4. CASE later = {}
      <4>1. r = [it EXCEPT !.current = 0]
        BY <1>3, <2>12, <3>4 DEF quicklistNext
      <4>2. r.current = 0
        <5> HIDE DEF q, c, o, zi, d
        <5> QED
          BY <1>1, <4>1
      <4>3. d = 1 => c = Len(ns)
        <5>1. ASSUME d = 1, c # Len(ns) PROVE FALSE
          <6>1. c + 1 \in 1 .. Len(ns) /\ c + 1 > c
            BY <2>1, <5>1
          <6>2. c + 1 \in later
            BY <3>2, <5>1, <6>1
          <6> QED
            BY <3>4, <6>2
        <5> QED
          BY <5>1
      <4>4. d = -1 => c = 1
        <5>1. ASSUME d = -1, c # 1 PROVE FALSE
          <6>1. c - 1 \in 1 .. Len(ns) /\ c - 1 < c
            BY <2>1, <5>1
          <6>2. c - 1 \in later
            BY <3>2, <5>1, <6>1
          <6> QED
            BY <3>4, <6>2
        <5> QED
          BY <5>1
      <4>5. u = l + 1 \/ u = 0
        <5>1. CASE d = 1
          <6>1. b = Size(ns)
            BY <3>3, <4>3, <5>1
          <6> QED
            BY <2>9, <3>1, <5>1, <6>1
        <5>2. CASE d = -1
          <6>1. a = 0
            BY <3>3, <4>4, <5>2
          <6> QED
            BY <3>1, <5>2, <6>1
        <5> QED
          BY <1>1, <5>1, <5>2
      <4>6. u \notin 1 .. l
        BY <2>9, <4>5
      <4> QED
        BY <4>2, <4>6
    <3>5. CASE later # {}
      <4> DEFINE j == IF d = 1 THEN Min(later) ELSE Max(later)
                 o2 == IF d = 1 THEN 0 ELSE -1
                 t == TRUE
      <4>1. r = [it EXCEPT !.current = IF d = 1 THEN Min(later) ELSE Max(later),
                           !.offset  = IF d = 1 THEN 0 ELSE -1,
                           !.zi      = TRUE]
        BY <1>3, <2>12, <3>5 DEF quicklistNext
      <4>2. r = [ql |-> q, current |-> j, offset |-> o2, zi |-> t, direction |-> d]
        <5>1. r = [it EXCEPT !.current = j, !.offset = o2, !.zi = t]
          BY <4>1
        <5> HIDE DEF q, c, o, zi, d, j, o2, t
        <5> QED
          BY <1>1, <5>1
      <4>3. r.current = j /\ r.zi /\ r.offset = o2
        BY <4>2
      <4>4. later \in SUBSET (1 .. Len(ns)) /\ later \in SUBSET Nat
        BY <3>2
      <4> HIDE DEF later
      <4>5. /\ Min(later) \in later /\ Max(later) \in later
            /\ \A k \in later : Min(later) <= k /\ k <= Max(later)
        BY <2>1, <3>5, <4>4, MinIs, MaxIs
      <4>6. j \in 1 .. Len(ns) /\ (d = 1 => j = c + 1) /\ (d = -1 => j = c - 1)
        <5>1. j \in 1 .. Len(ns) /\ j \in later
          BY <4>4, <4>5
        <5>2. CASE d = 1
          <6>1. Min(later) > c /\ Min(later) \in 1 .. Len(ns)
            BY <3>2, <4>5, <5>2
          <6>2. c + 1 \in later
            BY <2>1, <3>2, <5>2, <6>1
          <6>3. Min(later) <= c + 1
            BY <4>5, <6>2
          <6>4. Min(later) = c + 1
            BY <2>1, <6>1, <6>3
          <6> QED
            BY <5>1, <5>2, <6>4
        <5>3. CASE d = -1
          <6>0. ~(d = 1)
            BY <5>3
          <6>1. Max(later) < c /\ Max(later) \in 1 .. Len(ns)
            BY <3>2, <4>5, <6>0
          <6>2. c - 1 \in later
            BY <2>1, <3>2, <5>3, <6>1
          <6>3. c - 1 <= Max(later)
            BY <4>5, <6>2
          <6>4. Max(later) = c - 1
            BY <2>1, <6>1, <6>3
          <6> QED
            BY <5>1, <5>3, <6>4
        <5> QED
          BY <1>1, <5>1, <5>2, <5>3
      <4> HIDE DEF j
      <4>7. Spot(r) = Size(Pre(ns, IF d = 1 THEN j ELSE j + 1)) + o2 + 1
        BY <1>0, <4>3 DEF Spot
      <4>8. Spot(r) = u
        <5>1. CASE d = 1
          <6>1. Spot(r) = b + 0 + 1
            BY <4>6, <4>7, <5>1
          <6> QED
            BY <2>1, <2>2, <3>1, <5>1, <6>1
        <5>2. CASE d = -1
          <6>1. j + 1 = c
            BY <2>1, <4>6, <5>2
          <6>2. Spot(r) = a + (-1) + 1
            BY <4>7, <5>2, <6>1
          <6> QED
            BY <2>2, <3>1, <5>2, <6>2
        <5> QED
          BY <1>1, <5>1, <5>2
      <4>9. r.current # 0
        BY <4>3, <4>6
      <4>10. Spot(r) \in 1 .. l
        BY <1>0, <4>9, InHandAt
      <4> QED
        BY <4>3, <4>8, <4>9, <4>10
    <3> QED
      BY <3>4, <3>5
  <2> QED
    BY <2>11, <2>12
<1> QED
  BY <1>2, <1>3

LEMMA StartAwaits ==
  ASSUME NEW q \in Exact, NEW d \in {1, -1}, NEW idx \in Int,
         d = 1 => idx >= 0, d = -1 => idx < 0,
         NEW it, it = quicklistGetIteratorAtIdx(q, d, idx)
  PROVE  /\ it \in Iters /\ it.ql = q /\ it.direction = d
         /\ Awaits(it, PosOf(idx, Len(Held(q))))
<1> DEFINE i == quicklistIndex(q, idx)[1]
           o == quicklistIndex(q, idx)[2]
           n == Len(Held(q))
           z == q.nodes[i].zl
<1>1. /\ it \in Iters /\ it.ql = q /\ it.direction = d /\ ~it.zi
      /\ it.current = i /\ it.offset = o
      /\ it.current # 0 => InHand(it) # 0
  BY IterAt
<1>2. /\ i = 0 => PosOf(idx, n) \notin 1 .. n
      /\ i # 0 => PosOf(idx, n) = Size(Pre(q.nodes, i)) + ziplistIndex(z, o)
  <2> HIDE DEF i, o, n
  <2> QED
    BY IndexHeld, SMTT(60) DEF i, o, n
<1> HIDE DEF i, o, n
<1>3. CASE i = 0
  BY <1>1, <1>2, <1>3 DEF Awaits, n
<1>4. CASE i # 0
  <2>1. InHand(it) = ziplistIndex(z, o)
    BY <1>1 DEF InHand
  <2>2. Spot(it) = Size(Pre(q.nodes, i)) + InHand(it) /\ Bounded(it) /\ Spot(it) \in Nat
    BY <1>1, <1>4, InHandAt
  <2>3. Upcoming(it) = Spot(it)
    BY <1>1, <2>2 DEF Upcoming
  <2> QED
    BY <1>1, <1>2, <1>4, <2>1, <2>2, <2>3 DEF Awaits, n
<1> QED
  BY <1>1, <1>3, <1>4 DEF n

\* LINSERT seeks: k rounds on, it has come to the pivot, or to position k
\* with no pivot on the way.
Sought(it, k, q, pivot) ==
  LET f == Held(q) IN
  /\ it \in Seekers(q)
  /\ \/ \E m \in 1 .. Len(f) : /\ Grasps(it, m) /\ f[m] = pivot
                               /\ \A j \in 1 .. m - 1 : f[j] # pivot
     \/ /\ Awaits(it, k + 1)
        /\ \A j \in 1 .. Len(f) : j <= k => f[j] # pivot
        /\ it.current # 0 /\ it.zi => ElementOf(it) # pivot

LEMMA SoughtOne ==
  ASSUME NEW q \in Exact, NEW pivot, NEW k \in Nat \ {0}, NEW it, Sought(it, k - 1, q, pivot),
         NEW r, r = IF it.current # 0 /\ it.zi /\ ElementOf(it) = pivot
                    THEN it ELSE quicklistNext(it)
  PROVE  Sought(r, k, q, pivot)
<1> DEFINE f == Held(q)
           n == Len(f)
<1>1. it \in Seekers(q) /\ it \in Iters /\ it.ql = q /\ it.direction = 1
  BY DEF Sought, Seekers
<1>2. f \in Seq(Value) /\ n \in Nat
  BY HeldType
<1>3. CASE it.current # 0 /\ it.zi /\ ElementOf(it) = pivot
  <2>1. r = it
    BY <1>3
  <2>2. \E m \in 1 .. Len(f) : /\ Grasps(it, m) /\ f[m] = pivot
                               /\ \A j \in 1 .. m - 1 : f[j] # pivot
    BY <1>3 DEF Sought
  <2> QED
    BY <1>1, <2>1, <2>2 DEF Sought
<1>4. CASE ~(it.current # 0 /\ it.zi /\ ElementOf(it) = pivot)
  <2>1. r = quicklistNext(it)
    BY <1>4
  <2>2. Awaits(it, k) /\ \A j \in 1 .. n : j <= k - 1 => f[j] # pivot
    <3>1. ASSUME NEW m \in 1 .. n, Grasps(it, m), f[m] = pivot PROVE FALSE
      BY <1>1, <1>4, <3>1 DEF Grasps
    <3>2. (k - 1) + 1 = k
      OBVIOUS
    <3> QED
      BY <3>1, <3>2 DEF Sought
  <2>3. k \in Int
    OBVIOUS
  <2>4. /\ r \in Iters /\ r.ql = q /\ r.direction = 1
        /\ k \in 1 .. n => Grasps(r, k)
        /\ k \notin 1 .. n => r.current = 0 /\ Awaits(r, k)
    BY <1>1, <2>1, <2>2, <2>3, NextReaches
  <2>5. r \in Seekers(q)
    <3>1. r.current # 0 => InHand(r) # 0
      BY <1>1, <2>1, NextKept
    <3> QED
      BY <2>4, <3>1 DEF Seekers
  <2> HIDE DEF f, n
  <2>6. CASE k \in 1 .. n
    <3>1. Grasps(r, k) /\ ElementOf(r) = f[k] /\ Awaits(r, k + 1)
      BY <2>4, <2>6 DEF Grasps, f
    <3>2. CASE f[k] = pivot
      <4>1. \A j \in 1 .. k - 1 : f[j] # pivot
        BY <1>2, <2>2, <2>6
      <4> QED
        BY <2>5, <2>6, <3>1, <3>2, <4>1 DEF Sought, f, n
    <3>3. CASE f[k] # pivot
      <4>1. \A j \in 1 .. n : j <= k => f[j] # pivot
        <5>1. \A j \in 1 .. n : j <= k => j <= k - 1 \/ j = k
          BY <1>2
        <5> QED
          BY <2>2, <3>3, <5>1
      <4> QED
        BY <2>5, <3>1, <3>3, <4>1 DEF Sought, f, n
    <3> QED
      BY <3>2, <3>3
  <2>7. CASE k \notin 1 .. n
    <3>1. r.current = 0
      BY <2>4, <2>7
    <3>2. \A j \in 1 .. n : j <= k => f[j] # pivot
      <4>1. \A j \in 1 .. n : j <= k - 1
        BY <1>2, <2>7
      <4> QED
        BY <2>2, <4>1
    <3>3. Awaits(r, k + 1)
      <4>1. k + 1 \notin 1 .. n
        BY <1>2, <2>7
      <4> QED
        BY <2>4, <3>1, <4>1 DEF Awaits, n, f
    <3> QED
      BY <2>5, <3>1, <3>2, <3>3 DEF Sought, f, n
  <2> QED
    BY <2>6, <2>7
<1> QED
  BY <1>3, <1>4

LEMMA SeekHeld ==
  ASSUME NEW q \in Exact, NEW pivot, NEW it,
         it = SeekAll(listTypeInitIterator(q, 1), <<"first">> \o Entries(q), pivot)
  PROVE  \/ it.current = 0 /\ \A j \in 1 .. Len(Held(q)) : Held(q)[j] # pivot
         \/ \E m \in 1 .. Len(Held(q)) :
              /\ it.ql = q /\ Grasps(it, m) /\ it.direction = 1 /\ Held(q)[m] = pivot
              /\ \A j \in 1 .. m - 1 : Held(q)[j] # pivot
<1> DEFINE s == <<"first">> \o Entries(q)
           Y == {"first"} \cup Value
           first == listTypeInitIterator(q, 1)
           f == Held(q)
           n == Len(f)
<1>1. s \in Seq(Y) /\ Len(s) = n + 1 /\ n \in Nat /\ f \in Seq(Value)
  <2> DEFINE e == Entries(q)
             w == <<"first">>
  <2>1. e \in Seq(Y) /\ Len(e) = n /\ n \in Nat /\ f \in Seq(Value)
    BY EntriesIs, HeldType, SeqMonotonic
  <2>2. w \in Seq(Y) /\ Len(w) = 1
    OBVIOUS
  <2> HIDE DEF e, w, Y, n
  <2>3. w \o e \in Seq(Y) /\ Len(w \o e) = Len(w) + Len(e)
    BY <2>1, <2>2, ConcatProperties
  <2> QED
    BY <2>1, <2>2, <2>3 DEF w, e
<1>2. /\ first \in Iters /\ first.ql = q /\ first.direction = 1 /\ ~first.zi
      /\ (first.current # 0 => InHand(first) # 0)
      /\ Awaits(first, 1)
  <2> DEFINE idx == 0
             d == 1
  <2>1. first = quicklistGetIteratorAtIdx(q, d, idx)
    BY DEF listTypeInitIterator
  <2>2. PosOf(idx, n) = 1
    BY DEF PosOf
  <2>3. d \in {1, -1} /\ idx \in Int /\ (d = 1 => idx >= 0) /\ (d = -1 => idx < 0) /\ d = 1
    OBVIOUS
  <2> HIDE DEF first, idx, d
  <2>4. Awaits(first, PosOf(idx, n))
    BY <2>1, <2>3, StartAwaits
  <2> QED
    BY <2>1, <2>2, <2>3, <2>4, IterAt
<1> HIDE DEF first, s, Y
<1>3. first \in Seekers(q)
  BY <1>2 DEF Seekers
<1>4. Sought(first, 0, q, pivot)
  <2>1. \A j \in 1 .. n : ~(j <= 0)
    BY <1>1
  <2>2. 0 + 1 = 1
    OBVIOUS
  <2> QED
    BY <1>2, <1>3, <2>1, <2>2 DEF Sought
<1>5. PICK p : /\ p[0] = first /\ SeekAll(first, s, pivot) = p[Len(s)]
               /\ \A k \in 1 .. Len(s) : p[k] = IF p[k - 1].current # 0 /\ p[k - 1].zi /\ ElementOf(p[k - 1]) = pivot
                                                THEN p[k - 1] ELSE quicklistNext(p[k - 1])
  BY <1>1, <1>3, SeekFold
<1> HIDE DEF n
<1> DEFINE m == n + 1
           Good == [k \in 0 .. m |-> {x \in Seekers(q) : Sought(x, k, q, pivot)}]
<1>6. \A k \in 0 .. m : p[k] \in Good[k]
  <2>1. p[0] \in Good[0]
    BY <1>1, <1>3, <1>4, <1>5
  <2>2. ASSUME NEW k \in 1 .. m, p[k - 1] \in Good[k - 1] PROVE p[k] \in Good[k]
    <3>1. k \in 0 .. m /\ k - 1 \in 0 .. m /\ k \in Nat \ {0}
      BY <1>1
    <3>2. Sought(p[k - 1], k - 1, q, pivot)
      BY <2>2, <3>1
    <3>3. p[k] = IF p[k - 1].current # 0 /\ p[k - 1].zi /\ ElementOf(p[k - 1]) = pivot
                 THEN p[k - 1] ELSE quicklistNext(p[k - 1])
      BY <1>1, <1>5
    <3>4. Sought(p[k], k, q, pivot)
      BY <3>1, <3>2, <3>3, SoughtOne
    <3>5. p[k] \in Seekers(q)
      BY <3>4 DEF Sought
    <3> QED
      BY <3>1, <3>4, <3>5
  <2>3. m \in Nat
    BY <1>1
  <2> HIDE DEF Good, m
  <2> QED
    BY <2>1, <2>2, <2>3, Through
<1>7. Sought(it, m, q, pivot)
  <2>1. m \in 0 .. m /\ m = Len(s)
    BY <1>1
  <2>2. it = p[m]
    BY <1>5, <2>1 DEF first, s
  <2> QED
    BY <1>6, <2>1, <2>2
<1>8. it.ql = q /\ it.direction = 1
  BY <1>7 DEF Sought, Seekers
<1>9. CASE \E j \in 1 .. Len(f) : /\ Grasps(it, j) /\ f[j] = pivot
                                  /\ \A i \in 1 .. j - 1 : f[i] # pivot
  BY <1>8, <1>9
<1>10. CASE /\ Awaits(it, m + 1)
            /\ \A j \in 1 .. Len(f) : j <= m => f[j] # pivot
            /\ it.current # 0 /\ it.zi => ElementOf(it) # pivot
  <2>1. \A j \in 1 .. n : j <= m
    BY <1>1
  <2>2. it.current = 0
    <3>1. SUFFICES ASSUME it.current # 0 PROVE FALSE
      OBVIOUS
    <3>2. it \in Iters /\ InHand(it) # 0
      BY <1>7, <3>1 DEF Sought, Seekers
    <3>3. Spot(it) \in 1 .. n
      BY <1>8, <3>1, <3>2, InHandAt DEF n
    <3>4. Upcoming(it) <= n + 1
      BY <1>1, <1>8, <3>3 DEF Upcoming
    <3>5. Upcoming(it) = n + 2
      BY <1>1, <1>10, <3>1 DEF Awaits
    <3> QED
      BY <1>1, <3>4, <3>5
  <2> QED
    BY <1>10, <2>1, <2>2 DEF n
<1> QED
  BY <1>7, <1>9, <1>10 DEF Sought

\* The loop of LRANGE.
Taken(acc) == LET it == quicklistNext(acc.it)
              IN  [it |-> it, out |-> Append(acc.out, ElementOf(it))]

TakeAll(first, s) ==
  FoldLeft(LAMBDA acc, k : LET it == quicklistNext(acc.it)
                           IN  [it |-> it, out |-> Append(acc.out, ElementOf(it))],
           first, s)

Seen(q)   == {ElementOf(it) : it \in Seekers(q)}
Takers(q) == [it : Seekers(q), out : Seq(Seen(q))]

LEMMA TakenKept ==
  ASSUME NEW q, NEW acc \in Takers(q)
  PROVE  Taken(acc) \in Takers(q)
<1> DEFINE it == quicklistNext(acc.it)
           out == Append(acc.out, ElementOf(it))
<1>1. acc.it \in Seekers(q) /\ acc.it \in Iters /\ acc.out \in Seq(Seen(q))
  BY DEF Takers, Seekers
<1>2. it \in Seekers(q)
  BY <1>1, NextKept DEF Seekers
<1>3. ElementOf(it) \in Seen(q)
  BY <1>2 DEF Seen
<1>4. out \in Seq(Seen(q))
  BY <1>1, <1>3
<1>5. Taken(acc) = [it |-> it, out |-> out]
  BY DEF Taken
<1> HIDE DEF it, out
<1> QED
  BY <1>2, <1>4, <1>5 DEF Takers

LEMMA TakeFold ==
  ASSUME NEW q, NEW first \in Takers(q), NEW Y, NEW s \in Seq(Y)
  PROVE  \E p : /\ p[0] = first /\ TakeAll(first, s) = p[Len(s)]
                /\ \A k \in 0 .. Len(s) : p[k] \in Takers(q)
                /\ \A k \in 1 .. Len(s) : p[k] = Taken(p[k - 1])
<1> DEFINE n == Len(s)
           Op(x, y) == Taken(x)
           Equation(g) == g = [T \in SUBSET (1 .. n) |->
                                 IF T = {} THEN first
                                 ELSE Op(g[T \ {Max(T)}], s[Max(T)])]
           h == CHOOSE g : Equation(g)
           st == [z \in Takers(q) \X Y |-> Op(z[1], z[2])]
           p == [k \in 0 .. n |-> h[1 .. k]]
           Good == [k \in 0 .. n |-> Takers(q)]
<1>1. n \in Nat /\ DOMAIN s = 1 .. n /\ \A i \in 1 .. n : s[i] \in Y
  OBVIOUS
<1>2. TakeAll(first, s) = h[1 .. n]
  <2>1. TakeAll(first, s)
          = LET g == CHOOSE g : g = [T \in SUBSET DOMAIN s |->
                                       IF T = {} THEN first
                                       ELSE Op(g[T \ {Max(T)}], s[Max(T)])]
            IN  g[DOMAIN s]
    BY DEF TakeAll, Taken, FoldLeft, MapThenFoldSet
  <2> QED
    BY <1>1, <2>1
<1>3. ASSUME NEW x \in Takers(q), NEW y PROVE Op(x, y) \in Takers(q)
  BY <1>3, TakenKept
<1> HIDE DEF Op, n
<1>4. st \in [Takers(q) \X Y -> Takers(q)]
  BY <1>3
<1>5. \E g : Equation(g)
  <2> HIDE DEF st
  <2>1. PICK g \in [SUBSET (1 .. n) -> Takers(q)] : Folds(g, st, first, s, n)
    <3>1. HasFold(Takers(q), st, first, s, n)
      BY <1>1, <1>4, FoldExists
    <3> QED
      BY <3>1 DEF HasFold
  <2>2. ASSUME NEW T \in SUBSET (1 .. n), T # {}
        PROVE  st[<<g[T \ {Max(T)}], s[Max(T)]>>] = Op(g[T \ {Max(T)}], s[Max(T)])
    <3>1. Max(T) \in 1 .. n
      BY <1>1, <2>2, MaxIs
    <3>2. g[T \ {Max(T)}] \in Takers(q) /\ s[Max(T)] \in Y
      BY <1>1, <3>1
    <3> QED
      BY <3>2 DEF st
  <2>3. Equation(g)
    BY <2>1, <2>2 DEF Folds
  <2> QED
    BY <2>3
<1>6. Equation(h)
  BY <1>5
<1> HIDE DEF h
<1>7. p[0] \in Good[0]
  BY <1>1, <1>6, Rounds
<1>8. \A k \in 1 .. n : p[k - 1] \in Good[k - 1] => p[k] \in Good[k]
  <2>1. SUFFICES ASSUME NEW k \in 1 .. n, p[k - 1] \in Good[k - 1] PROVE p[k] \in Good[k]
    OBVIOUS
  <2>2. /\ 1 .. k # {} /\ Max(1 .. k) = k /\ (1 .. k) \ {k} = 1 .. (k - 1)
        /\ k \in 0 .. n /\ k - 1 \in 0 .. n /\ 1 .. k \in SUBSET (1 .. n)
    <3>1. k \in Nat \ {0} /\ k \in 0 .. n /\ k - 1 \in 0 .. n /\ 1 .. k \in SUBSET (1 .. n)
      BY <1>1
    <3> QED
      BY <3>1, Rounds
  <2>3. h[1 .. (k - 1)] \in Takers(q)
    BY <2>1, <2>2
  <2>4. h[1 .. k] = Op(h[1 .. (k - 1)], s[k])
    BY <1>6, <2>2
  <2> QED
    BY <1>3, <2>2, <2>3, <2>4
<1>11. \A k \in 1 .. n : p[k] = Op(p[k - 1], s[k])
  <2>1. SUFFICES ASSUME NEW k \in 1 .. n PROVE p[k] = Op(p[k - 1], s[k])
    OBVIOUS
  <2>2. /\ 1 .. k # {} /\ Max(1 .. k) = k /\ (1 .. k) \ {k} = 1 .. (k - 1)
        /\ k \in 0 .. n /\ k - 1 \in 0 .. n /\ 1 .. k \in SUBSET (1 .. n)
    <3>1. k \in Nat \ {0} /\ k \in 0 .. n /\ k - 1 \in 0 .. n /\ 1 .. k \in SUBSET (1 .. n)
      BY <1>1
    <3> QED
      BY <3>1, Rounds
  <2> QED
    BY <1>6, <2>2
<1>12. p[0] = first
  BY <1>1, <1>6, Rounds
<1>9. p[n] = h[1 .. n] /\ Good[n] = Takers(q) /\ n \in 0 .. n
  BY <1>1
<1> HIDE DEF p, Good
<1>10. \A k \in 0 .. n : p[k] \in Good[k]
  BY <1>1, <1>7, <1>8, Through
<1>13. \A k \in 0 .. n : Good[k] = Takers(q)
  BY DEF Good
<1>14. \A k \in 1 .. n : p[k] = Taken(p[k - 1])
  BY <1>11 DEF Op
<1>15. \A k \in 0 .. n : p[k] \in Takers(q)
  BY <1>10, <1>13
<1> QED
  BY <1>2, <1>9, <1>12, <1>14, <1>15 DEF n

LEMMA RangeHeld ==
  ASSUME NEW q \in Exact, NEW start \in Int, NEW end \in Int
  PROVE  LET n == q.count
             a == First(start, n)
             b == Final(end, n)
         IN  TakeAll([it |-> quicklistGetIteratorAtIdx(q, 1, a), out |-> <<>>],
                     [k \in 1 .. b - a + 1 |-> k]).out
               = Picked(Held(q), Ranged(Len(Held(q)), start, end))
<1> DEFINE n == q.count
           a == First(start, n)
           b == Final(end, n)
           f == Held(q)
           i0 == quicklistGetIteratorAtIdx(q, 1, a)
           w == <<>>
           first == [it |-> i0, out |-> w]
           s == [k \in 1 .. b - a + 1 |-> k]
           m == IF b - a + 1 >= 0 THEN b - a + 1 ELSE 0
           \* k entries on.
           Read(x, k) == /\ x \in Takers(q) /\ Awaits(x.it, a + k + 1)
                         /\ Len(x.out) = k /\ \A j \in 1 .. k : x.out[j] = f[a + j]
<1>1. Len(f) = n /\ n \in Nat /\ f \in Seq(Value)
  BY HeldType
<1>2. /\ a \in Nat /\ b \in Int /\ b <= n - 1
      /\ Ranged(n, start, end) = Inside(n, a, b + 1)
  <2> HIDE DEF n
  <2> QED
    BY <1>1, RangedIs
<1> HIDE DEF n, a, b, f
<1>3. /\ m \in Nat /\ s \in Seq(Nat) /\ Len(s) = m /\ (m # 0 => a + m = b + 1)
      /\ 1 .. b - a + 1 = 1 .. m
  <2>1. m \in Nat /\ (m # 0 => a + m = b + 1) /\ 1 .. b - a + 1 = 1 .. m
    BY <1>2
  <2> HIDE DEF m
  <2>2. s = [k \in 1 .. m |-> k]
    BY <2>1
  <2> HIDE DEF s
  <2>3. s \in Seq(Nat) /\ Len(s) = m
    BY <2>1, <2>2
  <2> QED
    BY <2>1, <2>3
<1>4. i0 \in Seekers(q) /\ Awaits(i0, a + 1)
  <2> DEFINE d == 1
  <2>1. d \in {1, -1} /\ (d = 1 => a >= 0) /\ (d = -1 => a < 0) /\ a \in Int /\ d = 1
    BY <1>2
  <2>2. PosOf(a, Len(Held(q))) = a + 1
    BY <1>2 DEF PosOf
  <2>3. i0 = quicklistGetIteratorAtIdx(q, d, a)
    OBVIOUS
  <2> HIDE DEF i0, d
  <2>4. i0 \in Iters /\ i0.ql = q /\ i0.direction = d /\ (i0.current # 0 => InHand(i0) # 0)
    BY <2>1, <2>3, IterAt
  <2>5. Awaits(i0, PosOf(a, Len(Held(q))))
    BY <2>1, <2>3, StartAwaits
  <2> QED
    BY <2>1, <2>2, <2>4, <2>5 DEF Seekers
<1> HIDE DEF i0, s, m
<1>5. first \in Takers(q) /\ first.it = i0 /\ first.out = w /\ Len(w) = 0
  <2>1. w \in Seq(Seen(q)) /\ Len(w) = 0
    BY EmptySeq
  <2> HIDE DEF w
  <2> QED
    BY <1>4, <2>1 DEF Takers
<1> HIDE DEF first, w
<1>6. Read(first, 0)
  <2>1. a + 0 + 1 = a + 1
    BY <1>2
  <2> QED
    BY <1>4, <1>5, <2>1
<1>7. PICK p : /\ p[0] = first /\ TakeAll(first, s) = p[m]
               /\ \A k \in 1 .. m : p[k] = Taken(p[k - 1])
  BY <1>3, <1>5, TakeFold
<1>8. ASSUME NEW k \in 1 .. m, Read(p[k - 1], k - 1) PROVE Read(p[k], k)
  <2> DEFINE x == p[k - 1]
             y == p[k]
             it == quicklistNext(x.it)
             u == a + k
  <2>1. /\ x \in Takers(q) /\ Awaits(x.it, a + (k - 1) + 1)
        /\ Len(x.out) = k - 1 /\ \A j \in 1 .. k - 1 : x.out[j] = f[a + j]
    BY <1>8
  <2>2. y = Taken(x) /\ y \in Takers(q)
    <3>1. y = Taken(x)
      BY <1>7
    <3> HIDE DEF x, y
    <3> QED
      BY <2>1, <3>1, TakenKept
  <2>3. y = [it |-> it, out |-> Append(x.out, ElementOf(it))]
    BY <2>2 DEF Taken
  <2>4. u \in Int /\ u \in 1 .. n /\ a + (k - 1) + 1 = u /\ k \in Nat \ {0}
    BY <1>1, <1>2, <1>3
  <2> HIDE DEF x, y, u
  <2>5. x.it \in Iters /\ x.it.ql = q /\ x.it.direction = 1
    BY <2>1 DEF Takers, Seekers
  <2>6. Grasps(it, u) /\ it.ql = q /\ it.direction = 1
    <3>1. Awaits(x.it, u) /\ u \in 1 .. Len(Held(x.it.ql))
      BY <1>1, <2>1, <2>4, <2>5 DEF f
    <3> QED
      BY <2>4, <2>5, <3>1, NextReaches
  <2> HIDE DEF it
  <2>7. ElementOf(it) = f[u] /\ Awaits(it, u + 1)
    BY <2>6 DEF Grasps, f
  <2>8. u + 1 = a + k + 1
    BY <1>2, <2>4 DEF u
  <2> DEFINE e == ElementOf(it)
             g == x.out
             h == y.out
  <2>9. y.it = it /\ h = Append(g, e) /\ e \in Seen(q) /\ g \in Seq(Seen(q))
    <3>1. y.it \in Seekers(q)
      BY <2>2 DEF Takers
    <3>2. y.it = it /\ h = Append(g, e)
      BY <2>3
    <3>3. g \in Seq(Seen(q))
      BY <2>1 DEF Takers
    <3> QED
      BY <3>1, <3>2, <3>3 DEF Seen
  <2> HIDE DEF e, g, h
  <2>10. Len(h) = k /\ \A j \in 1 .. k : h[j] = f[a + j]
    <3>1. Len(h) = Len(g) + 1 /\ h[Len(g) + 1] = e /\ \A j \in 1 .. Len(g) : h[j] = g[j]
      BY <2>9
    <3>2. Len(g) = k - 1 /\ \A j \in 1 .. k - 1 : g[j] = f[a + j]
      BY <2>1 DEF g
    <3>3. h[k] = f[a + k]
      BY <2>4, <2>7, <3>1, <3>2 DEF e, u
    <3>4. \A j \in 1 .. k : j = k \/ j \in 1 .. k - 1
      BY <2>4
    <3> QED
      BY <2>4, <3>1, <3>2, <3>3, <3>4
  <2> QED
    BY <2>2, <2>7, <2>8, <2>9, <2>10 DEF h, y
<1> DEFINE Good == [k \in 0 .. m |-> {x \in Takers(q) : Read(x, k)}]
<1>9. \A k \in 0 .. m : p[k] \in Good[k]
  <2>1. p[0] \in Good[0]
    BY <1>3, <1>5, <1>6, <1>7
  <2>2. ASSUME NEW k \in 1 .. m, p[k - 1] \in Good[k - 1] PROVE p[k] \in Good[k]
    <3>1. k \in 0 .. m /\ k - 1 \in 0 .. m
      BY <1>3
    <3>2. Read(p[k - 1], k - 1)
      BY <2>2, <3>1
    <3>3. Read(p[k], k)
      <4> HIDE DEF Read
      <4> QED
        BY <1>8, <3>2
    <3> QED
      BY <3>1, <3>3
  <2> HIDE DEF Good
  <2> QED
    BY <1>3, <2>1, <2>2, Through
<1> DEFINE r == p[m]
           g == r.out
<1>10. /\ r \in Takers(q) /\ Len(g) = m /\ \A j \in 1 .. m : g[j] = f[a + j]
  <2>1. m \in 0 .. m
    BY <1>3
  <2> QED
    BY <1>9, <2>1
<1>11. g \in Seq(Seen(q)) /\ TakeAll(first, s) = r
  BY <1>7, <1>10 DEF Takers
<1> HIDE DEF Good, Read, r, g
<1>12. m # 0 => a + m <= n
  BY <1>1, <1>2, <1>3
<1>13. g \in Seq(Value)
  <2>1. \A j \in 1 .. m : g[j] \in Value
    <3>1. SUFFICES ASSUME NEW j \in 1 .. m PROVE g[j] \in Value
      OBVIOUS
    <3>2. a + j \in 1 .. Len(f)
      BY <1>1, <1>2, <1>3, <1>12
    <3>3. f[a + j] \in Value
      BY <1>1, <3>2
    <3> QED
      BY <1>10, <3>3
  <2>2. g = [j \in 1 .. m |-> g[j]]
    BY <1>10, <1>11
  <2> QED
    BY <1>3, <2>1, <2>2
<1>14. Picked(f, Ranged(n, start, end)) = g
  <2>1. CASE m # 0
    <3>1. Ranged(n, start, end) = Inside(Len(f), a, a + m) /\ a + m <= Len(f)
      BY <1>1, <1>2, <1>3, <1>12, <2>1
    <3>2. Len(g) = m
      BY <1>10
    <3> QED
      BY <1>1, <1>2, <1>3, <1>10, <1>13, <3>1, <3>2, SpanPicked, SMTT(60)
  <2>2. CASE m = 0
    <3> DEFINE z == 0
    <3>1. Ranged(n, start, end) = Inside(Len(f), z, z + z)
      <4>1. ASSUME NEW i \in 1 .. n PROVE ~(a < i /\ i <= b + 1) /\ ~(0 < i /\ i <= 0 + 0)
        <5>1. ~(b - a + 1 >= 1)
          BY <1>2, <2>2 DEF m
        <5> QED
          BY <1>1, <1>2, <5>1
      <4> QED
        BY <1>1, <1>2, <4>1 DEF Inside
    <3>2. z \in Nat /\ z + z <= Len(f) /\ Len(g) = z /\ \A j \in 1 .. z : g[j] = f[z + j]
      BY <1>1, <1>10, <2>2
    <3> HIDE DEF z
    <3> QED
      BY <1>1, <1>13, <3>1, <3>2, SpanPicked, SMTT(60)
  <2> QED
    BY <2>1, <2>2
<1> QED
  BY <1>1, <1>11, <1>14 DEF n, a, b, f, i0, w, first, s, g

-----------------------------------------------------------------------------
(* LREM.                                                                   *)

LEMMA PreLeft ==
  ASSUME NEW ns \in Seq(Full), NEW i \in 1 .. Len(ns), NEW zl \in Seq(Value),
         NEW t, t = Left(ns, i, zl)
  PROVE  /\ t \in Seq(Full) /\ Size(Pre(t, i)) = Size(Pre(ns, i))
         /\ Size(t) = Size(ns) - ns[i].count + Len(zl)
         /\ Len(t) = IF zl = <<>> THEN Len(ns) - 1 ELSE Len(ns)
         /\ zl # <<>> => /\ t[i].zl = zl
                         /\ Size(Pre(t, i + 1)) = Size(Pre(ns, i)) + Len(zl)
<1> DEFINE c == ns[i].count
           n == Len(zl)
           a == Size(Pre(ns, i))
           ra == Size(Rest(ns, i + 1))
<1>1. /\ t \in Seq(Full) /\ Size(t) = Size(ns) - c + n
      /\ Len(t) = IF zl = <<>> THEN Len(ns) - 1 ELSE Len(ns)
  BY LeftType
<1>2. Rest(t, IF zl = <<>> THEN i ELSE i + 1) = Rest(ns, i + 1)
  BY RestLeft
<1>3. /\ Size(ns) = a + (c + ra) /\ a \in Nat /\ ra \in Nat /\ c \in Nat \ {0} /\ n \in Nat
      /\ Len(ns) \in Nat
  <2>1. i \in 1 .. Len(ns) + 1
    OBVIOUS
  <2>2. Size(ns) = a + Size(Rest(ns, i))
    BY <2>1, SizeSplit
  <2>3. Size(Rest(ns, i)) = c + ra /\ a \in Nat /\ ra \in Nat /\ c \in Nat \ {0}
    BY SizeStep
  <2> QED
    BY <2>2, <2>3
<1> HIDE DEF c, n, a, ra
<1>4. CASE zl = <<>>
  <2>1. n = 0
    BY <1>4 DEF n
  <2>2. i \in 1 .. Len(t) + 1
    BY <1>1, <1>3, <1>4
  <2>3. Size(t) = Size(Pre(t, i)) + Size(Rest(t, i)) /\ Size(Pre(t, i)) \in Nat
    BY <1>1, <2>2, SizeSplit
  <2>4. Size(Rest(t, i)) = ra
    BY <1>2, <1>4 DEF ra
  <2>5. Size(Pre(t, i)) = a
    BY <1>1, <1>3, <2>1, <2>3, <2>4
  <2> QED
    BY <1>1, <1>4, <2>5 DEF a, c, n
<1>5. CASE zl # <<>>
  <2>1. i \in 1 .. Len(t) /\ i + 1 \in 1 .. Len(t) + 1
    BY <1>1, <1>3, <1>5
  <2>2. Size(t) = Size(Pre(t, i + 1)) + Size(Rest(t, i + 1)) /\ Size(Pre(t, i + 1)) \in Nat
    BY <1>1, <2>1, SizeSplit
  <2>3. Size(Rest(t, i + 1)) = ra
    BY <1>2, <1>5 DEF ra
  <2>4. Size(Pre(t, i + 1)) = a + n
    BY <1>1, <1>3, <2>2, <2>3
  <2>5. t[i] = Node(zl)
    BY <1>5 DEF Left
  <2>6. t[i].zl = zl /\ t[i].count = n
    BY <2>5 DEF Node, n
  <2>7. Size(Pre(t, i + 1)) = Size(Pre(t, i)) + t[i].count /\ Size(Pre(t, i)) \in Nat
    BY <1>1, <2>1, SizeStep
  <2>8. Size(Pre(t, i)) = a
    BY <1>3, <2>4, <2>6, <2>7
  <2> QED
    BY <1>1, <1>5, <2>4, <2>6, <2>8 DEF a, c, n
<1> QED
  BY <1>4, <1>5

\* What quicklistDelEntry leaves, and where it goes on.
LEMMA DelEntryHeld ==
  ASSUME NEW it \in Iters, NEW u, Grasps(it, u), NEW r, r = quicklistDelEntry(it)
  PROVE  /\ r \in Iters /\ r.direction = it.direction
         /\ Held(r.ql) = RemoveAt(Held(it.ql), u)
         /\ Awaits(r, IF it.direction = 1 THEN u ELSE u - 1)
<1> DEFINE q == it.ql
           ns == q.nodes
           c == it.current
           o == it.offset
           d == it.direction
           p == InHand(it)
           z == ns[c].zl
           n == Len(z)
           zl == RemoveAt(z, p)
           ql == quicklistDelIndex(q, c, p)
           t == ql.nodes
           a == Size(Pre(ns, c))
           b == Size(Pre(ns, c + 1))
           gone == Len(t) < Len(ns)
           step == IF d = 1 THEN c ELSE c - 1
           w == IF d = 1 THEN u ELSE u - 1
<1>1. /\ q \in Exact /\ c \in Nat /\ o \in Int /\ d \in {1, -1} /\ c # 0 /\ c \in DOMAIN ns
      /\ it = [ql |-> q, current |-> c, offset |-> o, zi |-> it.zi, direction |-> d]
      /\ (d = 1 => o >= 0) /\ (d = -1 => o < 0)
  BY IterIs DEF Grasps
<1>2. p # 0 /\ p \in 1 .. n /\ Spot(it) = u /\ u = a + p /\ u \in 1 .. Len(Held(q))
  BY DEF Grasps
<1>3. r \in Iters
  BY <1>1, <1>2, DelKept
<1>4. /\ ns \in Seq(Full) /\ DOMAIN ns = 1 .. Len(ns) /\ c \in 1 .. Len(ns)
      /\ z \in Seq(Value) /\ ns[c].count = n /\ n \in Nat \ {0} /\ Len(ns) \in Nat
  BY <1>1, ExactIs, NodeOf
<1>5. zl \in Seq(Value) /\ Len(zl) = n - 1
  <2> HIDE DEF z, p
  <2> QED
    BY <1>2, <1>4, EntryRemoved
<1>6. b = a + n /\ a \in Nat
  <2> HIDE DEF ns
  <2>1. b = a + ns[c].count /\ a \in Nat
    BY <1>4, SizeStep
  <2> QED
    BY <1>4, <2>1
<1>7. ql \in Exact /\ t = Left(ns, c, zl) /\ Held(ql) = RemoveAt(Held(q), u)
  <2> HIDE DEF p, ql
  <2> QED
    BY <1>1, <1>2, DelIndexHeld DEF ql
<1> HIDE DEF p
<1>8. u = (IF d = 1 THEN a ELSE b) + o + 1
  BY <1>2 DEF Spot
<1> HIDE DEF zl, ql, q, ns
<1>9. /\ t \in Seq(Full) /\ Size(Pre(t, c)) = a /\ Size(t) = Size(ns) - n + Len(zl)
      /\ Len(t) = (IF zl = <<>> THEN Len(ns) - 1 ELSE Len(ns))
      /\ zl # <<>> => t[c].zl = zl /\ Size(Pre(t, c + 1)) = a + Len(zl)
  <2> DEFINE k == ns[c].count
  <2>0. k = n
    BY <1>4
  <2>1. /\ t \in Seq(Full) /\ Size(Pre(t, c)) = a /\ Size(t) = Size(ns) - k + Len(zl)
        /\ Len(t) = (IF zl = <<>> THEN Len(ns) - 1 ELSE Len(ns))
        /\ zl # <<>> => t[c].zl = zl /\ Size(Pre(t, c + 1)) = a + Len(zl)
    <3>1. c \in 1 .. Len(ns) /\ ns \in Seq(Full) /\ zl \in Seq(Value) /\ t = Left(ns, c, zl)
      BY <1>4, <1>5, <1>7
    <3> HIDE DEF t, c, k, a
    <3>2. /\ t \in Seq(Full) /\ Size(Pre(t, c)) = Size(Pre(ns, c))
          /\ Size(t) = Size(ns) - ns[c].count + Len(zl)
          /\ Len(t) = IF zl = <<>> THEN Len(ns) - 1 ELSE Len(ns)
          /\ zl # <<>> => /\ t[c].zl = zl
                          /\ Size(Pre(t, c + 1)) = Size(Pre(ns, c)) + Len(zl)
      BY <3>1, PreLeft
    <3> QED
      BY <3>2 DEF k, a
  <2> HIDE DEF k
  <2> QED
    BY <2>0, <2>1
<1>10. /\ zl = <<>> <=> n = 1
       /\ gone <=> n = 1
  <2>1. zl = <<>> <=> Len(zl) = 0
    BY <1>5, EmptySeq
  <2> QED
    BY <1>4, <1>5, <1>9, <2>1
<1>11. DOMAIN t = 1 .. Len(t) /\ Len(t) \in Nat
  BY <1>9
<1>12. Len(Held(ql)) = Size(t) /\ Size(t) \in Nat
  BY <1>7, HeldType, ExactIs
<1> HIDE DEF o, d, z, n, a, b, t, c
<1>13. CASE n # 1
  <2>1. r = [it EXCEPT !.ql = ql, !.zi = FALSE]
    BY <1>10, <1>13 DEF quicklistDelEntry, ql, q, c, p, t, ns
  <2>2. r.ql = ql /\ r.current = c /\ r.offset = o /\ r.direction = d /\ ~r.zi
    <3> DEFINE zi == it.zi
    <3>1. it = [ql |-> q, current |-> c, offset |-> o, zi |-> zi, direction |-> d]
      BY <1>1
    <3> HIDE DEF zi
    <3> QED
      BY <2>1, <3>1
  <2>3. /\ t[c].zl = zl /\ Size(Pre(t, c + 1)) = a + (n - 1) /\ Len(zl) = n - 1
    BY <1>5, <1>9, <1>10, <1>13
  <2>4. Spot(r) = (IF d = 1 THEN a ELSE a + (n - 1)) + o + 1
    BY <1>9, <2>2, <2>3 DEF Spot, t
  <2>5. Upcoming(r) = w
    <3>1. Upcoming(r) = Spot(r)
      BY <1>1, <1>4, <1>6, <2>2, <2>4 DEF Upcoming
    <3>2. CASE d = 1
      BY <1>8, <2>4, <3>1, <3>2
    <3>3. CASE d = -1
      BY <1>1, <1>4, <1>6, <1>8, <2>4, <3>1, <3>3
    <3> QED
      BY <1>1, <3>2, <3>3
  <2>6. Bounded(r)
    <3>1. (d = 1 => o <= n - 1) /\ (d = -1 => -o <= (n - 1) + 1)
      <4>1. CASE d = 1
        BY <1>1, <1>2, <1>4, <1>6, <1>8, <4>1
      <4>2. CASE d = -1
        BY <1>1, <1>2, <1>4, <1>6, <1>8, <4>2
      <4> QED
        BY <1>1, <4>1, <4>2
    <3> QED
      BY <2>2, <2>3, <3>1 DEF Bounded, t
  <2> QED
    BY <1>1, <1>3, <1>7, <2>2, <2>5, <2>6 DEF Awaits, q, d
<1>14. CASE n = 1
  <2> DEFINE c2 == IF step \in DOMAIN t THEN step ELSE 0
             o2 == IF d = 1 THEN 0 ELSE -1
             f == FALSE
  <2>1. r = [it EXCEPT !.ql = ql, !.zi = FALSE,
                       !.current = IF step \in DOMAIN t THEN step ELSE 0,
                       !.offset  = IF d = 1 THEN 0 ELSE -1]
    BY <1>10, <1>14 DEF quicklistDelEntry, ql, q, c, p, t, ns, d
  <2>2. r.ql = ql /\ r.current = c2 /\ r.offset = o2 /\ r.direction = d /\ ~r.zi
    <3> DEFINE zi == it.zi
    <3>1. it = [ql |-> q, current |-> c, offset |-> o, zi |-> zi, direction |-> d]
      BY <1>1
    <3>2. r = [it EXCEPT !.ql = ql, !.zi = f, !.current = c2, !.offset = o2]
      BY <2>1
    <3>3. ~f
      OBVIOUS
    <3> HIDE DEF zi, c2, o2, f
    <3> QED
      BY <3>1, <3>2, <3>3
  <2>3. p = 1 /\ u = a + 1 /\ Len(t) = Len(ns) - 1 /\ Len(zl) = 0
    BY <1>2, <1>4, <1>5, <1>6, <1>9, <1>10, <1>14
  <2>4. Size(t) = Size(ns) - 1
    <3>1. Size(ns) \in Nat
      BY <1>4, SizeType
    <3> QED
      BY <3>1, <1>4, <1>9, <1>14, <1>12, <2>3
  <2>5. CASE d = 1
    <3>1. c2 = (IF c \in 1 .. Len(t) THEN c ELSE 0) /\ o2 = 0 /\ w = u
      BY <1>11, <2>5
    <3>2. CASE c \in 1 .. Len(t)
      <4>1. Spot(r) = a + 0 + 1
        BY <1>9, <2>2, <2>5, <3>1, <3>2 DEF Spot, t
      <4>2. Upcoming(r) = w
        BY <1>6, <2>2, <2>3, <3>1, <4>1 DEF Upcoming
      <4>3. Bounded(r)
        <5>1. t[c].zl \in Seq(Value)
          BY <1>7, <1>11, <3>2, NodeOf DEF t
        <5>2. Len(t[c].zl) \in Nat
          BY <5>1
        <5> QED
          BY <2>2, <2>5, <3>1, <3>2, <5>2 DEF Bounded, t
      <4>4. r.current # 0
        BY <1>1, <2>2, <3>1, <3>2
      <4> QED
        BY <1>3, <1>7, <2>2, <4>2, <4>3, <4>4 DEF Awaits, q, d
    <3>3. CASE c \notin 1 .. Len(t)
      <4>1. r.current = 0
        BY <2>2, <3>1, <3>3
      <4>2. c = Len(ns)
        <5> DEFINE m == Len(ns)
        <5>1. c \in 1 .. m /\ c \notin 1 .. m - 1 /\ m \in Nat
          BY <1>4, <2>3, <3>3
        <5> HIDE DEF m
        <5>2. c = m
          BY <5>1
        <5> QED
          BY <5>2 DEF m
      <4>3. b = Size(ns)
        BY <1>4, <4>2, SizeEnds DEF b
      <4>4. w \notin 1 .. Size(t)
        BY <1>6, <1>12, <1>14, <2>3, <2>4, <3>1, <4>3
      <4> QED
        BY <1>3, <1>7, <1>12, <2>2, <4>1, <4>4 DEF Awaits, q, d
    <3> QED
      BY <3>2, <3>3
  <2>6. CASE d = -1
    <3>0. ~(d = 1)
      BY <2>6
    <3>1. c2 = (IF c - 1 \in 1 .. Len(t) THEN c - 1 ELSE 0) /\ o2 = -1 /\ w = u - 1
      BY <1>11, <3>0
    <3>2. CASE c # 1
      <4>1. c - 1 \in 1 .. Len(t) /\ (c - 1) + 1 = c
        BY <1>4, <2>3, <3>2
      <4>2. c2 = c - 1
        BY <3>1, <4>1
      <4>3. Spot(r) = a + (-1) + 1
        BY <1>9, <2>2, <3>0, <3>1, <4>1, <4>2 DEF Spot, t
      <4>4. Upcoming(r) = w
        BY <1>6, <2>2, <2>3, <3>1, <4>3 DEF Upcoming
      <4>5. Bounded(r)
        <5>1. t[c - 1].zl \in Seq(Value)
          BY <1>7, <1>11, <4>1, NodeOf DEF t
        <5>2. Len(t[c - 1].zl) \in Nat
          BY <5>1
        <5> QED
          BY <2>2, <2>6, <3>1, <4>2, <5>2 DEF Bounded, t
      <4>6. r.current # 0
        BY <2>2, <4>1, <4>2
      <4> QED
        BY <1>3, <1>7, <2>2, <4>4, <4>5, <4>6 DEF Awaits, q, d
    <3>3. CASE c = 1
      <4>1. r.current = 0
        BY <2>2, <3>1, <3>3
      <4>2. a = 0
        BY <1>4, <3>3, SizeEnds DEF a
      <4>3. w \notin 1 .. Size(t)
        BY <1>12, <2>3, <3>1, <4>2
      <4> QED
        BY <1>3, <1>7, <1>12, <2>2, <4>1, <4>3 DEF Awaits, q, d
    <3> QED
      BY <3>2, <3>3
  <2> QED
    BY <1>1, <2>5, <2>6
<1> QED
  BY <1>13, <1>14

\* The positions chosen.
Chosen(e) == {e[j] : j \in 1 .. Len(e)}

LEMMA ChosenIs ==
  ASSUME NEW f \in Seq(Value), NEW g \in Seq(Value), NEW e,
         Rising(e, Len(f)), IsChosen(g, f, e)
  PROVE  Picked(f, Chosen(e)) = g
BY PickedIs DEF Chosen

\* A choice of positions without its U-th.
LEMMA ChosenLess ==
  ASSUME NEW n \in Nat, NEW e, Rising(e, n), NEW U \in 1 .. Len(e)
  PROVE  /\ Rising(RemoveAt(e, U), n) /\ Len(RemoveAt(e, U)) = Len(e) - 1
         /\ \A j \in 1 .. Len(e) - 1 : RemoveAt(e, U)[j] = IF j < U THEN e[j] ELSE e[j + 1]
         /\ Chosen(RemoveAt(e, U)) = Chosen(e) \ {e[U]}
<1> DEFINE r == RemoveAt(e, U)
           m == Len(e)
<1>1. e \in Seq(1 .. n) /\ m \in Nat /\ U \in 1 .. m /\ \A i, j \in 1 .. m : i < j => e[i] < e[j]
  BY DEF Rising
<1>2. r \in Seq(1 .. n) /\ IsCut(r, e, U - 1, 1)
  BY <1>1, RemoveIsCut
<1> HIDE DEF r
<1>3. Len(r) = m - 1 /\ \A j \in 1 .. m - 1 : r[j] = IF j <= U - 1 THEN e[j] ELSE e[j + 1]
  BY <1>2 DEF IsCut
<1>4. \A j \in 1 .. m - 1 : r[j] = IF j < U THEN e[j] ELSE e[j + 1]
  BY <1>1, <1>3
<1>5. \A j \in 1 .. m : e[j] \in 1 .. n
  BY <1>1
<1>6. Rising(r, n)
  <2>1. ASSUME NEW i \in 1 .. m - 1, NEW j \in 1 .. m - 1, i < j PROVE r[i] < r[j]
    <3>1. r[i] = (IF i < U THEN e[i] ELSE e[i + 1]) /\ r[j] = IF j < U THEN e[j] ELSE e[j + 1]
      BY <1>4
    <3>2. i \in 1 .. m /\ i + 1 \in 1 .. m /\ j \in 1 .. m /\ j + 1 \in 1 .. m
      BY <1>1
    <3>3. e[i] < e[j] /\ e[i] < e[j + 1] /\ e[i + 1] < e[j + 1]
      BY <1>1, <2>1, <3>2
    <3>4. ~(i >= U /\ j < U)
      BY <1>1, <2>1
    <3> QED
      BY <1>1, <3>1, <3>3, <3>4
  <2> QED
    BY <1>2, <1>3, <2>1 DEF Rising
<1>7. {r[j] : j \in 1 .. m - 1} = {e[j] : j \in 1 .. m} \ {e[U]}
  <2>1. ASSUME NEW j \in 1 .. m - 1
        PROVE  \E i \in 1 .. m : r[j] = e[i] /\ e[i] # e[U]
    <3>1. CASE j < U
      <4>1. j \in 1 .. m /\ r[j] = e[j] /\ e[j] < e[U]
        BY <1>1, <1>4, <3>1
      <4> QED
        BY <1>1, <1>5, <4>1
    <3>2. CASE ~(j < U)
      <4>1. j + 1 \in 1 .. m /\ U < j + 1 /\ r[j] = e[j + 1]
        BY <1>1, <1>4, <3>2
      <4>2. e[U] < e[j + 1]
        BY <1>1, <4>1
      <4> QED
        BY <1>1, <1>5, <4>1, <4>2
    <3> QED
      BY <3>1, <3>2
  <2>2. ASSUME NEW j \in 1 .. m, e[j] # e[U]
        PROVE  \E i \in 1 .. m - 1 : r[i] = e[j]
    <3>1. CASE j < U
      <4>1. j \in 1 .. m - 1 /\ r[j] = e[j]
        BY <1>1, <1>4, <3>1
      <4> QED
        BY <4>1
    <3>2. CASE ~(j < U)
      <4>1. j # U
        BY <2>2
      <4>2. j - 1 \in 1 .. m - 1 /\ ~(j - 1 < U) /\ (j - 1) + 1 = j
        BY <1>1, <3>2, <4>1
      <4>3. r[j - 1] = e[j]
        BY <1>4, <4>2
      <4> QED
        BY <4>2, <4>3
    <3> QED
      BY <3>1, <3>2
  <2> QED
    BY <2>1, <2>2
<1> QED
  BY <1>3, <1>4, <1>6, <1>7 DEF r, Chosen

\* The positions of v in f up to i, from the head or from the tail.
Upto(f, v, d, i) ==
  {j \in 1 .. Len(f) : f[j] = v /\ IF d = 1 THEN j <= i ELSE j >= i}

\* What the next position X adds to them.
Adds(f, v, d, W, X) ==
  LET A == Upto(f, v, d, W)
      B == Upto(f, v, d, X)
  IN  /\ IsFiniteSet(A) /\ X \notin A
      /\ f[X] # v => B = A
      /\ f[X] = v => B = A \cup {X} /\ Cardinality(B) = Cardinality(A) + 1

LEMMA UptoNext ==
  ASSUME NEW f \in Seq(Value), NEW v, NEW d, d \in {1, -1}, NEW W \in Int,
         NEW X \in 1 .. Len(f), X = W + d
  PROVE  Adds(f, v, d, W, X)
<1> DEFINE n == Len(f)
           A == Upto(f, v, d, W)
           B == Upto(f, v, d, X)
<1>1. n \in Nat /\ IsFiniteSet(1 .. n)
  BY FS_Interval
<1>2. A \subseteq 1 .. n /\ B \subseteq 1 .. n
  BY DEF Upto
<1>3. IsFiniteSet(A)
  BY <1>1, <1>2, FS_Subset
<1>4. \A j \in 1 .. n : (IF d = 1 THEN j <= X ELSE j >= X) <=>
                          ((IF d = 1 THEN j <= W ELSE j >= W) \/ j = X)
  BY <1>1
<1>5. ~(IF d = 1 THEN X <= W ELSE X >= W)
  OBVIOUS
<1>6. X \notin A
  BY <1>5 DEF Upto
<1>7. f[X] # v => B = A
  BY <1>4 DEF Upto
<1>8. f[X] = v => B = A \cup {X}
  BY <1>4 DEF Upto
<1>9. Cardinality(A \cup {X}) = Cardinality(A) + 1
  <2> HIDE DEF A
  <2> QED
    BY <1>3, <1>6, FS_AddElement
<1> QED
  BY <1>3, <1>6, <1>7, <1>8, <1>9 DEF Adds

\* g is f without D occurrences of v, those at positions up to W: what is kept
\* on the far side has only been moved.
WeededBy(g, f, v, d, W, D, e) ==
  /\ Rising(e, Len(f)) /\ IsChosen(g, f, e) /\ Len(e) = Len(f) - D
  /\ Chosen(e) = (1 .. Len(f)) \ Upto(f, v, d, W)
  /\ d = 1 => D <= W /\ \A u \in 1 .. Len(e) : u > W - D => e[u] = u + D
  /\ d = -1 => D <= Len(f) - W + 1 /\ \A u \in 1 .. Len(e) : u < W => e[u] = u

Weeded(g, f, v, d, W, D) ==
  /\ W \in 0 .. Len(f) + 1 /\ D \in Nat /\ Cardinality(Upto(f, v, d, W)) = D
  /\ \E e : WeededBy(g, f, v, d, W, D, e)

\* The position in what is left of the first position that has not been passed.
Cursor(d, W, D) == IF d = 1 THEN W - D + 1 ELSE W - 1

LEMMA WeededStep ==
  ASSUME NEW f \in Seq(Value), NEW g \in Seq(Value), NEW v, NEW d, d \in {1, -1},
         NEW W, NEW D, Weeded(g, f, v, d, W, D), NEW X \in 1 .. Len(f), X = W + d,
         NEW U, U = Cursor(d, W, D)
  PROVE  /\ U \in 1 .. Len(g) /\ g[U] = f[X]
         /\ f[X] # v => Weeded(g, f, v, d, X, D)
         /\ f[X] = v => Weeded(RemoveAt(g, U), f, v, d, X, D + 1)
<1> DEFINE n == Len(f)
           A == Upto(f, v, d, W)
           B == Upto(f, v, d, X)
<1>1. /\ W \in 0 .. n + 1 /\ D \in Nat /\ Cardinality(A) = D /\ n \in Nat /\ W \in Int
      /\ X \in 1 .. n /\ X \in 0 .. n + 1
  BY DEF Weeded
<1>2. PICK e : WeededBy(g, f, v, d, W, D, e)
  BY DEF Weeded
<1> DEFINE m == Len(e)
<1>3. /\ Rising(e, n) /\ e \in Seq(1 .. n) /\ m \in Nat /\ m = n - D
      /\ IsChosen(g, f, e) /\ Len(g) = m /\ \A j \in 1 .. m : g[j] = f[e[j]]
      /\ Chosen(e) = (1 .. n) \ A
  BY <1>2 DEF WeededBy, Rising, IsChosen
<1>4. d = 1 => D <= W /\ \A u \in 1 .. m : u > W - D => e[u] = u + D
  BY <1>2 DEF WeededBy
<1>5. d = -1 => D <= n - W + 1 /\ \A u \in 1 .. m : u < W => e[u] = u
  BY <1>2 DEF WeededBy
<1>6. /\ X \notin A /\ (f[X] # v => B = A)
      /\ (f[X] = v => B = A \cup {X} /\ Cardinality(B) = Cardinality(A) + 1)
  <2>1. W \in Int /\ X \in 1 .. Len(f) /\ X = W + d
    BY <1>1
  <2>2. Adds(f, v, d, W, X)
    BY <2>1, UptoNext
  <2> QED
    BY <2>2 DEF Adds
<1> HIDE DEF n, A, B, m
<1>7. U \in 1 .. m /\ e[U] = X
  <2>1. CASE d = 1
    <3>1. U = W - D + 1 /\ X = W + 1
      BY <2>1 DEF Cursor
    <3>2. U \in 1 .. m /\ U > W - D /\ U + D = X
      BY <1>1, <1>3, <1>4, <2>1, <3>1
    <3> QED
      BY <1>4, <2>1, <3>2
  <2>2. CASE d = -1
    <3>0. ~(d = 1)
      BY <2>2
    <3>1. U = W - 1 /\ X = W - 1
      BY <1>1, <2>2, <3>0 DEF Cursor
    <3>2. U \in 1 .. m /\ U < W
      BY <1>1, <1>3, <1>5, <2>2, <3>1
    <3> QED
      BY <1>5, <2>2, <3>1, <3>2
  <2> QED
    BY <2>1, <2>2
<1>8. U \in 1 .. Len(g) /\ g[U] = f[X]
  BY <1>3, <1>7
<1>9. ASSUME f[X] # v PROVE Weeded(g, f, v, d, X, D)
  <2>1. B = A
    BY <1>6, <1>9
  <2>2. d = 1 => D <= X /\ \A u \in 1 .. m : u > X - D => e[u] = u + D
    <3> SUFFICES ASSUME d = 1 PROVE D <= X /\ \A u \in 1 .. m : u > X - D => e[u] = u + D
      OBVIOUS
    <3>1. X = W + 1 /\ D <= W
      BY <1>4
    <3>2. \A u \in 1 .. m : u > X - D => u > W - D
      BY <1>1, <3>1
    <3> QED
      BY <1>1, <1>4, <3>1, <3>2
  <2>3. d = -1 => D <= n - X + 1 /\ \A u \in 1 .. m : u < X => e[u] = u
    <3> SUFFICES ASSUME d = -1 PROVE D <= n - X + 1 /\ \A u \in 1 .. m : u < X => e[u] = u
      OBVIOUS
    <3>1. X = W - 1 /\ D <= n - W + 1
      BY <1>5
    <3>2. \A u \in 1 .. m : u < X => u < W
      BY <1>1, <3>1
    <3> QED
      BY <1>1, <1>5, <3>1, <3>2
  <2>4. WeededBy(g, f, v, d, X, D, e)
    BY <1>3, <2>1, <2>2, <2>3 DEF WeededBy, n, m, A, B
  <2> QED
    BY <1>1, <2>1, <2>4 DEF Weeded, n, A, B
<1>10. ASSUME f[X] = v PROVE Weeded(RemoveAt(g, U), f, v, d, X, D + 1)
  <2> DEFINE r == RemoveAt(e, U)
             h == RemoveAt(g, U)
             lr == Len(r)
             E == D + 1
  <2>1. B = A \cup {X} /\ Cardinality(B) = E
    BY <1>1, <1>6, <1>10
  <2>2. /\ Rising(r, n) /\ lr = m - 1
        /\ \A j \in 1 .. m - 1 : r[j] = IF j < U THEN e[j] ELSE e[j + 1]
        /\ Chosen(r) = Chosen(e) \ {e[U]}
    <3>1. n \in Nat /\ Rising(e, n) /\ U \in 1 .. Len(e) /\ m = Len(e)
      BY <1>1, <1>3, <1>7 DEF m
    <3> HIDE DEF m
    <3>2. /\ Rising(RemoveAt(e, U), n) /\ Len(RemoveAt(e, U)) = Len(e) - 1
          /\ \A j \in 1 .. Len(e) - 1 : RemoveAt(e, U)[j] = IF j < U THEN e[j] ELSE e[j + 1]
          /\ Chosen(RemoveAt(e, U)) = Chosen(e) \ {e[U]}
      BY <3>1, ChosenLess
    <3> QED
      BY <3>1, <3>2, Zenon
  <2>3. IsCut(h, g, U - 1, 1)
    BY <1>8, RemoveIsCut
  <2> HIDE DEF r, h
  <2>4. Len(h) = m - 1 /\ \A j \in 1 .. m - 1 : h[j] = IF j <= U - 1 THEN g[j] ELSE g[j + 1]
    BY <1>3, <2>3 DEF IsCut
  <2>5. \A j \in 1 .. m - 1 : h[j] = f[r[j]]
    <3> SUFFICES ASSUME NEW j \in 1 .. m - 1 PROVE h[j] = f[r[j]]
      OBVIOUS
    <3>1. j \in 1 .. m /\ j + 1 \in 1 .. m /\ (j <= U - 1 <=> j < U)
      BY <1>3, <1>7
    <3> QED
      BY <1>3, <2>2, <2>4, <3>1
  <2>6. IsChosen(h, f, r) /\ lr = n - E
    BY <1>1, <1>3, <2>2, <2>4, <2>5 DEF IsChosen
  <2>7. Chosen(r) = (1 .. n) \ B
    BY <1>3, <1>7, <2>1, <2>2
  <2>8. d = 1 => E <= X /\ \A u \in 1 .. lr : u > X - E => r[u] = u + E
    <3> SUFFICES ASSUME d = 1 PROVE E <= X /\ \A u \in 1 .. lr : u > X - E => r[u] = u + E
      OBVIOUS
    <3>1. X = W + 1 /\ D <= W /\ U = W - D + 1
      BY <1>4 DEF Cursor
    <3>2. ASSUME NEW u \in 1 .. lr, u > X - E PROVE r[u] = u + E
      <4>0. u \in 1 .. m - 1 /\ u \in Int /\ D \in Int /\ W \in Int /\ m \in Int /\ u > (W + 1) - (D + 1)
        BY <1>1, <1>3, <2>2, <3>1, <3>2
      <4>1. ~(u < U) /\ u + 1 \in 1 .. m /\ u + 1 > W - D /\ (u + 1) + D = u + E /\ u \in 1 .. m - 1
        BY <3>1, <4>0
      <4>2. e[u + 1] = (u + 1) + D
        BY <1>4, <4>1
      <4> QED
        BY <2>2, <4>1, <4>2
    <3> QED
      BY <1>1, <3>1, <3>2
  <2>9. d = -1 => E <= n - X + 1 /\ \A u \in 1 .. lr : u < X => r[u] = u
    <3> SUFFICES ASSUME d = -1 PROVE E <= n - X + 1 /\ \A u \in 1 .. lr : u < X => r[u] = u
      OBVIOUS
    <3>0. ~(d = 1)
      OBVIOUS
    <3>1. X = W - 1 /\ D <= n - W + 1 /\ U = X
      BY <1>1, <1>5, <3>0 DEF Cursor
    <3>2. ASSUME NEW u \in 1 .. lr, u < X PROVE r[u] = u
      <4>1. u < U /\ u \in 1 .. m /\ u < W /\ u \in 1 .. m - 1
        BY <1>1, <1>3, <2>2, <3>1, <3>2
      <4> QED
        BY <1>5, <2>2, <4>1
    <3> QED
      BY <1>1, <3>1, <3>2
  <2> HIDE DEF lr, E
  <2>10. WeededBy(h, f, v, d, X, E, r)
    BY <2>2, <2>6, <2>7, <2>8, <2>9 DEF WeededBy, n, B, lr
  <2>11. E \in Nat
    BY <1>1 DEF E
  <2>12. Weeded(h, f, v, d, X, E)
    BY <1>1, <2>1, <2>10, <2>11 DEF Weeded, n, B
  <2> QED
    BY <2>12 DEF h, E
<1> QED
  BY <1>8, <1>9, <1>10

\* The position that k rounds of LREM have reached.
Walked(d, n, k) == IF d = 1 THEN k ELSE n + 1 - k

\* LREM on f after k rounds: what has been passed is rid of v until enough are gone.
Winnowed(s, k, f, v, d, size) ==
  /\ s \in Sweeps /\ s.it.direction = d /\ (size >= 0 => s.left >= 0)
  /\ \E W : /\ Weeded(Held(s.it.ql), f, v, d, W, size - s.left)
            /\ s.left # 0 => /\ W = Walked(d, Len(f), k)
                             /\ Awaits(s.it, Cursor(d, W, size - s.left))

LEMMA WinnowOne ==
  ASSUME NEW f \in Seq(Value), NEW v, NEW d \in {1, -1}, NEW size \in Int,
         NEW k \in 1 .. Len(f), NEW s, Winnowed(s, k - 1, f, v, d, size),
         NEW r, r = RemoveNext(s, v)
  PROVE  Winnowed(r, k, f, v, d, size)
<1> DEFINE n == Len(f)
           it == s.it
           left == s.left
           g == Held(it.ql)
           D == size - left
           W == Walked(d, n, k - 1)
           X == Walked(d, n, k)
           U == Cursor(d, W, D)
           nx == quicklistNext(it)
<1>1. /\ s \in Sweeps /\ it \in Iters /\ left \in Int /\ s = [it |-> it, left |-> left]
      /\ it.direction = d /\ (size >= 0 => left >= 0) /\ n \in Nat /\ it.ql \in Exact
  BY IterIs DEF Winnowed, Sweeps
<1>2. g \in Seq(Value)
  BY <1>1, HeldType
<1>3. r \in Sweeps
  BY <1>1, RemoveNextKept
<1>4. CASE left = 0
  <2>1. r = s
    BY <1>4 DEF RemoveNext
  <2> QED
    BY <1>4, <2>1 DEF Winnowed
<1>5. CASE left # 0
  <2>1. Weeded(g, f, v, d, W, D) /\ Awaits(it, U)
    BY <1>5 DEF Winnowed
  <2>2. X = W + d /\ X \in 1 .. n /\ W \in Int /\ X \in Int
    <3>1. CASE d = 1
      BY <1>1, <3>1 DEF Walked
    <3>2. CASE d = -1
      <4>1. ~(d = 1)
        BY <3>2
      <4> QED
        BY <1>1, <3>2, <4>1 DEF Walked
    <3> QED
      BY <3>1, <3>2
  <2> HIDE DEF g, n, W, X
  <2>3. X \in 1 .. Len(f) /\ X = W + d
    BY <2>2 DEF n
  <2> HIDE DEF D
  <2>4. /\ U \in 1 .. Len(g) /\ g[U] = f[X]
        /\ f[X] # v => Weeded(g, f, v, d, X, D)
        /\ f[X] = v => Weeded(RemoveAt(g, U), f, v, d, X, D + 1)
    <3> HIDE DEF U
    <3>1. U = Cursor(d, W, D)
      BY DEF U
    <3> QED
      BY <1>2, <2>1, <2>3, <3>1, WeededStep
  <2>5. D \in Int /\ D = size - left
    BY <1>1 DEF D
  <2>6. U \in Int
    BY <2>2, <2>5 DEF Cursor
  <2>7. Cursor(d, X, D) = U + d /\ Cursor(d, X, D + 1) = IF d = 1 THEN U ELSE U - 1
    <3>1. CASE d = 1
      BY <2>2, <2>5, <3>1 DEF Cursor
    <3>2. CASE d = -1
      <4>1. ~(d = 1)
        BY <3>2
      <4> QED
        BY <2>2, <2>5, <3>2, <4>1 DEF Cursor
    <3> QED
      BY <3>1, <3>2
  <2> HIDE DEF U, nx
  <2>8. nx \in Iters /\ nx.ql = it.ql /\ nx.direction = d /\ Grasps(nx, U)
    <3>1. nx = quicklistNext(it) /\ Len(g) = Len(Held(it.ql))
      BY DEF nx, g
    <3> QED
      BY <1>1, <2>1, <2>4, <2>6, <3>1, NextReaches
  <2>9. nx.current # 0 /\ ElementOf(nx) = f[X] /\ Awaits(nx, U + d)
    BY <2>2, <2>4, <2>8 DEF Grasps, g
  <2>10. CASE f[X] # v
    <3>1. r = [s EXCEPT !.it = nx]
      BY <1>5, <2>9, <2>10 DEF RemoveNext, nx
    <3>2. r.it = nx /\ r.left = left
      BY <1>1, <3>1
    <3>3. Weeded(Held(r.it.ql), f, v, d, X, size - r.left)
      BY <2>2, <2>4, <2>5, <2>8, <2>10, <3>2 DEF g
    <3>4. Awaits(r.it, Cursor(d, X, size - r.left))
      BY <2>5, <2>7, <2>9, <3>2
    <3> QED
      BY <1>1, <1>3, <2>8, <3>2, <3>3, <3>4 DEF Winnowed, X, n
  <2>11. CASE f[X] = v
    <3> DEFINE x == quicklistDelEntry(nx)
               y == left - 1
    <3>1. r = [it |-> x, left |-> y]
      BY <1>5, <2>9, <2>11 DEF RemoveNext, nx
    <3> HIDE DEF x, y
    <3>2. r.it = x /\ r.left = y
      BY <3>1
    <3>3. /\ x \in Iters /\ x.direction = d /\ Held(x.ql) = RemoveAt(g, U)
          /\ Awaits(x, IF d = 1 THEN U ELSE U - 1)
      BY <2>8, DelEntryHeld DEF x, g
    <3>4. y = left - 1 /\ size - y = D + 1 /\ (size >= 0 => y >= 0)
      BY <1>1, <1>5, <2>5 DEF y
    <3>5. Weeded(Held(r.it.ql), f, v, d, X, size - r.left)
      BY <2>2, <2>4, <2>11, <3>2, <3>3, <3>4
    <3>6. Awaits(r.it, Cursor(d, X, size - r.left))
      BY <2>7, <3>2, <3>3, <3>4
    <3> QED
      BY <1>3, <3>2, <3>3, <3>4, <3>5, <3>6 DEF Winnowed, X, n
  <2> QED
    BY <2>10, <2>11
<1> QED
  BY <1>4, <1>5

\* Which occurrences are among the first, or the last, is a matter of counting.
LEMMA UptoOrder ==
  ASSUME NEW f \in Seq(Value), NEW v, NEW d, d \in {1, -1}, NEW W \in Int,
         NEW i \in 1 .. Len(f), f[i] = v,
         NEW A, A = Upto(f, v, d, W), NEW S, S = Upto(f, v, d, i)
  PROVE  /\ Cardinality(A) \in Nat /\ Cardinality(S) \in Nat
         /\ i \in A => Cardinality(S) <= Cardinality(A)
         /\ i \notin A => Cardinality(S) > Cardinality(A)
<1> DEFINE n == Len(f)
<1>1. n \in Nat /\ IsFiniteSet(1 .. n)
  BY FS_Interval
<1>2. A \subseteq 1 .. n /\ S \subseteq 1 .. n
  BY DEF Upto
<1>3. /\ IsFiniteSet(A) /\ IsFiniteSet(S)
      /\ Cardinality(A) \in Nat /\ Cardinality(S) \in Nat
  BY <1>1, <1>2, FS_Subset, FS_CardinalityType
<1>4. i \in A <=> IF d = 1 THEN i <= W ELSE i >= W
  BY DEF Upto
<1>5. i \in S
  BY DEF Upto
<1>6. ASSUME i \in A PROVE S \subseteq A
  <2>1. \A j \in 1 .. n : (IF d = 1 THEN j <= i ELSE j >= i) =>
                            (IF d = 1 THEN j <= W ELSE j >= W)
    BY <1>1, <1>4, <1>6
  <2> QED
    BY <2>1 DEF Upto
<1>7. ASSUME i \notin A PROVE A \subseteq S
  <2>1. \A j \in 1 .. n : (IF d = 1 THEN j <= W ELSE j >= W) =>
                            (IF d = 1 THEN j <= i ELSE j >= i)
    BY <1>1, <1>4, <1>7
  <2> QED
    BY <2>1 DEF Upto
<1>8. i \in A => Cardinality(S) <= Cardinality(A)
  BY <1>3, <1>6, FS_Subset
<1>9. ASSUME i \notin A PROVE Cardinality(S) > Cardinality(A)
  <2>1. A \in SUBSET S /\ S # A
    BY <1>5, <1>7, <1>9
  <2>2. Cardinality(A) <= Cardinality(S) /\ Cardinality(S) # Cardinality(A)
    BY <1>3, <2>1, FS_Subset
  <2> QED
    BY <1>3, <2>2
<1> QED
  BY <1>3, <1>8, <1>9

\* The occurrences of v that LREM is to remove.
Spent(f, v, count) ==
  {i \in 1 .. Len(f) :
     /\ f[i] = v
     /\ \/ count = 0
        \/ Cardinality(Upto(f, v, 1, i)) <= count
        \/ Cardinality(Upto(f, v, -1, i)) <= -count}

\* As many as LREM was to remove are among those up to W, or all are.
Quota(f, v, count, d, size, W, left) ==
  /\ d = IF count < 0 THEN -1 ELSE 1
  /\ size = IF count < 0 THEN -count ELSE IF count = 0 THEN -1 ELSE count
  /\ W \in Int /\ left \in Int /\ (size >= 0 => left >= 0)
  /\ Cardinality(Upto(f, v, d, W)) = size - left
  /\ left # 0 => \A i \in 1 .. Len(f) : f[i] = v => i \in Upto(f, v, d, W)

LEMMA SpentIs ==
  ASSUME NEW f \in Seq(Value), NEW v, NEW count \in Int, NEW d, NEW size, NEW W, NEW left,
         Quota(f, v, count, d, size, W, left)
  PROVE  Spent(f, v, count) = Upto(f, v, d, W)
<1> DEFINE A == Upto(f, v, d, W)
           n == Len(f)
           H == {i \in 1 .. n : f[i] = v}
           S(i) == Cardinality(Upto(f, v, 1, i))
           T(i) == Cardinality(Upto(f, v, -1, i))
           k == Cardinality(A)
<1>0. /\ d = IF count < 0 THEN -1 ELSE 1
      /\ size = IF count < 0 THEN -count ELSE IF count = 0 THEN -1 ELSE count
      /\ W \in Int /\ left \in Int /\ (size >= 0 => left >= 0)
      /\ Cardinality(A) = size - left
      /\ left # 0 => \A i \in 1 .. Len(f) : f[i] = v => i \in A
  BY DEF Quota
<1>1. A \subseteq H
  BY DEF Upto
<1>2. d \in {1, -1} /\ size \in Int
  BY <1>0
<1>3. \A i \in H : S(i) \in Nat /\ T(i) \in Nat
  <2> DEFINE one == 1
             neg == -1
  <2>1. one \in {1, -1} /\ neg \in {1, -1}
    OBVIOUS
  <2> SUFFICES ASSUME NEW i \in H
               PROVE  Cardinality(Upto(f, v, one, i)) \in Nat /\ Cardinality(Upto(f, v, neg, i)) \in Nat
    OBVIOUS
  <2>2. i \in 1 .. Len(f) /\ f[i] = v /\ i \in Int
    OBVIOUS
  <2> HIDE DEF one, neg, H
  <2> QED
    BY <2>1, <2>2, UptoOrder
<1>4. \A i \in H : Cardinality(Upto(f, v, d, i)) = IF d = 1 THEN S(i) ELSE T(i)
  BY <1>2
<1>5. ASSUME NEW i \in H
      PROVE  /\ k \in Nat
             /\ i \in A => Cardinality(Upto(f, v, d, i)) <= k
             /\ i \notin A => Cardinality(Upto(f, v, d, i)) > k
  <2>1. i \in 1 .. Len(f) /\ f[i] = v
    OBVIOUS
  <2> HIDE DEF H
  <2> QED
    BY <1>0, <1>2, <2>1, UptoOrder
<1>6. \A i \in H : left # 0 => i \in A
  BY <1>0
<1>7. k = size - left
  BY <1>0
<1> HIDE DEF H, S, T, k, A
<1>8. \A i \in H : (count = 0 \/ S(i) <= count \/ T(i) <= -count) <=> i \in A
  <2> SUFFICES ASSUME NEW i \in H
               PROVE  (count = 0 \/ S(i) <= count \/ T(i) <= -count) <=> i \in A
    OBVIOUS
  <2>1. S(i) \in Nat /\ T(i) \in Nat /\ k \in Nat
    BY <1>3, <1>5
  <2> DEFINE x == Cardinality(Upto(f, v, d, i))
  <2>2. /\ x = (IF d = 1 THEN S(i) ELSE T(i))
        /\ (i \in A => x <= k) /\ (i \notin A => x > k) /\ (left # 0 => i \in A)
    BY <1>4, <1>5, <1>6
  <2> HIDE DEF x
  <2>3. CASE count = 0
    <3>1. size = -1 /\ left \in Int
      BY <1>0, <2>3
    <3>2. left # 0
      BY <1>7, <2>1, <3>1
    <3> QED
      BY <2>2, <2>3, <3>2
  <2>4. CASE count > 0
    <3>1. d = 1 /\ size = count /\ left \in Int /\ left >= 0
      BY <1>0, <2>4
    <3>2. x = S(i) /\ left >= 0 /\ ~(T(i) <= -count)
      BY <2>1, <2>2, <2>4, <3>1
    <3>3. i \in A => x <= count
      BY <1>7, <2>1, <2>2, <3>1, <3>2
    <3>4. i \notin A => x > count
      BY <1>7, <2>1, <2>2, <3>1, <3>2
    <3> QED
      BY <2>1, <2>4, <3>2, <3>3, <3>4
  <2>5. CASE count < 0
    <3>1. d = -1 /\ size = -count /\ ~(d = 1) /\ size >= 0 /\ left \in Int /\ left >= 0
      BY <1>0, <2>5
    <3>2. x = T(i) /\ left >= 0 /\ ~(S(i) <= count)
      BY <2>1, <2>2, <2>5, <3>1
    <3>3. i \in A => x <= -count
      BY <1>7, <2>1, <2>2, <3>1, <3>2
    <3>4. i \notin A => x > -count
      BY <1>7, <2>1, <2>2, <3>1, <3>2
    <3> QED
      BY <2>1, <2>5, <3>2, <3>3, <3>4
  <2> QED
    BY <2>3, <2>4, <2>5
<1>9. Spent(f, v, count) = {i \in H : count = 0 \/ S(i) <= count \/ T(i) <= -count}
  BY DEF Spent, H, S, T
<1> QED
  BY <1>1, <1>8, <1>9 DEF A

\* Before the first round nothing is gone.
LEMMA WeededNone ==
  ASSUME NEW f \in Seq(Value), NEW v, NEW d, d \in {1, -1}, NEW W, W = Walked(d, Len(f), 0)
  PROVE  Weeded(f, f, v, d, W, 0)
<1> DEFINE n == Len(f)
           e == [j \in 1 .. n |-> j]
           A == Upto(f, v, d, W)
<1>1. n \in Nat /\ W \in 0 .. n + 1 /\ (d = 1 => W = 0) /\ (d = -1 => W = n + 1)
  BY DEF Walked
<1>2. A = {}
  <2>1. \A j \in 1 .. n : ~(IF d = 1 THEN j <= W ELSE j >= W)
    BY <1>1
  <2> QED
    BY <2>1 DEF Upto
<1>3. Cardinality(A) = 0
  BY <1>2, FS_EmptySet
<1>4. e \in Seq(1 .. n) /\ Len(e) = n /\ \A j \in 1 .. n : e[j] = j
  BY <1>1
<1> HIDE DEF A, e
<1>5. Rising(e, n) /\ IsChosen(f, f, e) /\ Len(e) = n - 0
  BY <1>1, <1>4, SMTT(60) DEF Rising, IsChosen
<1>6. Chosen(e) = (1 .. n) \ A
  BY <1>2, <1>4 DEF Chosen
<1>7. d = 1 => 0 <= W /\ \A u \in 1 .. Len(e) : u > W - 0 => e[u] = u + 0
  BY <1>1, <1>4
<1>8. d = -1 => 0 <= n - W + 1 /\ \A u \in 1 .. Len(e) : u < W => e[u] = u
  BY <1>1, <1>4
<1>9. WeededBy(f, f, v, d, W, 0, e)
  BY <1>5, <1>6, <1>7, <1>8 DEF WeededBy, A
<1> QED
  BY <1>1, <1>3, <1>9 DEF Weeded, A

\* The loop of LREM keeps what is not to be removed.
Swept(q, count, v) ==
  LET d    == IF count < 0 THEN -1 ELSE 1
      size == IF count < 0 THEN -count ELSE IF count = 0 THEN -1 ELSE count
  IN  RemAll([it |-> listTypeInitIterator(q, d), left |-> size], Entries(q), v)

LEMMA RemHeld ==
  ASSUME NEW q \in Exact, NEW v, NEW count \in Int
  PROVE  /\ Swept(q, count, v).it.ql \in Exact
         /\ Held(Swept(q, count, v).it.ql)
              = Picked(Held(q), (1 .. Len(Held(q))) \ Spent(Held(q), v, count))
<1> DEFINE d == IF count < 0 THEN -1 ELSE 1
           size == IF count < 0 THEN -count ELSE IF count = 0 THEN -1 ELSE count
           r == Swept(q, count, v)
           i0 == listTypeInitIterator(q, d)
           first == [it |-> i0, left |-> size]
           s == Entries(q)
           f == Held(q)
           n == Len(f)
           Good == [k \in 0 .. n |-> {x \in Sweeps : Winnowed(x, k, f, v, d, size)}]
<1>0. r = RemAll(first, s, v)
  BY DEF Swept
<1>1. f \in Seq(Value) /\ n \in Nat /\ s \in Seq(Value) /\ Len(s) = n
  BY EntriesIs, HeldType
<1>2. d \in {1, -1} /\ size \in Int
  OBVIOUS
<1>19. /\ d = IF count < 0 THEN -1 ELSE 1
       /\ size = IF count < 0 THEN -count ELSE IF count = 0 THEN -1 ELSE count
  OBVIOUS
<1> HIDE DEF d, size, r
<1>3. i0 \in Iters /\ i0.ql = q /\ i0.direction = d /\ Awaits(i0, Cursor(d, Walked(d, n, 0), 0))
  <2> DEFINE idx == IF d = 1 THEN 0 ELSE -1
  <2>1. i0 = quicklistGetIteratorAtIdx(q, d, idx)
    BY DEF listTypeInitIterator
  <2>2. idx \in Int /\ (d = 1 => idx >= 0) /\ (d = -1 => idx < 0)
    BY <1>2
  <2>3. PosOf(idx, n) = Cursor(d, Walked(d, n, 0), 0)
    <3>1. CASE d = 1
      BY <1>1, <3>1 DEF PosOf, Cursor, Walked
    <3>2. CASE d = -1
      <4>1. ~(d = 1)
        BY <3>2
      <4> QED
        BY <1>1, <4>1 DEF PosOf, Cursor, Walked
    <3> QED
      BY <1>2, <3>1, <3>2
  <2> HIDE DEF i0, idx
  <2>4. i0 \in Iters /\ i0.ql = q /\ i0.direction = d /\ Awaits(i0, PosOf(idx, Len(Held(q))))
    BY <1>2, <2>1, <2>2, StartAwaits
  <2> QED
    BY <2>3, <2>4
<1> HIDE DEF i0
<1>4. first \in Sweeps /\ first.it = i0 /\ first.left = size
  BY <1>2, <1>3 DEF Sweeps
<1> HIDE DEF first, s
<1>5. Winnowed(first, 0, f, v, d, size)
  <2>1. Weeded(f, f, v, d, Walked(d, n, 0), 0)
    BY <1>1, <1>2, WeededNone
  <2>2. size - first.left = 0 /\ (size >= 0 => first.left >= 0)
    BY <1>2, <1>4
  <2> QED
    BY <1>3, <1>4, <2>1, <2>2 DEF Winnowed
<1>6. PICK p : /\ p[0] = first /\ RemAll(first, s, v) = p[Len(s)]
               /\ \A k \in 1 .. Len(s) : p[k] = RemoveNext(p[k - 1], v)
  BY <1>1, <1>4, RemFold
<1>7. \A k \in 0 .. n : p[k] \in Good[k]
  <2>1. p[0] \in Good[0]
    BY <1>1, <1>4, <1>5, <1>6
  <2>2. ASSUME NEW k \in 1 .. n, p[k - 1] \in Good[k - 1] PROVE p[k] \in Good[k]
    <3>1. k \in 0 .. n /\ k - 1 \in 0 .. n
      BY <1>1
    <3>2. Winnowed(p[k - 1], k - 1, f, v, d, size)
      BY <2>2, <3>1
    <3>3. p[k] = RemoveNext(p[k - 1], v)
      BY <1>1, <1>6
    <3>4. Winnowed(p[k], k, f, v, d, size)
      <4> HIDE DEF f
      <4> QED
        BY <1>1, <1>2, <3>2, <3>3, WinnowOne DEF n
    <3>5. p[k] \in Sweeps
      BY <3>4 DEF Winnowed
    <3> QED
      BY <3>1, <3>4, <3>5
  <2> HIDE DEF Good, n
  <2> QED
    BY <1>1, <2>1, <2>2, Through
<1>8. Winnowed(r, n, f, v, d, size)
  <2>1. n \in 0 .. n
    BY <1>1
  <2>2. r = p[n]
    BY <1>0, <1>1, <1>6
  <2> QED
    BY <1>7, <2>1, <2>2
<1> DEFINE left == r.left
           g == Held(r.it.ql)
           D == size - left
<1>9. r \in Sweeps /\ left \in Int /\ r.it.ql \in Exact /\ (size >= 0 => left >= 0)
  BY <1>8, IterIs DEF Winnowed, Sweeps
<1>10. g \in Seq(Value)
  BY <1>9, HeldType
<1>11. PICK W : Weeded(g, f, v, d, W, D) /\ (left # 0 => W = Walked(d, n, n))
  BY <1>8 DEF Winnowed
<1> HIDE DEF f, g, n, left, D
<1> DEFINE A == Upto(f, v, d, W)
<1>12. PICK e : WeededBy(g, f, v, d, W, D, e)
  BY <1>11 DEF Weeded
<1>13. W \in Int /\ Cardinality(A) = D
  BY <1>11 DEF Weeded
<1>14. left # 0 => \A i \in 1 .. n : f[i] = v => i \in A
  <2> SUFFICES ASSUME left # 0, NEW i \in 1 .. n, f[i] = v PROVE i \in A
    OBVIOUS
  <2>1. W = IF d = 1 THEN n ELSE 1
    BY <1>1, <1>11 DEF Walked
  <2>2. IF d = 1 THEN i <= W ELSE i >= W
    BY <1>1, <2>1
  <2> QED
    BY <2>2 DEF Upto, n
<1>15. Spent(f, v, count) = A
  <2>1. A = Upto(f, v, d, W) /\ Cardinality(A) = size - left
    BY <1>13 DEF D
  <2>2. left # 0 => \A i \in 1 .. Len(f) : f[i] = v => i \in A
    BY <1>14 DEF n
  <2>3. Quota(f, v, count, d, size, W, left)
    BY <1>9, <1>13, <1>19, <2>1, <2>2 DEF Quota
  <2> QED
    BY <1>1, <2>3, SpentIs
<1>16. Chosen(e) = (1 .. n) \ A /\ Rising(e, n) /\ IsChosen(g, f, e)
  BY <1>12 DEF WeededBy, n
<1>17. Rising(e, Len(f)) /\ IsChosen(g, f, e)
  BY <1>16 DEF n
<1>18. Picked(f, Chosen(e)) = g
  BY <1>1, <1>10, <1>17, ChosenIs
<1> QED
  BY <1>9, <1>15, <1>16, <1>18 DEF f, g, n, r

-----------------------------------------------------------------------------
(* The refinement: the key holds the sequence that Lists is about.         *)

Abs(x) == IF x.type = "list" THEN [type |-> "list", list |-> Entries(x.ql)] ELSE x

LEMMA HeldEntries ==
  ASSUME NEW q \in Exact
  PROVE  Entries(q) = Held(q)
BY EntriesIs DEF Held

\* What Keep makes of a list, and what the commands make of a new one.
LEMMA KeepAbs ==
  ASSUME NEW q \in Exact
  PROVE  Abs(Keep(q)) = L!List(Held(q))
<1>1. Held(q) \in Seq(Value) /\ Len(Held(q)) = q.count /\ q.count \in Nat
  BY HeldType, ExactIs
<1>2. q.count = 0 <=> Held(q) = <<>>
  BY <1>1, EmptySeq
<1>3. CASE q.count = 0
  BY <1>2, <1>3 DEF Abs, Keep, L!List, None, L!None
<1>4. CASE q.count # 0
  <2>1. Keep(q) = [type |-> "list", ql |-> q]
    BY <1>4 DEF Keep, List
  <2>2. Abs(Keep(q)) = [type |-> "list", list |-> Entries(q)]
    BY <2>1 DEF Abs
  <2> QED
    BY <1>2, <1>4, <2>2, HeldEntries DEF L!List
<1> QED
  BY <1>3, <1>4

LEMMA ListAbs ==
  ASSUME NEW q \in Exact, q.count > 0
  PROVE  Abs(List(q)) = L!List(Held(q))
<1>1. q.count # 0
  OBVIOUS
<1> QED
  BY <1>1, KeepAbs DEF Keep

LEMMA ElementsIs ==
  ASSUME ListInv
  PROVE  /\ IsList => L!l = Held(val.ql)
         /\ ~IsList => L!l = <<>>
BY HeldList, HeldEntries DEF L!l, IsList

\* A command on what is not a list.
LEMMA NotListed ==
  ASSUME NEW cmd, NEW args, NotAList(cmd, args), NEW new, NEW out
  PROVE  L!On(cmd, args, new, out)
<1>1. val.type # "list" /\ val' = val /\ call' = <<cmd, args>> /\ reply' = <<"KEY_NOT_EXIST", Nil>>
  BY DEF NotAList, Return
<1> QED
  BY <1>1 DEF L!On

\* A command on a list, and what it leaves.
LEMMA Listed ==
  ASSUME NEW cmd, NEW args, NEW new, NEW out, IsList,
         Abs(val') = L!List(new), Return(cmd, args, "OK", out)
  PROVE  L!On(cmd, args, new, out)
<1>1. val.type = "list" /\ call' = <<cmd, args>> /\ reply' = <<"OK", out>>
  BY DEF IsList, Return
<1> QED
  BY <1>1 DEF L!On, Abs

\* A command that leaves the list as it is.
LEMMA Unchanged ==
  ASSUME ListInv, IsList, UNCHANGED val
  PROVE  Abs(val') = L!List(L!l)
<1>1. PICK q \in Exact : q.count > 0 /\ val = List(q)
  BY DEF ListInv, Holds, IsList, None, Foreign
<1>2. val.ql = q
  BY <1>1 DEF List
<1>3. L!l = Held(q)
  BY <1>2, ElementsIs
<1> QED
  BY <1>1, <1>3, ListAbs

LEMMA ListedExact ==
  ASSUME NEW r, Holds(List(r))
  PROVE  r \in Exact /\ r.count > 0
<1>1. PICK q \in Exact : q.count > 0 /\ List(r) = List(q)
  BY DEF Holds, List, None, Foreign
<1>2. r = q
  BY <1>1 DEF List
<1> QED
  BY <1>1, <1>2

LEMMA PushedIs ==
  ASSUME ListInv, NEW vals \in ValueLists, NEW where,
         NEW q, q = IF IsList THEN val.ql ELSE quicklistCreate
  PROVE  Held(listTypePush(q, vals, where)) = L!Pushed(where, vals)
<1>1. vals \in Seq(Value)
  BY ListTypeAssumption
<1>2. q \in Exact
  BY HeldList, CreateExact
<1>3. Held(q) = L!l
  <2>1. CASE IsList
    BY <2>1, ElementsIs
  <2>2. CASE ~IsList
    <3>1. q.nodes = <<>>
      BY <2>2 DEF quicklistCreate
    <3>2. q.count = 0
      BY <2>2 DEF quicklistCreate
    <3>3. Held(q) = <<>>
      BY <1>2, <3>2, HeldType, EmptySeq
    <3> QED
      BY <2>2, <3>3, ElementsIs
  <2> QED
    BY <2>1, <2>2
<1>4. L!Reverse(vals) = Reverse(vals)
  BY DEF L!Reverse, Reverse
<1>5. Held(listTypePush(q, vals, where))
        = IF where = "head" THEN Reverse(vals) \o L!l ELSE L!l \o vals
  BY <1>1, <1>2, <1>3, PushedAll, ZenonT(60)
<1> QED
  BY <1>4, <1>5 DEF L!Pushed

LEMMA PushImplements ==
  ASSUME ListInv, NEW vals \in ValueLists, NEW where
  PROVE  /\ pushGenericCommand(where, vals) => L!Push(where, vals)
         /\ pushxGenericCommand(where, vals) => L!Pushx(where, vals)
<1> DEFINE q == IF IsList THEN val.ql ELSE quicklistCreate
           r == listTypePush(q, vals, where)
<1>1. ASSUME val' = List(r), ListInv'
      PROVE  Abs(val') = L!List(L!Pushed(where, vals))
  <2>1. Held(r) = L!Pushed(where, vals)
    BY PushedIs
  <2> HIDE DEF r
  <2>2. r \in Exact /\ r.count > 0
    BY <1>1, ListedExact DEF ListInv
  <2> QED
    BY <1>1, <2>1, <2>2, ListAbs
<1>2. ASSUME pushGenericCommand(where, vals)
      PROVE  L!Push(where, vals)
  <2>1. ListInv'
    BY <1>2, PushStep
  <2>2. CASE val.type = "string"
    BY <1>2, <2>2 DEF pushGenericCommand, Return, L!Push
  <2>3. CASE val.type # "string"
    <3>1. val' = List(r) /\ Return("push", <<where, vals>>, "OK", Nil)
      BY <1>2, <2>3 DEF pushGenericCommand
    <3>2. Abs(val') = L!List(L!Pushed(where, vals))
      BY <1>1, <2>1, <3>1
    <3> QED
      BY <2>3, <3>1, <3>2 DEF L!Push, Return, Abs
  <2> QED
    BY <2>2, <2>3
<1>3. ASSUME pushxGenericCommand(where, vals)
      PROVE  L!Pushx(where, vals)
  <2>1. ListInv'
    BY <1>3, PushStep
  <2>2. CASE NotAList("pushx", <<where, vals>>)
    BY <2>2, NotListed DEF L!Pushx
  <2>3. CASE ~NotAList("pushx", <<where, vals>>)
    <3>1. IsList /\ val' = List(r) /\ Return("pushx", <<where, vals>>, "OK", Nil)
      BY <1>3, <2>3 DEF pushxGenericCommand
    <3>2. Abs(val') = L!List(L!Pushed(where, vals))
      BY <1>1, <2>1, <3>1
    <3> HIDE DEF r
    <3> QED
      BY <3>1, <3>2, Listed DEF L!Pushx
  <2> QED
    BY <2>2, <2>3
<1> QED
  BY <1>2, <1>3

LEMMA PopImplements ==
  ASSUME ListInv, NEW where, popGenericCommand(where)
  PROVE  L!Pop(where)
<1>1. CASE NotAList("pop", where)
  BY <1>1, NotListed DEF L!Pop
<1>2. CASE ~NotAList("pop", where)
  <2> DEFINE popped == quicklistPopCustom(val.ql, where)
             q == val.ql
             new == IF where = "head" THEN Tail(L!l) ELSE L!Front(L!l)
             out == IF where = "head" THEN L!l[1] ELSE L!Last(L!l)
  <2>1. IsList /\ val' = Keep(popped.ql) /\ Return("pop", where, "OK", popped.value)
    BY <1>2 DEF popGenericCommand
  <2>2. q \in Exact /\ q.count > 0 /\ L!l = Held(q)
    BY <2>1, HeldList, ElementsIs
  <2>3. /\ popped.ql \in Exact
        /\ where = "head" => Held(popped.ql) = Tail(L!l) /\ popped.value = L!l[1]
        /\ where # "head" => Held(popped.ql) = Front(L!l) /\ popped.value = Last(L!l)
    BY <2>2, PopHeld
  <2>4. L!Front(L!l) = Front(L!l) /\ L!Last(L!l) = Last(L!l)
    BY DEF L!Front, Front, L!Last, Last
  <2> HIDE DEF popped, q
  <2>5. Held(popped.ql) = new /\ popped.value = out
    BY <2>3, <2>4
  <2>6. Abs(val') = L!List(new)
    BY <2>1, <2>3, <2>5, KeepAbs
  <2> HIDE DEF new, out
  <2>7. L!On("pop", where, new, out)
    BY <2>1, <2>5, <2>6, Listed
  <2> QED
    BY <2>7 DEF L!Pop, new, out
<1> QED
  BY <1>1, <1>2

\* The first position of a value, in the words of SelectInSeq.
FirstOf(f, v) ==
  LET I == {i \in 1 .. Len(f) : f[i] = v}
  IN  IF I # {} THEN CHOOSE x \in I : \A y \in I : x <= y ELSE 0

LEMMA FirstIs ==
  ASSUME NEW f \in Seq(Value), NEW v
  PROVE  /\ (\A j \in 1 .. Len(f) : f[j] # v) => FirstOf(f, v) = 0
         /\ \A m \in 1 .. Len(f) :
              f[m] = v /\ (\A j \in 1 .. m - 1 : f[j] # v) => FirstOf(f, v) = m
<1> DEFINE n == Len(f)
           I == {i \in 1 .. n : f[i] = v}
<1>1. n \in Nat
  OBVIOUS
<1>2. ASSUME NEW m \in 1 .. n, f[m] = v, \A j \in 1 .. m - 1 : f[j] # v PROVE FirstOf(f, v) = m
  <2>1. m \in I /\ \A y \in I : m <= y
    BY <1>1, <1>2
  <2>2. \A x \in I : (\A y \in I : x <= y) => x = m
    BY <1>1, <2>1
  <2>3. FirstOf(f, v) = CHOOSE x \in I : \A y \in I : x <= y
    BY <2>1 DEF FirstOf
  <2> HIDE DEF I
  <2>4. (CHOOSE x \in I : \A y \in I : x <= y) = m
    BY <2>1, <2>2
  <2> QED
    BY <2>3, <2>4
<1>3. ASSUME \A j \in 1 .. n : f[j] # v PROVE FirstOf(f, v) = 0
  BY <1>3 DEF FirstOf
<1> QED
  BY <1>2, <1>3

LEMMA InsertImplements ==
  ASSUME ListInv, NEW where \in Ends, NEW pivot \in Value, NEW v \in Value,
         RcLInsert(where, pivot, v)
  PROVE  L!LInsert(where, pivot, v)
<1> DEFINE s == L!l
           p == FirstOf(s, pivot)
           at == IF where = "head" THEN p ELSE p + 1
           new == IF p = 0 THEN s ELSE L!InsertAt(s, at, v)
           args == <<where, pivot, v>>
<1>1. ASSUME L!On("linsert", args, new, Nil) PROVE L!LInsert(where, pivot, v)
  <2>1. L!SelectInSeq(s, LAMBDA e : e = pivot) = p
    BY DEF L!SelectInSeq, L!Min, FirstOf
  <2> HIDE DEF s
  <2>2. L!LInsert(where, pivot, v)
          = LET i == L!SelectInSeq(s, LAMBDA e : e = pivot)
            IN  L!On("linsert", args,
                     IF i = 0 THEN s ELSE L!InsertAt(s, IF where = "head" THEN i ELSE i + 1, v), Nil)
    BY DEF L!LInsert, s
  <2> QED
    BY <1>1, <2>1, <2>2
<1>2. CASE NotAList("linsert", args)
  BY <1>1, <1>2, NotListed
<1>3. CASE ~NotAList("linsert", args)
  <2> DEFINE q == val.ql
             after == where = "tail"
             found == SeekAll(listTypeInitIterator(q, 1), <<"first">> \o Entries(q), pivot)
             c == found.current
             o == found.offset
             r == _quicklistInsert(q, c, o, v, after)
  <2>1. IsList /\ (val' = IF c = 0 THEN val ELSE List(r)) /\ Return("linsert", args, "OK", Nil)
    BY <1>3 DEF RcLInsert, SeekAll
  <2>2. q \in Exact /\ q.count \in Nat /\ q.count > 0 /\ s = Held(q) /\ s \in Seq(Value)
    BY <2>1, HeldList, ElementsIs, HeldType
  <2>3. SUFFICES Abs(val') = L!List(new)
    <3> HIDE DEF new
    <3> QED
      BY <1>1, <2>1, <2>3, Listed
  <2> HIDE DEF q, s
  <2>4. \/ c = 0 /\ \A j \in 1 .. Len(s) : s[j] # pivot
        \/ \E m \in 1 .. Len(s) :
             /\ found.ql = q /\ Grasps(found, m) /\ found.direction = 1 /\ s[m] = pivot
             /\ \A j \in 1 .. m - 1 : s[j] # pivot
    <3> HIDE DEF found
    <3> QED
      BY <2>2, SeekHeld DEF found
  <2>5. CASE c = 0 /\ \A j \in 1 .. Len(s) : s[j] # pivot
    <3>1. p = 0
      BY <2>2, <2>5, FirstIs
    <3>2. new = s
      BY <3>1
    <3>3. Abs(val') = L!List(L!l)
      BY <2>1, <2>5, Unchanged
    <3> QED
      BY <3>2, <3>3 DEF s
  <2>6. ASSUME NEW m \in 1 .. Len(s), found.ql = q, Grasps(found, m), found.direction = 1,
               s[m] = pivot, \A j \in 1 .. m - 1 : s[j] # pivot
        PROVE  Abs(val') = L!List(new)
    <3>1. p = m
      BY <2>2, <2>6, FirstIs
    <3>2. c # 0 /\ Size(Pre(q.nodes, c)) + o + 1 = m
      BY <2>6 DEF Grasps, Spot
    <3>3. c \in 1 .. Len(q.nodes) /\ o \in 0 .. q.nodes[c].count - 1
      <4> HIDE DEF found
      <4> QED
        BY <2>2, <3>2, SeekFound DEF found
    <3>4. q.nodes \in Seq(Full)
      BY <2>2, ExactIs
    <3> DEFINE a == Size(Pre(q.nodes, c))
    <3>5. a \in Nat
      BY <3>3, <3>4, SizeStep
    <3> HIDE DEF c, o, found, a
    <3>6. /\ r \in Exact
          /\ IsInsert(Held(r), Held(q), Size(Pre(q.nodes, c)) + IF after THEN o + 2 ELSE o + 1, v)
      <4> HIDE DEF r, after
      <4> QED
        BY <2>2, <3>3, InsertHeld DEF r
    <3>7. Size(Pre(q.nodes, c)) + (IF after THEN o + 2 ELSE o + 1) = at
      <4>1. a + o + 1 = m /\ o \in Int
        BY <3>2, <3>3 DEF a
      <4>2. where = "head" \/ where = "tail"
        BY DEF Ends
      <4> HIDE DEF p
      <4>3. a + (IF after THEN o + 2 ELSE o + 1) = at
        BY <3>1, <3>5, <4>1, <4>2
      <4> QED
        BY <4>3 DEF a
    <3>8. at \in 1 .. Len(s) + 1 /\ p # 0
      <4>1. Len(s) \in Nat
        BY <2>2
      <4> HIDE DEF p
      <4> QED
        BY <3>1, <4>1
    <3>9. Held(r) \in Seq(Value)
      BY <3>6, HeldType
    <3> HIDE DEF r, at, p
    <3>10. Held(r) = InsertAt(s, at, v)
      BY <2>2, <3>6, <3>7, <3>8, <3>9, IsInserted
    <3>11. L!InsertAt(s, at, v) = InsertAt(s, at, v)
      BY DEF L!InsertAt, InsertAt
    <3>12. Held(r) = new
      BY <3>8, <3>10, <3>11
    <3>13. val' = List(r) /\ ListInv'
      BY <2>1, <3>2, InsertStep DEF c, r
    <3>14. r.count > 0
      BY <3>13, ListedExact DEF ListInv
    <3> QED
      BY <3>6, <3>12, <3>13, <3>14, ListAbs
  <2> QED
    BY <2>4, <2>5, <2>6
<1> QED
  BY <1>2, <1>3

LEMMA AtIs ==
  ASSUME NEW I
  PROVE  L!At(I) = Picked(L!l, I)
<1> DEFINE f == L!l
<1>1. L!At(I) = L!FoldLeft(LAMBDA acc, i : IF i \in I THEN Append(acc, f[i]) ELSE acc,
                           <<>>, [i \in 1 .. Len(f) |-> i])
  BY DEF L!At
<1> HIDE DEF f
<1> DEFINE s == [i \in 1 .. Len(f) |-> i]
           w == <<>>
<1>2. L!At(I) = LET iter[t \in SUBSET DOMAIN s] ==
                      IF t = {} THEN w
                      ELSE LET x == Max(t)
                           IN  IF s[x] \in I THEN Append(iter[t \ {x}], f[s[x]]) ELSE iter[t \ {x}]
                IN  iter[DOMAIN s]
  BY <1>1 DEF L!FoldLeft, L!MapThenFoldSet, L!Max, Max
<1>3. PickAll(w, s, f, I) = LET iter[t \in SUBSET DOMAIN s] ==
                                  IF t = {} THEN w
                                  ELSE LET x == Max(t)
                                       IN  IF s[x] \in I THEN Append(iter[t \ {x}], f[s[x]])
                                           ELSE iter[t \ {x}]
                            IN  iter[DOMAIN s]
  BY DEF FoldLeft, MapThenFoldSet, PickAll, Max
<1>4. Picked(f, I) = PickAll(w, s, f, I)
  BY DEF Picked
<1> QED
  BY <1>2, <1>3, <1>4 DEF f

LEMMA CardinalityIs ==
  ASSUME NEW S
  PROVE  L!Cardinality(S) = Cardinality(S)
BY DEF L!Cardinality, Cardinality

LEMMA RemImplements ==
  ASSUME ListInv, NEW count \in Indexes, NEW v \in Value, RcLRem(count, v)
  PROVE  L!LRem(count, v)
<1> DEFINE f == L!l
           hits == {i \in DOMAIN f : f[i] = v}
           doomed == {i \in hits :
                        \/ count = 0
                        \/ L!Cardinality({j \in hits : j <= i}) <= count
                        \/ L!Cardinality({j \in hits : j >= i}) <= -count}
           new == L!At(DOMAIN f \ doomed)
           args == <<count, v>>
<1>1. ASSUME L!On("lrem", args, new, Nil) PROVE L!LRem(count, v)
  BY <1>1 DEF L!LRem
<1>2. CASE NotAList("lrem", args)
  <2> HIDE DEF new
  <2> QED
    BY <1>1, <1>2, NotListed
<1>3. CASE ~NotAList("lrem", args)
  <2> DEFINE q == val.ql
             r == Swept(q, count, v).it.ql
  <2>1. IsList /\ val' = Keep(r) /\ Return("lrem", args, "OK", Nil)
    BY <1>3 DEF RcLRem, RemAll, Swept
  <2>2. q \in Exact /\ f = Held(q) /\ f \in Seq(Value) /\ count \in Int
    BY <2>1, HeldList, ElementsIs, HeldType, ListTypeAssumption
  <2>3. DOMAIN f = 1 .. Len(f)
    BY <2>2
  <2>4. r \in Exact /\ Held(r) = Picked(Held(q), (1 .. Len(Held(q))) \ Spent(Held(q), v, count))
    <3> HIDE DEF q
    <3> QED
      BY <2>2, RemHeld
  <2> HIDE DEF r, q, f
  <2>5. doomed = Spent(f, v, count)
    <3>1. ASSUME NEW i
          PROVE  /\ {j \in hits : j <= i} = Upto(f, v, 1, i)
                 /\ {j \in hits : j >= i} = Upto(f, v, -1, i)
      <4>1. ~(-1 = 1)
        OBVIOUS
      <4> QED
        BY <2>3, <4>1 DEF Upto
    <3>2. ASSUME NEW i
          PROVE  /\ L!Cardinality({j \in hits : j <= i}) = Cardinality(Upto(f, v, 1, i))
                 /\ L!Cardinality({j \in hits : j >= i}) = Cardinality(Upto(f, v, -1, i))
      <4> HIDE DEF hits
      <4> QED
        BY <3>1, CardinalityIs
    <3>3. doomed = {i \in hits : \/ count = 0
                                 \/ Cardinality(Upto(f, v, 1, i)) <= count
                                 \/ Cardinality(Upto(f, v, -1, i)) <= -count}
      <4> HIDE DEF hits
      <4> QED
        BY <3>2
    <3> QED
      BY <2>3, <3>3 DEF Spent
  <2>6. Held(r) = new
    <3> DEFINE I == DOMAIN f \ doomed
    <3>1. I = (1 .. Len(f)) \ Spent(f, v, count)
      BY <2>3, <2>5
    <3>2. new = Picked(f, I)
      <4> HIDE DEF I
      <4> QED
        BY AtIs DEF f, I
    <3> HIDE DEF new, I
    <3> QED
      BY <2>2, <2>4, <3>1, <3>2
  <2> HIDE DEF new
  <2>7. Abs(val') = L!List(new)
    BY <2>1, <2>4, <2>6, KeepAbs
  <2> QED
    BY <1>1, <2>1, <2>7, Listed
<1> QED
  BY <1>2, <1>3

LEMMA PositionIs ==
  ASSUME NEW i
  PROVE  L!Position(i) = PosOf(i, Len(L!l))
BY DEF L!Position, PosOf

\* An index out of range.
LEMMA NoItem ==
  ASSUME ListInv, IsList, NEW i \in Int, NEW at, at = quicklistIndex(val.ql, i)[1]
  PROVE  /\ at = 0 <=> L!Position(i) \notin DOMAIN L!l
         /\ at # 0 => L!Position(i) = PosOf(i, Len(Held(val.ql)))
<1> DEFINE q == val.ql
           o == quicklistIndex(q, i)[2]
           n == Len(Held(q))
<1>1. q \in Exact /\ L!l = Held(q) /\ L!l \in Seq(Value)
  BY HeldList, ElementsIs, HeldType
<1>2. L!Position(i) = PosOf(i, n) /\ DOMAIN L!l = 1 .. n
  BY <1>1, PositionIs
<1>3. /\ at = 0 => PosOf(i, n) \notin 1 .. n
      /\ at # 0 => PosOf(i, n) \in 1 .. n
  <2> HIDE DEF q
  <2>1. at = quicklistIndex(q, i)[1]
    BY DEF q
  <2> HIDE DEF o, n
  <2> QED
    BY <1>1, <2>1, IndexHeld DEF o, n
<1> QED
  BY <1>2, <1>3

LEMMA SetImplements ==
  ASSUME ListInv, NEW i \in Indexes, NEW v \in Value, RcLSet(i, v)
  PROVE  L!LSet(i, v)
<1> DEFINE new == [L!l EXCEPT ![L!Position(i)] = v]
           args == <<i, v>>
           at == quicklistIndex(val.ql, i)[1]
<1>1. i \in Int
  BY ListTypeAssumption
<1>2. CASE NotAList("lset", args)
  <2>1. L!On("lset", args, new, Nil)
    <3> HIDE DEF new
    <3> QED
      BY <1>2, NotListed
  <2> QED
    BY <1>2, <2>1 DEF L!LSet, NotAList
<1>3. CASE IsList /\ at = 0
  <2>1. UNCHANGED val /\ Return("lset", args, "ITEM_NOT_EXIST", Nil)
    BY <1>3 DEF RcLSet, NotAList, IsList
  <2>2. L!Position(i) \notin DOMAIN L!l
    BY <1>1, <1>3, NoItem
  <2> QED
    BY <1>3, <2>1, <2>2 DEF L!LSet, L!Reply, Return, IsList
<1>4. CASE IsList /\ at # 0
  <2> DEFINE r == quicklistReplaceAtIndex(val.ql, i, v)
             q == val.ql
  <2>1. val' = List(r) /\ Return("lset", args, "OK", Nil)
    BY <1>4 DEF RcLSet, NotAList, IsList
  <2>2. q \in Exact /\ L!l = Held(q)
    BY <1>4, HeldList, ElementsIs
  <2>3. L!Position(i) \in DOMAIN L!l /\ L!Position(i) = PosOf(i, Len(Held(q)))
    BY <1>1, <1>4, NoItem
  <2>4. ListInv'
    BY SetStep
  <2>5. r \in Exact /\ r.count > 0
    <3> HIDE DEF r
    <3> QED
      BY <2>1, <2>4, ListedExact DEF ListInv
  <2>6. Held(r) = new
    <3>1. Held(r) = ReplaceAt(Held(q), PosOf(i, Len(Held(q))), v)
      BY <1>1, <1>4, <2>2, SetHeld
    <3> QED
      BY <2>2, <2>3, <3>1 DEF ReplaceAt
  <2> HIDE DEF r, new
  <2>7. Abs(val') = L!List(new)
    BY <2>1, <2>5, <2>6, ListAbs
  <2>8. L!On("lset", args, new, Nil)
    BY <1>4, <2>1, <2>7, Listed
  <2> QED
    BY <1>4, <2>3, <2>8 DEF L!LSet, new
<1> QED
  BY <1>2, <1>3, <1>4 DEF RcLSet

LEMMA IndexImplements ==
  ASSUME ListInv, NEW i \in Indexes, RcLIndex(i)
  PROVE  L!LIndex(i)
<1> DEFINE out == L!l[L!Position(i)]
           q == val.ql
           at == quicklistIndex(q, i)
           zl == q.nodes[at[1]].zl
           p == ziplistIndex(zl, at[2])
<1>1. i \in Int
  BY ListTypeAssumption
<1>2. CASE NotAList("lindex", i)
  <2>1. L!On("lindex", i, L!l, out)
    <3> HIDE DEF out
    <3> QED
      BY <1>2, NotListed
  <2> QED
    BY <1>2, <2>1 DEF L!LIndex, NotAList
<1>3. CASE IsList /\ at[1] = 0
  <2>1. UNCHANGED val /\ Return("lindex", i, "ITEM_NOT_EXIST", Nil)
    BY <1>3 DEF RcLIndex, NotAList, IsList
  <2>2. L!Position(i) \notin DOMAIN L!l
    BY <1>1, <1>3, NoItem
  <2> QED
    BY <1>3, <2>1, <2>2 DEF L!LIndex, L!Reply, Return, IsList
<1>4. CASE IsList /\ at[1] # 0
  <2>1. UNCHANGED val /\ Return("lindex", i, "OK", zl[p])
    BY <1>4 DEF RcLIndex, NotAList, IsList
  <2>2. q \in Exact /\ L!l = Held(q)
    BY <1>4, HeldList, ElementsIs
  <2>3. L!Position(i) \in DOMAIN L!l /\ L!Position(i) = PosOf(i, Len(Held(q)))
    BY <1>1, <1>4, NoItem
  <2>4. Held(q)[PosOf(i, Len(Held(q)))] = zl[p]
    <3> DEFINE c == at[1]
               o == at[2]
               n == Len(Held(q))
    <3>1. c = quicklistIndex(q, i)[1] /\ o = quicklistIndex(q, i)[2] /\ n = Len(Held(q)) /\ c # 0
      BY <1>4
    <3> HIDE DEF q, c, o, n
    <3>2. Held(q)[PosOf(i, n)] = q.nodes[c].zl[ziplistIndex(q.nodes[c].zl, o)]
      BY <1>1, <2>2, <3>1, IndexHeld
    <3> QED
      BY <3>2 DEF c, o, n
  <2>5. out = zl[p]
    BY <2>2, <2>3, <2>4
  <2>6. Abs(val') = L!List(L!l)
    BY <1>4, <2>1, Unchanged
  <2> HIDE DEF out, zl, p
  <2>7. L!On("lindex", i, L!l, out)
    BY <1>4, <2>1, <2>5, <2>6, Listed
  <2> QED
    BY <1>4, <2>3, <2>7 DEF L!LIndex, out
<1> QED
  BY <1>2, <1>3, <1>4 DEF RcLIndex

LEMMA LenImplements ==
  ASSUME ListInv, RcLLen
  PROVE  L!LLen
<1> DEFINE none == <<>>
           out == Len(L!l)
<1>1. CASE NotAList("llen", <<>>)
  BY <1>1, NotListed DEF L!LLen
<1>2. CASE IsList /\ UNCHANGED val /\ Return("llen", <<>>, "OK", val.ql.count)
  <2>1. out = val.ql.count
    BY <1>2, HeldList, ElementsIs, HeldType
  <2>2. Abs(val') = L!List(L!l)
    BY <1>2, Unchanged
  <2> HIDE DEF out
  <2>3. L!On("llen", none, L!l, out)
    BY <1>2, <2>1, <2>2, Listed
  <2> QED
    BY <2>3 DEF L!LLen, out
<1> QED
  BY <1>1, <1>2 DEF RcLLen

LEMMA BetweenIs ==
  ASSUME ListInv, IsList, NEW start, NEW end
  PROVE  L!At(L!Between(start, end))
           = Picked(Held(val.ql), Ranged(Len(Held(val.ql)), start, end))
<1> DEFINE f == Held(val.ql)
           I == L!Between(start, end)
<1>1. L!l = f /\ f \in Seq(Value)
  BY HeldList, ElementsIs, HeldType
<1>2. DOMAIN L!l = 1 .. Len(f)
  BY <1>1
<1>3. L!Position(start) = PosOf(start, Len(f)) /\ L!Position(end) = PosOf(end, Len(f))
  BY <1>1, PositionIs
<1>4. I = Ranged(Len(f), start, end)
  BY <1>2, <1>3 DEF L!Between, Ranged
<1> HIDE DEF I
<1>5. L!At(I) = Picked(L!l, I)
  BY AtIs
<1> QED
  BY <1>1, <1>4, <1>5 DEF I

LEMMA TrimImplements ==
  ASSUME ListInv, NEW start \in Indexes, NEW end \in Indexes, RcLTrim(start, end)
  PROVE  L!LTrim(start, end)
<1> DEFINE new == L!At(L!Between(start, end))
           args == <<start, end>>
<1>1. CASE NotAList("ltrim", args)
  <2> HIDE DEF new
  <2>1. L!On("ltrim", args, new, Nil)
    BY <1>1, NotListed
  <2> QED
    BY <2>1 DEF L!LTrim, new
<1>2. CASE ~NotAList("ltrim", args)
  <2> DEFINE q == val.ql
             n == q.count
             a == First(start, n)
             b == Final(end, n)
             lt == IF a > b THEN n ELSE a
             rt == IF a > b THEN 0 ELSE n - b - 1
             r == quicklistDelRange(quicklistDelRange(q, 0, lt), -rt, rt)
  <2>1. IsList /\ val' = Keep(r) /\ Return("ltrim", args, "OK", Nil)
    BY <1>2 DEF RcLTrim
  <2>2. q \in Exact /\ start \in Int /\ end \in Int
    BY <2>1, HeldList, ListTypeAssumption
  <2>3. r \in Exact /\ Held(r) = Picked(Held(q), Ranged(Len(Held(q)), start, end))
    <3> HIDE DEF q
    <3> QED
      BY <2>2, TrimHeld
  <2>4. new = Picked(Held(q), Ranged(Len(Held(q)), start, end))
    BY <2>1, BetweenIs
  <2> HIDE DEF new, r
  <2>5. Abs(val') = L!List(new)
    BY <2>1, <2>3, <2>4, KeepAbs
  <2>6. L!On("ltrim", args, new, Nil)
    BY <2>1, <2>5, Listed
  <2> QED
    BY <2>6 DEF L!LTrim, new
<1> QED
  BY <1>1, <1>2

LEMMA RangeImplements ==
  ASSUME ListInv, NEW start \in Indexes, NEW end \in Indexes, RcLRange(start, end)
  PROVE  L!LRange(start, end)
<1> DEFINE out == L!At(L!Between(start, end))
           args == <<start, end>>
<1>1. CASE NotAList("lrange", args)
  <2> HIDE DEF out
  <2>1. L!On("lrange", args, L!l, out)
    BY <1>1, NotListed
  <2> QED
    BY <2>1 DEF L!LRange, out
<1>2. CASE ~NotAList("lrange", args)
  <2> DEFINE q == val.ql
             n == q.count
             a == First(start, n)
             b == Final(end, n)
             read == TakeAll([it |-> quicklistGetIteratorAtIdx(q, 1, a), out |-> <<>>],
                             [k \in 1 .. b - a + 1 |-> k])
             o == read.out
  <2>1. IsList /\ UNCHANGED val /\ Return("lrange", args, "OK", o)
    BY <1>2 DEF RcLRange, TakeAll
  <2>2. q \in Exact /\ start \in Int /\ end \in Int
    BY <2>1, HeldList, ListTypeAssumption
  <2>3. o = Picked(Held(q), Ranged(Len(Held(q)), start, end))
    <3> HIDE DEF q
    <3> QED
      BY <2>2, RangeHeld
  <2>4. out = Picked(Held(q), Ranged(Len(Held(q)), start, end))
    BY <2>1, BetweenIs
  <2> HIDE DEF out, o
  <2>5. Abs(val') = L!List(L!l)
    BY <2>1, Unchanged
  <2>6. L!On("lrange", args, L!l, out)
    BY <2>1, <2>3, <2>4, <2>5, Listed
  <2> QED
    BY <2>6 DEF L!LRange, out
<1> QED
  BY <1>1, <1>2

\* Each command does to the sequence what Lists says, and answers what it says.
LEMMA StepImplements ==
  ASSUME ListInv, [Next]_vars
  PROVE  [L!Next]_(L!lvars)
<1>1. ASSUME NEW vals \in ValueLists,
             RcLPush(vals) \/ RcRPush(vals) \/ RcLPushx(vals) \/ RcRPushx(vals)
      PROVE  L!Next
  <2> DEFINE head == "head"
             tail == "tail"
  <2>1. \E w \in {head, tail} : pushGenericCommand(w, vals) \/ pushxGenericCommand(w, vals)
    BY <1>1 DEF RcLPush, RcRPush, RcLPushx, RcRPushx
  <2>2. PICK w \in {head, tail} : L!Push(w, vals) \/ L!Pushx(w, vals)
    BY <2>1, PushImplements
  <2> QED
    BY <2>2 DEF L!Next
<1>2. ASSUME RcLPop \/ RcRPop PROVE L!Next
  <2>1. popGenericCommand("head") \/ popGenericCommand("tail")
    BY <1>2 DEF RcLPop, RcRPop
  <2>2. L!Pop("head") \/ L!Pop("tail")
    BY <2>1, PopImplements
  <2> QED
    BY <2>2 DEF L!Next
<1>3. ASSUME NEW w \in Ends, NEW pivot \in Value, NEW v \in Value, RcLInsert(w, pivot, v)
      PROVE  L!Next
  <2>1. L!LInsert(w, pivot, v)
    BY <1>3, InsertImplements
  <2> QED
    BY <2>1 DEF L!Next, Ends
<1>4. ASSUME NEW i \in Indexes, NEW v \in Value, RcLRem(i, v) \/ RcLSet(i, v)
      PROVE  L!Next
  <2>1. L!LRem(i, v) \/ L!LSet(i, v)
    BY <1>4, RemImplements, SetImplements
  <2> QED
    BY <2>1 DEF L!Next
<1>5. ASSUME NEW i \in Indexes, NEW j \in Indexes, RcLTrim(i, j) \/ RcLRange(i, j)
      PROVE  L!Next
  <2>1. L!LTrim(i, j) \/ L!LRange(i, j)
    BY <1>5, TrimImplements, RangeImplements
  <2> QED
    BY <2>1 DEF L!Next
<1>6. ASSUME NEW i \in Indexes, RcLIndex(i) PROVE L!Next
  <2>1. L!LIndex(i)
    BY <1>6, IndexImplements
  <2> QED
    BY <2>1 DEF L!Next
<1>7. ASSUME RcLLen PROVE L!Next
  BY <1>7, LenImplements DEF L!Next
<1>8. ASSUME Vanish \/ Become PROVE L!Next
  <2>1. L!Other
    BY <1>8 DEF Vanish, Become, None, Foreign, L!Other, L!None, L!Foreign
  <2> QED
    BY <2>1 DEF L!Next
<1>9. ASSUME UNCHANGED vars PROVE UNCHANGED L!lvars
  BY <1>9 DEF vars, L!lvars
<1> QED
  BY <1>1, <1>2, <1>3, <1>4, <1>5, <1>6, <1>7, <1>8, <1>9 DEF Next

\* Whatever the nodes are and however they are split, merged and cut, every list
\* command does to the key's sequence what Lists says and returns what it says
\* (t_list.c, quicklist.c).
THEOREM ListImplementsLists == Spec => ImplementsLists
<1>1. Init => ListInv
  BY InitHolds
<1>2. ListInv /\ [Next]_vars => ListInv'
  BY StepHolds
<1>3. Init => L!Init
  BY DEF Init, L!Init, None, L!None
<1>4. ListInv /\ [Next]_vars => [L!Next]_(L!lvars)
  BY StepImplements
<1> QED
  BY <1>1, <1>2, <1>3, <1>4, PTL DEF Spec, ImplementsLists, L!Spec

===============================================================================
