----------------------------- MODULE StringProofs -----------------------------
(***************************************************************************)
(* The headers of dynamic strings, for any header types, any policy of     *)
(* reservation and any arguments: however a value came to be and grew, its *)
(* type can count what is reserved, the terminator is in its place, and no *)
(* byte is seen that nobody wrote.                                         *)
(***************************************************************************)
EXTENDS StringType, SequenceTheorems, FiniteSetTheorems, WellFoundedInduction, TLAPS

-----------------------------------------------------------------------------
(* Least elements.                                                         *)

\* A set of naturals has a least element: of the intervals that reach an
\* element of it, one is contained in no other.
LEMMA LeastNatural ==
  ASSUME NEW A \in SUBSET Nat, NEW m \in A
  PROVE  \E n \in A : \A i \in A : n <= i
<1> DEFINE U == 0 .. m
           R == StrictSubsetOrdering(U)
           T == {0 .. i : i \in {j \in A : j <= m}}
<1>1. m \in Nat /\ IsFiniteSet(U)
  BY FS_Interval
<1>2. T \subseteq SUBSET U /\ T # {}
  <2>1. \A i \in A : i <= m => 0 .. i \subseteq U
    BY <1>1
  <2>2. 0 .. m \in T
    BY <1>1
  <2> QED
    BY <2>1, <2>2
<1>3. T \subseteq FiniteSubsetsOf(U)
  <2>1. \A X \in SUBSET U : IsFiniteSet(X)
    BY <1>1, FS_Subset
  <2> QED
    BY <1>2, <2>1 DEF FiniteSubsetsOf
<1> HIDE DEF R
<1>4. IsWellFoundedOn(R, FiniteSubsetsOf(U))
  BY FS_StrictSubsetOrderingWellFounded DEF R
<1> HIDE DEF T
<1>5. PICK X \in T : \A Y \in T : ~(<<Y, X>> \in R)
  BY <1>2, <1>3, <1>4, WFMin
<1>6. PICK n \in A : n <= m /\ X = 0 .. n
  BY <1>5 DEF T
<1>7. ASSUME NEW i \in A, i < n PROVE FALSE
  <2>1. i \in Nat /\ n \in Nat /\ i <= m
    BY <1>1, <1>6, <1>7
  <2>2. 0 .. i \in T
    BY <1>7, <2>1 DEF T
  <2>3. 0 .. i \subseteq X /\ 0 .. i # X
    <3>1. n \in X /\ ~(n \in 0 .. i)
      BY <1>6, <1>7, <2>1
    <3> QED
      BY <1>6, <1>7, <2>1, <3>1
  <2>4. <<0 .. i, X>> \in R
    BY <1>2, <1>5, <2>2, <2>3 DEF R, StrictSubsetOrdering
  <2> QED
    BY <1>5, <2>2, <2>4
<1> QED
  BY <1>7

LEMMA Constants ==
  /\ TypeSize \in Seq(Nat \ {0}) /\ MaxPrealloc \in Nat /\ Unwritten \notin Int
  /\ \A t \in DOMAIN TypeSize : TypeSize[t] \in Nat \ {0}
  /\ \A t, u \in DOMAIN TypeSize : t < u => TypeSize[t] < TypeSize[u]
  /\ DOMAIN TypeSize = 1 .. Len(TypeSize) /\ Len(TypeSize) \in Nat
<1>1. TypeSize \in Seq(Nat \ {0})
  BY SdsAssumption
<1>2. TypeSize \in [1 .. Len(TypeSize) -> Nat \ {0}] /\ Len(TypeSize) \in Nat
  BY <1>1, LenProperties
<1> QED
  BY <1>1, <1>2, SdsAssumption

-----------------------------------------------------------------------------
(* Header types.                                                           *)

Type == 1 .. Len(TypeSize) + 1

\* The fields of a header of the type can hold the number.
Fits(type, n) == type \in DOMAIN TypeSize => n < TypeSize[type]

LEMMA StoredFits ==
  ASSUME NEW type, NEW n \in Nat, Fits(type, n)
  PROVE  Stored(type, n) = n
<1>1. CASE type \in DOMAIN TypeSize
  <2>1. TypeSize[type] \in Nat \ {0} /\ n < TypeSize[type]
    BY <1>1, Constants DEF Fits
  <2> DEFINE m == TypeSize[type]
  <2>2. m \in Nat \ {0} /\ n < m
    BY <2>1
  <2> HIDE DEF m
  <2>3. (n % m) = n
    BY <2>2
  <2> QED
    BY <1>1, <2>3 DEF Stored, m
<1> QED
  BY <1>1 DEF Stored

\* The type that is asked for is one that fits.
LEMMA ReqTypeFits ==
  ASSUME NEW n \in Nat
  PROVE  sdsReqType(n) \in Type /\ Fits(sdsReqType(n), n)
<1> DEFINE T == {Len(TypeSize) + 1} \cup {t \in DOMAIN TypeSize : n < TypeSize[t]}
<1>1. T \subseteq Nat /\ Len(TypeSize) + 1 \in T /\ T \subseteq Type
  BY Constants DEF Type
<1>2. PICK t \in T : \A u \in T : t <= u
  BY <1>1, LeastNatural
<1>3. sdsReqType(n) \in T
  <2>1. Min(T) \in T
    BY <1>2 DEF Min
  <2> QED
    BY <2>1 DEF sdsReqType
<1> QED
  BY <1>1, <1>3, Constants DEF Fits

\* So does the one for a string that is appended to, and it counts free space.
LEMMA AppendTypeFits ==
  ASSUME NEW n \in Nat
  PROVE  AppendType(n) \in Nat /\ AppendType(n) # Type5 /\ Fits(AppendType(n), n)
<1> DEFINE t == sdsReqType(n)
<1>1. t \in Nat \ {0} /\ Fits(t, n)
  <2>1. t \in Type /\ Fits(t, n)
    BY ReqTypeFits
  <2>2. Type \subseteq Nat \ {0}
    BY Constants DEF Type
  <2> QED
    BY <2>1, <2>2
<1> HIDE DEF t
<1>2. AppendType(n) = IF t >= Type8 THEN t ELSE Type8
  <2>1. Max({Type8, t}) = IF t >= Type8 THEN t ELSE Type8
    BY <1>1 DEF Max, Type8
  <2> QED
    BY <2>1 DEF AppendType, t
<1>3. CASE t >= Type8
  BY <1>1, <1>2, <1>3 DEF Type5, Type8
<1>4. CASE t < Type8
  <2>1. t = 1 /\ AppendType(n) = 2
    BY <1>1, <1>2, <1>4 DEF Type8
  <2>2. ASSUME 2 \in DOMAIN TypeSize PROVE n < TypeSize[2]
    <3>1. 1 \in DOMAIN TypeSize
      BY <2>2, Constants
    <3>2. TypeSize[1] < TypeSize[2] /\ TypeSize[1] \in Nat /\ TypeSize[2] \in Nat
      BY <2>2, <3>1, Constants
    <3>3. n < TypeSize[1]
      BY <1>1, <2>1, <3>1 DEF Fits
    <3> QED
      BY <3>2, <3>3
  <2> QED
    BY <2>1, <2>2 DEF Fits, Type5
<1> QED
  BY <1>1, <1>3, <1>4 DEF Type8

-----------------------------------------------------------------------------
(* Strings.                                                                *)

Byte == Int \cup {Unwritten}

\* The inductive form of Sound: the type can count what is reserved, and a
\* string of type 5 has nothing in reserve.
SdsOK(s) ==
  /\ s = [type |-> s.type, len |-> s.len, alloc |-> s.alloc, buf |-> s.buf]
  /\ s.type \in Nat /\ s.len \in Nat /\ s.alloc \in Nat
  /\ s.len <= s.alloc /\ Fits(s.type, s.alloc)
  /\ s.type = Type5 => s.alloc = s.len
  /\ s.buf \in Seq(Byte) /\ Len(s.buf) = s.alloc + 1
  /\ s.buf[s.len + 1] = 0
  /\ \A i \in 1 .. s.len : s.buf[i] \in Int

LEMMA OKIsSound ==
  ASSUME NEW s, SdsOK(s)
  PROVE  Sound(s)
  BY Constants DEF SdsOK, Sound

LEMMA ContentType ==
  ASSUME NEW s, SdsOK(s)
  PROVE  sdsContent(s) \in Seq(Int) /\ Len(sdsContent(s)) = s.len
<1>1. s.len \in Nat /\ \A i \in 1 .. s.len : s.buf[i] \in Int
  BY DEF SdsOK
<1>2. /\ SubSeq(s.buf, 1, s.len) \in Seq(Int)
      /\ Len(SubSeq(s.buf, 1, s.len)) = IF 1 <= s.len THEN s.len - 1 + 1 ELSE 0
  BY <1>1, SubSeqProperties
<1> QED
  BY <1>1, <1>2 DEF sdsContent

\* A buffer that holds the bytes and their terminator.
LEMMA Terminated ==
  ASSUME NEW bytes \in Seq(Int)
  PROVE  /\ Append(bytes, 0) \in Seq(Byte) /\ Len(Append(bytes, 0)) = Len(bytes) + 1
         /\ Append(bytes, 0)[Len(bytes) + 1] = 0
         /\ \A i \in 1 .. Len(bytes) : Append(bytes, 0)[i] \in Int
         /\ Len(bytes) \in Nat
<1>1. Len(bytes) \in Nat /\ \A i \in 1 .. Len(bytes) : bytes[i] \in Int
  BY LenProperties, ElementOfSeq
<1>2. bytes \in Seq(Byte) /\ 0 \in Byte
  BY SeqMonotonic DEF Byte
<1>3. /\ Append(bytes, 0) \in Seq(Byte) /\ Len(Append(bytes, 0)) = Len(bytes) + 1
      /\ \A i \in 1 .. Len(bytes) : Append(bytes, 0)[i] = bytes[i]
      /\ Append(bytes, 0)[Len(bytes) + 1] = 0
  BY <1>2, AppendProperties
<1> QED
  BY <1>1, <1>3

\* A fresh string of a type that fits.
LEMMA FreshOK ==
  ASSUME NEW bytes \in Seq(Int), NEW type \in Nat, Fits(type, Len(bytes))
  PROVE  /\ Stored(type, Len(bytes)) = Len(bytes)
         /\ SdsOK([type |-> type, len |-> Len(bytes), alloc |-> Len(bytes),
                   buf |-> Append(bytes, 0)])
<1>1. Len(bytes) \in Nat
  BY Terminated
<1>2. Stored(type, Len(bytes)) = Len(bytes)
  BY <1>1, StoredFits
<1> DEFINE s == [type |-> type, len |-> Len(bytes), alloc |-> Len(bytes),
                 buf |-> Append(bytes, 0)]
<1>3. /\ s = [type |-> s.type, len |-> s.len, alloc |-> s.alloc, buf |-> s.buf]
      /\ s.type = type /\ s.len = Len(bytes) /\ s.alloc = Len(bytes)
      /\ s.buf = Append(bytes, 0)
  OBVIOUS
<1> HIDE DEF s
<1>4. SdsOK(s)
  BY <1>1, <1>3, Terminated DEF SdsOK
<1> QED
  BY <1>2, <1>4 DEF s

LEMMA NewLenOK ==
  ASSUME NEW bytes \in Seq(Int)
  PROVE  SdsOK(sdsnewlen(bytes)) /\ sdsnewlen(bytes).len = Len(bytes)
<1> DEFINE n    == Len(bytes)
           type == IF n = 0 THEN Type8 ELSE sdsReqType(n)
<1>1. n \in Nat
  BY LenProperties
<1>2. type \in Nat /\ Fits(type, n)
  <2>1. CASE n = 0
    BY <2>1, Constants DEF Type8, Fits
  <2>2. CASE n # 0
    BY <1>1, <2>2, ReqTypeFits, Constants DEF Type
  <2> QED
    BY <2>1, <2>2
<1>3. sdsnewlen(bytes) = [type |-> type, len |-> Stored(type, n),
                          alloc |-> Stored(type, n), buf |-> Append(bytes, 0)]
  BY DEF sdsnewlen
<1> HIDE DEF type
<1>4. /\ Stored(type, n) = n
      /\ SdsOK([type |-> type, len |-> n, alloc |-> n, buf |-> Append(bytes, 0)])
  BY <1>2, FreshOK
<1> QED
  BY <1>3, <1>4

LEMMA FillType ==
  ASSUME NEW n \in Nat, NEW byte \in Byte
  PROVE  /\ Fill(n, byte) \in Seq(Byte) /\ Len(Fill(n, byte)) = n
         /\ \A i \in 1 .. n : Fill(n, byte)[i] = byte
         /\ byte \in Int => Fill(n, byte) \in Seq(Int)
<1> DEFINE f == [i \in 1 .. n |-> byte]
<1>1. f \in Seq(Byte) /\ (byte \in Int => f \in Seq(Int)) /\ Len(f) = n
  OBVIOUS
<1>2. \A i \in 1 .. n : f[i] = byte
  OBVIOUS
<1>3. Fill(n, byte) = f
  BY <1>1, ConcatEmptySeq DEF Fill
<1> QED
  BY <1>1, <1>2, <1>3

\* A buffer with bytes written into it.
Spliced(buf, at, bytes) ==
  SubSeq(buf, 1, at) \o bytes \o SubSeq(buf, at + Len(bytes) + 1, Len(buf))

Overwritten(new, buf, at, bytes) ==
  /\ new \in Seq(Byte) /\ Len(new) = Len(buf)
  /\ \A i \in 1 .. Len(buf) :
       new[i] = IF i \in at + 1 .. at + Len(bytes) THEN bytes[i - at] ELSE buf[i]
  /\ \A i \in at + 1 .. at + Len(bytes) : new[i] \in Int

\* Bytes that are written within the buffer leave the rest as it is.
LEMMA Written ==
  ASSUME NEW buf \in Seq(Byte), NEW at \in Nat, NEW bytes \in Seq(Int),
         at + Len(bytes) <= Len(buf)
  PROVE  Overwritten(Spliced(buf, at, bytes), buf, at, bytes)
<1> DEFINE n == Len(bytes)
           m == Len(buf)
           a == SubSeq(buf, 1, at)
           c == SubSeq(buf, at + n + 1, m)
<1>1. n \in Nat /\ m \in Nat /\ at + n <= m
  BY LenProperties
<1>2. \A i \in 1 .. m : buf[i] \in Byte
  BY ElementOfSeq
<1>3. \A i \in 1 .. n : bytes[i] \in Int
  BY ElementOfSeq
<1>4. bytes \in Seq(Byte)
  BY SeqMonotonic DEF Byte
<1> HIDE DEF n, m
<1>5. a \in Seq(Byte) /\ Len(a) = at /\ \A i \in 1 .. at : a[i] = buf[i]
  <2>1. \A i \in 1 .. at : buf[i] \in Byte
    BY <1>1, <1>2
  <2>2. /\ a \in Seq(Byte) /\ Len(a) = IF 1 <= at THEN at - 1 + 1 ELSE 0
        /\ \A i \in 1 .. at - 1 + 1 : a[i] = buf[1 + i - 1]
    BY <2>1, SubSeqProperties
  <2> HIDE DEF a
  <2> QED
    BY <2>2
<1>6. /\ c \in Seq(Byte) /\ Len(c) = m - at - n
      /\ \A i \in 1 .. m - at - n : c[i] = buf[at + n + i]
  <2>1. \A i \in at + n + 1 .. m : buf[i] \in Byte
    BY <1>1, <1>2
  <2>2. /\ c \in Seq(Byte)
        /\ Len(c) = IF at + n + 1 <= m THEN m - (at + n + 1) + 1 ELSE 0
        /\ \A i \in 1 .. m - (at + n + 1) + 1 : c[i] = buf[at + n + 1 + i - 1]
    BY <1>1, <2>1, SubSeqProperties
  <2> HIDE DEF c
  <2> QED
    BY <1>1, <2>2
<1> HIDE DEF a, c
<1> DEFINE ab == a \o bytes
<1>7. /\ ab \in Seq(Byte) /\ Len(ab) = at + n
      /\ \A i \in 1 .. at + n : ab[i] = IF i <= at THEN a[i] ELSE bytes[i - at]
  BY <1>4, <1>5, ConcatProperties DEF n
<1> HIDE DEF ab
<1> DEFINE new == ab \o c
<1>8. /\ new \in Seq(Byte) /\ Len(new) = m
      /\ \A i \in 1 .. m : new[i] = IF i <= at + n THEN ab[i] ELSE c[i - (at + n)]
  <2>1. /\ new \in Seq(Byte) /\ Len(new) = Len(ab) + Len(c)
        /\ \A i \in 1 .. Len(ab) + Len(c) :
              new[i] = IF i <= Len(ab) THEN ab[i] ELSE c[i - Len(ab)]
    <3>1. ab \in Seq(Byte) /\ c \in Seq(Byte)
      BY <1>6, <1>7
    <3> QED
      BY <3>1, ConcatProperties
  <2>2. Len(ab) + Len(c) = m /\ Len(ab) = at + n
    BY <1>1, <1>6, <1>7
  <2> HIDE DEF new
  <2> QED
    BY <2>1, <2>2
<1> HIDE DEF new
<1>9. \A i \in 1 .. m :
        new[i] = IF i \in at + 1 .. at + n THEN bytes[i - at] ELSE buf[i]
  <2> TAKE i \in 1 .. m
  <2>1. CASE i <= at
    BY <1>1, <1>5, <1>7, <1>8, <2>1
  <2>2. CASE at < i /\ i <= at + n
    BY <1>1, <1>7, <1>8, <2>2
  <2>3. CASE at + n < i
    <3>1. i - (at + n) \in 1 .. m - at - n
      BY <1>1, <2>3
    <3>2. at + n + (i - (at + n)) = i
      BY <1>1
    <3> QED
      BY <1>1, <1>6, <1>8, <2>3, <3>1, <3>2
  <2> QED
    BY <1>1, <2>1, <2>2, <2>3
<1>10. \A i \in at + 1 .. at + n : new[i] \in Int
  <2> TAKE i \in at + 1 .. at + n
  <2>1. i \in 1 .. m /\ i - at \in 1 .. n
    BY <1>1
  <2> QED
    BY <1>3, <1>9, <2>1
<1> QED
  BY <1>8, <1>9, <1>10 DEF new, ab, a, c, n, m, Spliced, Overwritten

\* What is written over the end of a string, terminator included, makes it
\* longer or leaves it as long as it was.
LEMMA ExtendOK ==
  ASSUME NEW s, SdsOK(s), NEW bytes \in Seq(Int), NEW n \in Nat,
         Len(bytes) = n + 1, bytes[n + 1] = 0, s.len + n <= s.alloc,
         s.type = Type5 => n = 0
  PROVE  /\ SdsOK(sdssetlen(Write(s, s.len, bytes), s.len + n))
         /\ sdssetlen(Write(s, s.len, bytes), s.len + n).len = s.len + n
<1> DEFINE at  == s.len
           new == Spliced(s.buf, at, bytes)
           w   == Write(s, at, bytes)
           r   == sdssetlen(w, at + n)
<1>1. /\ s = [type |-> s.type, len |-> s.len, alloc |-> s.alloc, buf |-> s.buf]
      /\ s.type \in Nat /\ at \in Nat /\ s.alloc \in Nat /\ at + n <= s.alloc
      /\ s.buf \in Seq(Byte) /\ Len(s.buf) = s.alloc + 1
  BY DEF SdsOK
<1>2. /\ new \in Seq(Byte) /\ Len(new) = s.alloc + 1
      /\ \A i \in 1 .. s.alloc + 1 :
           new[i] = IF i \in at + 1 .. at + Len(bytes) THEN bytes[i - at] ELSE s.buf[i]
      /\ \A i \in at + 1 .. at + Len(bytes) : new[i] \in Int
  <2> DEFINE b == s.buf
  <2>1. b \in Seq(Byte) /\ Len(b) = s.alloc + 1 /\ at \in Nat /\ at + Len(bytes) <= Len(b)
    BY <1>1
  <2> HIDE DEF at, b
  <2>2. Overwritten(Spliced(b, at, bytes), b, at, bytes)
    BY <2>1, Written
  <2> QED
    BY <2>1, <2>2 DEF b, Overwritten
<1>3. w = [s EXCEPT !.buf = new]
  BY DEF Write, Spliced
<1> HIDE DEF new
<1>4. w = [type |-> s.type, len |-> s.len, alloc |-> s.alloc, buf |-> new]
  BY <1>1, <1>3
<1> HIDE DEF w
<1>5. Fits(s.type, at + n) /\ Stored(s.type, at + n) = at + n
  <2>1. Fits(s.type, at + n)
    BY <1>1, Constants DEF Fits, SdsOK
  <2> QED
    BY <1>1, <2>1, StoredFits
<1>6. r = [type |-> s.type, len |-> at + n,
           alloc |-> IF s.type = Type5 THEN at + n ELSE s.alloc, buf |-> new]
  <2>1. r = [w EXCEPT !.len = Stored(w.type, at + n),
                      !.alloc = IF w.type = Type5 THEN Stored(Type5, at + n) ELSE @]
    BY DEF sdssetlen
  <2> HIDE DEF r
  <2> QED
    BY <1>4, <1>5, <2>1
<1> HIDE DEF r
<1>7. /\ r = [type |-> r.type, len |-> r.len, alloc |-> r.alloc, buf |-> r.buf]
      /\ r.type = s.type /\ r.len = at + n /\ r.alloc = s.alloc /\ r.buf = new
  <2>1. s.type = Type5 => at + n = s.alloc
    BY <1>1 DEF SdsOK
  <2> QED
    BY <1>6, <2>1
<1>8. new[at + n + 1] = 0
  <2> DEFINE j == at + n + 1
  <2>1. j \in 1 .. s.alloc + 1 /\ j \in at + 1 .. at + Len(bytes) /\ j - at = n + 1
    BY <1>1
  <2> HIDE DEF j
  <2>2. new[j] = bytes[j - at]
    BY <1>2, <2>1
  <2> QED
    BY <2>1, <2>2 DEF j
<1>9. \A i \in 1 .. at + n : new[i] \in Int
  <2> TAKE i \in 1 .. at + n
  <2>1. CASE i <= at
    <3>1. new[i] = s.buf[i]
      BY <1>1, <1>2, <2>1
    <3> QED
      BY <1>1, <2>1, <3>1 DEF SdsOK
  <2>2. CASE i > at
    BY <1>1, <1>2, <2>2
  <2> QED
    BY <1>1, <2>1, <2>2
<1>10. s.type = Type5 => s.alloc = at + n
  BY <1>1 DEF SdsOK
<1> QED
  BY <1>1, <1>2, <1>7, <1>8, <1>9, <1>10 DEF SdsOK, r, w

\* Bytes written inside a string.
LEMMA OverwriteOK ==
  ASSUME NEW s, SdsOK(s), NEW at \in Nat, NEW bytes \in Seq(Int),
         at + Len(bytes) <= s.len
  PROVE  SdsOK(Write(s, at, bytes))
<1> DEFINE new == Spliced(s.buf, at, bytes)
           w   == Write(s, at, bytes)
<1>1. /\ s = [type |-> s.type, len |-> s.len, alloc |-> s.alloc, buf |-> s.buf]
      /\ s.len \in Nat /\ s.alloc \in Nat /\ s.len <= s.alloc
      /\ s.buf \in Seq(Byte) /\ Len(s.buf) = s.alloc + 1 /\ Len(bytes) \in Nat
  BY LenProperties DEF SdsOK
<1>2. /\ new \in Seq(Byte) /\ Len(new) = s.alloc + 1
      /\ \A i \in 1 .. s.alloc + 1 :
           new[i] = IF i \in at + 1 .. at + Len(bytes) THEN bytes[i - at] ELSE s.buf[i]
      /\ \A i \in at + 1 .. at + Len(bytes) : new[i] \in Int
  <2>1. at + Len(bytes) <= Len(s.buf)
    BY <1>1
  <2>2. Overwritten(new, s.buf, at, bytes)
    BY <1>1, <2>1, Written
  <2> QED
    BY <1>1, <2>2 DEF Overwritten
<1>3. w = [s EXCEPT !.buf = new]
  BY DEF Write, Spliced
<1> HIDE DEF new
<1>4. w = [type |-> s.type, len |-> s.len, alloc |-> s.alloc, buf |-> new]
  BY <1>1, <1>3
<1> HIDE DEF w
<1>5. /\ w = [type |-> w.type, len |-> w.len, alloc |-> w.alloc, buf |-> w.buf]
      /\ w.type = s.type /\ w.len = s.len /\ w.alloc = s.alloc /\ w.buf = new
  BY <1>4
<1>6. new[s.len + 1] = 0
  <2>1. s.len + 1 \in 1 .. s.alloc + 1 /\ s.len + 1 \notin at + 1 .. at + Len(bytes)
    BY <1>1
  <2>2. s.buf[s.len + 1] = 0
    BY DEF SdsOK
  <2> QED
    BY <1>2, <2>1, <2>2
<1>7. \A i \in 1 .. s.len : new[i] \in Int
  <2> TAKE i \in 1 .. s.len
  <2>1. i \in 1 .. s.alloc + 1 /\ s.buf[i] \in Int
    BY <1>1 DEF SdsOK
  <2> QED
    BY <1>2, <2>1
<1> QED
  BY <1>1, <1>2, <1>5, <1>6, <1>7 DEF SdsOK, w

\* A string that was made room for holds what it held and has the room.
LEMMA MakeRoomOK ==
  ASSUME NEW s, SdsOK(s), NEW addlen \in Nat
  PROVE  LET r == sdsMakeRoomFor(s, addlen)
         IN  /\ SdsOK(r) /\ r.len = s.len /\ s.len + addlen <= r.alloc
             /\ r.type = Type5 => addlen = 0
<1> DEFINE needed == s.len + addlen
           newlen == IF needed < MaxPrealloc THEN 2 * needed ELSE needed + MaxPrealloc
           type   == AppendType(newlen)
           room   == SubSeq(s.buf, 1, s.len + 1) \o Fill(newlen - s.len, Unwritten)
           r      == sdsMakeRoomFor(s, addlen)
<1>1. /\ s.len \in Nat /\ s.alloc \in Nat /\ s.len <= s.alloc
      /\ s.buf \in Seq(Byte) /\ Len(s.buf) = s.alloc + 1
      /\ s.buf[s.len + 1] = 0 /\ \A i \in 1 .. s.len : s.buf[i] \in Int
      /\ s.type = Type5 => s.alloc = s.len
  BY DEF SdsOK
<1>2. CASE sdsavail(s) >= addlen
  <2>1. r = s
    BY <1>2 DEF sdsMakeRoomFor
  <2>2. s.len + addlen <= s.alloc /\ (s.type = Type5 => addlen = 0)
    BY <1>1, <1>2 DEF sdsavail
  <2> QED
    BY <2>1, <2>2
<1>3. CASE ~(sdsavail(s) >= addlen)
  <2>1. newlen \in Nat /\ needed <= newlen /\ s.len <= newlen /\ newlen - s.len \in Nat
    <3>1. MaxPrealloc \in Nat /\ s.len \in Nat
      BY <1>1, Constants
    <3> QED
      BY <3>1
  <2>2. r = [type |-> type, len |-> Stored(type, s.len), alloc |-> Stored(type, newlen),
             buf |-> room]
    BY <1>3 DEF sdsMakeRoomFor, CountedSize
  <2> HIDE DEF newlen
  <2>3. type \in Nat /\ type # Type5 /\ Fits(type, newlen)
    BY <2>1, AppendTypeFits
  <2> HIDE DEF type
  <2>4. Fits(type, s.len)
    BY <1>1, <2>1, <2>3, Constants DEF Fits
  <2>5. Stored(type, s.len) = s.len /\ Stored(type, newlen) = newlen
    BY <1>1, <2>1, <2>3, <2>4, StoredFits
  <2> DEFINE a == SubSeq(s.buf, 1, s.len + 1)
             c == Fill(newlen - s.len, Unwritten)
  <2>6. /\ a \in Seq(Byte) /\ Len(a) = s.len + 1
        /\ \A i \in 1 .. s.len + 1 : a[i] = s.buf[i]
    <3> DEFINE m == s.len + 1
               b == s.buf
    <3>1. m \in Int /\ 1 <= m /\ \A i \in 1 .. m : b[i] \in Byte
      BY <1>1, ElementOfSeq
    <3> HIDE DEF m, b
    <3>2. /\ SubSeq(b, 1, m) \in Seq(Byte)
          /\ Len(SubSeq(b, 1, m)) = IF 1 <= m THEN m - 1 + 1 ELSE 0
          /\ \A i \in 1 .. m - 1 + 1 : SubSeq(b, 1, m)[i] = b[1 + i - 1]
      BY <3>1, SubSeqProperties
    <3>3. /\ SubSeq(b, 1, m) \in Seq(Byte) /\ Len(SubSeq(b, 1, m)) = m
          /\ \A i \in 1 .. m : SubSeq(b, 1, m)[i] = b[i]
      BY <3>1, <3>2
    <3> QED
      BY <3>3 DEF m, b
  <2>7. c \in Seq(Byte) /\ Len(c) = newlen - s.len
    BY <2>1, FillType DEF Byte
  <2> HIDE DEF a, c
  <2>8. /\ room \in Seq(Byte) /\ Len(room) = newlen + 1
        /\ \A i \in 1 .. s.len + 1 : room[i] = s.buf[i]
    <3>1. /\ a \o c \in Seq(Byte) /\ Len(a \o c) = Len(a) + Len(c)
          /\ \A i \in 1 .. Len(a) + Len(c) :
                (a \o c)[i] = IF i <= Len(a) THEN a[i] ELSE c[i - Len(a)]
      <4>1. a \in Seq(Byte) /\ c \in Seq(Byte)
        BY <2>6, <2>7
      <4> QED
        BY <4>1, ConcatProperties
    <3>2. room = a \o c
      BY DEF a, c
    <3>3. Len(a) = s.len + 1 /\ Len(a) + Len(c) = newlen + 1 /\ s.len + 1 <= newlen + 1
      <4>1. Len(a) = s.len + 1 /\ Len(c) = newlen - s.len
        BY <2>6, <2>7
      <4>2. s.len \in Nat /\ newlen \in Nat /\ s.len <= newlen
        BY <1>1, <2>1
      <4> QED
        BY <4>1, <4>2
    <3>4. ASSUME NEW i \in 1 .. s.len + 1 PROVE room[i] = s.buf[i]
      <4>1. i \in 1 .. Len(a) + Len(c) /\ i <= Len(a)
        BY <1>1, <2>1, <3>3
      <4>2. (a \o c)[i] = a[i] /\ a[i] = s.buf[i]
        BY <2>6, <3>1, <4>1
      <4> QED
        BY <3>2, <4>2
    <3> QED
      BY <3>1, <3>2, <3>3, <3>4
  <2> HIDE DEF room, r
  <2>9. /\ r = [type |-> r.type, len |-> r.len, alloc |-> r.alloc, buf |-> r.buf]
        /\ r.type = type /\ r.len = s.len /\ r.alloc = newlen /\ r.buf = room
    BY <2>2, <2>5
  <2>10. room[s.len + 1] = 0 /\ \A i \in 1 .. s.len : room[i] \in Int
    <3>1. s.len + 1 \in 1 .. s.len + 1
      BY <1>1
    <3>2. room[s.len + 1] = s.buf[s.len + 1]
      BY <2>8, <3>1
    <3>3. ASSUME NEW i \in 1 .. s.len PROVE room[i] \in Int
      <4>1. i \in 1 .. s.len + 1
        BY <1>1
      <4>2. room[i] = s.buf[i]
        BY <2>8, <4>1
      <4> QED
        BY <1>1, <4>2
    <3> QED
      BY <1>1, <3>2, <3>3
  <2>11. SdsOK(r)
    BY <1>1, <2>1, <2>3, <2>8, <2>9, <2>10 DEF SdsOK
  <2>12. s.len + addlen <= r.alloc
    BY <2>1, <2>9
  <2> QED
    BY <2>3, <2>9, <2>11, <2>12 DEF r
<1> QED
  BY <1>2, <1>3

LEMMA GrowZeroOK ==
  ASSUME NEW s, SdsOK(s), NEW len \in Nat
  PROVE  /\ SdsOK(sdsgrowzero(s, len))
         /\ sdsgrowzero(s, len).len = IF len <= s.len THEN s.len ELSE len
<1>1. s.len \in Nat
  BY DEF SdsOK
<1>2. CASE len <= s.len
  BY <1>2 DEF sdsgrowzero
<1>3. CASE ~(len <= s.len)
  <2> DEFINE n     == len - s.len
             r     == sdsMakeRoomFor(s, n)
             zeros == Fill(n + 1, 0)
  <2>1. n \in Nat /\ n # 0 /\ s.len + n = len
    BY <1>1, <1>3
  <2>2. sdsgrowzero(s, len) = sdssetlen(Write(r, s.len, zeros), len)
    BY <1>3, <2>1 DEF sdsgrowzero
  <2> HIDE DEF n
  <2>3. SdsOK(r) /\ r.len = s.len /\ s.len + n <= r.alloc /\ r.type # Type5
    BY <2>1, MakeRoomOK
  <2>4. zeros \in Seq(Int) /\ Len(zeros) = n + 1 /\ zeros[n + 1] = 0
    <3>1. n + 1 \in Nat /\ 0 \in Byte /\ 0 \in Int /\ n + 1 \in 1 .. n + 1
      BY <2>1 DEF Byte
    <3> QED
      BY <3>1, FillType
  <2> HIDE DEF r, zeros
  <2>5. /\ SdsOK(sdssetlen(Write(r, r.len, zeros), r.len + n))
        /\ sdssetlen(Write(r, r.len, zeros), r.len + n).len = r.len + n
    BY <2>1, <2>3, <2>4, ExtendOK
  <2> QED
    BY <1>3, <2>1, <2>2, <2>3, <2>5
<1> QED
  BY <1>2, <1>3

LEMMA CatLenOK ==
  ASSUME NEW s, SdsOK(s), NEW bytes \in Seq(Int)
  PROVE  SdsOK(sdscatlen(s, bytes))
<1> DEFINE n == Len(bytes)
           r == sdsMakeRoomFor(s, n)
           w == Append(bytes, 0)
<1>1. n \in Nat
  BY LenProperties
<1>2. sdscatlen(s, bytes) = sdssetlen(Write(r, s.len, w), s.len + n)
  BY DEF sdscatlen
<1>3. w \in Seq(Int) /\ Len(w) = n + 1 /\ w[n + 1] = 0
  BY AppendProperties
<1> HIDE DEF n, w
<1>4. SdsOK(r) /\ r.len = s.len /\ s.len + n <= r.alloc /\ (r.type = Type5 => n = 0)
  BY <1>1, MakeRoomOK
<1> HIDE DEF r
<1>5. SdsOK(sdssetlen(Write(r, r.len, w), r.len + n))
  BY <1>1, <1>3, <1>4, ExtendOK
<1> QED
  BY <1>2, <1>4, <1>5

-----------------------------------------------------------------------------
(* Objects.                                                                *)

\* A number, or bytes in a string whose header is right.
ObjOK(o) ==
  /\ o.enc \in {"int", "embstr", "raw"}
  /\ o.enc = "int" => o.num \in DOMAIN Digits
  /\ o.enc # "int" => SdsOK(o.s)

LEMMA RawOK ==
  ASSUME NEW s, SdsOK(s)
  PROVE  ObjOK(Raw(s)) /\ Raw(s).s = s
  BY DEF ObjOK, Raw

LEMMA CreateOK ==
  ASSUME NEW bytes \in Seq(Int)
  PROVE  ObjOK(createStringObject(bytes))
<1> DEFINE n == Len(bytes)
<1>1. n \in Nat
  BY LenProperties
<1>2. CASE n <= EmbedLimit
  <2>1. Fits(Type8, n)
    BY <1>1, <1>2, Constants, StringAssumption DEF Fits
  <2>2. /\ Stored(Type8, n) = n
        /\ SdsOK([type |-> Type8, len |-> n, alloc |-> n, buf |-> Append(bytes, 0)])
    BY <2>1, FreshOK DEF Type8
  <2> DEFINE s == [type |-> Type8, len |-> n, alloc |-> n, buf |-> Append(bytes, 0)]
  <2>3. createStringObject(bytes) = [enc |-> "embstr", s |-> s]
    BY <1>2, <2>2 DEF createStringObject
  <2>4. SdsOK(s)
    BY <2>2
  <2> HIDE DEF s
  <2> QED
    BY <2>3, <2>4 DEF ObjOK
<1>3. CASE ~(n <= EmbedLimit)
  BY <1>3, NewLenOK, RawOK DEF createStringObject
<1> QED
  BY <1>2, <1>3

\* The bytes a command sees are numbers, in any encoding.
LEMMA BytesType ==
  ASSUME NEW o, ObjOK(o)
  PROVE  Bytes(o) \in Seq(Int)
  BY ContentType, StringAssumption DEF ObjOK, Bytes

LEMMA UnshareOK ==
  ASSUME NEW o, ObjOK(o), NEW shared \in BOOLEAN
  PROVE  LET u == dbUnshareStringValue(o, shared)
         IN  ObjOK(u) /\ u.enc = "raw" /\ SdsOK(u.s)
<1>1. CASE shared \/ o.enc # "raw"
  <2>1. SdsOK(sdsnewlen(Bytes(o)))
    BY BytesType, NewLenOK
  <2> QED
    BY <1>1, <2>1, RawOK DEF dbUnshareStringValue, Raw
<1>2. CASE ~(shared \/ o.enc # "raw")
  BY <1>2 DEF dbUnshareStringValue, ObjOK
<1> QED
  BY <1>1, <1>2

-----------------------------------------------------------------------------
(* The commands.                                                           *)

\* The inductive invariant.
StringInv ==
  /\ val.type \in {"none", "list", "string"}
  /\ IsString => ObjOK(val.o)

LEMMA PutInv ==
  ASSUME NEW cmd, NEW args, NEW o, NEW out, ObjOK(o), Put(cmd, args, o, out)
  PROVE  StringInv'
<1>1. val' = [type |-> "string", o |-> o]
  BY DEF Put, Str
<1>2. val'.type = "string" /\ val'.o = o
  BY <1>1
<1> QED
  BY <1>2 DEF StringInv, IsString

LEMMA SameInv ==
  ASSUME StringInv, UNCHANGED val
  PROVE  StringInv'
  BY DEF StringInv, IsString

LEMMA SetInv ==
  ASSUME StringInv, NEW text \in Texts, RcSet(text)
  PROVE  StringInv'
<1>1. text \in Seq(Int)
  BY StringAssumption
<1> QED
  BY <1>1, CreateOK, PutInv DEF RcSet

LEMMA NumberInv ==
  ASSUME StringInv, NEW n \in DOMAIN Digits, SetNumber(n)
  PROVE  StringInv'
<1>1. ObjOK(createStringObjectFromLongLong(n))
  BY DEF ObjOK, createStringObjectFromLongLong
<1> QED
  BY <1>1, PutInv DEF SetNumber

LEMMA AppendInv ==
  ASSUME StringInv, NEW text \in Texts, appendCommand(text)
  PROVE  StringInv'
<1>1. text \in Seq(Int)
  BY StringAssumption
<1>2. CASE val.type = "none"
  BY <1>1, <1>2, CreateOK, PutInv DEF appendCommand
<1>3. CASE val.type # "none" /\ UNCHANGED val
  BY <1>3, SameInv
<1>4. CASE val.type # "none" /\ ~UNCHANGED val
  <2>1. PICK shared \in BOOLEAN :
          LET s == sdscatlen(dbUnshareStringValue(val.o, shared).s, text)
          IN  Put("append", text, Raw(s), s.len)
    BY <1>4 DEF appendCommand, Fail
  <2>2. ObjOK(val.o)
    BY <1>4 DEF appendCommand, Fail, StringInv
  <2> DEFINE u == dbUnshareStringValue(val.o, shared)
             s == sdscatlen(u.s, text)
  <2>3. SdsOK(u.s)
    BY <2>2, UnshareOK
  <2>4. ObjOK(Raw(s))
    BY <1>1, <2>3, CatLenOK, RawOK
  <2> QED
    BY <2>1, <2>4, PutInv
<1> QED
  BY <1>2, <1>3, <1>4

LEMMA SetRangeInv ==
  ASSUME StringInv, NEW offset \in Offsets, NEW text \in Texts, setrangeCommand(offset, text)
  PROVE  StringInv'
<1> DEFINE args == <<offset, text>>
           end  == offset + Len(text)
<1>1. text \in Seq(Int) /\ Len(text) \in Nat /\ offset \in Int
  BY StringAssumption, LenProperties
<1>2. CASE UNCHANGED val
  BY <1>2, SameInv
<1>3. CASE ~UNCHANGED val
  <2>1. offset \in Nat /\ end \in Nat /\ val.type # "list" /\ text # <<>>
    BY <1>1, <1>3 DEF setrangeCommand, Fail, Answer
  <2>2. PICK shared \in BOOLEAN :
          LET o == IF IsString THEN dbUnshareStringValue(val.o, shared)
                   ELSE Raw(sdsnewlen(<<>>))
              s == Write(sdsgrowzero(o.s, end), offset, text)
          IN  Put("setrange", args, Raw(s), s.len)
    BY <1>3 DEF setrangeCommand, Fail, Answer
  <2> DEFINE o == IF IsString THEN dbUnshareStringValue(val.o, shared)
                  ELSE Raw(sdsnewlen(<<>>))
             g == sdsgrowzero(o.s, end)
             s == Write(g, offset, text)
  <2>3. Put("setrange", args, Raw(s), s.len)
    BY <2>2
  <2>4. SdsOK(o.s)
    <3>1. CASE IsString
      BY <3>1, UnshareOK DEF StringInv
    <3>2. CASE ~IsString
      <4>1. <<>> \in Seq(Int)
        BY EmptySeq
      <4> QED
        BY <3>2, <4>1, NewLenOK, RawOK
    <3> QED
      BY <3>1, <3>2
  <2> HIDE DEF o
  <2>5. SdsOK(g) /\ end <= g.len
    <3>1. o.s.len \in Nat
      BY <2>4 DEF SdsOK
    <3>2. SdsOK(g) /\ g.len = IF end <= o.s.len THEN o.s.len ELSE end
      BY <2>1, <2>4, GrowZeroOK
    <3> QED
      BY <2>1, <3>1, <3>2
  <2> HIDE DEF g
  <2>6. SdsOK(s)
    BY <1>1, <2>1, <2>5, OverwriteOK
  <2> HIDE DEF s
  <2> QED
    BY <2>3, <2>6, RawOK, PutInv
<1> QED
  BY <1>2, <1>3

\* The place of a bit in its byte.
LEMMA BitPlace ==
  ASSUME NEW i \in Nat
  PROVE  /\ i \div ByteBits \in Nat
         /\ 2 ^ (ByteBits - 1 - (i % ByteBits)) \in Nat \ {0}
<1>1. ByteBits \in Nat \ {0}
  BY StringAssumption
<1>2. i \div ByteBits \in Nat /\ (i % ByteBits) \in 0 .. ByteBits - 1
  BY <1>1
<1> DEFINE k == ByteBits - 1 - (i % ByteBits)
<1>3. k \in 0 .. ByteBits - 1
  BY <1>1, <1>2
<1> HIDE DEF k
<1>4. 2 ^ k \in Nat \ {0}
  BY <1>3, StringAssumption
<1> QED
  BY <1>2, <1>4 DEF k

\* Setting a bit of a number gives a number.
LEMMA BitSet ==
  ASSUME NEW old \in Int, NEW on \in {0, 1}, NEW i \in Nat
  PROVE  old + (on - BitOf(old, i % ByteBits)) * 2 ^ (ByteBits - 1 - (i % ByteBits)) \in Int
<1> DEFINE m == 2 ^ (ByteBits - 1 - (i % ByteBits))
           b == BitOf(old, i % ByteBits)
<1>1. m \in Nat \ {0}
  BY BitPlace
<1>2. b = (old \div m) % 2
  BY DEF BitOf
<1> HIDE DEF m, b
<1>3. (old \div m) \in Int
  BY <1>1
<1>4. b \in 0 .. 1
  BY <1>2, <1>3
<1>5. (on - b) * m \in Int
  BY <1>1, <1>4
<1>6. old + (on - b) * m \in Int
  BY <1>5
<1> QED
  BY <1>6 DEF m, b

LEMMA BitStringOK ==
  ASSUME StringInv, val.type # "list", NEW i \in Nat, NEW shared \in BOOLEAN
  PROVE  LET s == lookupStringForBitCommand(i, shared).s
         IN  SdsOK(s) /\ (i \div ByteBits) + 1 <= s.len
<1> DEFINE size == (i \div ByteBits) + 1
           s    == lookupStringForBitCommand(i, shared).s
<1>1. size \in Nat
  BY BitPlace
<1>2. CASE val.type = "none"
  <2> DEFINE f == Fill(size, 0)
  <2>1. s = sdsnewlen(f)
    BY <1>2 DEF lookupStringForBitCommand, Raw
  <2> HIDE DEF size, s
  <2>2. f \in Seq(Int) /\ Len(f) = size
    BY <1>1, FillType DEF Byte
  <2> HIDE DEF f
  <2>3. SdsOK(s) /\ s.len = size
    BY <2>1, <2>2, NewLenOK
  <2> QED
    BY <1>1, <2>3 DEF size, s
<1>3. CASE val.type = "string"
  <2> DEFINE u == dbUnshareStringValue(val.o, shared)
  <2>1. s = sdsgrowzero(u.s, size)
    BY <1>3 DEF lookupStringForBitCommand, Raw
  <2>2. SdsOK(u.s) /\ u.s.len \in Nat
    BY <1>3, UnshareOK DEF StringInv, IsString, SdsOK
  <2> HIDE DEF size, s, u
  <2>3. SdsOK(s) /\ s.len = IF size <= u.s.len THEN u.s.len ELSE size
    BY <1>1, <2>1, <2>2, GrowZeroOK
  <2>4. size <= s.len
    BY <1>1, <2>2, <2>3
  <2> QED
    BY <2>3, <2>4 DEF size, s
<1> QED
  BY <1>2, <1>3 DEF StringInv

LEMMA SetBitInv ==
  ASSUME StringInv, NEW bitoffset \in Bits, NEW on \in 0 .. 2, RcSetBit(bitoffset, on)
  PROVE  StringInv'
<1> DEFINE args == <<bitoffset, on>>
           byte == bitoffset \div ByteBits
           mask == 2 ^ (ByteBits - 1 - (bitoffset % ByteBits))
<1>1. bitoffset \in Nat /\ byte \in Nat
  BY StringAssumption, BitPlace
<1>2. CASE UNCHANGED val
  BY <1>2, SameInv
<1>3. CASE ~UNCHANGED val
  <2>1. on \in {0, 1} /\ val.type # "list"
    BY <1>3 DEF RcSetBit, Fail
  <2>2. PICK shared \in BOOLEAN :
          LET s   == lookupStringForBitCommand(bitoffset, shared).s
              old == s.buf[byte + 1]
              new == old + (on - BitOf(old, bitoffset % ByteBits)) * mask
          IN  Put("setbit", args, Raw(Write(s, byte, <<new>>)), Nil)
    BY <1>3 DEF RcSetBit, Fail
  <2> DEFINE s   == lookupStringForBitCommand(bitoffset, shared).s
             old == s.buf[byte + 1]
             new == old + (on - BitOf(old, bitoffset % ByteBits)) * mask
             w   == Write(s, byte, <<new>>)
  <2>3. Put("setbit", args, Raw(w), Nil)
    BY <2>2
  <2>4. SdsOK(s) /\ byte + 1 <= s.len
    BY <1>1, <2>1, BitStringOK
  <2>5. old \in Int
    <3> HIDE DEF byte, s
    <3>1. s.len \in Nat /\ \A i \in 1 .. s.len : s.buf[i] \in Int
      BY <2>4 DEF SdsOK
    <3>2. byte + 1 \in 1 .. s.len
      BY <1>1, <2>4, <3>1
    <3> QED
      BY <3>1, <3>2
  <2>6. new \in Int
    <3> HIDE DEF old
    <3> QED
      BY <1>1, <2>1, <2>5, BitSet
  <2> HIDE DEF new, old, s, byte
  <2>7. SdsOK(w)
    <3>1. <<new>> \in Seq(Int) /\ Len(<<new>>) = 1
      BY <2>6
    <3> QED
      BY <1>1, <2>4, <3>1, OverwriteOK
  <2> HIDE DEF w
  <2> QED
    BY <2>3, <2>7, RawOK, PutInv
<1> QED
  BY <1>2, <1>3

\* Commands that read leave the value alone.
LEMMA ReadersInv ==
  ASSUME StringInv,
         \/ \E i, j \in Indexes :
              \/ getrangeCommand(i, j)
              \/ \E have \in BOOLEAN : RcBitCount(i, j, have)
              \/ \E bit \in 0 .. 2, given \in {"nothing", "start", "both"} :
                    RcBitPos(bit, i, j, given)
         \/ RcStrlen
         \/ \E bitoffset \in Bits : RcGetBit(bitoffset)
  PROVE  StringInv'
<1>1. ASSUME NEW i \in Indexes, NEW j \in Indexes, getrangeCommand(i, j)
      PROVE  UNCHANGED val
  BY <1>1 DEF getrangeCommand, Fail, Answer
<1>2. ASSUME NEW i \in Indexes, NEW j \in Indexes, NEW have \in BOOLEAN,
             RcBitCount(i, j, have)
      PROVE  UNCHANGED val
  BY <1>2 DEF RcBitCount, Fail, Answer
<1>3. ASSUME NEW i \in Indexes, NEW j \in Indexes, NEW bit \in 0 .. 2,
             NEW given \in {"nothing", "start", "both"}, RcBitPos(bit, i, j, given)
      PROVE  UNCHANGED val
  BY <1>3 DEF RcBitPos, Fail, Answer
<1>4. RcStrlen => UNCHANGED val
  BY DEF RcStrlen, Fail, Answer
<1>5. ASSUME NEW i \in Bits, RcGetBit(i) PROVE UNCHANGED val
  BY <1>5 DEF RcGetBit, Fail, Answer
<1> QED
  BY <1>1, <1>2, <1>3, <1>4, <1>5, SameInv

LEMMA OthersInv ==
  ASSUME StringInv, Vanish \/ Become
  PROVE  StringInv'
  BY DEF Vanish, Become, None, Foreign, StringInv, IsString

LEMMA StringStep ==
  ASSUME StringInv, [Next]_vars
  PROVE  StringInv'
<1>1. CASE \E text \in Texts : RcSet(text)
  BY <1>1, SetInv
<1>2. CASE \E text \in Texts : appendCommand(text)
  BY <1>2, AppendInv
<1>3. CASE \E n \in DOMAIN Digits : SetNumber(n)
  BY <1>3, NumberInv
<1>4. CASE \E offset \in Offsets, text \in Texts : setrangeCommand(offset, text)
  BY <1>4, SetRangeInv
<1>5. CASE \/ \E i, j \in Indexes :
                \/ getrangeCommand(i, j)
                \/ \E have \in BOOLEAN : RcBitCount(i, j, have)
                \/ \E bit \in 0 .. 2, given \in {"nothing", "start", "both"} :
                      RcBitPos(bit, i, j, given)
           \/ RcStrlen
           \/ \E bitoffset \in Bits : RcGetBit(bitoffset)
  BY <1>5, ReadersInv
<1>6. CASE \E bitoffset \in Bits, on \in 0 .. 2 : RcSetBit(bitoffset, on)
  BY <1>6, SetBitInv
<1>7. CASE Vanish \/ Become
  BY <1>7, OthersInv
<1>8. CASE UNCHANGED vars
  BY <1>8, SameInv DEF vars
<1> QED
  BY <1>1, <1>2, <1>3, <1>4, <1>5, <1>6, <1>7, <1>8 DEF Next

\* The header of a string agrees with its buffer, whatever the header types,
\* the reservation and the arguments (sds.c:197, 368, object.c:125): the type
\* can count what was reserved, the terminator is behind the last byte, and
\* no byte is seen that nobody wrote.
THEOREM HeadersAreSound == Spec => []HeaderSound
<1>1. Init => StringInv
  BY DEF Init, None, StringInv, IsString
<1>2. StringInv /\ [Next]_vars => StringInv'
  BY StringStep
<1>3. StringInv => HeaderSound
  BY OKIsSound DEF StringInv, ObjOK, HeaderSound
<1> QED
  BY <1>1, <1>2, <1>3, PTL DEF Spec


=============================================================================
