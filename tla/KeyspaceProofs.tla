--------------------------- MODULE KeyspaceProofs ---------------------------
(***************************************************************************)
(* Three results about the commands of Keyspace.                           *)
(*                                                                         *)
(* First, every command preserves the heap invariant: the records keep     *)
(* their types, the key strings shared by dict and expires stay allocated, *)
(* and reference counts are exact.  Each operator of db.c gets a lemma:    *)
(* from a sound heap with the client owning the objects H, it makes a      *)
(* sound heap with the client owning H'.  A command is then a chain of     *)
(* these lemmas.                                                           *)
(*                                                                         *)
(* Then what the commands do to the values: no command changes an object   *)
(* its client still owns, and the keyspace implements TtlCache.  A         *)
(* database is seen through two functions, the value and the deadline of   *)
(* each key.  Every operator of db.c gets a lemma that says how it changes *)
(* them; sharing is invisible there because a sound heap lets nobody write *)
(* to an object that two owners refer to.                                  *)
(***************************************************************************)
EXTENDS Keyspace, FiniteSetTheorems, TLAPS

\* A sound database, when the client owns the objects of H.
Heap(d, H) ==
  /\ d \in DB
  /\ H \subseteq Obj
  /\ d.uaf = FALSE
  /\ KeyStringsOK(d)
  /\ CountsOK(d, H)

HolderSet(d, K, o) == {k \in K : Present(d, k) /\ d.dict[k].val = o}

-----------------------------------------------------------------------------
(* Counting the keys that hold an object.                                  *)

LEMMA HoldersType ==
  ASSUME NEW d, NEW K \in SUBSET Key, NEW o
  PROVE  /\ Holders(d, K, o) \in Nat
         /\ IsFiniteSet(HolderSet(d, K, o))
         /\ Holders(d, K, o) = Cardinality(HolderSet(d, K, o))
<1>1. HolderSet(d, K, o) \subseteq Key
  BY DEF HolderSet
<1>2. IsFiniteSet(HolderSet(d, K, o))
  BY <1>1, FS_Subset, KeyspaceAssumption
<1>3. Holders(d, K, o) = Cardinality(HolderSet(d, K, o))
  BY DEF Holders, HolderSet
<1> QED
  BY <1>2, <1>3, FS_CardinalityType

\* The holders in Key are those in K and those outside of it.
LEMMA HoldersSplit ==
  ASSUME NEW d, NEW K \in SUBSET Key, NEW o
  PROVE  Holders(d, Key, o) = Holders(d, K, o) + Holders(d, Key \ K, o)
<1> DEFINE A == HolderSet(d, K, o)
           B == HolderSet(d, Key \ K, o)
<1>1. HolderSet(d, Key, o) = A \cup B /\ A \cap B = {}
  BY DEF HolderSet
<1>2. IsFiniteSet(A) /\ IsFiniteSet(B)
  BY HoldersType
<1> HIDE DEF A, B
<1>3. Cardinality(A \cup B) = Cardinality(A) + Cardinality(B) - 0
  <2>1. Cardinality(A \cup B) = Cardinality(A) + Cardinality(B) - Cardinality(A \cap B)
    BY <1>2, FS_Union
  <2>2. Cardinality(A \cap B) = 0
    BY <1>1, FS_EmptySet
  <2> QED
    BY <2>1, <2>2
<1>4. Cardinality(A) \in Nat /\ Cardinality(B) \in Nat
  BY <1>2, FS_CardinalityType
<1>5. /\ Holders(d, Key, o) = Cardinality(A \cup B)
      /\ Holders(d, K, o) = Cardinality(A)
      /\ Holders(d, Key \ K, o) = Cardinality(B)
  BY <1>1, HoldersType DEF A, B
<1> QED
  BY <1>3, <1>4, <1>5

LEMMA HoldersOne ==
  ASSUME NEW d, NEW k \in Key, NEW o
  PROVE  Holders(d, {k}, o) =
           IF Present(d, k) /\ d.dict[k].val = o THEN 1 ELSE 0
<1>1. CASE Present(d, k) /\ d.dict[k].val = o
  <2>1. {j \in {k} : Present(d, j) /\ d.dict[j].val = o} = {k}
    BY <1>1
  <2> QED
    BY <1>1, <2>1, FS_Singleton DEF Holders
<1>2. CASE ~(Present(d, k) /\ d.dict[k].val = o)
  <2>1. {j \in {k} : Present(d, j) /\ d.dict[j].val = o} = {}
    BY <1>2
  <2> QED
    BY <1>2, <2>1, FS_EmptySet DEF Holders
<1> QED
  BY <1>1, <1>2

\* Two databases that agree on K have the same holders there.
LEMMA HoldersSame ==
  ASSUME NEW d, NEW e, NEW K, NEW o,
         \A k \in K : d.dict[k] = e.dict[k]
  PROVE  Holders(d, K, o) = Holders(e, K, o)
<1>1. {k \in K : Present(d, k) /\ d.dict[k].val = o}
        = {k \in K : Present(e, k) /\ e.dict[k].val = o}
  BY DEF Present
<1> QED
  BY <1>1 DEF Holders

LEMMA HoldersNone ==
  ASSUME NEW d, NEW K \in SUBSET Key, NEW o,
         \A k \in K : d.dict[k] = NULL
  PROVE  Holders(d, K, o) = 0
<1>1. {k \in K : Present(d, k) /\ d.dict[k].val = o} = {}
  BY DEF Present
<1> QED
  BY <1>1, FS_EmptySet DEF Holders

-----------------------------------------------------------------------------
(* object.c.                                                               *)

LEMMA WithCounts ==
  ASSUME NEW d \in DB, NEW f \in [Obj -> Nat]
  PROVE  [d EXCEPT !.rc = f, !.uaf = FALSE] \in DB
  BY DEF DB

LEMMA CreateHeap ==
  ASSUME NEW d, NEW H, Heap(d, H), NEW o \in Obj, d.rc[o] = 0,
         NEW v \in Val, NEW c \in Enc
  PROVE  Heap(createObject(d, o, v, c), H \cup {o})
<1> DEFINE e == createObject(d, o, v, c)
<1>1. e \in DB
  BY DEF Heap, DB, createObject
<1>2. /\ e.dict = d.dict /\ e.expires = d.expires /\ e.live = d.live
      /\ e.uaf = d.uaf /\ e.rc = [d.rc EXCEPT ![o] = 1]
  BY DEF Heap, DB, createObject
<1>3. KeyStringsOK(e)
  BY <1>2 DEF Heap, KeyStringsOK, Present
<1>4. ASSUME NEW x \in Obj
      PROVE  e.rc[x] = Holders(e, Key, x) + (IF x \in H \cup {o} THEN 1 ELSE 0)
  <2>1. Holders(e, Key, x) = Holders(d, Key, x)
    BY <1>2, HoldersSame
  <2>2. Holders(d, Key, x) \in Nat
    BY HoldersType
  <2>3. d.rc[x] = Holders(d, Key, x) + (IF x \in H THEN 1 ELSE 0)
    BY DEF Heap, CountsOK
  <2>4. d.rc \in [Obj -> Nat]
    BY DEF Heap, DB
  <2> QED
    BY <1>2, <2>1, <2>2, <2>3, <2>4
<1> QED
  BY <1>1, <1>2, <1>3, <1>4 DEF Heap, CountsOK

LEMMA IncrHeap ==
  ASSUME NEW d, NEW H, Heap(d, H), NEW o \in Obj, o \notin H, d.rc[o] # 0
  PROVE  Heap(incrRefCount(d, o), H \cup {o})
<1> DEFINE e == incrRefCount(d, o)
<1>0. e = [d EXCEPT !.rc[o] = d.rc[o] + 1, !.uaf = FALSE]
  BY DEF Heap, incrRefCount
<1>1. d \in DB /\ d.rc \in [Obj -> Nat]
  BY DEF Heap, DB
<1>5. [d.rc EXCEPT ![o] = d.rc[o] + 1] \in [Obj -> Nat]
  BY <1>1
<1>6. e \in DB
  BY <1>0, <1>1, <1>5, WithCounts
<1>2. /\ e.dict = d.dict /\ e.expires = d.expires /\ e.live = d.live
      /\ e.uaf = FALSE /\ e.rc = [d.rc EXCEPT ![o] = d.rc[o] + 1]
  BY DEF Heap, DB, incrRefCount
<1>3. KeyStringsOK(e)
  BY <1>2 DEF Heap, KeyStringsOK, Present
<1>4. ASSUME NEW x \in Obj
      PROVE  e.rc[x] = Holders(e, Key, x) + (IF x \in H \cup {o} THEN 1 ELSE 0)
  <2>1. Holders(e, Key, x) = Holders(d, Key, x)
    BY <1>2, HoldersSame
  <2>2. Holders(d, Key, x) \in Nat
    BY HoldersType
  <2>3. d.rc[x] = Holders(d, Key, x) + (IF x \in H THEN 1 ELSE 0)
    BY DEF Heap, CountsOK
  <2> QED
    BY <1>1, <1>2, <2>1, <2>2, <2>3
<1> QED
  BY <1>6, <1>2, <1>3, <1>4 DEF Heap, CountsOK

LEMMA DecrHeap ==
  ASSUME NEW d, NEW H, Heap(d, H), NEW o \in H
  PROVE  Heap(decrRefCount(d, o), H \ {o})
<1> DEFINE e == decrRefCount(d, o)
<1>1. o \in Obj /\ d.rc \in [Obj -> Nat] /\ Holders(d, Key, o) \in Nat
  BY HoldersType DEF Heap, DB
<1>2. d.rc[o] # 0
  BY <1>1 DEF Heap, CountsOK
<1>0. e = [d EXCEPT !.rc[o] = d.rc[o] - 1, !.uaf = FALSE]
  BY <1>2 DEF Heap, decrRefCount
<1>3. e \in DB
  <2>1. [d.rc EXCEPT ![o] = d.rc[o] - 1] \in [Obj -> Nat]
    BY <1>1, <1>2
  <2> QED
    BY <1>0, <2>1, WithCounts DEF Heap
<1>4. /\ e.dict = d.dict /\ e.expires = d.expires /\ e.live = d.live
      /\ e.uaf = FALSE /\ e.rc = [d.rc EXCEPT ![o] = d.rc[o] - 1]
  BY <1>2 DEF Heap, DB, decrRefCount
<1>5. KeyStringsOK(e)
  BY <1>4 DEF Heap, KeyStringsOK, Present
<1>6. ASSUME NEW x \in Obj
      PROVE  e.rc[x] = Holders(e, Key, x) + (IF x \in H \ {o} THEN 1 ELSE 0)
  <2>1. Holders(e, Key, x) = Holders(d, Key, x)
    BY <1>4, HoldersSame
  <2>2. Holders(d, Key, x) \in Nat
    BY HoldersType
  <2>3. d.rc[x] = Holders(d, Key, x) + (IF x \in H THEN 1 ELSE 0)
    BY DEF Heap, CountsOK
  <2> QED
    BY <1>1, <1>4, <2>1, <2>2, <2>3
<1> QED
  BY <1>3, <1>4, <1>5, <1>6 DEF Heap, CountsOK

-----------------------------------------------------------------------------
(* db.c.                                                                   *)

LEMMA NotDangling ==
  ASSUME NEW d, NEW H, Heap(d, H)
  PROVE  ~Dangling(d) /\ findExpires(d) = d
<1>1. ~Dangling(d)
  BY DEF Heap, KeyStringsOK, Dangling
<1>2. findExpires(d) = d
  BY <1>1 DEF Heap, DB, findExpires
<1> QED
  BY <1>1, <1>2

LEMMA RemoveExpireHeap ==
  ASSUME NEW d, NEW H, Heap(d, H), NEW K \in SUBSET Key
  PROVE  /\ Heap(removeExpire(d, K), H)
         /\ removeExpire(d, K).dict = d.dict
         /\ removeExpire(d, K).rc = d.rc
         /\ removeExpire(d, K).expires =
              [k \in Key |-> IF k \in K THEN NULL ELSE d.expires[k]]
<1> DEFINE e == removeExpire(d, K)
<1>1. e = [d EXCEPT !.expires =
             [k \in Key |-> IF k \in K THEN NULL ELSE d.expires[k]]]
  BY NotDangling DEF removeExpire
<1>2. /\ e.dict = d.dict /\ e.live = d.live /\ e.rc = d.rc /\ e.uaf = d.uaf
      /\ e.expires = [k \in Key |-> IF k \in K THEN NULL ELSE d.expires[k]]
      /\ e \in DB
  BY <1>1 DEF Heap, DB
<1>3. KeyStringsOK(e)
  BY <1>2 DEF Heap, KeyStringsOK, Present
<1>4. CountsOK(e, H)
  <2>1. \A x \in Obj : Holders(e, Key, x) = Holders(d, Key, x)
    BY <1>2, HoldersSame
  <2> QED
    BY <1>2, <2>1 DEF Heap, CountsOK
<1> QED
  BY <1>2, <1>3, <1>4 DEF Heap

LEMMA DictDeleteHeap ==
  ASSUME NEW d, NEW H, Heap(d, H), NEW K \in SUBSET Key,
         \A k \in K : d.expires[k] = NULL
  PROVE  /\ Heap(dictDelete(d, K), H)
         /\ dictDelete(d, K).dict =
              [k \in Key |-> IF k \in K THEN NULL ELSE d.dict[k]]
         /\ dictDelete(d, K).expires = d.expires
<1> DEFINE e == dictDelete(d, K)
           f == [o \in Obj |-> d.rc[o] - Holders(d, K, o)]
           g == [k \in Key |-> IF k \in K THEN NULL ELSE d.dict[k]]
           l == d.live \ {d.dict[k].key : k \in {j \in K : Present(d, j)}}
<1>1. ASSUME NEW o \in Obj
      PROVE  /\ d.rc[o] >= Holders(d, K, o)
             /\ ~(d.rc[o] < Holders(d, K, o))
             /\ d.rc[o] - Holders(d, K, o) \in Nat
             /\ d.rc[o] - Holders(d, K, o)
                  = Holders(d, Key \ K, o) + (IF o \in H THEN 1 ELSE 0)
  <2>1. d.rc[o] = Holders(d, Key, o) + (IF o \in H THEN 1 ELSE 0)
    BY DEF Heap, CountsOK
  <2>2. Holders(d, Key, o) = Holders(d, K, o) + Holders(d, Key \ K, o)
    BY HoldersSplit
  <2>3. /\ Holders(d, K, o) \in Nat
        /\ Holders(d, Key \ K, o) \in Nat
    BY HoldersType
  <2> QED
    BY <2>1, <2>2, <2>3
<1>2. e = [d EXCEPT !.dict = g, !.live = l, !.rc = f, !.uaf = FALSE]
  BY <1>1 DEF dictDelete, Heap
<1>3. f \in [Obj -> Nat] /\ g \in [Key -> Slot \cup {NULL}] /\ l \subseteq KeyPtr
  BY <1>1 DEF Heap, DB
<1>4. /\ e.dict = g /\ e.live = l /\ e.rc = f /\ e.uaf = FALSE
      /\ e.expires = d.expires /\ e \in DB
  <2> HIDE DEF f, g, l, e
  <2> QED
    BY <1>2, <1>3 DEF Heap, DB
<1>5. \A k \in Key : Present(e, k) <=> Present(d, k) /\ k \notin K
  BY <1>4 DEF Present
<1>6. KeyStringsOK(e)
  <2>1. \A k \in Key : Present(e, k) => e.dict[k] = d.dict[k]
    BY <1>4, <1>5
  <2>2. \A k \in Key : e.expires[k] # NULL =>
          Present(e, k) /\ e.expires[k].key = e.dict[k].key
    BY <1>4, <1>5, <2>1 DEF Heap, KeyStringsOK
  <2>3. \A j, k \in Key : Present(e, j) /\ Present(e, k) /\ j # k =>
          e.dict[j].key # e.dict[k].key
    BY <1>5, <2>1 DEF Heap, KeyStringsOK
  <2>4. e.live = {e.dict[k].key : k \in {j \in Key : Present(e, j)}}
    BY <1>4, <1>5, <2>1 DEF Heap, KeyStringsOK
  <2> QED
    BY <2>2, <2>3, <2>4 DEF KeyStringsOK
<1>7. ASSUME NEW o \in Obj
      PROVE  e.rc[o] = Holders(e, Key, o) + (IF o \in H THEN 1 ELSE 0)
  <2>1. Holders(e, Key, o) = Holders(e, K, o) + Holders(e, Key \ K, o)
    BY HoldersSplit
  <2>2. Holders(e, K, o) = 0
    BY <1>4, HoldersNone
  <2>3. Holders(e, Key \ K, o) = Holders(d, Key \ K, o)
    BY <1>4, HoldersSame
  <2>4. Holders(d, Key \ K, o) \in Nat
    BY HoldersType
  <2> QED
    BY <1>1, <1>4, <2>1, <2>2, <2>3, <2>4
<1> QED
  BY <1>4, <1>6, <1>7 DEF Heap, CountsOK

LEMMA DbDeleteHeap ==
  ASSUME NEW d, NEW H, Heap(d, H), NEW K \in SUBSET Key
  PROVE  Heap(dbDelete(d, K), H)
<1>1. Heap(removeExpire(d, K), H)
  BY RemoveExpireHeap
<1>2. removeExpire(d, K).expires =
        [k \in Key |-> IF k \in K THEN NULL ELSE d.expires[k]]
  BY RemoveExpireHeap
<1>3. \A k \in K : removeExpire(d, K).expires[k] = NULL
  BY <1>2
<1> QED
  BY <1>1, <1>3, DictDeleteHeap DEF dbDelete

LEMMA ExpireIfNeededHeap ==
  ASSUME NEW d, NEW H, Heap(d, H), NEW k \in Key
  PROVE  Heap(expireIfNeeded(d, k), H)
  BY NotDangling, DbDeleteHeap DEF expireIfNeeded
LEMMA EmptyDbHeap ==
  ASSUME NEW d, NEW H, Heap(d, H)
  PROVE  Heap(emptyDb(d), H)
<1> DEFINE nulls == [k \in Key |-> NULL]
           c == removeExpire(d, Key)
<1>1. /\ Heap(c, H)
      /\ c = [d EXCEPT !.expires = nulls]
  <2>1. Heap(c, H)
    BY RemoveExpireHeap
  <2>2. c = [d EXCEPT !.expires = [k \in Key |-> IF k \in Key THEN NULL
                                                  ELSE d.expires[k]]]
    BY NotDangling DEF removeExpire
  <2> QED
    BY <2>1, <2>2
<1>2. \A k \in Key : c.expires[k] = NULL
  BY <1>1 DEF Heap, DB
<1>3. Heap(dictDelete(c, Key), H)
  BY <1>1, <1>2, DictDeleteHeap
<1>4. \A o : Holders(c, Key, o) = Holders(d, Key, o)
  <2>1. c.dict = d.dict
    BY RemoveExpireHeap
  <2> QED
    BY <2>1, HoldersSame
<1>5. emptyDb(d) = dictDelete(c, Key)
  <2>1. /\ c.dict = d.dict /\ c.live = d.live /\ c.rc = d.rc /\ c.uaf = d.uaf
        /\ c.str = d.str /\ c.enc = d.enc /\ c.expires = nulls
    BY <1>1 DEF Heap, DB
  <2>2. \A k \in Key : Present(c, k) <=> Present(d, k)
    BY <2>1 DEF Present
  <2>3. {c.dict[k].key : k \in {j \in Key : Present(c, j)}}
          = {d.dict[k].key : k \in {j \in Key : Present(d, j)}}
    BY <2>1, <2>2
  <2> DEFINE g == [k \in Key |-> IF k \in Key THEN NULL ELSE d.dict[k]]
             l == d.live \ {d.dict[k].key : k \in {j \in Key : Present(d, j)}}
             f == [o \in Obj |-> IF d.rc[o] >= Holders(d, Key, o)
                                 THEN d.rc[o] - Holders(d, Key, o) ELSE 0]
             u == d.uaf \/ \E o \in Obj : d.rc[o] < Holders(d, Key, o)
  <2>4. emptyDb(d) = [d EXCEPT !.dict = g, !.live = l, !.rc = f, !.uaf = u,
                               !.expires = nulls]
    <3>1. dictDelete(d, Key)
            = [d EXCEPT !.dict = g, !.live = l, !.rc = f, !.uaf = u]
      BY DEF dictDelete
    <3> HIDE DEF f, g, l, u, nulls
    <3>2. emptyDb(d) = [dictDelete(d, Key) EXCEPT !.expires = nulls]
      BY DEF emptyDb, nulls
    <3> QED
      BY <3>1, <3>2 DEF Heap, DB
  <2>5. dictDelete(c, Key)
          = [c EXCEPT !.dict = g, !.live = l, !.rc = f, !.uaf = u]
    <3>1. [k \in Key |-> IF k \in Key THEN NULL ELSE c.dict[k]] = g
      BY <2>1
    <3>2. c.live \ {c.dict[k].key : k \in {j \in Key : Present(c, j)}} = l
      BY <2>1, <2>3
    <3>3. [o \in Obj |-> IF c.rc[o] >= Holders(c, Key, o)
                         THEN c.rc[o] - Holders(c, Key, o) ELSE 0] = f
      BY <1>4, <2>1
    <3>4. (c.uaf \/ \E o \in Obj : c.rc[o] < Holders(c, Key, o)) = u
      <4>1. \A o \in Obj : c.rc[o] < Holders(c, Key, o)
                           <=> d.rc[o] < Holders(d, Key, o)
        <5> HIDE DEF c
        <5> QED
          BY <1>4, <2>1
      <4>2. c.uaf = FALSE /\ d.uaf = FALSE
        <5> HIDE DEF c
        <5> QED
          BY <2>1 DEF Heap
      <4> HIDE DEF c
      <4> QED
        BY <4>1, <4>2
    <3> HIDE DEF f, g, l, u, c
    <3> QED
      BY <3>1, <3>2, <3>3, <3>4 DEF dictDelete
  <2> HIDE DEF f, g, l, u, nulls
  <2> QED
    BY <1>1, <2>4, <2>5 DEF Heap, DB
<1> QED
  BY <1>3, <1>5

\* dbAdd hands the client's reference to o over to the key.
LEMMA DbAddHeap ==
  ASSUME NEW d, NEW H, Heap(d, H), NEW k \in Key, ~Present(d, k),
         NEW p \in KeyPtr \ d.live, NEW o \in H
  PROVE  /\ Heap(dbAdd(d, k, p, o), H \ {o})
         /\ dbAdd(d, k, p, o).dict = [d.dict EXCEPT ![k] = [key |-> p, val |-> o]]
         /\ dbAdd(d, k, p, o).rc = d.rc
<1> DEFINE e == dbAdd(d, k, p, o)
           g == [d.dict EXCEPT ![k] = [key |-> p, val |-> o]]
<1>1. /\ o \in Obj /\ p \in KeyPtr /\ g \in [Key -> Slot \cup {NULL}]
      /\ d \in DB
  BY DEF Heap, DB, Slot
<1>2. e = [d EXCEPT !.dict = g, !.live = d.live \cup {p}]
  BY DEF dbAdd
<1>3. /\ e \in DB /\ e.dict = g /\ e.live = d.live \cup {p}
      /\ e.rc = d.rc /\ e.uaf = d.uaf /\ e.expires = d.expires
  <2> HIDE DEF g, e
  <2> QED
    BY <1>1, <1>2 DEF DB
<1>4. [key |-> p, val |-> o] # NULL
  BY <1>1, KeyspaceAssumption DEF Slot
<1>5. /\ e.dict[k] = [key |-> p, val |-> o]
      /\ \A j \in Key : j # k => e.dict[j] = d.dict[j]
      /\ \A j \in Key : Present(e, j) <=> j = k \/ Present(d, j)
  BY <1>1, <1>3, <1>4 DEF DB, Present
<1>6. KeyStringsOK(e)
  <2>1. \A j \in Key : Present(d, j) => d.dict[j].key \in d.live
    BY DEF Heap, KeyStringsOK
  <2>2. \A j \in Key : e.expires[j] # NULL =>
          Present(e, j) /\ e.expires[j].key = e.dict[j].key
    BY <1>3, <1>5 DEF Heap, KeyStringsOK
  <2>3. \A i, j \in Key : Present(e, i) /\ Present(e, j) /\ i # j =>
          e.dict[i].key # e.dict[j].key
    BY <1>5, <2>1 DEF Heap, KeyStringsOK
  <2>4. e.live = {e.dict[i].key : i \in {j \in Key : Present(e, j)}}
    <3>1. d.live = {d.dict[i].key : i \in {j \in Key : Present(d, j)}}
      BY DEF Heap, KeyStringsOK
    <3> HIDE DEF e
    <3> QED
      BY <1>3, <1>5, <3>1
  <2> QED
    BY <2>2, <2>3, <2>4 DEF KeyStringsOK
<1>7. ASSUME NEW x \in Obj
      PROVE  e.rc[x] = Holders(e, Key, x) + (IF x \in H \ {o} THEN 1 ELSE 0)
  <2>1. /\ Holders(d, Key, x) = Holders(d, {k}, x) + Holders(d, Key \ {k}, x)
        /\ Holders(e, Key, x) = Holders(e, {k}, x) + Holders(e, Key \ {k}, x)
    BY HoldersSplit
  <2>2. Holders(d, {k}, x) = 0
    BY HoldersOne
  <2>3. Holders(e, {k}, x) = IF x = o THEN 1 ELSE 0
    BY <1>5, HoldersOne
  <2>4. Holders(e, Key \ {k}, x) = Holders(d, Key \ {k}, x)
    BY <1>5, HoldersSame
  <2>5. d.rc[x] = Holders(d, Key, x) + (IF x \in H THEN 1 ELSE 0)
    BY DEF Heap, CountsOK
  <2>6. Holders(d, Key \ {k}, x) \in Nat
    BY HoldersType
  <2> QED
    BY <1>3, <2>1, <2>2, <2>3, <2>4, <2>5, <2>6
<1> QED
  BY <1>3, <1>6, <1>7 DEF Heap, CountsOK

\* So does dbOverwrite, which also drops the reference the key held.
LEMMA DbOverwriteHeap ==
  ASSUME NEW d, NEW H, Heap(d, H), NEW k \in Key, Present(d, k), NEW o \in H
  PROVE  /\ Heap(dbOverwrite(d, k, o), H \ {o})
         /\ Present(dbOverwrite(d, k, o), k)
         /\ dbOverwrite(d, k, o).dict[k].val = o
<1> DEFINE old == d.dict[k].val
           s == [d.dict[k] EXCEPT !.val = o]
           g == [d.dict EXCEPT ![k] = s]
           f == [d.rc EXCEPT ![old] = d.rc[old] - 1]
           e == dbOverwrite(d, k, o)
<1>1. /\ o \in Obj /\ d \in DB /\ d.rc \in [Obj -> Nat]
      /\ d.dict \in [Key -> Slot \cup {NULL}]
      /\ d.dict[k] \in Slot /\ old \in Obj
  BY DEF Heap, DB, Present, Slot
<1>2. s \in Slot /\ s.val = o /\ s.key = d.dict[k].key /\ s # NULL
  BY <1>1, KeyspaceAssumption DEF Slot
<1>3. d.rc[old] # 0 /\ d.rc[old] - 1 \in Nat
  <2>1. /\ Holders(d, Key, old) = Holders(d, {k}, old) + Holders(d, Key \ {k}, old)
        /\ Holders(d, {k}, old) = 1
        /\ Holders(d, Key \ {k}, old) \in Nat
    BY HoldersSplit, HoldersOne, HoldersType
  <2>2. d.rc[old] = Holders(d, Key, old) + (IF old \in H THEN 1 ELSE 0)
    BY <1>1 DEF Heap, CountsOK
  <2> QED
    BY <2>1, <2>2
<1>4. e = [d EXCEPT !.dict = g, !.rc = f, !.uaf = FALSE]
  <2>1. e = decrRefCount([d EXCEPT !.dict = g], old)
    BY <1>1 DEF dbOverwrite
  <2>2. /\ [d EXCEPT !.dict = g].rc = d.rc
        /\ [d EXCEPT !.dict = g].uaf = FALSE
    BY <1>1 DEF Heap, DB
  <2> HIDE DEF g, old, e
  <2> QED
    BY <1>1, <1>3, <2>1, <2>2 DEF decrRefCount, DB
<1>5. f \in [Obj -> Nat] /\ g \in [Key -> Slot \cup {NULL}]
  <2> HIDE DEF old, s
  <2> QED
    BY <1>1, <1>2, <1>3
<1>6. /\ e \in DB /\ e.dict = g /\ e.live = d.live
      /\ e.rc = f /\ e.uaf = FALSE /\ e.expires = d.expires
  <2> HIDE DEF g, f, e
  <2> QED
    BY <1>1, <1>4, <1>5 DEF DB
<1>7. /\ e.dict[k] = s
      /\ \A j \in Key : j # k => e.dict[j] = d.dict[j]
  <2> HIDE DEF s, e
  <2> QED
    BY <1>1, <1>6
<1>8. /\ \A j \in Key : Present(e, j) <=> Present(d, j)
      /\ \A j \in Key : Present(d, j) => e.dict[j].key = d.dict[j].key
  <2> HIDE DEF s, e
  <2> QED
    BY <1>2, <1>7 DEF Present
<1>9. KeyStringsOK(e)
  <2>1. {e.dict[i].key : i \in {j \in Key : Present(e, j)}}
          = {d.dict[i].key : i \in {j \in Key : Present(d, j)}}
    BY <1>8
  <2> HIDE DEF e
  <2> QED
    BY <1>6, <1>8, <2>1 DEF Heap, KeyStringsOK
<1>10. ASSUME NEW x \in Obj
       PROVE  e.rc[x] = Holders(e, Key, x) + (IF x \in H \ {o} THEN 1 ELSE 0)
  <2>1. /\ Holders(d, Key, x) = Holders(d, {k}, x) + Holders(d, Key \ {k}, x)
        /\ Holders(e, Key, x) = Holders(e, {k}, x) + Holders(e, Key \ {k}, x)
    BY HoldersSplit
  <2>2. Holders(d, {k}, x) = IF x = old THEN 1 ELSE 0
    BY HoldersOne
  <2>3. Holders(e, {k}, x) = IF x = o THEN 1 ELSE 0
    <3>1. Present(e, k) /\ e.dict[k].val = o
      <4> HIDE DEF e, s
      <4> QED
        BY <1>2, <1>7, <1>8
    <3> HIDE DEF e
    <3> QED
      BY <3>1, HoldersOne
  <2>4. Holders(e, Key \ {k}, x) = Holders(d, Key \ {k}, x)
    BY <1>7, HoldersSame
  <2>5. d.rc[x] = Holders(d, Key, x) + (IF x \in H THEN 1 ELSE 0)
    BY DEF Heap, CountsOK
  <2>6. Holders(d, Key \ {k}, x) \in Nat
    BY HoldersType
  <2>7. e.rc[x] = IF x = old THEN d.rc[x] - 1 ELSE d.rc[x]
    <3> HIDE DEF old, e
    <3> QED
      BY <1>1, <1>6
  <2> HIDE DEF e, old
  <2> QED
    BY <2>1, <2>2, <2>3, <2>4, <2>5, <2>6, <2>7
<1>11. H \ {o} \subseteq Obj
  BY DEF Heap
<1>12. Heap(e, H \ {o}) /\ Present(e, k) /\ e.dict[k].val = o
  <2> HIDE DEF e, s
  <2> QED
    BY <1>2, <1>6, <1>7, <1>8, <1>9, <1>10, <1>11 DEF Heap, CountsOK
<1> QED
  BY <1>12

LEMMA DbPutHeap ==
  ASSUME NEW d, NEW H, Heap(d, H), NEW k \in Key,
         NEW p \in KeyString(d, k), NEW o \in H
  PROVE  /\ Heap(dbPut(d, k, p, o), H \ {o})
         /\ Present(dbPut(d, k, p, o), k)
         /\ dbPut(d, k, p, o).dict[k].val = o
<1>1. CASE Present(d, k)
  BY <1>1, DbOverwriteHeap DEF dbPut
<1>2. CASE ~Present(d, k)
  <2>1. p \in KeyPtr \ d.live
    BY <1>2 DEF KeyString
  <2>2. /\ Heap(dbAdd(d, k, p, o), H \ {o})
        /\ dbAdd(d, k, p, o).dict
             = [d.dict EXCEPT ![k] = [key |-> p, val |-> o]]
    BY <1>2, <2>1, DbAddHeap
  <2>3. d.dict \in [Key -> Slot \cup {NULL}] /\ o \in Obj
    BY DEF Heap, DB
  <2>4. dbAdd(d, k, p, o).dict[k] = [key |-> p, val |-> o]
    BY <2>2, <2>3
  <2>5. [key |-> p, val |-> o] # NULL
    BY <2>1, <2>3, KeyspaceAssumption DEF Slot
  <2> QED
    BY <1>2, <2>2, <2>4, <2>5 DEF dbPut, Present
<1> QED
  BY <1>1, <1>2

\* An object some key holds has a reference to count.
LEMMA HeldByKey ==
  ASSUME NEW d, NEW H, Heap(d, H), NEW k \in Key, Present(d, k)
  PROVE  d.dict[k].val \in Obj /\ d.rc[d.dict[k].val] \in Nat \ {0}
<1> DEFINE o == d.dict[k].val
<1>1. o \in Obj
  BY DEF Heap, DB, Present, Slot
<1>2. /\ Holders(d, Key, o) = Holders(d, {k}, o) + Holders(d, Key \ {k}, o)
      /\ Holders(d, {k}, o) = 1
      /\ Holders(d, Key \ {k}, o) \in Nat
  BY HoldersSplit, HoldersOne, HoldersType
<1>3. d.rc[o] = Holders(d, Key, o) + (IF o \in H THEN 1 ELSE 0)
  BY <1>1 DEF Heap, CountsOK
<1> QED
  BY <1>1, <1>2, <1>3

LEMMA FreshNotOwned ==
  ASSUME NEW d, NEW H, Heap(d, H), NEW o \in Fresh(d)
  PROVE  o \in Obj /\ d.rc[o] = 0 /\ o \notin H /\ (H \cup {o}) \ {o} = H
<1>1. o \in Obj /\ d.rc[o] = 0
  BY DEF Fresh
<1>2. Holders(d, Key, o) \in Nat
  BY HoldersType
<1>3. d.rc[o] = Holders(d, Key, o) + (IF o \in H THEN 1 ELSE 0)
  BY <1>1 DEF Heap, CountsOK
<1>4. o \notin H
  BY <1>1, <1>2, <1>3
<1> QED
  BY <1>1, <1>4

\* Storing an object and then incrementing it shares it with the client.
LEMMA ShareHeap ==
  ASSUME NEW d, NEW H, Heap(d, H), NEW k \in Key,
         NEW p \in KeyString(d, k), NEW o \in H
  PROVE  Heap(incrRefCount(dbPut(d, k, p, o), o), H)
<1> DEFINE e == dbPut(d, k, p, o)
<1>1. Heap(e, H \ {o}) /\ Present(e, k) /\ e.dict[k].val = o
  BY DbPutHeap
<1>2. o \in Obj /\ e.rc[o] # 0
  <2> HIDE DEF e
  <2> QED
    BY <1>1, HeldByKey
<1>3. Heap(incrRefCount(e, o), (H \ {o}) \cup {o})
  <2> HIDE DEF e
  <2> QED
    BY <1>1, <1>2, IncrHeap
<1>4. (H \ {o}) \cup {o} = H
  OBVIOUS
<1> QED
  BY <1>3, <1>4

LEMMA SetKeyHeap ==
  ASSUME NEW d, NEW H, Heap(d, H), NEW k \in Key,
         NEW p \in KeyString(expireIfNeeded(d, k), k), NEW o \in H
  PROVE  Heap(setKey(d, k, p, o), H)
<1>1. Heap(expireIfNeeded(d, k), H)
  BY ExpireIfNeededHeap
<1>2. Heap(incrRefCount(dbPut(expireIfNeeded(d, k), k, p, o), o), H)
  BY <1>1, ShareHeap
<1> QED
  BY <1>2, RemoveExpireHeap DEF setKey

LEMMA SetExpireHeap ==
  ASSUME NEW d, NEW H, Heap(d, H), NEW k \in Key, NEW w \in LLMin .. LLMax
  PROVE  Heap(setExpire(d, k, w), H)
<1>1. CASE ~Present(d, k)
  BY <1>1 DEF setExpire, Present
<1>2. CASE Present(d, k)
  <2> DEFINE x == [key |-> IF d.expires[k] = NULL THEN d.dict[k].key
                           ELSE d.expires[k].key,
                   when |-> w]
             g == [d.expires EXCEPT ![k] = x]
             e == setExpire(d, k, w)
  <2>1. x.key = d.dict[k].key
    BY DEF Heap, KeyStringsOK
  <2>2. d \in DB /\ d.dict[k].key \in KeyPtr /\ d.expires \in [Key -> Expiry \cup {NULL}]
    BY <1>2 DEF Heap, DB, Present, Slot
  <2>3. x \in Expiry
    BY <2>1, <2>2 DEF Expiry
  <2>4. g \in [Key -> Expiry \cup {NULL}]
    <3> HIDE DEF x
    <3> QED
      BY <2>2, <2>3
  <2>5. e = [d EXCEPT !.expires = g]
    BY <1>2, NotDangling DEF setExpire, Present
  <2>6. /\ e \in DB /\ e.expires = g /\ e.dict = d.dict /\ e.live = d.live
        /\ e.rc = d.rc /\ e.uaf = d.uaf
    <3> HIDE DEF g, e
    <3> QED
      BY <2>2, <2>4, <2>5 DEF DB
  <2>7. KeyStringsOK(e)
    <3> HIDE DEF x, e
    <3> QED
      BY <1>2, <2>1, <2>2, <2>6 DEF Heap, KeyStringsOK, Present
  <2>8. CountsOK(e, H)
    <3>1. \A o \in Obj : Holders(e, Key, o) = Holders(d, Key, o)
      BY <2>6, HoldersSame
    <3> QED
      BY <2>6, <3>1 DEF Heap, CountsOK
  <2> QED
    BY <2>6, <2>7, <2>8 DEF Heap
<1> QED
  BY <1>1, <1>2

\* Modifying values in place changes no count and no key.
LEMMA ContentHeap ==
  ASSUME NEW d, NEW H, Heap(d, H), NEW f \in [Obj -> Val]
  PROVE  Heap([d EXCEPT !.str = f], H)
<1> DEFINE e == [d EXCEPT !.str = f]
<1>1. /\ e \in DB /\ e.expires = d.expires /\ e.dict = d.dict /\ e.live = d.live
      /\ e.rc = d.rc /\ e.uaf = d.uaf
  BY DEF Heap, DB
<1> HIDE DEF e
<1>2. \A o \in Obj : Holders(e, Key, o) = Holders(d, Key, o)
  BY <1>1, HoldersSame
<1>3. Heap(e, H)
  BY <1>1, <1>2 DEF Heap, KeyStringsOK, CountsOK, Present
<1> QED
  BY <1>3 DEF e

LEMMA UnshareHeap ==
  ASSUME NEW d, NEW H, Heap(d, H), NEW k \in Key, Present(d, k),
         NEW n \in IF Private(d, k) THEN {NULL} ELSE Fresh(d)
  PROVE  /\ Heap(dbUnshareStringValue(d, k, n), H)
         /\ Present(dbUnshareStringValue(d, k, n), k)
<1>1. CASE Private(d, k)
  BY <1>1 DEF dbUnshareStringValue
<1>2. CASE ~Private(d, k)
  <2> DEFINE c == createObject(d, n, ValueOf(d, k), "raw")
  <2>1. n \in Obj /\ d.rc[n] = 0 /\ (H \cup {n}) \ {n} = H
    BY <1>2, FreshNotOwned
  <2>2. ValueOf(d, k) \in Val
    BY HeldByKey DEF ValueOf, Heap, DB
  <2>3. Heap(c, H \cup {n})
    BY <2>1, <2>2, CreateHeap DEF Enc
  <2>4. Present(c, k)
    BY DEF createObject, Present, Heap, DB
  <2>5. Heap(dbOverwrite(c, k, n), (H \cup {n}) \ {n}) /\ Present(dbOverwrite(c, k, n), k)
    <3> HIDE DEF c
    <3> QED
      BY <2>3, <2>4, DbOverwriteHeap
  <2> QED
    BY <1>2, <2>1, <2>5 DEF dbUnshareStringValue
<1> QED
  BY <1>1, <1>2

-----------------------------------------------------------------------------
(* The numbers the commands compute.                                       *)

LEMMA WrapType ==
  ASSUME NEW n \in Int
  PROVE  Wrap(n) \in LLMin .. LLMax
<1>1. LLMax \in Nat
  BY ValuesAssumption
<1> DEFINE m == 2 * (LLMax + 1)
<1>2. m \in Nat /\ m > 0
  BY <1>1
<1>3. (n + LLMax + 1) % m \in 0 .. m - 1
  <2> HIDE DEF m
  <2> QED
    BY <1>1, <1>2
<1> QED
  BY <1>1, <1>3 DEF Wrap, LLMin

\* The two comparisons of INCRBY are exact: the sum is a long long if and only
\* if neither holds.
LEMMA OverflowsExact ==
  ASSUME NEW old \in LLMin .. LLMax, NEW incr \in LLMin .. LLMax
  PROVE  Overflows(old, incr) <=> old + incr \notin LLMin .. LLMax
<1>1. LLMax \in Nat /\ LLMin = -LLMax - 1
  BY ValuesAssumption DEF LLMin
<1> QED
  BY <1>1 DEF Overflows

LEMMA ValueParts ==
  /\ \A v \in Val : v[2] \in Int
  /\ \A n \in LLMin .. LLMax : <<"num", n>> \in Val
  /\ \A v, w \in Val : Cat(v, w) \in Val
  /\ Agg \in Val /\ <<"text", 0>> \in Val
<1>1. LLMax \in Nat /\ Texts \in Nat \ {0}
  BY ValuesAssumption
<1>2. \A v \in Val : v[2] \in Int
  BY <1>1 DEF Val, Strings, Numbers, Agg, LLMin
<1>3. \A n \in LLMin .. LLMax : <<"num", n>> \in Val
  BY DEF Val, Strings, Numbers
<1>4. \A i \in Int : i % Texts \in 0 .. Texts - 1
  BY <1>1
<1>5. \A i \in 0 .. Texts - 1 : <<"text", i>> \in Val
  BY DEF Val, Strings
<1>6. \A v, w \in Val : Cat(v, w) \in Val
  BY <1>2, <1>4, <1>5 DEF Cat
<1> QED
  BY <1>1, <1>2, <1>3, <1>5, <1>6 DEF Val

LEMMA SumFits ==
  ASSUME NEW d, NEW H, Heap(d, H), NEW k \in Key, NEW incr \in Increments,
         IsNumber(Base(d, k))
  PROVE  /\ Base(d, k)[2] + incr \in Int
         /\ Overflows(Base(d, k)[2], incr) <=> Base(d, k)[2] + incr \notin LLMin .. LLMax
<1> DEFINE b == Base(d, k)
<1>1. b \in Val
  <2>1. CASE Present(d, k)
    <3>1. ValueOf(d, k) \in Val
      BY <2>1, HeldByKey DEF ValueOf, Heap, DB
    <3> QED
      BY <2>1, <3>1 DEF Base
  <2>2. CASE ~Present(d, k)
    <3>1. 0 \in LLMin .. LLMax
      BY ValuesAssumption DEF LLMin
    <3> QED
      BY <2>2, <3>1, ValueParts DEF Base
  <2> QED
    BY <2>1, <2>2
<1>2. b[1] = "num"
  BY DEF IsNumber
<1> HIDE DEF b
<1>3. b[2] \in LLMin .. LLMax
  BY <1>1, <1>2 DEF Val, Strings, Numbers, Agg
<1>4. incr \in LLMin .. LLMax
  BY KeyspaceAssumption
<1>5. b[2] + incr \in Int
  BY <1>3, <1>4, ValuesAssumption DEF LLMin
<1>6. Overflows(b[2], incr) <=> b[2] + incr \notin LLMin .. LLMax
  BY <1>3, <1>4, OverflowsExact
<1> QED
  BY <1>5, <1>6 DEF b

-----------------------------------------------------------------------------
(* The inductive invariant: the heap is sound and nothing was lent.        *)

IInv ==
  /\ Heap(db, held)
  /\ lent = NULL
  /\ now \in 0 .. MaxNow

LEMMA InitIInv == Init => IInv
<1> SUFFICES ASSUME Init PROVE IInv
  OBVIOUS
<1>1. db \in DB
  BY ValueParts DEF Init, DB, Enc
<1>2. \A k \in Key : ~Present(db, k) /\ db.expires[k] = NULL
  BY DEF Init, Present
<1>3. KeyStringsOK(db)
  BY <1>2 DEF Init, KeyStringsOK
<1>4. \A o \in Obj : Holders(db, Key, o) = 0
  BY <1>2, HoldersNone DEF Present
<1>5. CountsOK(db, held)
  <2>1. \A o \in Obj : db.rc[o] = 0 /\ o \notin held
    BY DEF Init
  <2> QED
    BY <1>4, <2>1 DEF CountsOK
<1> QED
  BY <1>1, <1>3, <1>5, KeyspaceAssumption DEF Init, IInv, Heap

\* What the steps that keep held, lent and the clock have to show.
LEMMA IdleIInv ==
  ASSUME IInv, ClientIdle, Heap(db', held)
  PROVE  IInv'
  BY DEF IInv, ClientIdle

LEMMA ClientIInv ==
  ASSUME IInv, NEW o \in Obj,
         Release(o) \/ \E c \in Created : CreateString(o, c)
  PROVE  IInv'
<1>1. CASE Release(o)
  <2>1. Heap(db', held')
    BY <1>1, DecrHeap DEF IInv, Release
  <2> QED
    BY <1>1, <2>1 DEF IInv, Release
<1>2. ASSUME NEW c \in Created, CreateString(o, c)
      PROVE  IInv'
  <2>1. c[1] \in Val /\ c[2] \in Enc
    BY KeyspaceAssumption DEF Val
  <2>2. db.rc[o] = 0
    BY <1>2 DEF CreateString, Fresh
  <2>3. Heap(db', held')
    BY <1>2, <2>1, <2>2, CreateHeap DEF IInv, CreateString
  <2> QED
    BY <1>2, <2>3 DEF IInv, CreateString
<1> QED
  BY <1>1, <1>2

LEMMA SetIInv ==
  ASSUME IInv, LendGet = FALSE, NEW k \in Key, SetCommand(k)
  PROVE  IInv'
<1>1. ASSUME NEW ex, NEW flag, SetInvalid(k, ex, flag)
      PROVE  IInv'
  BY <1>1, IdleIInv DEF SetInvalid, IInv
<1>2. ASSUME NEW ex, NEW flag, SetRefused(k, ex, flag)
      PROVE  IInv'
  BY <1>2, IdleIInv, ExpireIfNeededHeap DEF SetRefused, IInv
<1>3. ASSUME NEW ex \in Seconds \cup {NULL}, NEW flag, NEW o \in held,
             Set(k, o, ex, flag)
      PROVE  IInv'
  <2>1. PICK p \in KeyString(expireIfNeeded(db, k), k) :
          db' = IF ex = NULL THEN setKey(db, k, p, o)
                ELSE setExpire(setKey(db, k, p, o), k,
                               Wrap(now + Wrap(ex * MsPerSec)))
    BY <1>3 DEF Set
  <2>2. Heap(setKey(db, k, p, o), held)
    BY SetKeyHeap DEF IInv
  <2>3. CASE ex = NULL
    BY <1>3, <2>1, <2>2, <2>3, IdleIInv DEF Set
  <2>4. CASE ex # NULL
    <3>1. ex \in Int /\ MsPerSec \in Int /\ now \in Int
      BY <2>4, KeyspaceAssumption DEF IInv
    <3>2. Wrap(ex * MsPerSec) \in Int
      BY <3>1, WrapType, ValuesAssumption DEF LLMin
    <3>3. Wrap(now + Wrap(ex * MsPerSec)) \in LLMin .. LLMax
      BY <3>1, <3>2, WrapType
    <3>4. Heap(db', held)
      BY <2>1, <2>2, <2>4, <3>3, SetExpireHeap
    <3> QED
      BY <1>3, <3>4, IdleIInv DEF Set
  <2> QED
    BY <2>3, <2>4
<1>4. Offered = held
  BY DEF Offered
<1> QED
  BY <1>1, <1>2, <1>3, <1>4 DEF SetCommand
\* Storing a fresh object gives the key its only reference.
LEMMA FreshPutHeap ==
  ASSUME NEW d, NEW H, Heap(d, H), NEW k \in Key, NEW o \in Fresh(d),
         NEW p \in KeyString(d, k), NEW v \in Val, NEW c \in Enc
  PROVE  Heap(dbPut(createObject(d, o, v, c), k, p, o), H)
<1> DEFINE e == createObject(d, o, v, c)
<1>1. o \in Obj /\ d.rc[o] = 0 /\ (H \cup {o}) \ {o} = H
  BY FreshNotOwned
<1>2. Heap(e, H \cup {o})
  BY <1>1, CreateHeap
<1>3. KeyString(e, k) = KeyString(d, k)
  BY DEF KeyString, Present, createObject, Heap, DB
<1>4. Heap(dbPut(e, k, p, o), (H \cup {o}) \ {o})
  <2> HIDE DEF e
  <2> QED
    BY <1>2, <1>3, DbPutHeap
<1> QED
  BY <1>1, <1>4

LEMMA StringIInv ==
  ASSUME IInv, NEW k \in Key, StringCommand(k)
  PROVE  IInv'
<1> DEFINE d == expireIfNeeded(db, k)
<1>1. Heap(d, held)
  BY ExpireIfNeededHeap DEF IInv
<1>2. ASSUME NEW incr \in Increments, IncrError(k, incr)
      PROVE  IInv'
  BY <1>1, <1>2, IdleIInv DEF IncrError
<1>3. ASSUME NEW incr \in Increments, IncrBy(k, incr)
      PROVE  IInv'
  <2> DEFINE n == Base(d, k)[2] + incr
  <2>1. <<"num", n>> \in Val
    <3>1. IsNumber(Base(d, k)) /\ ~Overflows(Base(d, k)[2], incr)
      BY <1>3 DEF IncrBy
    <3> HIDE DEF d
    <3> QED
      BY <1>1, <3>1, SumFits, ValueParts
  <2>2. CASE db' = [d EXCEPT !.str[d.dict[k].val] = <<"num", n>>]
    <3> DEFINE f == [d.str EXCEPT ![d.dict[k].val] = <<"num", n>>]
    <3>1. d.str \in [Obj -> Val]
      BY <1>1 DEF Heap, DB
    <3>2. f \in [Obj -> Val]
      <4> HIDE DEF d, n
      <4> QED
        BY <2>1, <3>1
    <3>3. db' = [d EXCEPT !.str = f]
      BY <2>2
    <3>4. Heap(db', held)
      <4> HIDE DEF d, f
      <4> QED
        BY <1>1, <3>2, <3>3, ContentHeap
    <3> QED
      BY <1>3, <3>4, IdleIInv DEF IncrBy
  <2>3. CASE \E o \in Fresh(d), p \in KeyString(d, k) :
               db' = dbPut(createObject(d, o, <<"num", n>>, "int"), k, p, o)
    <3>1. Heap(db', held)
      <4> HIDE DEF d, n
      <4> QED
        BY <1>1, <2>1, <2>3, FreshPutHeap DEF Enc
    <3> QED
      BY <1>3, <3>1, IdleIInv DEF IncrBy
  <2> QED
    BY <1>3, <2>2, <2>3 DEF IncrBy
<1>4. ASSUME NEW incr \in Increments, IncrByFloat(k, incr)
      PROVE  IInv'
  <2> DEFINE n == Base(d, k)[2] + incr
  <2>1. <<"num", n>> \in Val
    BY <1>4, ValueParts DEF IncrByFloat
  <2>2. PICK o \in Fresh(d), p \in KeyString(d, k) :
          db' = dbPut(createObject(d, o, <<"num", n>>, "embstr"), k, p, o)
    BY <1>4 DEF IncrByFloat
  <2>3. Heap(db', held)
    <3> HIDE DEF d, n
    <3> QED
      BY <1>1, <2>1, <2>2, FreshPutHeap DEF Enc
  <2> QED
    BY <1>4, <2>3, IdleIInv DEF IncrByFloat
<1>5. ASSUME NEW w \in held, AppendNew(k, w)
      PROVE  IInv'
  <2>1. PICK p \in KeyString(d, k) : db' = incrRefCount(dbAdd(d, k, p, w), w)
    BY <1>5 DEF AppendNew
  <2>2. dbAdd(d, k, p, w) = dbPut(d, k, p, w)
    BY <1>5 DEF AppendNew, dbPut
  <2>3. Heap(db', held)
    <3> HIDE DEF d
    <3> QED
      BY <1>1, <2>1, <2>2, ShareHeap
  <2> QED
    BY <1>5, <2>3, IdleIInv DEF AppendNew
<1>6. ASSUME NEW w \in held, AppendTo(k, w)
      PROVE  IInv'
  <2>1. PICK n \in IF Private(d, k) THEN {NULL} ELSE Fresh(d) :
          db' = [dbUnshareStringValue(d, k, n) EXCEPT
                   !.str[dbUnshareStringValue(d, k, n).dict[k].val]
                     = Cat(@, d.str[w])]
    BY <1>6 DEF AppendTo
  <2> DEFINE e == dbUnshareStringValue(d, k, n)
             o == e.dict[k].val
             f == [e.str EXCEPT ![o] = Cat(e.str[o], d.str[w])]
  <2>2. Present(d, k)
    BY <1>6 DEF AppendTo
  <2>3. Heap(e, held) /\ Present(e, k)
    <3> HIDE DEF d
    <3> QED
      BY <1>1, <2>1, <2>2, UnshareHeap
  <2>4. /\ o \in Obj /\ e.str \in [Obj -> Val] /\ d.str[w] \in Val
    <3> HIDE DEF d, e
    <3> QED
      BY <1>1, <2>3, HeldByKey DEF Heap, DB
  <2>5. f \in [Obj -> Val]
    <3> HIDE DEF d, e, o
    <3> QED
      BY <2>4, ValueParts
  <2>6. Heap(db', held)
    <3>1. db' = [e EXCEPT !.str = f]
      BY <2>1
    <3> HIDE DEF e, f
    <3> QED
      BY <2>3, <2>5, <3>1, ContentHeap
  <2> QED
    BY <1>6, <2>6, IdleIInv DEF AppendTo
<1>7. ASSUME NEW v \in {Agg, <<"text", 0>>}, AddOwn(k, v)
      PROVE  IInv'
  <2>1. PICK o \in Fresh(d), p \in KeyPtr \ d.live :
          db' = dbAdd(createObject(d, o, v, "raw"), k, p, o)
    BY <1>7 DEF AddOwn
  <2>2. ~Present(d, k)
    BY <1>7 DEF AddOwn
  <2>3. /\ p \in KeyString(d, k)
        /\ dbAdd(createObject(d, o, v, "raw"), k, p, o)
             = dbPut(createObject(d, o, v, "raw"), k, p, o)
    <3>1. ~Present(createObject(d, o, v, "raw"), k)
      <4> HIDE DEF d
      <4> QED
        BY <1>1, <2>2 DEF Present, createObject, Heap, DB
    <3> HIDE DEF d
    <3> QED
      BY <2>2, <3>1 DEF KeyString, dbPut
  <2>4. Heap(db', held)
    <3> HIDE DEF d
    <3> QED
      BY <1>1, <2>1, <2>3, FreshPutHeap, ValueParts DEF Enc
  <2> QED
    BY <1>7, <2>4, IdleIInv DEF AddOwn
<1> QED
  BY <1>2, <1>3, <1>4, <1>5, <1>6, <1>7 DEF StringCommand
LEMMA KeyIInv ==
  ASSUME IInv, LendGet = FALSE, NEW k \in Key, KeyCommand(k)
  PROVE  IInv'
<1> DEFINE d == expireIfNeeded(db, k)
<1>1. Heap(db, held) /\ Heap(d, held)
  BY ExpireIfNeededHeap DEF IInv
<1>2. ASSUME NEW op, NEW secs \in Seconds, NEW base \in Int,
             ExpireGeneric(op, k, secs, base)
      PROVE  IInv'
  <2> DEFINE when == Wrap(Wrap(secs * MsPerSec) + base)
  <2>1. when \in LLMin .. LLMax
    <3>1. secs * MsPerSec \in Int
      BY KeyspaceAssumption
    <3>2. Wrap(secs * MsPerSec) \in Int
      BY <3>1, WrapType, ValuesAssumption DEF LLMin
    <3>3. Wrap(secs * MsPerSec) + base \in Int
      BY <3>2
    <3> QED
      BY <3>3, WrapType
  <2>2. Heap(setExpire(d, k, when), held) /\ Heap(dbDelete(d, {k}), held)
    <3> HIDE DEF d, when
    <3> QED
      BY <1>1, <2>1, SetExpireHeap, DbDeleteHeap
  <2>3. Heap(db', held)
    <3>1. \/ db' = d \/ db' = dbDelete(d, {k}) \/ db' = setExpire(d, k, when)
      BY <1>2 DEF ExpireGeneric
    <3> HIDE DEF d, when
    <3> QED
      BY <1>1, <2>2, <3>1
  <2> QED
    BY <1>2, <2>3, IdleIInv DEF ExpireGeneric
<1>3. CASE Get(k)
  BY <1>1, <1>3 DEF Get, IInv
<1>4. CASE Touch(k)
  BY <1>1, <1>4, IdleIInv DEF Touch
<1>5. CASE TTL(k)
  <2>1. now' \in 0 .. MaxNow
    BY <1>5, KeyspaceAssumption DEF TTL, IInv
  <2> QED
    BY <1>1, <1>5, <2>1 DEF TTL, IInv
<1>6. CASE Persist(k)
  <2>1. Heap(removeExpire(d, {k}), held)
    <3> HIDE DEF d
    <3> QED
      BY <1>1, RemoveExpireHeap
  <2> QED
    BY <1>1, <1>6, <2>1, IdleIInv DEF Persist
<1>7. CASE EmptyOut(k)
  <2>1. Heap(dbDelete(d, {k}), held)
    <3> HIDE DEF d
    <3> QED
      BY <1>1, DbDeleteHeap
  <2> QED
    BY <1>7, <2>1, IdleIInv DEF EmptyOut
<1>8. CASE Del(k)
  BY <1>1, <1>8, DbDeleteHeap, IdleIInv DEF Del
<1>9. CASE Exists(k)
  BY <1>1, <1>9, IdleIInv DEF Exists
<1>10. now \in Int /\ 0 \in Int
  BY DEF IInv
<1> QED
  BY <1>2, <1>3, <1>4, <1>5, <1>6, <1>7, <1>8, <1>9, <1>10
  DEF KeyCommand, Expire, Expireat

LEMMA CacheIInv ==
  ASSUME IInv, CacheCommand \/ Background
  PROVE  IInv'
<1>1. Heap(db, held)
  BY DEF IInv
<1>2. \A K \in SUBSET Key : Heap(dbDelete(db, K), held)
  BY <1>1, DbDeleteHeap
<1>3. CASE CacheSize
  BY <1>1, <1>3, IdleIInv DEF CacheSize
<1>4. CASE FlushCache
  BY <1>1, <1>4, EmptyDbHeap, IdleIInv DEF FlushCache
<1>5. CASE Randomkey
  <2>1. PICK K \in SUBSET Key : db' = dbDelete(findExpires(db), K)
    BY <1>5 DEF Randomkey
  <2>2. findExpires(db) = db
    BY <1>1, NotDangling
  <2>3. Heap(db', held)
    BY <1>2, <2>1, <2>2
  <2> QED
    BY <1>5, <2>3, IdleIInv DEF Randomkey
<1>6. CASE ActiveExpireCycle
  <2>1. PICK K \in SUBSET Key : db' = dbDelete(db, K)
    BY <1>6 DEF ActiveExpireCycle
  <2> QED
    BY <1>2, <1>6, <2>1, IdleIInv DEF ActiveExpireCycle
<1>7. CASE FreeMemoryIfNeeded
  <2>1. PICK K \in SUBSET Key : db' = dbDelete(db, K)
    BY <1>7 DEF FreeMemoryIfNeeded
  <2> QED
    BY <1>2, <1>7, <2>1, IdleIInv DEF FreeMemoryIfNeeded
<1> QED
  BY <1>3, <1>4, <1>5, <1>6, <1>7 DEF CacheCommand, Background

LEMMA NextIInv ==
  ASSUME LendGet = FALSE, IInv, [Next]_vars
  PROVE  IInv'
<1>1. CASE Tick
  BY <1>1, KeyspaceAssumption DEF Tick, IInv
<1>2. CASE UNCHANGED vars
  BY <1>2 DEF vars, IInv
<1> QED
  BY <1>1, <1>2, ClientIInv, SetIInv, StringIInv, KeyIInv, CacheIInv DEF Next

\* For any number of keys, key strings and objects, any arguments and any
\* integer width, as long as clients only hand in objects they own: the
\* state keeps its type, no command touches freed memory, dict and expires
\* share exactly the live key strings, and reference counts are exact.
THEOREM HeapSafety ==
  ASSUME LendGet = FALSE
  PROVE  Spec => [](TypeOK /\ NoUseAfterFree /\ KeyStringsShared /\ RefCountExact)
<1>1. Init => IInv
  BY InitIInv
<1>2. IInv /\ [Next]_vars => IInv'
  BY NextIInv
<1>3. IInv => TypeOK /\ NoUseAfterFree /\ KeyStringsShared /\ RefCountExact
  BY DEF IInv, Heap, TypeOK, NoUseAfterFree, KeyStringsShared, RefCountExact
<1> QED
  BY <1>1, <1>2, <1>3, PTL DEF Spec

\* The four parts on their own.
\*
\* Every variable keeps its type, however many commands ran.
THEOREM TypeCorrect ==
  ASSUME LendGet = FALSE
  PROVE  Spec => []TypeOK
  BY HeapSafety, PTL

\* No command touches a key string or an object that was freed.
THEOREM MemorySafe ==
  ASSUME LendGet = FALSE
  PROVE  Spec => []NoUseAfterFree
  BY HeapSafety, PTL

\* expires borrows exactly the key strings dict owns, and none leaks.
THEOREM KeyStringsAreShared ==
  ASSUME LendGet = FALSE
  PROVE  Spec => []KeyStringsShared
  BY HeapSafety, PTL

\* A count is the number of keys and clients that refer to the object.
THEOREM CountsAreExact ==
  ASSUME LendGet = FALSE
  PROVE  Spec => []RefCountExact
  BY HeapSafety, PTL

-----------------------------------------------------------------------------
(* What the commands do to the values.                                     *)

LEMMA HeapDB ==
  ASSUME NEW d, NEW H, Heap(d, H)
  PROVE  d \in DB
  BY DEF Heap

-----------------------------------------------------------------------------
(* The objects' contents.                                                  *)

SameContents(d, e) == e.str = d.str /\ e.enc = d.enc

LEMMA DeleteContents ==
  ASSUME NEW d \in DB, NEW K
  PROVE  /\ SameContents(d, removeExpire(d, K))
         /\ SameContents(d, dictDelete(d, K))
         /\ SameContents(d, dbDelete(d, K))
         /\ SameContents(d, emptyDb(d))
  BY DEF SameContents, DB, dbDelete, dictDelete, removeExpire, findExpires, emptyDb

LEMMA ExpireContents ==
  ASSUME NEW d, NEW H, Heap(d, H), NEW k \in Key
  PROVE  SameContents(d, expireIfNeeded(d, k))
  BY NotDangling, DeleteContents DEF Heap, expireIfNeeded, SameContents

LEMMA CountContents ==
  ASSUME NEW d \in DB, NEW o
  PROVE  /\ SameContents(d, incrRefCount(d, o))
         /\ SameContents(d, decrRefCount(d, o))
  BY DEF SameContents, DB, incrRefCount, decrRefCount

LEMMA PutContents ==
  ASSUME NEW d \in DB, NEW k, NEW p, NEW o
  PROVE  /\ SameContents(d, dbAdd(d, k, p, o))
         /\ SameContents(d, dbOverwrite(d, k, o))
         /\ SameContents(d, dbPut(d, k, p, o))
<1>1. SameContents(d, dbAdd(d, k, p, o))
  BY DEF SameContents, DB, dbAdd
<1>2. SameContents(d, dbOverwrite(d, k, o))
  BY DEF SameContents, DB, dbOverwrite, decrRefCount
<1> QED
  BY <1>1, <1>2 DEF dbPut

LEMMA SetExpireContents ==
  ASSUME NEW d \in DB, NEW k, NEW w
  PROVE  SameContents(d, setExpire(d, k, w))
  BY DEF SameContents, DB, setExpire, findExpires

LEMMA CreateContents ==
  ASSUME NEW d \in DB, NEW o \in Obj, NEW v, NEW c
  PROVE  /\ createObject(d, o, v, c).str = [d.str EXCEPT ![o] = v]
         /\ createObject(d, o, v, c).enc = [d.enc EXCEPT ![o] = c]
  BY DEF DB, createObject

-----------------------------------------------------------------------------
(* No command changes an object the client owns.                           *)

Untouched(d, e, H) == \A o \in H : e.str[o] = d.str[o] /\ e.enc[o] = d.enc[o]

\* A fresh object is not the client's, so creating one changes none of its.
LEMMA CreateUntouched ==
  ASSUME NEW d, NEW H, Heap(d, H), NEW o \in Fresh(d), NEW v, NEW c
  PROVE  Untouched(d, createObject(d, o, v, c), H)
<1>1. d \in DB /\ H \subseteq Obj /\ o \in Obj /\ o \notin H
  BY FreshNotOwned DEF Heap
<1>2. d.str \in [Obj -> Val] /\ d.enc \in [Obj -> Enc]
  BY <1>1 DEF DB
<1>3. /\ createObject(d, o, v, c).str = [d.str EXCEPT ![o] = v]
      /\ createObject(d, o, v, c).enc = [d.enc EXCEPT ![o] = c]
  BY <1>1, CreateContents
<1> QED
  BY <1>1, <1>2, <1>3 DEF Untouched

\* An object with one owner, a key, is not the client's.
LEMMA OnlyKeyHolds ==
  ASSUME NEW d, NEW H, Heap(d, H), NEW k \in Key, Present(d, k),
         d.rc[d.dict[k].val] = 1
  PROVE  /\ d.dict[k].val \notin H
         /\ \A j \in Key : j # k /\ Present(d, j) => d.dict[j].val # d.dict[k].val
<1> DEFINE o == d.dict[k].val
<1>1. o \in Obj
  BY HeldByKey
<1>2. /\ Holders(d, Key, o) = Holders(d, {k}, o) + Holders(d, Key \ {k}, o)
      /\ Holders(d, {k}, o) = 1
      /\ Holders(d, Key \ {k}, o) \in Nat
  BY HoldersSplit, HoldersOne, HoldersType
<1>3. d.rc[o] = Holders(d, Key, o) + (IF o \in H THEN 1 ELSE 0)
  BY <1>1 DEF Heap, CountsOK
<1>4. o \notin H /\ Holders(d, Key \ {k}, o) = 0
  BY <1>2, <1>3
<1>5. HolderSet(d, Key \ {k}, o) = {}
  BY <1>4, HoldersType, FS_EmptySet
<1> QED
  BY <1>4, <1>5 DEF HolderSet

LEMMA InPlaceUntouched ==
  ASSUME NEW d, NEW H, Heap(d, H), NEW k \in Key, Present(d, k),
         d.rc[d.dict[k].val] = 1, NEW v
  PROVE  Untouched(d, [d EXCEPT !.str[d.dict[k].val] = v], H)
<1>1. d \in DB /\ d.dict[k].val \notin H
  BY OnlyKeyHolds DEF Heap
<1> QED
  BY <1>1 DEF Untouched, DB

LEMMA SameUntouched ==
  ASSUME NEW d, NEW e, NEW f, NEW H, Untouched(d, e, H), SameContents(e, f)
  PROVE  Untouched(d, f, H)
  BY DEF Untouched, SameContents

LEMMA FreshPutUntouched ==
  ASSUME NEW d, NEW H, Heap(d, H), NEW k \in Key, NEW o \in Fresh(d),
         NEW p, NEW v \in Val, NEW c \in Enc
  PROVE  Untouched(d, dbPut(createObject(d, o, v, c), k, p, o), H)
<1> DEFINE e == createObject(d, o, v, c)
<1>1. Untouched(d, e, H)
  BY CreateUntouched
<1>2. e \in DB
  BY FreshNotOwned, CreateHeap DEF Heap
<1>3. SameContents(e, dbPut(e, k, p, o))
  <2> HIDE DEF e
  <2> QED
    BY <1>2, PutContents
<1> QED
  BY <1>1, <1>3, SameUntouched

LEMMA OverwriteValue ==
  ASSUME NEW d, NEW H, Heap(d, H), NEW k \in Key, Present(d, k), NEW o \in H
  PROVE  dbOverwrite(d, k, o).dict[k].val = o
<1>1. /\ Heap(dbOverwrite(d, k, o), H \ {o})
      /\ Present(dbOverwrite(d, k, o), k)
      /\ dbOverwrite(d, k, o).dict[k].val = o
  BY DbOverwriteHeap
<1> QED
  BY <1>1

LEMMA UnshareUntouched ==
  ASSUME NEW d, NEW H, Heap(d, H), NEW k \in Key, Present(d, k),
         NEW n \in IF Private(d, k) THEN {NULL} ELSE Fresh(d), NEW v,
         NEW e, e = dbUnshareStringValue(d, k, n)
  PROVE  Untouched(d, [e EXCEPT !.str[e.dict[k].val] = v], H)
<1> DEFINE o == e.dict[k].val
<1>1. Heap(e, H) /\ Present(e, k)
  BY UnshareHeap
<1>2. CASE Private(d, k)
  BY <1>2, InPlaceUntouched DEF Private, dbUnshareStringValue
<1>3. CASE ~Private(d, k)
  <2> DEFINE c == createObject(d, n, ValueOf(d, k), "raw")
  <2>1. n \in Fresh(d) /\ n \notin H /\ ValueOf(d, k) \in Val
    BY <1>3, FreshNotOwned, HeldByKey DEF ValueOf, Heap, DB
  <2>2. Heap(c, H \cup {n}) /\ Untouched(d, c, H)
    BY <2>1, FreshNotOwned, CreateHeap, CreateUntouched DEF Enc
  <2>3. Present(c, k)
    BY DEF createObject, Present, Heap, DB
  <2>4. e = dbOverwrite(c, k, n)
    BY <1>3 DEF dbUnshareStringValue
  <2>5. SameContents(c, e) /\ o = n
    <3> HIDE DEF c
    <3>1. c \in DB /\ n \in H \cup {n}
      BY <2>2 DEF Heap
    <3>2. SameContents(c, dbOverwrite(c, k, n))
      BY <3>1, PutContents
    <3>3. dbOverwrite(c, k, n).dict[k].val = n
      <4> DEFINE G == H \cup {n}
      <4>1. Heap(c, G) /\ n \in G
        BY <2>2
      <4> HIDE DEF G
      <4> QED
        BY <2>3, <4>1, OverwriteValue
    <3> QED
      BY <2>4, <3>2, <3>3
  <2>6. Untouched(d, e, H)
    BY <2>2, <2>5, SameUntouched
  <2>7. e \in DB
    BY <1>1 DEF Heap
  <2> QED
    BY <2>1, <2>5, <2>6, <2>7 DEF Untouched, DB
<1> QED
  BY <1>2, <1>3

LEMMA SetKeyContents ==
  ASSUME NEW d, NEW H, Heap(d, H), NEW k \in Key,
         NEW p \in KeyString(expireIfNeeded(d, k), k), NEW o \in H
  PROVE  SameContents(d, setKey(d, k, p, o))
<1> DEFINE a == expireIfNeeded(d, k)
           b == dbPut(a, k, p, o)
           c == incrRefCount(b, o)
<1>1. Heap(a, H) /\ SameContents(d, a) /\ p \in KeyString(a, k)
  BY ExpireIfNeededHeap, ExpireContents
<1>2. Heap(b, H \ {o}) /\ Heap(c, H)
  <2> HIDE DEF a
  <2> QED
    BY <1>1, DbPutHeap, ShareHeap
<1>3. SameContents(a, b)
  <2> HIDE DEF a
  <2> QED
    BY <1>1, PutContents DEF Heap
<1>4. SameContents(b, c)
  <2> HIDE DEF b
  <2> QED
    BY <1>2, CountContents DEF Heap
<1>5. SameContents(c, removeExpire(c, {k}))
  <2> HIDE DEF c
  <2> QED
    BY <1>2, DeleteContents DEF Heap
<1> QED
  BY <1>1, <1>3, <1>4, <1>5 DEF SameContents, setKey

LEMMA SetCommandContents ==
  ASSUME IInv, LendGet = FALSE, NEW k \in Key, SetCommand(k)
  PROVE  SameContents(db, db')
<1>1. Heap(db, held)
  BY DEF IInv
<1>2. ASSUME NEW ex, NEW flag, SetInvalid(k, ex, flag)
      PROVE  SameContents(db, db')
  BY <1>2 DEF SetInvalid, SameContents
<1>3. ASSUME NEW ex, NEW flag, SetRefused(k, ex, flag)
      PROVE  SameContents(db, db')
  BY <1>1, <1>3, ExpireContents DEF SetRefused
<1>4. ASSUME NEW ex \in Seconds \cup {NULL}, NEW flag, NEW o \in held,
             Set(k, o, ex, flag)
      PROVE  SameContents(db, db')
  <2>1. PICK p \in KeyString(expireIfNeeded(db, k), k) :
          db' = IF ex = NULL THEN setKey(db, k, p, o)
                ELSE setExpire(setKey(db, k, p, o), k,
                               Wrap(now + Wrap(ex * MsPerSec)))
    BY <1>4 DEF Set
  <2>2. SameContents(db, setKey(db, k, p, o)) /\ setKey(db, k, p, o) \in DB
    BY <1>1, SetKeyContents, SetKeyHeap DEF Heap
  <2>3. \A w : SameContents(setKey(db, k, p, o), setExpire(setKey(db, k, p, o), k, w))
    BY <2>2, SetExpireContents
  <2> QED
    BY <2>1, <2>2, <2>3 DEF SameContents
<1>5. Offered = held
  BY DEF Offered
<1> QED
  BY <1>2, <1>3, <1>4, <1>5 DEF SetCommand

LEMMA KeyCommandContents ==
  ASSUME IInv, NEW k \in Key, KeyCommand(k)
  PROVE  SameContents(db, db')
<1> DEFINE d == expireIfNeeded(db, k)
<1>1. Heap(db, held) /\ Heap(d, held) /\ SameContents(db, d)
  BY ExpireIfNeededHeap, ExpireContents DEF IInv
<1>2. /\ SameContents(db, dbDelete(db, {k}))
      /\ SameContents(db, dbDelete(d, {k}))
      /\ SameContents(db, removeExpire(d, {k}))
      /\ \A w : SameContents(db, setExpire(d, k, w))
  <2> HIDE DEF d
  <2> QED
    BY <1>1, DeleteContents, SetExpireContents DEF Heap, SameContents
<1>3. ASSUME NEW op, NEW secs, NEW base, ExpireGeneric(op, k, secs, base)
      PROVE  SameContents(db, db')
  BY <1>1, <1>2, <1>3 DEF ExpireGeneric
<1>4. CASE Get(k) \/ Touch(k) \/ TTL(k)
  BY <1>1, <1>4 DEF Get, Touch, TTL
<1>5. CASE Persist(k)
  BY <1>1, <1>2, <1>5 DEF Persist
<1>6. CASE EmptyOut(k)
  BY <1>2, <1>6 DEF EmptyOut
<1>7. CASE Del(k) \/ Exists(k)
  BY <1>2, <1>7 DEF Del, Exists, SameContents
<1> QED
  BY <1>3, <1>4, <1>5, <1>6, <1>7 DEF KeyCommand, Expire, Expireat

LEMMA CacheCommandContents ==
  ASSUME IInv, CacheCommand \/ Background \/ Tick
  PROVE  SameContents(db, db')
<1>1. db \in DB /\ findExpires(db) = db
  BY NotDangling DEF IInv, Heap
<1>2. CASE CacheSize \/ Tick
  BY <1>2 DEF CacheSize, Tick, SameContents
<1>3. CASE FlushCache
  BY <1>1, <1>3, DeleteContents DEF FlushCache
<1>4. CASE Randomkey \/ ActiveExpireCycle \/ FreeMemoryIfNeeded
  <2>1. PICK K : db' = dbDelete(db, K)
    BY <1>1, <1>4 DEF Randomkey, ActiveExpireCycle, FreeMemoryIfNeeded
  <2> QED
    BY <1>1, <2>1, DeleteContents
<1> QED
  BY <1>2, <1>3, <1>4 DEF CacheCommand, Background

LEMMA StringCommandUntouched ==
  ASSUME IInv, NEW k \in Key, StringCommand(k)
  PROVE  Untouched(db, db', held)
<1> DEFINE d == expireIfNeeded(db, k)
<1>1. Heap(d, held) /\ SameContents(db, d)
  BY ExpireIfNeededHeap, ExpireContents DEF IInv
<1>2. \A e : Untouched(d, e, held) => Untouched(db, e, held)
  BY <1>1 DEF Untouched, SameContents
<1>3. ASSUME NEW incr, IncrError(k, incr)
      PROVE  Untouched(db, db', held)
  BY <1>1, <1>3 DEF IncrError, Untouched, SameContents
<1>4. ASSUME NEW n \in Int, NEW c \in Enc, <<"num", n>> \in Val,
             \E o \in Fresh(d), p \in KeyString(d, k) :
               db' = dbPut(createObject(d, o, <<"num", n>>, c), k, p, o)
      PROVE  Untouched(db, db', held)
  <2> HIDE DEF d
  <2> QED
    BY <1>1, <1>2, <1>4, FreshPutUntouched
<1>5. ASSUME NEW incr \in Increments, IncrBy(k, incr)
      PROVE  Untouched(db, db', held)
  <2> DEFINE n == Base(d, k)[2] + incr
  <2>1. n \in Int /\ <<"num", n>> \in Val /\ "int" \in Enc
    <3>1. IsNumber(Base(d, k)) /\ ~Overflows(Base(d, k)[2], incr)
      BY <1>5 DEF IncrBy
    <3> HIDE DEF d
    <3> QED
      BY <1>1, <3>1, SumFits, ValueParts DEF Enc
  <2>2. CASE /\ Present(d, k) /\ d.rc[d.dict[k].val] = 1
             /\ db' = [d EXCEPT !.str[d.dict[k].val] = <<"num", n>>]
    <3> HIDE DEF d, n
    <3> QED
      BY <1>1, <1>2, <2>2, InPlaceUntouched
  <2>3. CASE \E o \in Fresh(d), p \in KeyString(d, k) :
               db' = dbPut(createObject(d, o, <<"num", n>>, "int"), k, p, o)
    <3> HIDE DEF d, n
    <3> QED
      BY <1>4, <2>1, <2>3
  <2> QED
    BY <1>5, <2>2, <2>3 DEF IncrBy
<1>6. ASSUME NEW incr \in Increments, IncrByFloat(k, incr)
      PROVE  Untouched(db, db', held)
  <2> DEFINE n == Base(d, k)[2] + incr
  <2>1. n \in Int /\ <<"num", n>> \in Val /\ "embstr" \in Enc
    BY <1>6, ValueParts, ValuesAssumption DEF IncrByFloat, Enc, LLMin
  <2>2. \E o \in Fresh(d), p \in KeyString(d, k) :
          db' = dbPut(createObject(d, o, <<"num", n>>, "embstr"), k, p, o)
    BY <1>6 DEF IncrByFloat
  <2> HIDE DEF d, n
  <2> QED
    BY <1>4, <2>1, <2>2
<1>7. ASSUME NEW w \in held, AppendNew(k, w)
      PROVE  Untouched(db, db', held)
  <2>1. PICK p \in KeyString(d, k) : db' = incrRefCount(dbAdd(d, k, p, w), w)
    BY <1>7 DEF AppendNew
  <2> DEFINE e == dbAdd(d, k, p, w)
  <2>2. e = dbPut(d, k, p, w)
    BY <1>7 DEF AppendNew, dbPut
  <2>3. d \in DB /\ e \in DB
    <3>1. d \in DB
      BY <1>1 DEF Heap
    <3>2. Heap(dbPut(d, k, p, w), held \ {w})
      <4> HIDE DEF d
      <4> QED
        BY <1>1, DbPutHeap
    <3> QED
      BY <2>2, <3>1, <3>2 DEF Heap
  <2>4. SameContents(d, e) /\ SameContents(e, db')
    <3>1. db' = incrRefCount(e, w)
      BY <2>1
    <3> HIDE DEF d, e
    <3> QED
      BY <2>2, <2>3, <3>1, PutContents, CountContents
  <2> QED
    BY <1>1, <2>4 DEF Untouched, SameContents
<1>8. ASSUME NEW w \in held, AppendTo(k, w)
      PROVE  Untouched(db, db', held)
  <2>1. PICK n \in IF Private(d, k) THEN {NULL} ELSE Fresh(d) :
          db' = [dbUnshareStringValue(d, k, n) EXCEPT
                   !.str[dbUnshareStringValue(d, k, n).dict[k].val]
                     = Cat(@, d.str[w])]
    BY <1>8 DEF AppendTo
  <2>2. Present(d, k)
    BY <1>8 DEF AppendTo
  <2> DEFINE e == dbUnshareStringValue(d, k, n)
             v == Cat(e.str[e.dict[k].val], d.str[w])
  <2>3. db' = [e EXCEPT !.str[e.dict[k].val] = v]
    BY <2>1
  <2>4. Untouched(d, db', held)
    <3>1. e = dbUnshareStringValue(d, k, n)
      OBVIOUS
    <3> HIDE DEF d, e, v
    <3> QED
      BY <1>1, <2>1, <2>2, <2>3, <3>1, UnshareUntouched
  <2> QED
    BY <1>2, <2>4
<1>9. ASSUME NEW v \in {Agg, <<"text", 0>>}, AddOwn(k, v)
      PROVE  Untouched(db, db', held)
  <2>1. PICK o \in Fresh(d), p \in KeyPtr \ d.live :
          db' = dbAdd(createObject(d, o, v, "raw"), k, p, o)
    BY <1>9 DEF AddOwn
  <2> DEFINE c == createObject(d, o, v, "raw")
  <2>2. Untouched(d, c, held) /\ c \in DB
    <3>1. v \in Val /\ "raw" \in Enc
      BY ValueParts DEF Enc
    <3> HIDE DEF d
    <3>2. o \in Obj /\ d.rc[o] = 0
      BY <1>1, <2>1, FreshNotOwned
    <3>3. Heap(c, held \cup {o})
      BY <1>1, <3>1, <3>2, CreateHeap
    <3>4. Untouched(d, c, held)
      BY <1>1, <2>1, CreateUntouched
    <3> QED
      BY <3>3, <3>4 DEF Heap
  <2>3. SameContents(c, db')
    <3>1. db' = dbAdd(c, k, p, o)
      BY <2>1
    <3> HIDE DEF c
    <3> QED
      BY <2>2, <3>1, PutContents
  <2> QED
    BY <1>2, <2>2, <2>3, SameUntouched
<1> QED
  BY <1>3, <1>5, <1>6, <1>7, <1>8, <1>9 DEF StringCommand

LEMMA NextUntouched ==
  ASSUME LendGet = FALSE, IInv, [Next]_vars
  PROVE  Untouched(db, db', held \cap held')
<1>1. Heap(db, held) /\ held \subseteq Obj
  BY DEF IInv, Heap
<1>2. SameContents(db, db') => Untouched(db, db', held \cap held')
  BY DEF SameContents, Untouched
<1>3. Untouched(db, db', held) => Untouched(db, db', held \cap held')
  BY DEF Untouched
<1>4. ASSUME NEW o \in Obj, Release(o)
      PROVE  SameContents(db, db')
  BY <1>1, <1>4, CountContents DEF Release, Heap
<1>5. ASSUME NEW o \in Obj, NEW c \in Created, CreateString(o, c)
      PROVE  Untouched(db, db', held)
  BY <1>1, <1>5, CreateUntouched DEF CreateString
<1>6. CASE UNCHANGED vars
  BY <1>2, <1>6 DEF vars, SameContents
<1> QED
  BY <1>2, <1>3, <1>4, <1>5, <1>6, SetCommandContents, StringCommandUntouched,
     KeyCommandContents, CacheCommandContents
  DEF Next

\* Whatever keys, objects and arguments there are: a command never changes
\* an object its client owns, so what the client stored under one key is not
\* changed through another.
THEOREM ClientObjectsSafe ==
  ASSUME LendGet = FALSE
  PROVE  Spec => ClientObjectsUntouched
<1>1. Init => IInv
  BY InitIInv
<1>2. IInv /\ [Next]_vars => IInv'
  BY NextIInv
<1>3. IInv /\ [Next]_vars =>
        [\A o \in held \cap held' :
           db'.str[o] = db.str[o] /\ db'.enc[o] = db.enc[o]]_vars
  BY NextUntouched DEF Untouched
<1> QED
  BY <1>1, <1>2, <1>3, PTL DEF Spec, ClientObjectsUntouched

-----------------------------------------------------------------------------
(* The value and the deadline of each key, and how the operators of db.c   *)
(* change them.                                                            *)

Vals(d) == [k \in Key |-> IF Present(d, k) THEN ValueOf(d, k) ELSE NULL]

Whens(d) == [k \in Key |-> IF d.expires[k] = NULL THEN NULL ELSE d.expires[k].when]

SameView(d, e) == Vals(e) = Vals(d) /\ Whens(e) = Whens(d)

Without(f, K) == [k \in Key |-> IF k \in K THEN NULL ELSE f[k]]

LEMMA ViewType ==
  ASSUME NEW d, NEW H, Heap(d, H)
  PROVE  /\ Vals(d) \in [Key -> Val \cup {NULL}]
         /\ Whens(d) \in [Key -> (LLMin .. LLMax) \cup {NULL}]
         /\ \A k \in Key : /\ Present(d, k) <=> Vals(d)[k] # NULL
                           /\ Present(d, k) => Vals(d)[k] = ValueOf(d, k)
                           /\ d.expires[k] = NULL <=> Whens(d)[k] = NULL
                           /\ Vals(d)[k] = NULL => Whens(d)[k] = NULL
<1>1. d \in DB /\ KeyStringsOK(d)
  BY DEF Heap
<1>2. \A k \in Key : Present(d, k) => ValueOf(d, k) \in Val
  BY <1>1, HeldByKey DEF ValueOf, DB
<1>3. \A k \in Key : d.expires[k] # NULL =>
        Present(d, k) /\ d.expires[k].when \in LLMin .. LLMax
  BY <1>1 DEF KeyStringsOK, DB, Expiry
<1>4. NULL \notin Val /\ NULL \notin LLMin .. LLMax
  BY KeyspaceAssumption, ValuesAssumption DEF LLMin
<1> QED
  BY <1>2, <1>3, <1>4 DEF Vals, Whens

LEMMA RemoveView ==
  ASSUME NEW d, NEW H, Heap(d, H), NEW K \in SUBSET Key
  PROVE  /\ Vals(removeExpire(d, K)) = Vals(d)
         /\ Whens(removeExpire(d, K)) = Without(Whens(d), K)
<1> DEFINE e == removeExpire(d, K)
<1>1. /\ e.dict = d.dict /\ e.str = d.str
      /\ e.expires = [k \in Key |-> IF k \in K THEN NULL ELSE d.expires[k]]
  BY HeapDB, RemoveExpireHeap, DeleteContents DEF SameContents
<1> HIDE DEF e
<1>2. Vals(e) = Vals(d)
  BY <1>1 DEF Vals, Present, ValueOf
<1>3. Whens(e) = Without(Whens(d), K)
  BY <1>1 DEF Whens, Without
<1> QED
  BY <1>2, <1>3 DEF e

LEMMA DeleteView ==
  ASSUME NEW d, NEW H, Heap(d, H), NEW K \in SUBSET Key
  PROVE  /\ Vals(dbDelete(d, K)) = Without(Vals(d), K)
         /\ Whens(dbDelete(d, K)) = Without(Whens(d), K)
<1> DEFINE r == removeExpire(d, K)
           e == dictDelete(r, K)
<1>1. /\ Heap(r, H) /\ Vals(r) = Vals(d) /\ Whens(r) = Without(Whens(d), K)
      /\ r.expires = [k \in Key |-> IF k \in K THEN NULL ELSE d.expires[k]]
  BY RemoveExpireHeap, RemoveView
<1>2. \A k \in K : r.expires[k] = NULL
  <2> HIDE DEF r
  <2> QED
    BY <1>1
<1>3. /\ e.dict = [k \in Key |-> IF k \in K THEN NULL ELSE r.dict[k]]
      /\ e.expires = r.expires /\ e.str = r.str
  <2> HIDE DEF r
  <2> QED
    BY <1>1, <1>2, HeapDB, DictDeleteHeap, DeleteContents DEF SameContents
<1>4. e = dbDelete(d, K)
  BY DEF dbDelete
<1> HIDE DEF e, r
<1>5. Vals(e) = Without(Vals(r), K)
  BY <1>3 DEF Vals, Present, ValueOf, Without
<1>6. Whens(e) = Whens(r)
  BY <1>3 DEF Whens
<1> QED
  BY <1>1, <1>4, <1>5, <1>6

LEMMA EmptyView ==
  ASSUME NEW d, NEW H, Heap(d, H)
  PROVE  Vals(emptyDb(d)) = Without(Vals(d), Key) /\ Whens(emptyDb(d)) = Without(Whens(d), Key)
<1>1. d \in DB
  BY DEF Heap
<1>2. \A k \in Key : emptyDb(d).dict[k] = NULL /\ emptyDb(d).expires[k] = NULL
  BY <1>1 DEF emptyDb, dictDelete, DB
<1> QED
  BY <1>2 DEF Vals, Whens, Without, Present

LEMMA SameViewIf ==
  ASSUME NEW d, NEW e, e.dict = d.dict, e.expires = d.expires,
         \A k \in Key : Present(d, k) => e.str[d.dict[k].val] = d.str[d.dict[k].val]
  PROVE  SameView(d, e)
  BY DEF SameView, Vals, Whens, Present, ValueOf

LEMMA CreateView ==
  ASSUME NEW d, NEW H, Heap(d, H), NEW o \in Fresh(d), NEW v, NEW c
  PROVE  SameView(d, createObject(d, o, v, c))
<1> DEFINE e == createObject(d, o, v, c)
<1>1. d \in DB /\ o \in Obj /\ d.rc[o] = 0
  BY FreshNotOwned DEF Heap
<1>2. e.dict = d.dict /\ e.expires = d.expires /\ e.str = [d.str EXCEPT ![o] = v]
  BY <1>1, CreateContents DEF createObject, DB
<1>3. \A k \in Key : Present(d, k) => d.dict[k].val # o /\ d.dict[k].val \in Obj
  BY <1>1, HeldByKey
<1>4. d.str \in [Obj -> Val]
  BY <1>1 DEF DB
<1> HIDE DEF e
<1>5. \A k \in Key : Present(d, k) => e.str[d.dict[k].val] = d.str[d.dict[k].val]
  BY <1>1, <1>2, <1>3, <1>4
<1>6. SameView(d, e)
  BY <1>2, <1>5 DEF SameView, Vals, Whens, Present, ValueOf
<1> QED
  BY <1>6 DEF e

LEMMA CountView ==
  ASSUME NEW d \in DB, NEW o
  PROVE  SameView(d, incrRefCount(d, o)) /\ SameView(d, decrRefCount(d, o))
<1>1. /\ incrRefCount(d, o).dict = d.dict /\ incrRefCount(d, o).expires = d.expires
      /\ decrRefCount(d, o).dict = d.dict /\ decrRefCount(d, o).expires = d.expires
  BY DEF DB, incrRefCount, decrRefCount
<1> QED
  BY <1>1, CountContents, SameViewIf DEF SameContents

LEMMA AddView ==
  ASSUME NEW d, NEW H, Heap(d, H), NEW k \in Key, ~Present(d, k),
         NEW p \in KeyPtr \ d.live, NEW o \in H
  PROVE  /\ Vals(dbAdd(d, k, p, o)) = [Vals(d) EXCEPT ![k] = d.str[o]]
         /\ Whens(dbAdd(d, k, p, o)) = Whens(d)
<1> DEFINE e == dbAdd(d, k, p, o)
           s == [key |-> p, val |-> o]
<1>1. d \in DB /\ s \in Slot
  BY HeapDB DEF Heap, Slot
<1>2. e.dict = [d.dict EXCEPT ![k] = s] /\ e.expires = d.expires /\ e.str = d.str
  BY <1>1 DEF dbAdd, DB
<1>3. d.dict \in [Key -> Slot \cup {NULL}] /\ s # NULL /\ s.val = o
  BY <1>1, KeyspaceAssumption DEF DB
<1> HIDE DEF e, s
<1>4. Vals(e) = [Vals(d) EXCEPT ![k] = d.str[o]]
  BY <1>2, <1>3 DEF Vals, Present, ValueOf
<1>5. Whens(e) = Whens(d)
  BY <1>2 DEF Whens
<1> QED
  BY <1>4, <1>5 DEF e

LEMMA OverwriteView ==
  ASSUME NEW d, NEW H, Heap(d, H), NEW k \in Key, Present(d, k), NEW o \in H
  PROVE  /\ Vals(dbOverwrite(d, k, o)) = [Vals(d) EXCEPT ![k] = d.str[o]]
         /\ Whens(dbOverwrite(d, k, o)) = Whens(d)
<1> DEFINE e == dbOverwrite(d, k, o)
           s == [d.dict[k] EXCEPT !.val = o]
<1>1. d \in DB /\ d.dict[k] \in Slot /\ o \in Obj
  BY HeapDB DEF Heap, DB, Present
<1>2. e.dict = [d.dict EXCEPT ![k] = s] /\ e.expires = d.expires /\ e.str = d.str
  BY <1>1 DEF dbOverwrite, decrRefCount, DB
<1>3. s \in Slot /\ s.val = o
  BY <1>1 DEF Slot
<1>4. d.dict \in [Key -> Slot \cup {NULL}] /\ s # NULL
  BY <1>1, <1>3, KeyspaceAssumption DEF DB
<1> HIDE DEF e, s
<1>5. Vals(e) = [Vals(d) EXCEPT ![k] = d.str[o]]
  BY <1>2, <1>3, <1>4 DEF Vals, Present, ValueOf
<1>6. Whens(e) = Whens(d)
  BY <1>2 DEF Whens
<1> QED
  BY <1>5, <1>6 DEF e

LEMMA PutView ==
  ASSUME NEW d, NEW H, Heap(d, H), NEW k \in Key,
         NEW p \in KeyString(d, k), NEW o \in H
  PROVE  /\ Vals(dbPut(d, k, p, o)) = [Vals(d) EXCEPT ![k] = d.str[o]]
         /\ Whens(dbPut(d, k, p, o)) = Whens(d)
  BY AddView, OverwriteView DEF dbPut, KeyString

\* Storing and counting an object the client keeps.
LEMMA ShareView ==
  ASSUME NEW d, NEW H, Heap(d, H), NEW k \in Key,
         NEW p \in KeyString(d, k), NEW o \in H
  PROVE  LET e == incrRefCount(dbPut(d, k, p, o), o) IN
         /\ Vals(e) = [Vals(d) EXCEPT ![k] = d.str[o]]
         /\ Whens(e) = Whens(d)
<1> DEFINE b == dbPut(d, k, p, o)
<1>1. b \in DB
  BY DbPutHeap, HeapDB
<1>2. SameView(b, incrRefCount(b, o))
  <2> HIDE DEF b
  <2> QED
    BY <1>1, CountView
<1> QED
  BY <1>2, PutView DEF SameView

LEMMA FreshPutView ==
  ASSUME NEW d, NEW H, Heap(d, H), NEW k \in Key, NEW o \in Fresh(d),
         NEW p \in KeyString(d, k), NEW v \in Val, NEW c \in Enc
  PROVE  LET e == dbPut(createObject(d, o, v, c), k, p, o) IN
         /\ Vals(e) = [Vals(d) EXCEPT ![k] = v]
         /\ Whens(e) = Whens(d)
<1> DEFINE b == createObject(d, o, v, c)
           G == H \cup {o}
<1>1. /\ Heap(b, G) /\ o \in G /\ SameView(d, b)
  BY FreshNotOwned, CreateHeap, CreateView
<1>2. p \in KeyString(b, k)
  BY DEF KeyString, Present, createObject, Heap, DB
<1>3. b.str[o] = v
  <2>1. d \in DB /\ o \in Obj
    BY FreshNotOwned, HeapDB
  <2>2. b.str = [d.str EXCEPT ![o] = v]
    BY <2>1 DEF createObject, DB
  <2>3. d.str \in [Obj -> Val]
    BY <2>1 DEF DB
  <2> QED
    BY <2>1, <2>2, <2>3
<1> HIDE DEF b, G
<1>4. /\ Vals(dbPut(b, k, p, o)) = [Vals(b) EXCEPT ![k] = b.str[o]]
      /\ Whens(dbPut(b, k, p, o)) = Whens(b)
  BY <1>1, <1>2, PutView
<1> QED
  BY <1>1, <1>3, <1>4 DEF SameView, b

LEMMA SetExpireView ==
  ASSUME NEW d, NEW H, Heap(d, H), NEW k \in Key, Present(d, k),
         NEW w \in LLMin .. LLMax
  PROVE  /\ Vals(setExpire(d, k, w)) = Vals(d)
         /\ Whens(setExpire(d, k, w)) = [Whens(d) EXCEPT ![k] = w]
<1> DEFINE e == setExpire(d, k, w)
           x == [key |-> IF d.expires[k] = NULL THEN d.dict[k].key
                         ELSE d.expires[k].key,
                 when |-> w]
<1>1. d \in DB /\ findExpires(d) = d
  BY HeapDB, NotDangling
<1>2. e.expires = [d.expires EXCEPT ![k] = x] /\ e.dict = d.dict /\ e.str = d.str
  BY <1>1 DEF setExpire, DB
<1>3. x.when = w /\ x \in Expiry
  BY <1>1 DEF Heap, KeyStringsOK, Expiry, DB, Slot, Present
<1>4. d.expires \in [Key -> Expiry \cup {NULL}] /\ x # NULL
  BY <1>1, <1>3, KeyspaceAssumption DEF DB
<1> HIDE DEF e, x
<1> QED
  BY <1>2, <1>3, <1>4 DEF Vals, Whens, Present, ValueOf, e

\* Changing in place an object that has one owner, a key.
LEMMA InPlaceView ==
  ASSUME NEW d, NEW H, Heap(d, H), NEW k \in Key, Present(d, k),
         d.rc[d.dict[k].val] = 1, NEW v
  PROVE  LET e == [d EXCEPT !.str[d.dict[k].val] = v] IN
         /\ Vals(e) = [Vals(d) EXCEPT ![k] = v]
         /\ Whens(e) = Whens(d)
<1> DEFINE o == d.dict[k].val
           e == [d EXCEPT !.str[o] = v]
<1>1. d \in DB /\ o \in Obj
  BY HeapDB, HeldByKey
<1>2. \A j \in Key : j # k /\ Present(d, j) => d.dict[j].val # o /\ d.dict[j].val \in Obj
  BY OnlyKeyHolds, HeldByKey
<1>3. e.dict = d.dict /\ e.expires = d.expires /\ e.str = [d.str EXCEPT ![o] = v]
  BY <1>1 DEF DB
<1>4. d.str \in [Obj -> Val]
  BY <1>1 DEF DB
<1> HIDE DEF e
<1>5. Vals(e) = [Vals(d) EXCEPT ![k] = v]
  <2>1. \A j \in Key : Present(e, j) <=> Present(d, j)
    BY <1>3 DEF Present
  <2>2. \A j \in Key : Present(d, j) =>
          ValueOf(e, j) = IF j = k THEN v ELSE ValueOf(d, j)
    BY <1>1, <1>2, <1>3, <1>4 DEF ValueOf
  <2> QED
    BY <2>1, <2>2 DEF Vals
<1>6. Whens(e) = Whens(d)
  BY <1>3 DEF Whens
<1> QED
  BY <1>5, <1>6 DEF e

\* After unsharing, the key is the only owner of a private copy.
LEMMA UnshareView ==
  ASSUME NEW d, NEW H, Heap(d, H), NEW k \in Key, Present(d, k),
         NEW n \in IF Private(d, k) THEN {NULL} ELSE Fresh(d),
         NEW e, e = dbUnshareStringValue(d, k, n)
  PROVE  SameView(d, e) /\ e.rc[e.dict[k].val] = 1
<1>1. CASE Private(d, k)
  BY <1>1 DEF dbUnshareStringValue, Private, SameView
<1>2. CASE ~Private(d, k)
  <2> DEFINE v == ValueOf(d, k)
             c == createObject(d, n, v, "raw")
             G == H \cup {n}
             old == d.dict[k].val
  <2>1. /\ n \in Fresh(d) /\ n \in Obj /\ d.rc[n] = 0
        /\ v \in Val /\ "raw" \in Enc /\ e = dbOverwrite(c, k, n)
    BY <1>2, FreshNotOwned, HeldByKey, HeapDB
    DEF ValueOf, DB, Enc, dbUnshareStringValue
  <2>2. Heap(c, G) /\ n \in G /\ SameView(d, c)
    BY <2>1, CreateHeap, CreateView
  <2>3. /\ c.dict = d.dict /\ c.rc = [d.rc EXCEPT ![n] = 1] /\ c.str[n] = v
        /\ d.rc \in [Obj -> Nat]
    BY <2>1, HeapDB DEF createObject, DB
  <2>4. Present(c, k)
    BY <2>3 DEF Present
  <2>5. /\ Vals(e) = [Vals(c) EXCEPT ![k] = v] /\ Whens(e) = Whens(c)
        /\ e.dict[k].val = n
    <3>1. e = dbOverwrite(c, k, n) /\ Heap(c, G) /\ n \in G /\ c.str[n] = v
          /\ Present(c, k)
      BY <2>1, <2>2, <2>3, <2>4
    <3> HIDE DEF c, v, G
    <3>2. Vals(e) = [Vals(c) EXCEPT ![k] = v] /\ Whens(e) = Whens(c)
      BY <3>1, OverwriteView
    <3>3. c \in DB /\ c.dict[k] \in Slot /\ c.dict \in [Key -> Slot \cup {NULL}]
      BY <3>1, HeapDB DEF Heap, DB, Present
    <3>4. e.dict = [c.dict EXCEPT ![k] = [@ EXCEPT !.val = n]]
      BY <3>1, <3>3 DEF dbOverwrite, decrRefCount, DB
    <3>5. e.dict[k].val = n
      BY <3>3, <3>4 DEF Slot
    <3> QED
      BY <3>2, <3>5
  <2>6. Vals(d)[k] = v /\ Vals(d) \in [Key -> Val \cup {NULL}]
    BY ViewType
  <2>7. old # n /\ old \in Obj
    BY <2>1, HeldByKey
  <2>8. e.rc[n] = 1
    <3>1. c \in DB
      BY <2>2, HeapDB
    <3>2. e.rc = [c.rc EXCEPT ![old] = IF c.rc[old] = 0 THEN 0 ELSE c.rc[old] - 1]
      <4> HIDE DEF c
      <4> QED
        BY <2>1, <2>3, <3>1 DEF dbOverwrite, decrRefCount, DB
    <3> QED
      BY <2>1, <2>3, <2>7, <3>2
  <2> HIDE DEF c, v
  <2> QED
    BY <2>2, <2>5, <2>6, <2>8 DEF SameView
<1> QED
  BY <1>1, <1>2

-----------------------------------------------------------------------------
(* What a client can tell at time t: a key past its deadline is absent.    *)

Past(w, t) == w # NULL /\ t > w

Live(f, g, t) == [k \in Key |-> IF Past(g[k], t) THEN NULL ELSE f[k]]

\* No deadline is negative, so none reads as "no expire".
Timely(d) == \A k \in Key : Whens(d)[k] # NULL => Whens(d)[k] >= 0

\* The objects the client owns hold strings: aggregates are made by the
\* commands themselves.
HeldStrings == \A o \in held : db.str[o] \in Strings

\* The EXPIRE and SET arguments leave room for the milliseconds.
NoOverflow ==
  \A s \in Seconds : LLMin <= s * MsPerSec /\ MaxNow + s * MsPerSec <= LLMax

RInv == IInv /\ Timely(db) /\ HeldStrings

LEMMA NullApart == NULL \notin Int /\ NULL \notin Val
  BY KeyspaceAssumption

\* Who is past the deadline, in the words of the code.
LEMMA DueIsPast ==
  ASSUME NEW d, NEW H, Heap(d, H), Timely(d), NEW k \in Key, NEW t \in Int
  PROVE  (getExpire(d, k) >= 0 /\ t > getExpire(d, k)) <=> Past(Whens(d)[k], t)
<1>1. CASE d.expires[k] = NULL
  BY <1>1 DEF getExpire, Past, Whens
<1>2. CASE d.expires[k] # NULL
  <2>1. Whens(d)[k] = d.expires[k].when /\ Whens(d)[k] # NULL /\ Whens(d)[k] >= 0
    BY <1>2, ViewType DEF Whens, Timely
  <2> QED
    BY <1>2, <2>1 DEF getExpire, Past
<1> QED
  BY <1>1, <1>2

LEMMA LiveIsVisible ==
  ASSUME NEW d, NEW H, Heap(d, H), Timely(d), NEW t \in Int
  PROVE  LET Seen(k) == Present(d, k) /\ ~(getExpire(d, k) >= 0 /\ t > getExpire(d, k)) IN
         /\ Live(Vals(d), Whens(d), t) =
              [k \in Key |-> IF Seen(k) THEN ValueOf(d, k) ELSE NULL]
         /\ Live(Whens(d), Whens(d), t) =
              [k \in Key |-> IF Seen(k) /\ d.expires[k] # NULL
                             THEN d.expires[k].when ELSE NULL]
<1> DEFINE Seen(k) == Present(d, k) /\ ~(getExpire(d, k) >= 0 /\ t > getExpire(d, k))
<1>1. \A k \in Key : Seen(k) <=> Present(d, k) /\ ~Past(Whens(d)[k], t)
  BY DueIsPast
<1>2. \A k \in Key : d.expires[k] # NULL => Present(d, k)
  BY DEF Heap, KeyStringsOK
<1> HIDE DEF Seen
<1>3. Live(Vals(d), Whens(d), t) =
        [k \in Key |-> IF Seen(k) THEN ValueOf(d, k) ELSE NULL]
  BY <1>1 DEF Live, Vals
<1>4. Live(Whens(d), Whens(d), t) =
        [k \in Key |-> IF Seen(k) /\ d.expires[k] # NULL
                       THEN d.expires[k].when ELSE NULL]
  BY <1>1, <1>2 DEF Live, Whens
<1> QED
  BY <1>3, <1>4 DEF Seen

LEMMA KvTtl ==
  ASSUME RInv
  PROVE  /\ Kv = Live(Vals(db), Whens(db), now)
         /\ Ttl = Live(Whens(db), Whens(db), now)
<1>1. Heap(db, held) /\ Timely(db) /\ now \in Int
  BY DEF RInv, IInv
<1> QED
  BY <1>1, LiveIsVisible DEF Kv, Ttl, Visible, Due

LEMMA KvTtlPrime ==
  ASSUME IInv', Timely(db')
  PROVE  /\ Kv' = Live(Vals(db'), Whens(db'), now')
         /\ Ttl' = Live(Whens(db'), Whens(db'), now')
<1>1. Heap(db', held') /\ now' \in Int
  BY DEF IInv
<1> QED
  BY <1>1, LiveIsVisible DEF Kv, Ttl, Visible, Due

LEMMA SeenType ==
  ASSUME RInv
  PROVE  /\ Kv \in [Key -> Val \cup {NULL}]
         /\ Ttl \in [Key -> (LLMin .. LLMax) \cup {NULL}]
  BY KvTtl, ViewType DEF RInv, IInv, Live

-----------------------------------------------------------------------------
(* A command on a key first expires it.  What it then sees of the key is   *)
(* what the client sees.                                                   *)

Entered(d, k) ==
  /\ Heap(d, held) /\ Timely(d)
  /\ Live(Vals(d), Whens(d), now) = Kv
  /\ Live(Whens(d), Whens(d), now) = Ttl
  /\ Vals(d)[k] = Kv[k]
  /\ Whens(d)[k] = Ttl[k]
  /\ ~Past(Ttl[k], now)
  /\ Present(d, k) <=> Kv[k] # NULL
  /\ Present(d, k) => ValueOf(d, k) = Kv[k]

LEMMA SearchView ==
  ASSUME NEW d, NEW H, Heap(d, H)
  PROVE  findExpires(d) = d
  BY NotDangling

\* Deleting keys past their deadline shows to nobody.
LEMMA DropPast ==
  ASSUME RInv, NEW K \in SUBSET Key, \A k \in K : Past(Whens(db)[k], now),
         NEW d, Vals(d) = Without(Vals(db), K), Whens(d) = Without(Whens(db), K)
  PROVE  /\ Live(Vals(d), Whens(d), now) = Kv
         /\ Live(Whens(d), Whens(d), now) = Ttl
         /\ Timely(d)
  BY KvTtl DEF Without, Live, Past, RInv, Timely

LEMMA Enter ==
  ASSUME RInv, NEW k \in Key
  PROVE  Entered(expireIfNeeded(db, k), k)
<1> DEFINE d == expireIfNeeded(db, k)
<1>1. Heap(db, held) /\ Timely(db) /\ now \in Int
  BY DEF RInv, IInv
<1>2. Heap(d, held)
  BY <1>1, ExpireIfNeededHeap
<1>3. Due(db, k) <=> Past(Whens(db)[k], now)
  BY <1>1, DueIsPast DEF Due
<1>4. d = IF Due(db, k) THEN dbDelete(db, {k}) ELSE db
  BY <1>1, SearchView DEF expireIfNeeded
<1>5. /\ Live(Vals(d), Whens(d), now) = Kv
      /\ Live(Whens(d), Whens(d), now) = Ttl
      /\ Timely(d) /\ ~Past(Whens(d)[k], now)
  <2>1. CASE Due(db, k)
    <3>1. d = dbDelete(db, {k})
      BY <1>4, <2>1
    <3> HIDE DEF d
    <3>2. Vals(d) = Without(Vals(db), {k}) /\ Whens(d) = Without(Whens(db), {k})
      BY <1>1, <3>1, DeleteView
    <3>3. Whens(d)[k] = NULL
      BY <3>2 DEF Without
    <3> QED
      BY <1>3, <2>1, <3>2, <3>3, DropPast DEF Past
  <2>2. CASE ~Due(db, k)
    BY <1>1, <1>3, <1>4, <2>2, KvTtl
  <2> QED
    BY <2>1, <2>2
<1> HIDE DEF d
<1>6. Vals(d)[k] = Kv[k] /\ Whens(d)[k] = Ttl[k]
  BY <1>5 DEF Live
<1> QED
  BY <1>2, <1>5, <1>6, ViewType DEF Entered, d

-----------------------------------------------------------------------------
(* The abstract operators are ours.                                        *)

LEMMA CacheValues ==
  /\ Cache!Strings = Strings /\ Cache!Val = Val /\ Cache!Agg = Agg
  /\ Cache!LLMin = LLMin
  /\ \A v : Cache!IsString(v) = IsString(v) /\ Cache!IsNumber(v) = IsNumber(v)
  /\ \A v, w : Cache!Cat(v, w) = Cat(v, w)
  BY DEF Cache!Strings, Strings, Cache!Numbers, Numbers, Cache!Val, Val,
         Cache!Agg, Agg, Cache!LLMin, LLMin, Cache!IsString, IsString,
         Cache!IsNumber, IsNumber, Cache!Cat, Cat

-----------------------------------------------------------------------------
(* What is left to do at the end of a command: nothing shows, one key      *)
(* changes, or keys go.                                                    *)

LEMMA KeepStep ==
  ASSUME RInv, IInv', NEW d, Timely(d),
         Live(Vals(d), Whens(d), now) = Kv, Live(Whens(d), Whens(d), now) = Ttl,
         SameView(d, db'), now' = now
  PROVE  Timely(db') /\ Cache!Keep
<1>1. Timely(db')
  BY DEF Timely, SameView
<1> QED
  BY <1>1, KvTtlPrime DEF SameView, Cache!Keep

LEMMA PutStep ==
  ASSUME RInv, IInv', NEW k \in Key, NEW d, Entered(d, k), NEW v, NEW w,
         Vals(db') = [Vals(d) EXCEPT ![k] = v],
         Whens(db') = [Whens(d) EXCEPT ![k] = w],
         w = NULL \/ (w \in Int /\ now <= w), now' = now
  PROVE  Timely(db') /\ Cache!Put(k, v, w)
<1>1. Timely(d) /\ Heap(d, held) /\ now \in Nat
  BY DEF Entered, RInv, IInv
<1>2. Whens(d) \in [Key -> (LLMin .. LLMax) \cup {NULL}] /\ Vals(d) \in [Key -> Val \cup {NULL}]
  BY <1>1, ViewType
<1>3. ~Past(w, now) /\ (w # NULL => w >= 0)
  BY <1>1 DEF Past
<1>4. Timely(db')
  BY <1>1, <1>2, <1>3 DEF Timely
<1>5. Live([Vals(d) EXCEPT ![k] = v], [Whens(d) EXCEPT ![k] = w], now) = [Kv EXCEPT ![k] = v]
  BY <1>2, <1>3 DEF Live, Entered
<1>6. Live([Whens(d) EXCEPT ![k] = w], [Whens(d) EXCEPT ![k] = w], now) = [Ttl EXCEPT ![k] = w]
  BY <1>2, <1>3 DEF Live, Entered
<1> QED
  BY <1>4, <1>5, <1>6, KvTtlPrime DEF Cache!Put

\* The same for a command that leaves the deadline alone.
LEMMA PutValueStep ==
  ASSUME RInv, IInv', NEW k \in Key, NEW d, Entered(d, k), NEW v,
         Vals(db') = [Vals(d) EXCEPT ![k] = v], Whens(db') = Whens(d), now' = now
  PROVE  Timely(db') /\ Cache!Put(k, v, Ttl[k])
<1>1. Heap(d, held) /\ now \in Nat /\ Whens(d)[k] = Ttl[k] /\ ~Past(Ttl[k], now)
  BY DEF Entered, RInv, IInv
<1>2. Whens(d) \in [Key -> (LLMin .. LLMax) \cup {NULL}] /\ LLMin .. LLMax \subseteq Int
  BY <1>1, ViewType
<1>3. Whens(db') = [Whens(d) EXCEPT ![k] = Ttl[k]]
  BY <1>1, <1>2
<1>4. Ttl[k] = NULL \/ (Ttl[k] \in Int /\ now <= Ttl[k])
  BY <1>1, <1>2 DEF Past
<1> QED
  BY <1>3, <1>4, PutStep

LEMMA DropStep ==
  ASSUME RInv, IInv', NEW d, Timely(d), NEW K \in SUBSET Key,
         Live(Vals(d), Whens(d), now) = Kv, Live(Whens(d), Whens(d), now) = Ttl,
         Vals(db') = Without(Vals(d), K), Whens(db') = Without(Whens(d), K),
         now' = now
  PROVE  Timely(db') /\ Cache!Drop(K) /\ UNCHANGED now
<1>1. Timely(db')
  BY DEF Timely, Without
<1>2. Kv' = [k \in Key |-> IF k \in K THEN NULL ELSE Kv[k]]
  BY KvTtlPrime, <1>1 DEF Without, Live, Past
<1>3. Ttl' = [k \in Key |-> IF k \in K THEN NULL ELSE Ttl[k]]
  BY KvTtlPrime, <1>1 DEF Without, Live, Past
<1> QED
  BY <1>1, <1>2, <1>3 DEF Cache!Drop

\* When only the clock moves, the keys it passes go.
LEMMA AdvanceStep ==
  ASSUME RInv, IInv', NEW d, Timely(d),
         Live(Vals(d), Whens(d), now) = Kv, Live(Whens(d), Whens(d), now) = Ttl,
         SameView(d, db'), now <= now', now' <= MaxNow,
         Whens(d) \in [Key -> (LLMin .. LLMax) \cup {NULL}]
  PROVE  Timely(db') /\ Cache!Advance(now')
<1>1. Timely(db')
  BY DEF Timely, SameView
<1>2. now \in Int /\ now' \in Int
  BY DEF RInv, IInv
<1>3. \A k \in Key : Past(Whens(d)[k], now) => Past(Whens(d)[k], now')
  BY <1>2 DEF Past
<1> DEFINE K == {k \in Key : Ttl[k] # NULL /\ now' > Ttl[k]}
<1>4. \A k \in Key : k \in K <=> ~Past(Whens(d)[k], now) /\ Past(Whens(d)[k], now')
  BY <1>2 DEF Live, Past
<1> HIDE DEF K
<1>5. /\ Kv' = [k \in Key |-> IF k \in K THEN NULL ELSE Kv[k]]
      /\ Ttl' = [k \in Key |-> IF k \in K THEN NULL ELSE Ttl[k]]
  BY <1>1, <1>3, <1>4, KvTtlPrime DEF SameView, Live
<1> QED
  BY <1>1, <1>5 DEF Cache!Advance, Cache!Drop, K

-----------------------------------------------------------------------------
(* Every command is a step of TtlCache, or of its stutter.  Each lemma     *)
(* takes the invariant before the step, its heap part after it, and one    *)
(* handler.                                                                *)

\* What a command that leaves the keyspace as its lookup left it shows.
LEMMA LookupStep ==
  ASSUME RInv, IInv', NEW k \in Key, db' = expireIfNeeded(db, k), now' = now
  PROVE  Timely(db') /\ Cache!Keep
<1>1. Entered(expireIfNeeded(db, k), k)
  BY Enter
<1>2. SameView(expireIfNeeded(db, k), db')
  BY DEF SameView
<1> QED
  BY <1>1, <1>2, KeepStep DEF Entered

LEMMA IdleStep ==
  ASSUME RInv, IInv', UNCHANGED <<db, now>>
  PROVE  Timely(db') /\ Cache!Keep
<1>1. SameView(db, db') /\ Timely(db)
  BY DEF SameView, RInv
<1> QED
  BY <1>1, KeepStep, KvTtl

LEMMA WrapIdentity ==
  ASSUME NEW n \in LLMin .. LLMax
  PROVE  Wrap(n) = n
<1>1. LLMax \in Nat
  BY ValuesAssumption
<1> DEFINE m == 2 * (LLMax + 1)
           i == n + LLMax + 1
<1>2. m \in Nat /\ m > 0 /\ i \in 0 .. m - 1
  BY <1>1 DEF LLMin
<1>3. i % m = i
  <2> HIDE DEF m, i
  <2> QED
    BY <1>2
<1> QED
  BY <1>1, <1>3 DEF Wrap, LLMin

LEMMA Products ==
  ASSUME RInv, NoOverflow, NEW s \in Seconds
  PROVE  /\ s * MsPerSec \in LLMin .. LLMax
         /\ Wrap(s * MsPerSec) = s * MsPerSec
         /\ Wrap(s * MsPerSec + now) = s * MsPerSec + now
         /\ Wrap(now + s * MsPerSec) = now + s * MsPerSec
         /\ s * MsPerSec + now \in LLMin .. LLMax
         /\ s > 0 => s * MsPerSec > 0
<1>1. s \in Int /\ MsPerSec \in Nat \ {0, 1} /\ MaxNow \in Nat /\ LLMax \in Nat
      /\ LLMin \in Int
  BY KeyspaceAssumption, ValuesAssumption DEF LLMin
<1> DEFINE x == s * MsPerSec
<1>2. x \in Int /\ LLMin <= x /\ MaxNow + x <= LLMax /\ (s > 0 => x > 0)
  BY <1>1 DEF NoOverflow
<1>3. now \in 0 .. MaxNow
  BY DEF RInv, IInv
<1> HIDE DEF x
<1>4. x \in LLMin .. LLMax /\ x + now \in LLMin .. LLMax /\ now + x = x + now
  BY <1>1, <1>2, <1>3
<1> QED
  BY <1>2, <1>4, WrapIdentity DEF x

LEMMA SetKeyView ==
  ASSUME NEW d, NEW H, Heap(d, H), NEW k \in Key,
         NEW a, a = expireIfNeeded(d, k),
         NEW p \in KeyString(a, k), NEW o \in H
  PROVE  /\ Vals(setKey(d, k, p, o)) = [Vals(a) EXCEPT ![k] = d.str[o]]
         /\ Whens(setKey(d, k, p, o)) = [Whens(a) EXCEPT ![k] = NULL]
<1> DEFINE c == incrRefCount(dbPut(a, k, p, o), o)
<1>1. Heap(a, H) /\ a.str = d.str
  BY ExpireIfNeededHeap, ExpireContents DEF SameContents
<1>2. Heap(c, H) /\ Vals(c) = [Vals(a) EXCEPT ![k] = d.str[o]] /\ Whens(c) = Whens(a)
  BY <1>1, ShareHeap, ShareView
<1>3. setKey(d, k, p, o) = removeExpire(c, {k})
  BY DEF setKey
<1> HIDE DEF c
<1>4. /\ Vals(removeExpire(c, {k})) = Vals(c)
      /\ Whens(removeExpire(c, {k})) = Without(Whens(c), {k})
  BY <1>2, RemoveView
<1>5. Without(Whens(c), {k}) = [Whens(a) EXCEPT ![k] = NULL]
  BY <1>2 DEF Without, Whens
<1> QED
  BY <1>2, <1>3, <1>4, <1>5

LEMMA SetKeyPresent ==
  ASSUME NEW d, NEW H, Heap(d, H), NEW k \in Key,
         NEW a, a = expireIfNeeded(d, k),
         NEW p \in KeyString(a, k), NEW o \in H
  PROVE  Heap(setKey(d, k, p, o), H) /\ Present(setKey(d, k, p, o), k)
<1> DEFINE e == setKey(d, k, p, o)
<1>1. Heap(e, H)
  BY SetKeyHeap
<1>2. d.str[o] \in Val
  BY DEF Heap, DB
<1>3. Vals(e) = [Vals(a) EXCEPT ![k] = d.str[o]] /\ k \in DOMAIN Vals(a)
  BY SetKeyView DEF Vals
<1> HIDE DEF e
<1>4. Vals(e)[k] # NULL
  BY <1>2, <1>3, NullApart
<1> QED
  BY <1>1, <1>4, ViewType DEF e

LEMMA SetRefines ==
  ASSUME RInv, IInv', NoOverflow, LendGet = FALSE, NEW k \in Key, SetCommand(k)
  PROVE  Timely(db') /\ Cache!Command(k)
<1> USE DEF ClientIdle, Return, Cache!Return
<1> DEFINE d == expireIfNeeded(db, k)
<1>1. Entered(d, k)
  BY Enter
<1> SUFFICES ASSUME NEW ex \in Seconds \cup {NULL}, NEW flag \in {"set", "setnx", "setxx"},
                    \/ SetInvalid(k, ex, flag)
                    \/ SetRefused(k, ex, flag)
                    \/ \E o \in Offered : Set(k, o, ex, flag)
             PROVE  Timely(db') /\ Cache!Set(k, ex, flag)
  BY DEF SetCommand, Cache!Command
<1>2. CASE SetInvalid(k, ex, flag)
  BY <1>2, IdleStep DEF SetInvalid, Cache!Set
<1>3. Refused(d, k, flag) <=> ~Cache!Accepts(k, flag)
  BY <1>1 DEF Entered, Refused, Cache!Accepts, Cache!Has
<1> HIDE DEF d
<1>4. CASE SetRefused(k, ex, flag)
  <2>1. db' = d /\ Refused(d, k, flag) /\ now' = now
        /\ (ex # NULL => ex > 0) /\ reply' = <<flag, k, <<"ERR", ex>>>>
    BY <1>4 DEF SetRefused, d
  <2> QED
    BY <1>3, <2>1, LookupStep DEF Cache!Set, d
<1>5. ASSUME NEW o \in held, Set(k, o, ex, flag)
      PROVE  Timely(db') /\ Cache!Set(k, ex, flag)
  <2>1. ~Refused(d, k, flag) /\ now' = now
        /\ (ex # NULL => ex > 0) /\ reply' = <<flag, k, <<"OK", ex>>>>
    BY <1>5 DEF Set, d
  <2>2. PICK p \in KeyString(d, k) :
          db' = IF ex = NULL THEN setKey(db, k, p, o)
                ELSE setExpire(setKey(db, k, p, o), k, Wrap(now + Wrap(ex * MsPerSec)))
    BY <1>5 DEF Set, d
  <2> DEFINE e == setKey(db, k, p, o)
             w == IF ex = NULL THEN NULL ELSE now + ex * MsPerSec
  <2>3. Heap(db, held) /\ now \in 0 .. MaxNow /\ db.str[o] \in Strings
    BY DEF RInv, IInv, HeldStrings
  <2>4. /\ Vals(e) = [Vals(d) EXCEPT ![k] = db.str[o]]
        /\ Whens(e) = [Whens(d) EXCEPT ![k] = NULL]
        /\ Heap(e, held) /\ Present(e, k)
    BY <2>3, SetKeyView, SetKeyPresent DEF d
  <2> HIDE DEF e
  <2>5. /\ Vals(db') = [Vals(d) EXCEPT ![k] = db.str[o]]
        /\ Whens(db') = [Whens(d) EXCEPT ![k] = w]
        /\ w = NULL \/ (w \in Int /\ now <= w)
    <3>1. CASE ex = NULL
      BY <2>2, <2>4, <3>1 DEF e
    <3>2. CASE ex # NULL
      <4>1. ex \in Seconds /\ ex > 0 /\ MsPerSec \in Nat
        BY <2>1, <3>2, KeyspaceAssumption
      <4>2. /\ Wrap(now + Wrap(ex * MsPerSec)) = w /\ w \in LLMin .. LLMax
            /\ ex * MsPerSec \in LLMin .. LLMax /\ ex * MsPerSec > 0
        <5>1. w = now + ex * MsPerSec
          BY <3>2
        <5> HIDE DEF w
        <5>2. Wrap(ex * MsPerSec) = ex * MsPerSec
          BY <4>1, Products
        <5>3. Wrap(now + ex * MsPerSec) = now + ex * MsPerSec
          BY <4>1, Products
        <5>4. ex * MsPerSec \in LLMin .. LLMax /\ ex * MsPerSec > 0
          BY <4>1, Products
        <5>5. w \in LLMin .. LLMax
          <6>1. ex * MsPerSec + now \in LLMin .. LLMax
            BY <4>1, Products
          <6> QED
            BY <2>3, <4>1, <5>1, <6>1, KeyspaceAssumption
        <5> QED
          BY <5>1, <5>2, <5>3, <5>4, <5>5
      <4>3. db' = setExpire(e, k, w)
        BY <2>2, <3>2, <4>2 DEF e
      <4>4. LLMin \in Int /\ LLMax \in Int
        BY ValuesAssumption DEF LLMin
      <4>5. w \in Int /\ now <= w
        BY <2>3, <3>2, <4>2, <4>4
      <4> HIDE DEF w
      <4>6. Vals(db') = Vals(e) /\ Whens(db') = [Whens(e) EXCEPT ![k] = w]
        <5>1. Heap(e, held) /\ Present(e, k) /\ w \in LLMin .. LLMax
          BY <2>4, <4>2
        <5> QED
          BY <4>3, <5>1, SetExpireView
      <4>7. [[Whens(d) EXCEPT ![k] = NULL] EXCEPT ![k] = w] = [Whens(d) EXCEPT ![k] = w]
        BY DEF Whens
      <4> QED
        BY <2>4, <4>5, <4>6, <4>7
    <3> QED
      BY <3>1, <3>2
  <2>6. Timely(db') /\ Cache!Put(k, db.str[o], w)
    <3> HIDE DEF w
    <3> QED
      BY <1>1, <2>1, <2>5, PutStep
  <2> QED
    BY <1>3, <2>1, <2>3, <2>6, CacheValues DEF Cache!Set
<1>6. Offered = held
  BY DEF Offered
<1> QED
  BY <1>2, <1>4, <1>5, <1>6

\* A fresh number stored by INCRBY or INCRBYFLOAT.
LEMMA FreshNumberStep ==
  ASSUME RInv, IInv', NEW k \in Key, NEW d, Entered(d, k), NEW v \in Val, NEW c \in Enc,
         \E o \in Fresh(d), p \in KeyString(d, k) :
           db' = dbPut(createObject(d, o, v, c), k, p, o),
         now' = now
  PROVE  Timely(db') /\ Cache!Put(k, v, Ttl[k])
<1>1. Heap(d, held)
  BY DEF Entered
<1>2. Vals(db') = [Vals(d) EXCEPT ![k] = v] /\ Whens(db') = Whens(d)
  BY <1>1, FreshPutView
<1> QED
  BY <1>2, PutValueStep

LEMMA IncrRefines ==
  ASSUME RInv, IInv', NEW k \in Key, NEW incr \in Increments,
         IncrError(k, incr) \/ IncrBy(k, incr) \/ IncrByFloat(k, incr)
  PROVE  Timely(db') /\ Cache!Incr(k, incr)
<1> USE DEF ClientIdle, Return, Cache!Return
<1> DEFINE d == expireIfNeeded(db, k)
           n == Base(d, k)[2] + incr
<1>1. Entered(d, k)
  BY Enter
<1>2. Base(d, k) = Cache!Base(k)
  <2> HIDE DEF d
  <2> QED
    BY <1>1 DEF Entered, Base, Cache!Base, Cache!Has
<1>3. CASE IncrError(k, incr)
  <2>1. Timely(db') /\ Cache!Keep
    BY <1>3, LookupStep DEF IncrError
  <2>2. \/ ~IsNumber(Base(d, k)) /\ reply' = <<"incr", k, <<"INVALID_TYPE", 0>>>>
        \/ /\ IsNumber(Base(d, k)) /\ Overflows(Base(d, k)[2], incr)
           /\ reply' = <<"incr", k, <<"OVERFLOW", 0>>>>
    BY <1>3 DEF IncrError
  <2>3. IsNumber(Base(d, k)) =>
          (Overflows(Base(d, k)[2], incr) <=> Base(d, k)[2] + incr \notin LLMin .. LLMax)
    <3> HIDE DEF d
    <3> QED
      BY <1>1, SumFits DEF Entered
  <2> HIDE DEF d
  <2> QED
    BY <1>2, <2>1, <2>2, <2>3, CacheValues DEF Cache!Incr
<1>4. ASSUME n \in LLMin .. LLMax
      PROVE  <<"num", n>> \in Val /\ "int" \in Enc /\ "embstr" \in Enc
  BY <1>4, ValueParts DEF Enc
<1>5. ASSUME IsNumber(Base(d, k)), n \in LLMin .. LLMax,
             reply' = <<"incr", k, <<"OK", n>>>>, Cache!Put(k, <<"num", n>>, Ttl[k])
      PROVE  Cache!Incr(k, incr)
  <2> HIDE DEF d
  <2> QED
    BY <1>2, <1>5, CacheValues DEF Cache!Incr
<1>6. CASE IncrBy(k, incr)
  <2>1. /\ IsNumber(Base(d, k)) /\ n \in LLMin .. LLMax /\ now' = now
        /\ reply' = <<"incr", k, <<"OK", n>>>>
    <3>1. /\ IsNumber(Base(d, k)) /\ ~Overflows(Base(d, k)[2], incr) /\ now' = now
          /\ reply' = <<"incr", k, <<"OK", n>>>>
      BY <1>6 DEF IncrBy
    <3> HIDE DEF d
    <3>2. n \in LLMin .. LLMax
      BY <1>1, <3>1, SumFits DEF Entered
    <3> QED
      BY <3>1, <3>2
  <2>2. CASE /\ Present(d, k) /\ d.rc[d.dict[k].val] = 1
             /\ db' = [d EXCEPT !.str[d.dict[k].val] = <<"num", n>>]
    <3> HIDE DEF d, n
    <3>1. Heap(d, held)
      BY <1>1 DEF Entered
    <3>2. Vals(db') = [Vals(d) EXCEPT ![k] = <<"num", n>>] /\ Whens(db') = Whens(d)
      BY <2>2, <3>1, InPlaceView
    <3>3. Timely(db') /\ Cache!Put(k, <<"num", n>>, Ttl[k])
      BY <1>1, <2>1, <3>2, PutValueStep
    <3> QED
      BY <1>5, <2>1, <3>3
  <2>3. CASE \E o \in Fresh(d), p \in KeyString(d, k) :
               db' = dbPut(createObject(d, o, <<"num", n>>, "int"), k, p, o)
    <3> HIDE DEF d, n
    <3>1. <<"num", n>> \in Val /\ "int" \in Enc
      BY <1>4, <2>1
    <3>2. Timely(db') /\ Cache!Put(k, <<"num", n>>, Ttl[k])
      BY <1>1, <2>1, <2>3, <3>1, FreshNumberStep
    <3> QED
      BY <1>5, <2>1, <3>2
  <2> QED
    BY <1>6, <2>2, <2>3 DEF IncrBy
<1>7. CASE IncrByFloat(k, incr)
  <2>1. /\ IsNumber(Base(d, k)) /\ n \in LLMin .. LLMax /\ now' = now
        /\ reply' = <<"incr", k, <<"OK", n>>>>
        /\ \E o \in Fresh(d), p \in KeyString(d, k) :
             db' = dbPut(createObject(d, o, <<"num", n>>, "embstr"), k, p, o)
    BY <1>7 DEF IncrByFloat
  <2> HIDE DEF d, n
  <2>2. <<"num", n>> \in Val /\ "embstr" \in Enc
    BY <1>4, <2>1
  <2>3. Timely(db') /\ Cache!Put(k, <<"num", n>>, Ttl[k])
    BY <1>1, <2>1, <2>2, FreshNumberStep
  <2> QED
    BY <1>5, <2>1, <2>3
<1> QED
  BY <1>3, <1>6, <1>7

LEMMA AppendNewRefines ==
  ASSUME RInv, IInv', NEW k \in Key, NEW w \in held, AppendNew(k, w)
  PROVE  Timely(db') /\ Cache!Append(k, db.str[w])
<1> USE DEF ClientIdle, Return, Cache!Return
<1> DEFINE d == expireIfNeeded(db, k)
           v == db.str[w]
<1>1. Entered(d, k) /\ d.str[w] = v
  BY Enter, ExpireContents DEF RInv, IInv, SameContents
<1>2. PICK p \in KeyString(d, k) : db' = incrRefCount(dbAdd(d, k, p, w), w)
  BY DEF AppendNew
<1>3. ~Present(d, k) /\ reply' = <<"append", k, v>> /\ now' = now
  BY <1>1 DEF AppendNew
<1> HIDE DEF d
<1>4. Heap(d, held) /\ db' = incrRefCount(dbPut(d, k, p, w), w)
  BY <1>1, <1>2, <1>3 DEF Entered, dbPut
<1>5. Vals(db') = [Vals(d) EXCEPT ![k] = v] /\ Whens(db') = Whens(d)
  BY <1>1, <1>4, ShareView
<1>6. Timely(db') /\ Cache!Put(k, v, Ttl[k])
  BY <1>1, <1>3, <1>5, PutValueStep
<1>7. ~Cache!Has(k)
  BY <1>1, <1>3 DEF Entered, Cache!Has
<1> QED
  BY <1>3, <1>6, <1>7 DEF Cache!Append

LEMMA AppendToRefines ==
  ASSUME RInv, IInv', NEW k \in Key, NEW w \in held, AppendTo(k, w)
  PROVE  Timely(db') /\ Cache!Append(k, db.str[w])
<1> USE DEF ClientIdle, Return, Cache!Return
<1> DEFINE d == expireIfNeeded(db, k)
           v == Cat(Kv[k], db.str[w])
<1>1. Entered(d, k) /\ d.str[w] = db.str[w]
  BY Enter, ExpireContents DEF RInv, IInv, SameContents
<1>2. PICK n \in IF Private(d, k) THEN {NULL} ELSE Fresh(d) :
        LET e == dbUnshareStringValue(d, k, n) IN
        db' = [e EXCEPT !.str[e.dict[k].val] = Cat(@, d.str[w])]
  BY DEF AppendTo
<1>3. /\ Present(d, k) /\ IsString(ValueOf(d, k)) /\ now' = now
      /\ reply' = <<"append", k, Cat(ValueOf(d, k), d.str[w])>>
  BY DEF AppendTo
<1> HIDE DEF d
<1>4. Heap(d, held) /\ ValueOf(d, k) = Kv[k] /\ Kv[k] # NULL
  BY <1>1, <1>3 DEF Entered
<1> DEFINE e == dbUnshareStringValue(d, k, n)
<1>5. Heap(e, held) /\ Present(e, k)
  BY <1>2, <1>3, <1>4, UnshareHeap
<1>6. SameView(d, e) /\ e.rc[e.dict[k].val] = 1
  BY <1>2, <1>3, <1>4, UnshareView
<1>7. db' = [e EXCEPT !.str[e.dict[k].val] = Cat(e.str[e.dict[k].val], d.str[w])]
  <2>1. e \in DB
    BY <1>5, HeapDB
  <2> QED
    BY <1>2, <2>1 DEF DB
<1> HIDE DEF e
<1>8. e.str[e.dict[k].val] = Kv[k]
  <2>1. Vals(e)[k] = e.str[e.dict[k].val] /\ Vals(d)[k] = Kv[k]
    BY <1>1, <1>5 DEF Vals, ValueOf, Entered
  <2> QED
    BY <1>6, <2>1 DEF SameView
<1>9. db' = [e EXCEPT !.str[e.dict[k].val] = v]
  BY <1>1, <1>7, <1>8
<1> HIDE DEF v
<1>10. Vals(db') = [Vals(d) EXCEPT ![k] = v] /\ Whens(db') = Whens(d)
  BY <1>5, <1>6, <1>9, InPlaceView DEF SameView
<1>11. Timely(db') /\ Cache!Put(k, v, Ttl[k])
  BY <1>1, <1>3, <1>10, PutValueStep
<1> QED
  BY <1>1, <1>3, <1>4, <1>11, CacheValues DEF Cache!Append, Cache!Has, v

LEMMA AddOwnRefines ==
  ASSUME RInv, IInv', NEW k \in Key, NEW v \in Val, AddOwn(k, v)
  PROVE  Timely(db') /\ Cache!Add(k, v)
<1> USE DEF ClientIdle, Return, Cache!Return
<1> DEFINE d == expireIfNeeded(db, k)
<1>1. Entered(d, k)
  BY Enter
<1>2. /\ ~Present(d, k) /\ now' = now /\ reply' = <<"add", k, v>>
      /\ \E o \in Fresh(d), p \in KeyPtr \ d.live :
           db' = dbAdd(createObject(d, o, v, "raw"), k, p, o)
  BY DEF AddOwn
<1> HIDE DEF d
<1>3. PICK o \in Fresh(d), p \in KeyPtr \ d.live :
        db' = dbAdd(createObject(d, o, v, "raw"), k, p, o)
  BY <1>2
<1>4. Heap(d, held) /\ d \in DB
  BY <1>1, HeapDB DEF Entered
<1>5. ~Present(createObject(d, o, v, "raw"), k)
  BY <1>2, <1>4 DEF createObject, Present, DB
<1>6. db' = dbPut(createObject(d, o, v, "raw"), k, p, o) /\ p \in KeyString(d, k)
  BY <1>2, <1>3, <1>5 DEF dbPut, KeyString
<1>7. Vals(db') = [Vals(d) EXCEPT ![k] = v] /\ Whens(db') = Whens(d)
  BY <1>4, <1>6, FreshPutView DEF Enc
<1>8. Timely(db') /\ Cache!Put(k, v, Ttl[k])
  BY <1>1, <1>2, <1>7, PutValueStep
<1>9. Ttl[k] = NULL /\ ~Cache!Has(k)
  BY <1>1, <1>2, <1>4, ViewType DEF Entered, Cache!Has
<1> QED
  BY <1>2, <1>8, <1>9 DEF Cache!Add

LEMMA StringRefines ==
  ASSUME RInv, IInv', NEW k \in Key, StringCommand(k)
  PROVE  Timely(db') /\ Cache!Command(k)
<1>1. \A w \in held : db.str[w] \in Cache!Strings
  BY CacheValues DEF RInv, HeldStrings
<1>2. \A v \in {Agg, <<"text", 0>>} : v \in Val /\ v \in Cache!Val
  BY CacheValues, ValueParts
<1>3. CASE \E incr \in Increments :
             IncrError(k, incr) \/ IncrBy(k, incr) \/ IncrByFloat(k, incr)
  BY <1>3, IncrRefines DEF Cache!Command
<1>4. CASE \E w \in held : AppendNew(k, w) \/ AppendTo(k, w)
  BY <1>1, <1>4, AppendNewRefines, AppendToRefines DEF Cache!Command
<1>5. CASE \E v \in {Agg, <<"text", 0>>} : AddOwn(k, v)
  BY <1>2, <1>5, AddOwnRefines DEF Cache!Command
<1> QED
  BY <1>3, <1>4, <1>5 DEF StringCommand

\* Deleting the key a command looked up.
LEMMA DeleteStep ==
  ASSUME RInv, IInv', NEW k \in Key, NEW d, Entered(d, k),
         db' = dbDelete(d, {k}), now' = now
  PROVE  Timely(db') /\ Cache!Drop({k}) /\ UNCHANGED now
<1>1. Vals(db') = Without(Vals(d), {k}) /\ Whens(db') = Without(Whens(d), {k})
  BY DeleteView DEF Entered
<1> QED
  BY <1>1, DropStep DEF Entered

LEMMA ExpireRefines ==
  ASSUME RInv, IInv', NoOverflow, NEW k \in Key, NEW secs \in Seconds,
         NEW op, NEW base \in {now, 0}, ExpireGeneric(op, k, secs, base)
  PROVE  Timely(db') /\ Cache!ExpireGeneric(op, k, secs, base)
<1> USE DEF ClientIdle, Return, Cache!Return
<1> DEFINE d == expireIfNeeded(db, k)
           when == base + secs * MsPerSec
<1>1. Entered(d, k)
  BY Enter
<1>2. when \in LLMin .. LLMax /\ Wrap(Wrap(secs * MsPerSec) + base) = when
  <2>1. secs * MsPerSec \in LLMin .. LLMax /\ Wrap(secs * MsPerSec) = secs * MsPerSec
    BY Products
  <2>2. secs * MsPerSec + now \in LLMin .. LLMax
        /\ Wrap(secs * MsPerSec + now) = secs * MsPerSec + now
    BY Products
  <2> DEFINE x == secs * MsPerSec
  <2>3. LLMin \in Int /\ LLMax \in Int /\ now \in Int
    BY ValuesAssumption DEF LLMin, RInv, IInv
  <2> HIDE DEF x
  <2>4. x \in Int /\ base + x = x + base /\ x + 0 = x
    BY <2>1, <2>3 DEF x
  <2> QED
    BY <2>1, <2>2, <2>4 DEF x
<1>3. /\ db' = IF ~Present(d, k) THEN d
               ELSE IF when <= now THEN dbDelete(d, {k}) ELSE setExpire(d, k, when)
      /\ reply' = <<op, k, <<secs, Present(d, k)>>>> /\ now' = now
  <2> DEFINE x == Wrap(Wrap(secs * MsPerSec) + base)
  <2>1. /\ db' = IF ~Present(d, k) THEN d
                 ELSE IF x <= now THEN dbDelete(d, {k}) ELSE setExpire(d, k, x)
        /\ reply' = <<op, k, <<secs, Present(d, k)>>>> /\ now' = now
    BY DEF ExpireGeneric
  <2>2. x = when
    BY <1>2
  <2> HIDE DEF d, x, when
  <2> QED
    BY <2>1, <2>2
<1>4. now \in Int /\ when \in Int
  BY <1>2, ValuesAssumption DEF LLMin, RInv, IInv
<1>5. Present(d, k) <=> Cache!Has(k)
  BY <1>1 DEF Entered, Cache!Has
<1>6. CASE ~Present(d, k)
  <2>1. Timely(db') /\ Cache!Keep
    BY <1>3, <1>6, LookupStep
  <2>2. Present(d, k) = FALSE /\ Cache!Has(k) = FALSE
    BY <1>5, <1>6 DEF Present, Cache!Has
  <2> HIDE DEF d
  <2> QED
    BY <1>3, <2>1, <2>2 DEF Cache!ExpireGeneric
<1> HIDE DEF d
<1>7. CASE Present(d, k) /\ when <= now
  <2>1. Timely(db') /\ Cache!Drop({k}) /\ UNCHANGED now
    BY <1>1, <1>3, <1>7, DeleteStep
  <2> QED
    BY <1>3, <1>5, <1>7, <2>1 DEF Cache!ExpireGeneric
<1>8. CASE Present(d, k) /\ ~(when <= now)
  <2>1. Heap(d, held) /\ Vals(d)[k] = Kv[k]
    BY <1>1 DEF Entered
  <2>2. db' = setExpire(d, k, when)
    BY <1>3, <1>8
  <2> HIDE DEF when
  <2>3. Vals(db') = Vals(d) /\ Whens(db') = [Whens(d) EXCEPT ![k] = when]
    BY <1>2, <1>8, <2>1, <2>2, SetExpireView
  <2>4. Vals(db') = [Vals(d) EXCEPT ![k] = Kv[k]]
    BY <2>1, <2>3 DEF Vals
  <2>5. Timely(db') /\ Cache!Put(k, Kv[k], when)
    BY <1>1, <1>3, <1>4, <1>8, <2>3, <2>4, PutStep
  <2> QED
    BY <1>3, <1>5, <1>8, <2>5 DEF Cache!ExpireGeneric, when
<1> QED
  BY <1>6, <1>7, <1>8

\* A deadline that passes between the two readings leaves 0 seconds.
LEMMA HalfSecond ==
  ASSUME NEW m \in Nat \ {0, 1}
  PROVE  (-1 + m \div 2) \div m = 0
<1> DEFINE h == m \div 2
<1>1. h \in Int /\ 1 <= h /\ h < m
  OBVIOUS
<1> HIDE DEF h
<1>2. -1 + h \in 0 .. m - 1
  BY <1>1
<1>3. (-1 + h) \div m = 0
  BY <1>2
<1> QED
  BY <1>3 DEF h

LEMMA TTLRefines ==
  ASSUME RInv, IInv', NEW k \in Key, TTL(k)
  PROVE  Timely(db') /\ \E t \in now .. now + 2 : Cache!TTL(k, t)
<1> USE DEF Return, Cache!Return
<1> DEFINE d == expireIfNeeded(db, k)
           when == getExpire(d, k)
<1>1. Entered(d, k)
  BY Enter
<1>2. PICK t \in {now, now + 1} :
        /\ now' \in {t, t + 1} /\ now' <= MaxNow
        /\ reply' = <<"ttl", k, IF ~Present(d, k) THEN -2
                                ELSE IF when = -1 THEN -1
                                ELSE IF when - t < 0 THEN -2
                                ELSE (when - now' + MsPerSec \div 2) \div MsPerSec>>
  BY DEF TTL
<1>3. db' = d
  BY DEF TTL
<1>4. now \in Int /\ t \in Int /\ now' \in now .. now + 2 /\ now <= now' /\ t <= now'
  BY <1>2 DEF RInv, IInv
<1>5. /\ Present(d, k) <=> Cache!Has(k)
      /\ when = IF Ttl[k] = NULL THEN -1 ELSE Ttl[k]
      /\ Ttl[k] # NULL => Ttl[k] >= 0 /\ Ttl[k] \in Int
  <2> HIDE DEF d
  <2>1. Heap(d, held) /\ Timely(d) /\ Whens(d)[k] = Ttl[k]
    BY <1>1 DEF Entered
  <2>2. Present(d, k) <=> Cache!Has(k)
    BY <1>1 DEF Entered, Cache!Has
  <2>3. d.expires[k] = NULL <=> Ttl[k] = NULL
    BY <2>1, ViewType
  <2>4. Ttl[k] # NULL => Ttl[k] = d.expires[k].when
    BY <2>1, <2>3 DEF Whens
  <2>5. Ttl[k] # NULL => Ttl[k] >= 0 /\ Ttl[k] \in Int
    BY <2>1, ViewType, ValuesAssumption DEF Timely, LLMin
  <2> QED
    BY <2>2, <2>3, <2>4, <2>5 DEF getExpire
<1> HIDE DEF d, when
<1>6. Timely(db') /\ Cache!Advance(now')
  <2>1. /\ Timely(d) /\ SameView(d, db')
        /\ Live(Vals(d), Whens(d), now) = Kv /\ Live(Whens(d), Whens(d), now) = Ttl
        /\ Whens(d) \in [Key -> (LLMin .. LLMax) \cup {NULL}]
    BY <1>1, <1>3, ViewType DEF Entered, SameView
  <2> QED
    BY <1>2, <1>4, <2>1, AdvanceStep
<1>7. \E r \in IF ~Cache!Has(k) THEN {-2}
               ELSE IF Ttl[k] = NULL THEN {-1}
               ELSE IF now' > Ttl[k] THEN {-2, 0}
               ELSE {(Ttl[k] - now' + MsPerSec \div 2) \div MsPerSec} :
        reply' = <<"ttl", k, r>>
  <2>1. CASE ~Present(d, k)
    BY <1>2, <1>5, <2>1
  <2>2. CASE Present(d, k) /\ Ttl[k] = NULL
    BY <1>2, <1>5, <2>2
  <2>3. CASE Present(d, k) /\ Ttl[k] # NULL
    <3>1. when = Ttl[k] /\ when >= 0 /\ when \in Int /\ when # -1
      BY <1>5, <2>3
    <3>2. CASE when - t < 0
      <4>1. now' > Ttl[k]
        BY <1>4, <3>1, <3>2
      <4>2. reply' = <<"ttl", k, -2>>
        BY <1>2, <2>3, <3>1, <3>2
      <4> QED
        BY <1>5, <2>3, <4>1, <4>2
    <3>3. CASE ~(when - t < 0)
      <4>1. reply' = <<"ttl", k, (when - now' + MsPerSec \div 2) \div MsPerSec>>
        BY <1>2, <2>3, <3>1, <3>3
      <4>2. CASE now' > Ttl[k]
        <5>1. when - now' = -1
          BY <1>2, <1>4, <3>1, <3>3, <4>2
        <5>2. (when - now' + MsPerSec \div 2) \div MsPerSec = 0
          BY <5>1, HalfSecond, KeyspaceAssumption
        <5> QED
          BY <1>5, <2>3, <4>1, <4>2, <5>2
      <4>3. CASE ~(now' > Ttl[k])
        <5>1. (when - now' + MsPerSec \div 2) \div MsPerSec
                = (Ttl[k] - now' + MsPerSec \div 2) \div MsPerSec
          BY <3>1
        <5> QED
          BY <1>5, <2>3, <4>1, <4>3, <5>1
      <4> QED
        BY <4>2, <4>3
    <3> QED
      BY <3>2, <3>3
  <2> QED
    BY <2>1, <2>2, <2>3
<1> QED
  BY <1>4, <1>6, <1>7 DEF Cache!TTL

LEMMA PersistRefines ==
  ASSUME RInv, IInv', NEW k \in Key, Persist(k)
  PROVE  Timely(db') /\ Cache!Persist(k)
<1> USE DEF ClientIdle, Return, Cache!Return
<1> DEFINE d == expireIfNeeded(db, k)
<1>1. Entered(d, k)
  BY Enter
<1>2. /\ db' = IF Present(d, k) THEN removeExpire(d, {k}) ELSE d
      /\ now' = now /\ reply' = <<"persist", k, Present(d, k)>>
  BY DEF Persist
<1> HIDE DEF d
<1>3. Heap(d, held) /\ Vals(d)[k] = Kv[k] /\ Present(d, k) = Cache!Has(k)
  BY <1>1 DEF Entered, Present, Cache!Has
<1>4. Vals(db') = Vals(d) /\ Whens(db') = [Whens(d) EXCEPT ![k] = NULL]
  <2>1. CASE Present(d, k)
    <3>1. Vals(db') = Vals(d) /\ Whens(db') = Without(Whens(d), {k})
      BY <1>2, <1>3, <2>1, RemoveView
    <3> QED
      BY <3>1 DEF Without, Whens
  <2>2. CASE ~Present(d, k)
    <3>1. Whens(d)[k] = NULL /\ db' = d
      BY <1>2, <1>3, <2>2, ViewType
    <3> QED
      BY <3>1 DEF Whens
  <2> QED
    BY <2>1, <2>2
<1>5. Vals(db') = [Vals(d) EXCEPT ![k] = Kv[k]]
  BY <1>3, <1>4 DEF Vals
<1>6. Timely(db') /\ Cache!Put(k, Kv[k], NULL)
  BY <1>1, <1>2, <1>4, <1>5, PutStep
<1> QED
  BY <1>2, <1>3, <1>6 DEF Cache!Persist

\* GET, TYPE and the other readers; DEL and EXISTS, which do not look at
\* the deadline; a pop that takes the last element.
LEMMA ReadRefines ==
  ASSUME RInv, IInv', NEW k \in Key, Get(k) \/ Touch(k)
  PROVE  Timely(db') /\ (Cache!Get(k) \/ Cache!Touch(k))
<1> USE DEF ClientIdle, Return, Cache!Return
<1> DEFINE d == expireIfNeeded(db, k)
<1>1. Entered(d, k)
  BY Enter
<1>2. db' = d /\ now' = now
  BY DEF Get, Touch
<1>3. Timely(db') /\ Cache!Keep
  BY <1>2, LookupStep
<1>4. Get(k) => reply' = <<"get", k, IF Present(d, k) /\ IsString(ValueOf(d, k))
                                     THEN ValueOf(d, k) ELSE NULL>>
  BY DEF Get
<1>5. Touch(k) => reply' = <<"touch", k, Present(d, k)>>
  BY DEF Touch
<1> HIDE DEF d
<1>6. Present(d, k) = Cache!Has(k) /\ (Present(d, k) => ValueOf(d, k) = Kv[k])
  BY <1>1 DEF Entered, Present, Cache!Has
<1>7. CASE Get(k)
  BY <1>3, <1>4, <1>6, <1>7, CacheValues DEF Cache!Get
<1>8. CASE Touch(k)
  BY <1>3, <1>5, <1>6, <1>8 DEF Cache!Touch
<1> QED
  BY <1>7, <1>8

LEMMA EmptyOutRefines ==
  ASSUME RInv, IInv', NEW k \in Key, EmptyOut(k)
  PROVE  Timely(db') /\ Cache!EmptyOut(k)
<1> USE DEF ClientIdle, Return, Cache!Return
<1> DEFINE d == expireIfNeeded(db, k)
<1>1. Entered(d, k)
  BY Enter
<1>2. /\ Present(d, k) /\ ValueOf(d, k) = Agg
      /\ db' = dbDelete(d, {k}) /\ now' = now /\ reply' = <<"empty", k, "OK">>
  BY DEF EmptyOut
<1> HIDE DEF d
<1>3. Timely(db') /\ Cache!Drop({k}) /\ UNCHANGED now
  BY <1>1, <1>2, DeleteStep
<1> QED
  BY <1>1, <1>2, <1>3, CacheValues DEF Entered, Cache!EmptyOut

\* What the client sees is there.
LEMMA SeenIsPresent ==
  ASSUME RInv, NEW k \in Key, Kv[k] # NULL
  PROVE  Present(db, k)
  BY DEF Kv, Visible

LEMMA DelRefines ==
  ASSUME RInv, IInv', NEW k \in Key, Del(k)
  PROVE  Timely(db') /\ Cache!Del(k)
<1> USE DEF ClientIdle, Return, Cache!Return
<1>1. Heap(db, held) /\ Timely(db)
  BY DEF RInv, IInv
<1>2. Vals(db') = Without(Vals(db), {k}) /\ Whens(db') = Without(Whens(db), {k})
  BY <1>1, DeleteView DEF Del
<1>3. Timely(db') /\ Cache!Drop({k}) /\ UNCHANGED now
  BY <1>1, <1>2, KvTtl, DropStep DEF Del
<1>4. reply' = <<"del", k, Present(db, k)>> /\ Present(db, k) \in BOOLEAN
  BY DEF Del, Present
<1> QED
  BY <1>3, <1>4, SeenIsPresent DEF Cache!Del, Cache!Has

LEMMA ExistsRefines ==
  ASSUME RInv, IInv', NEW k \in Key, Exists(k)
  PROVE  Timely(db') /\ Cache!Exists(k)
<1> USE DEF ClientIdle, Return, Cache!Return
<1>1. Timely(db') /\ Cache!Keep
  BY IdleStep DEF Exists
<1>2. reply' = <<"exists", k, Present(db, k)>> /\ Present(db, k) \in BOOLEAN
  BY DEF Exists, Present
<1> QED
  BY <1>1, <1>2, SeenIsPresent DEF Cache!Exists, Cache!Has

LEMMA KeyRefines ==
  ASSUME RInv, IInv', NoOverflow, NEW k \in Key, KeyCommand(k)
  PROVE  Timely(db') /\ Cache!Command(k)
<1>1. ASSUME NEW secs \in Seconds, Expire(k, secs) \/ Expireat(k, secs)
      PROVE  Timely(db') /\ Cache!Command(k)
  <2>1. CASE Expire(k, secs)
    BY <2>1, ExpireRefines DEF Expire, Cache!Command
  <2>2. CASE Expireat(k, secs)
    BY <2>2, ExpireRefines DEF Expireat, Cache!Command
  <2> QED
    BY <1>1, <2>1, <2>2
<1>2. CASE Get(k) \/ Touch(k)
  BY <1>2, ReadRefines DEF Cache!Command
<1>3. CASE TTL(k)
  BY <1>3, TTLRefines DEF Cache!Command
<1>4. CASE Persist(k)
  BY <1>4, PersistRefines DEF Cache!Command
<1>5. CASE EmptyOut(k)
  BY <1>5, EmptyOutRefines DEF Cache!Command
<1>6. CASE Del(k)
  BY <1>6, DelRefines DEF Cache!Command
<1>7. CASE Exists(k)
  BY <1>7, ExistsRefines DEF Cache!Command
<1> QED
  BY <1>1, <1>2, <1>3, <1>4, <1>5, <1>6, <1>7 DEF KeyCommand

-----------------------------------------------------------------------------
(* The commands on the whole cache, the background work and the clock.     *)

LEMMA HasIsVisible ==
  ASSUME RInv, NEW k \in Key
  PROVE  Cache!Has(k) <=> Present(db, k) /\ ~Due(db, k)
<1>1. Present(db, k) => ValueOf(db, k) # NULL
  BY ViewType DEF RInv, IInv
<1> QED
  BY <1>1 DEF Cache!Has, Kv, Visible

\* Deleting keys past their deadline, in bulk.
LEMMA PurgeStep ==
  ASSUME RInv, IInv', NEW K \in SUBSET Key, \A k \in K : Past(Whens(db)[k], now),
         db' = dbDelete(db, K), now' = now
  PROVE  Timely(db') /\ Cache!Keep
<1>1. Heap(db, held)
  BY DEF RInv, IInv
<1>2. Vals(db') = Without(Vals(db), K) /\ Whens(db') = Without(Whens(db), K)
  BY <1>1, DeleteView
<1>3. /\ Live(Vals(db'), Whens(db'), now) = Kv
      /\ Live(Whens(db'), Whens(db'), now) = Ttl
      /\ Timely(db')
  BY <1>2, DropPast
<1>4. SameView(db', db')
  BY DEF SameView
<1> QED
  BY <1>3, <1>4, KeepStep

LEMMA CacheCardinality ==
  ASSUME NEW S
  PROVE  Cache!Cardinality(S) = Cardinality(S)
  BY DEF Cache!Cardinality, Cardinality

LEMMA SizeRefines ==
  ASSUME RInv, IInv', CacheSize
  PROVE  Timely(db') /\ Cache!Size
<1> USE DEF ClientIdle, Return, Cache!Return
<1> DEFINE P == {k \in Key : Present(db, k)}
           S == {k \in Key : Cache!Has(k)}
<1>1. Timely(db') /\ Cache!Keep
  BY IdleStep DEF CacheSize
<1>2. S \subseteq P /\ P \subseteq Key
  BY SeenIsPresent DEF Cache!Has
<1>3. reply' = <<"size", NULL, Cardinality(P)>>
  BY DEF CacheSize
<1> HIDE DEF P, S
<1>4. IsFiniteSet(Key) /\ IsFiniteSet(P)
  BY <1>2, KeyspaceAssumption, FS_Subset
<1>5. /\ Cardinality(S) <= Cardinality(P) /\ Cardinality(P) <= Cardinality(Key)
      /\ Cardinality(S) \in Nat /\ Cardinality(P) \in Nat /\ Cardinality(Key) \in Nat
  BY <1>2, <1>4, FS_Subset, FS_CardinalityType
<1>6. Cardinality(P) \in Cardinality(S) .. Cardinality(Key)
  BY <1>5
<1> QED
  BY <1>1, <1>3, <1>6, CacheCardinality DEF Cache!Size, S

LEMMA FlushRefines ==
  ASSUME RInv, IInv', FlushCache
  PROVE  Timely(db') /\ Cache!Flush
<1> USE DEF ClientIdle, Return, Cache!Return
<1>1. Heap(db, held) /\ Timely(db)
  BY DEF RInv, IInv
<1>2. Vals(db') = Without(Vals(db), Key) /\ Whens(db') = Without(Whens(db), Key)
  BY <1>1, EmptyView DEF FlushCache
<1>3. Timely(db') /\ Cache!Drop(Key) /\ UNCHANGED now
  BY <1>1, <1>2, KvTtl, DropStep DEF FlushCache
<1> QED
  BY <1>3 DEF FlushCache, Cache!Flush

LEMMA RandomkeyRefines ==
  ASSUME RInv, IInv', Randomkey
  PROVE  Timely(db') /\ Cache!Randomkey
<1> USE DEF ClientIdle, Return, Cache!Return
<1> DEFINE expired == {k \in Key : Due(db, k)}
           valid == {k \in Key : Present(db, k)} \ expired
<1>1. PICK K \in SUBSET expired :
        /\ db' = dbDelete(findExpires(db), K)
        /\ \/ \E r \in valid : reply' = <<"random", NULL, r>>
           \/ valid = {} /\ reply' = <<"random", NULL, NULL>>
  BY DEF Randomkey
<1>2. Heap(db, held) /\ Timely(db) /\ now \in Int
  BY DEF RInv, IInv
<1>3. \A k \in K : Past(Whens(db)[k], now)
  BY <1>2, DueIsPast DEF Due
<1>4. db' = dbDelete(db, K) /\ now' = now /\ K \in SUBSET Key
  BY <1>1, <1>2, SearchView DEF Randomkey
<1>5. Timely(db') /\ Cache!Keep
  BY <1>3, <1>4, PurgeStep
<1>6. \A k \in Key : k \in valid <=> Cache!Has(k)
  BY HasIsVisible
<1>7. valid \subseteq Key
  OBVIOUS
<1> HIDE DEF valid
<1> QED
  BY <1>1, <1>5, <1>6, <1>7 DEF Cache!Randomkey

LEMMA CycleRefines ==
  ASSUME RInv, IInv', ActiveExpireCycle
  PROVE  Timely(db') /\ Cache!Cycle
<1> USE DEF ClientIdle, Return, Cache!Return
<1>1. PICK K \in SUBSET {k \in Key : db.expires[k] # NULL /\ now > db.expires[k].when} :
        db' = dbDelete(db, K) /\ reply' = <<"cycle", NULL, Cardinality(K)>>
  BY DEF ActiveExpireCycle
<1>2. Heap(db, held)
  BY DEF RInv, IInv
<1>3. \A k \in K : Past(Whens(db)[k], now)
  <2> SUFFICES ASSUME NEW k \in K PROVE Past(Whens(db)[k], now)
    OBVIOUS
  <2>1. k \in Key /\ db.expires[k] # NULL /\ now > db.expires[k].when
    BY <1>1
  <2>2. Whens(db)[k] # NULL /\ Whens(db)[k] = db.expires[k].when
    BY <1>2, <2>1, ViewType DEF Whens
  <2> QED
    BY <2>1, <2>2 DEF Past
<1>4. Timely(db') /\ Cache!Keep
  BY <1>1, <1>3, PurgeStep DEF ActiveExpireCycle
<1>5. Cardinality(K) \in 0 .. Cardinality(Key)
  <2>1. K \subseteq Key /\ IsFiniteSet(Key)
    BY KeyspaceAssumption
  <2>2. Cardinality(K) <= Cardinality(Key) /\ IsFiniteSet(K)
    BY <2>1, FS_Subset
  <2> QED
    BY <2>1, <2>2, FS_CardinalityType
<1> QED
  BY <1>1, <1>4, <1>5, CacheCardinality DEF Cache!Cycle

LEMMA EvictRefines ==
  ASSUME RInv, IInv', FreeMemoryIfNeeded
  PROVE  Timely(db') /\ Cache!Evict
<1> USE DEF ClientIdle, Return, Cache!Return
<1>1. PICK K \in SUBSET {k \in Key : Present(db, k)} : db' = dbDelete(db, K)
  BY DEF FreeMemoryIfNeeded
<1>2. Heap(db, held) /\ Timely(db) /\ K \in SUBSET Key
  BY DEF RInv, IInv
<1>3. Vals(db') = Without(Vals(db), K) /\ Whens(db') = Without(Whens(db), K)
  BY <1>1, <1>2, DeleteView
<1>4. Timely(db') /\ Cache!Drop(K) /\ UNCHANGED now
  BY <1>2, <1>3, KvTtl, DropStep DEF FreeMemoryIfNeeded
<1> QED
  BY <1>2, <1>4 DEF FreeMemoryIfNeeded, Cache!Evict

LEMMA TickRefines ==
  ASSUME RInv, IInv', Tick
  PROVE  Timely(db') /\ Cache!Tick
<1> USE DEF Return, Cache!Return
<1>1. Heap(db, held) /\ Timely(db) /\ now \in 0 .. MaxNow /\ SameView(db, db')
  BY DEF RInv, IInv, SameView, Tick
<1>2. now' = now + 1 /\ now <= now' /\ now' <= MaxNow
  BY <1>1, KeyspaceAssumption DEF Tick
<1>3. Timely(db') /\ Cache!Advance(now')
  BY <1>1, <1>2, KvTtl, ViewType, AdvanceStep
<1> QED
  BY <1>2, <1>3 DEF Tick, Cache!Tick

LEMMA ClientRefines ==
  ASSUME RInv, IInv', NEW o \in Obj,
         Release(o) \/ \E c \in Created : CreateString(o, c)
  PROVE  Timely(db') /\ Cache!Client
<1> USE DEF Return, Cache!Return
<1>1. Heap(db, held) /\ Timely(db) /\ db \in DB
  BY HeapDB DEF RInv, IInv
<1>2. now' = now /\ (reply' = <<"create", NULL, NULL>> \/ reply' = <<"release", NULL, NULL>>)
  BY DEF Release, CreateString
<1>3. SameView(db, db')
  BY <1>1, CountView, CreateView DEF Release, CreateString
<1>4. Timely(db') /\ Cache!Keep
  BY <1>1, <1>2, <1>3, KvTtl, KeepStep
<1> QED
  BY <1>2, <1>4 DEF Cache!Client

-----------------------------------------------------------------------------
(* The invariant of the refinement, and the theorem.                       *)

LEMMA InitRefines ==
  ASSUME Init
  PROVE  RInv /\ Cache!Init
<1>1. IInv
  BY InitIInv
<1>2. \A k \in Key : Whens(db)[k] = NULL /\ ~Present(db, k)
  BY DEF Init, Whens, Present
<1>3. Timely(db)
  BY <1>2 DEF Timely
<1>4. Kv = [k \in Key |-> NULL] /\ Ttl = [k \in Key |-> NULL]
  BY <1>2 DEF Kv, Ttl, Visible
<1> QED
  BY <1>1, <1>3, <1>4 DEF Init, RInv, HeldStrings, Cache!Init

LEMMA NextHeldStrings ==
  ASSUME LendGet = FALSE, RInv, [Next]_vars
  PROVE  HeldStrings'
<1>1. Untouched(db, db', held \cap held')
  BY NextUntouched DEF RInv
<1>2. \A o \in held \cap held' : db'.str[o] \in Strings
  BY <1>1 DEF Untouched, RInv, HeldStrings
<1>3. CASE held' \subseteq held
  BY <1>2, <1>3 DEF HeldStrings
<1>4. ASSUME NEW o \in Obj, NEW c \in Created, CreateString(o, c)
      PROVE  HeldStrings'
  <2>1. db \in DB /\ c[1] \in Strings
    BY HeapDB, KeyspaceAssumption DEF RInv, IInv
  <2>2. db'.str[o] = c[1]
    BY <1>4, <2>1 DEF CreateString, createObject, DB
  <2>3. held' = held \cup {o}
    BY <1>4 DEF CreateString
  <2> QED
    BY <1>2, <2>1, <2>2, <2>3 DEF HeldStrings
<1>5. CASE \E o \in Obj : Release(o)
  BY <1>3, <1>5 DEF Release
<1>6. ASSUME NEW k \in Key, SetCommand(k) \/ StringCommand(k) \/ KeyCommand(k)
      PROVE  HeldStrings'
  <2>1. CASE SetCommand(k)
    BY <1>3, <2>1 DEF SetCommand, SetInvalid, SetRefused, Set, ClientIdle
  <2>2. CASE StringCommand(k)
    BY <1>3, <2>2 DEF StringCommand, IncrError, IncrBy, IncrByFloat,
                      AppendNew, AppendTo, AddOwn, ClientIdle
  <2>3. CASE KeyCommand(k)
    BY <1>3, <2>3 DEF KeyCommand, Expire, Expireat, ExpireGeneric, Get, Touch,
                      TTL, Persist, EmptyOut, Del, Exists, ClientIdle
  <2> QED
    BY <1>6, <2>1, <2>2, <2>3
<1>7. CASE CacheCommand \/ Background \/ Tick \/ UNCHANGED vars
  BY <1>3, <1>7
  DEF CacheCommand, CacheSize, FlushCache, Randomkey, Background,
      ActiveExpireCycle, FreeMemoryIfNeeded, Tick, ClientIdle, vars
<1> QED
  BY <1>4, <1>5, <1>6, <1>7 DEF Next

LEMMA NextRefines ==
  ASSUME LendGet = FALSE, NoOverflow, RInv, [Next]_vars
  PROVE  RInv' /\ [Cache!Next]_Cache!vars
<1>1. IInv'
  BY NextIInv DEF RInv
<1>2. HeldStrings'
  BY NextHeldStrings
<1>3. CASE UNCHANGED vars
  BY <1>1, <1>2, <1>3, KvTtl, KvTtlPrime DEF vars, RInv, Cache!vars
<1>4. CASE \E o \in Obj : Release(o) \/ \E c \in Created : CreateString(o, c)
  <2>1. Timely(db') /\ Cache!Client
    BY <1>1, <1>4, ClientRefines
  <2> QED
    BY <1>1, <1>2, <2>1 DEF RInv, Cache!Next
<1>5. ASSUME NEW k \in Key, SetCommand(k) \/ StringCommand(k) \/ KeyCommand(k)
      PROVE  RInv' /\ [Cache!Next]_Cache!vars
  <2>1. Timely(db') /\ Cache!Command(k)
    BY <1>1, <1>5, SetRefines, StringRefines, KeyRefines
  <2> QED
    BY <1>1, <1>2, <2>1 DEF RInv, Cache!Next
<1>6. CASE CacheCommand
  <2>1. Timely(db') /\ (Cache!Size \/ Cache!Flush \/ Cache!Randomkey)
    BY <1>1, <1>6, SizeRefines, FlushRefines, RandomkeyRefines DEF CacheCommand
  <2> QED
    BY <1>1, <1>2, <2>1 DEF RInv, Cache!Next
<1>7. CASE Background
  <2>1. Timely(db') /\ (Cache!Cycle \/ Cache!Evict)
    BY <1>1, <1>7, CycleRefines, EvictRefines DEF Background
  <2> QED
    BY <1>1, <1>2, <2>1 DEF RInv, Cache!Next
<1>8. CASE Tick
  <2>1. Timely(db') /\ Cache!Tick
    BY <1>1, <1>8, TickRefines
  <2> QED
    BY <1>1, <1>2, <2>1 DEF RInv, Cache!Next
<1> QED
  BY <1>3, <1>4, <1>5, <1>6, <1>7, <1>8 DEF Next

\* Whatever keys, objects and arguments there are, as long as clients hand in
\* objects they own and deadlines fit in a signed 64-bit number: every step of
\* the keyspace, its reply included, is one a map with deadlines may take.
\* Lazy expiry, active expiry, sharing and unsharing of objects and in-place
\* changes are not observable, except that DEL, EXISTS and the size may still
\* count a key whose deadline has passed.
THEOREM KeyspaceRefinesTtlCache ==
  ASSUME LendGet = FALSE, NoOverflow
  PROVE  Spec => ImplementsTtlCache
<1>1. Init => RInv /\ Cache!Init
  BY InitRefines
<1>2. RInv /\ [Next]_vars => RInv' /\ [Cache!Next]_Cache!vars
  BY NextRefines
<1> QED
  BY <1>1, <1>2, PTL DEF Spec, ImplementsTtlCache, Cache!Spec

=============================================================================
