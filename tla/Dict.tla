-------------------------------- MODULE Dict --------------------------------
(***************************************************************************)
(* dict.c: a hash table of chained buckets that grows and shrinks          *)
(* incrementally.  While it is rehashing there are two tables; every call  *)
(* moves one bucket from the old to the new one before it does its own     *)
(* work, and new entries go to the new table only.                         *)
(*                                                                         *)
(* A chain is the set of its entries: the order within a chain changes     *)
(* nothing but the cost of a search.  The counters "used" are kept by the  *)
(* calls as the code keeps them and are not derived from the chains.       *)
(***************************************************************************)
EXTENDS Integers, FiniteSets

CONSTANTS
  Key, Value, NULL,
  Hash,         \* Hash[k]: dictHashKey
  Sizes,        \* the table sizes: the powers of two from InitialSize on
  InitialSize,  \* DICT_HT_INITIAL_SIZE
  ForceRatio,   \* dict_force_resize_ratio
  MinFill,      \* HASHTABLE_MIN_FILL, in percent
  EmptyVisits,  \* the empty buckets one step of rehashing may visit
  MaxIterators, \* bound on the safe iterators open at a time
  MayDisable    \* may resizing be disabled

ASSUME DictAssumption ==
  /\ IsFiniteSet(Key)
  /\ NULL \notin Key \cup Value
  /\ Hash \in [Key -> Nat]
  /\ Sizes \subseteq Nat \ {0}
  /\ InitialSize \in Sizes
  /\ \A s \in Sizes : InitialSize <= s
  /\ \A n \in 0 .. 2 * Cardinality(Key) : \E s \in Sizes : n <= s
  /\ ForceRatio \in Nat
  /\ MinFill \in Nat
  /\ EmptyVisits \in Nat \ {0}
  /\ MaxIterators \in Nat
  /\ MayDisable \in BOOLEAN

VARIABLES
  d,            \* the dictionary
  canResize,    \* dict_can_resize
  reply         \* the last call: <<name, key, result>>

vars == <<d, canResize, reply>>

Entry == [key : Key, val : Value]

-----------------------------------------------------------------------------
(* The tables.                                                             *)

NewTable(n) == [size |-> n, used |-> 0, bucket |-> [i \in 0 .. n - 1 |-> {}]]

NoTable == NewTable(0)

Created == [ht0 |-> NoTable, ht1 |-> NoTable, rehashidx |-> -1, iterators |-> 0]

Rehashing(D) == D.rehashidx # -1

Index(k, n) == Hash[k] % n

\* The entries for k in the chain that k hashes to.
Chain(t, k) ==
  IF t.size = 0 THEN {} ELSE {e \in t.bucket[Index(k, t.size)] : e.key = k}

\* Where dictFind, dictDelete and _dictKeyIndex find k: ht[1] is searched
\* only while rehashing.
Found(D, k) ==
  IF Chain(D.ht0, k) # {} THEN Chain(D.ht0, k)
  ELSE IF Rehashing(D) THEN Chain(D.ht1, k) ELSE {}

\* The value a search for k finds.
dictFetchValue(D, k) ==
  IF Found(D, k) = {} THEN NULL ELSE (CHOOSE e \in Found(D, k) : TRUE).val

Insert(t, e) ==
  [t EXCEPT !.bucket[Index(e.key, t.size)] = @ \cup {e}, !.used = @ + 1]

Remove(t, e) ==
  [t EXCEPT !.bucket[Index(e.key, t.size)] = @ \ {e}, !.used = @ - 1]

dictSize(D) == D.ht0.used + D.ht1.used

dictSlots(D) == D.ht0.size + D.ht1.size

-----------------------------------------------------------------------------
(* Incremental rehashing.                                                  *)

\* The first bucket at or after rehashidx that is not empty.
NextBucket(D) ==
  CHOOSE i \in 0 .. D.ht0.size - 1 :
    /\ D.rehashidx <= i /\ D.ht0.bucket[i] # {}
    /\ \A j \in D.rehashidx .. i - 1 : D.ht0.bucket[j] = {}

\* Mutant: the counters of the two tables are left alone.
MoveBucketUncounted(D, i) ==
  [D EXCEPT
     !.ht0.bucket[i] = {},
     !.ht1.bucket = [j \in DOMAIN @ |->
        @[j] \cup {e \in D.ht0.bucket[i] : Index(e.key, D.ht1.size) = j}],
     !.rehashidx = i + 1]

\* Every entry of ht[0].table[i] goes to its bucket of ht[1].
MoveBucket(D, i) ==
  LET moved == D.ht0.bucket[i]
      n == Cardinality(moved) IN
  [D EXCEPT
     !.ht0.bucket[i] = {},
     !.ht0.used = @ - n,
     !.ht1.bucket = [j \in DOMAIN @ |->
        @[j] \cup {e \in moved : Index(e.key, D.ht1.size) = j}],
     !.ht1.used = @ + n,
     !.rehashidx = i + 1]

\* Mutant: the end of the rehashing is not recorded.
SettleStillRehashing(D) ==
  IF D.ht0.used # 0 THEN D ELSE [D EXCEPT !.ht0 = D.ht1, !.ht1 = NoTable]

\* Once ht[0] is empty, ht[1] takes its place.
Settle(D) ==
  IF D.ht0.used # 0 THEN D
  ELSE [D EXCEPT !.ht0 = D.ht1, !.ht1 = NoTable, !.rehashidx = -1]

\* dictRehash(d, 1).
dictRehash(D) ==
  IF D.ht0.used = 0 THEN Settle(D)
  ELSE IF NextBucket(D) - D.rehashidx >= EmptyVisits
       THEN [D EXCEPT !.rehashidx = @ + EmptyVisits]
       ELSE Settle(MoveBucket(D, NextBucket(D)))

\* _dictRehashStep, as every call makes it.
RehashStep(D) ==
  IF Rehashing(D) /\ D.iterators = 0 THEN dictRehash(D) ELSE D

-----------------------------------------------------------------------------
(* Resizing.                                                               *)

\* Mutant: a table of exactly n buckets.
NextPowerExact(n) == n

\* _dictNextPower.
NextPower(n) ==
  CHOOSE s \in Sizes : s >= n /\ \A t \in Sizes : t >= n => s <= t

dictExpand(D, n) ==
  IF \/ Rehashing(D) \/ D.ht0.used > n
     \/ NextPower(n) = D.ht0.size
  THEN D
  ELSE IF D.ht0.size = 0 THEN [D EXCEPT !.ht0 = NewTable(NextPower(n))]
  ELSE [D EXCEPT !.ht1 = NewTable(NextPower(n)), !.rehashidx = 0]

\* _dictExpandIfNeeded.
ExpandIfNeeded(D) ==
  IF Rehashing(D) THEN D
  ELSE IF D.ht0.size = 0 THEN dictExpand(D, InitialSize)
  ELSE IF /\ D.ht0.used >= D.ht0.size
          /\ canResize \/ D.ht0.used \div D.ht0.size > ForceRatio
  THEN dictExpand(D, D.ht0.used * 2)
  ELSE D

htNeedsResize(D) ==
  /\ dictSlots(D) > InitialSize
  /\ (dictSize(D) * 100) \div dictSlots(D) < MinFill

dictResize(D) ==
  IF ~canResize \/ Rehashing(D) THEN D
  ELSE dictExpand(D, IF D.ht0.used < InitialSize THEN InitialSize
                     ELSE D.ht0.used)

-----------------------------------------------------------------------------
(* The calls.                                                              *)

Return(op, k, r) == reply' = <<op, k, r>>

\* Mutant: dictAdd makes no step of rehashing.
PreparedNoStep(D) == ExpandIfNeeded(D)

\* The state in which dictAddRaw searches for the key.
Prepared(D) == ExpandIfNeeded(RehashStep(D))

\* dictAddRaw for a key that is not there.
AddEntry(D, e) ==
  IF Rehashing(D) THEN [D EXCEPT !.ht1 = Insert(@, e)]
                  ELSE [D EXCEPT !.ht0 = Insert(@, e)]

\* Mutant: an entry that already moved to the new table is not unlinked.
DeleteEntryOldTable(D, k) ==
  IF Chain(D.ht0, k) = {} THEN D
  ELSE [D EXCEPT !.ht0 = Remove(@, CHOOSE e \in Chain(D.ht0, k) : TRUE)]

\* dictGenericDelete unlinks the first entry it finds.
DeleteEntry(D, k) ==
  IF Chain(D.ht0, k) # {}
  THEN [D EXCEPT !.ht0 = Remove(@, CHOOSE e \in Chain(D.ht0, k) : TRUE)]
  ELSE [D EXCEPT !.ht1 = Remove(@, CHOOSE e \in Chain(D.ht1, k) : TRUE)]

\* dictSetVal on the entry found for k; its counters stay.
SetVal(D, k, v) ==
  LET e == [key |-> k, val |-> v]
      Set(t) == [t EXCEPT !.bucket[Index(k, t.size)] =
                   (@ \ Chain(t, k)) \cup {e}] IN
  IF Chain(D.ht0, k) # {} THEN [D EXCEPT !.ht0 = Set(@)]
                          ELSE [D EXCEPT !.ht1 = Set(@)]

Init == /\ d = Created
        /\ canResize = TRUE
        /\ reply = <<"init", NULL, NULL>>

dictAdd(k, v) ==
  LET D == Prepared(d)
      new == Found(D, k) = {} IN
  /\ d' = IF new THEN AddEntry(D, [key |-> k, val |-> v]) ELSE D
  /\ Return("add", k, new)
  /\ UNCHANGED canResize

\* Also dictAddOrFind followed by a store into the entry it returns.
dictReplace(k, v) ==
  LET D == Prepared(d)
      new == Found(D, k) = {} IN
  /\ d' = IF new THEN AddEntry(D, [key |-> k, val |-> v]) ELSE SetVal(D, k, v)
  /\ Return("replace", k, new)
  /\ UNCHANGED canResize

\* dictDelete, dictUnlink; a hash, set or sorted set shrinks afterwards
\* when few of its buckets are used (shrink).
dictDelete(k, shrink) ==
  LET D == IF dictSize(d) = 0 THEN d ELSE RehashStep(d)
      there == Found(D, k) # {}
      E == IF there THEN DeleteEntry(D, k) ELSE D IN
  /\ d' = IF shrink /\ there /\ htNeedsResize(E) THEN dictResize(E) ELSE E
  /\ Return("delete", k, there)
  /\ UNCHANGED canResize

dictFind(k) ==
  LET D == IF dictSize(d) = 0 THEN d ELSE RehashStep(d) IN
  /\ d' = D
  /\ Return("find", k, dictFetchValue(D, k))
  /\ UNCHANGED canResize

\* The buckets of both tables, numbered through.
Slot(D, h) ==
  IF h >= D.ht0.size THEN D.ht1.bucket[h - D.ht0.size] ELSE D.ht0.bucket[h]

\* Mutant: the last bucket of the new table is never drawn.
DrawnButLast(D) ==
  IF Rehashing(D)
  THEN {Slot(D, h) : h \in D.rehashidx .. dictSlots(D) - 2}
  ELSE {D.ht0.bucket[h] : h \in 0 .. D.ht0.size - 1}

\* The buckets dictGetRandomKey draws from.
Drawn(D) ==
  IF Rehashing(D)
  THEN {Slot(D, h) : h \in D.rehashidx .. dictSlots(D) - 1}
  ELSE {D.ht0.bucket[h] : h \in 0 .. D.ht0.size - 1}

\* It draws until a bucket is not empty, then draws from its chain.
dictGetRandomKey ==
  LET D == IF dictSize(d) = 0 THEN d ELSE RehashStep(d) IN
  /\ d' = D
  /\ \/ dictSize(d) = 0 /\ Return("random", NULL, NULL)
     \/ /\ dictSize(d) # 0
        /\ \E b \in Drawn(D) : \E e \in b : Return("random", NULL, e.key)
  /\ UNCHANGED canResize

dictEmpty ==
  /\ d.iterators = 0
  /\ d' = Created
  /\ Return("empty", NULL, NULL)
  /\ UNCHANGED canResize

\* A safe iterator suspends rehashing from its first dictNext to
\* dictReleaseIterator.
SafeIteratorStart ==
  /\ d.iterators < MaxIterators
  /\ d' = [d EXCEPT !.iterators = @ + 1]
  /\ UNCHANGED <<canResize, reply>>

SafeIteratorRelease ==
  /\ d.iterators > 0
  /\ d' = [d EXCEPT !.iterators = @ - 1]
  /\ UNCHANGED <<canResize, reply>>

dictEnableResize  == canResize' = TRUE /\ UNCHANGED <<d, reply>>
dictDisableResize == MayDisable /\ canResize' = FALSE /\ UNCHANGED <<d, reply>>

Call ==
  \/ \E k \in Key : \/ dictFind(k)
                    \/ \E shrink \in BOOLEAN : dictDelete(k, shrink)
                    \/ \E v \in Value : dictAdd(k, v) \/ dictReplace(k, v)
  \/ dictGetRandomKey \/ dictEmpty

Next ==
  \/ Call
  \/ SafeIteratorStart \/ SafeIteratorRelease
  \/ dictEnableResize \/ dictDisableResize

Spec == Init /\ [][Next]_vars

-----------------------------------------------------------------------------
(* Properties.                                                             *)

\* The dictionary keeps its shape; there is a second table exactly while
\* rehashing.
TypeOK ==
  /\ \A t \in {d.ht0, d.ht1} :
       /\ t.size \in Sizes \cup {0} /\ t.used \in Nat
       /\ DOMAIN t.bucket = 0 .. t.size - 1
       /\ \A i \in DOMAIN t.bucket : t.bucket[i] \subseteq Entry
  /\ d.rehashidx \in Nat \cup {-1}
  /\ d.iterators \in 0 .. MaxIterators
  /\ canResize \in BOOLEAN

Entries(t) == UNION {t.bucket[i] : i \in DOMAIN t.bucket}

\* Every entry is in the bucket a search for its key looks at, no key has
\* two entries in either table, and the counters dictSize adds up are the
\* number of entries: through any mix of resizes and half-done rehashes.
Searchable ==
  /\ \A t \in {d.ht0, d.ht1} :
       /\ \A i \in DOMAIN t.bucket : \A e \in t.bucket[i] : Index(e.key, t.size) = i
       /\ t.used = Cardinality(Entries(t))
  /\ \A e, f \in Entries(d.ht0) \cup Entries(d.ht1) : e.key = f.key => e = f
  /\ Entries(d.ht0) \cap Entries(d.ht1) = {}

\* The rehashing frontier (dict.c:196-198, 621, 701): below rehashidx ht[0]
\* is empty, there is a bucket left to visit as long as ht[0] holds an entry,
\* and ht[1] exists exactly while rehashing.
FrontierOK ==
  /\ Rehashing(d) <=> d.ht1.size # 0
  /\ Rehashing(d) =>
       /\ \A i \in DOMAIN d.ht0.bucket : i < d.rehashidx => d.ht0.bucket[i] = {}
       /\ d.ht0.used # 0 => d.rehashidx < d.ht0.size

\* dictGetRandomKey can return every key there is, whatever the frontier,
\* so its loop over empty buckets ends.
RandomReachesAll ==
  LET D == RehashStep(d) IN
  UNION Drawn(D) = Entries(D.ht0) \cup Entries(D.ht1)

\* When nothing suspends rehashing or forbids resizing, as nothing in this
\* library does, the move to a larger table ends before that table is full:
\* chains stay short while the dictionary grows.
GrowthKeepsUp ==
  Rehashing(d) /\ d.ht1.size > d.ht0.size => dictSize(d) <= d.ht1.size

\* The dictionary is a map to its users.
Contents(D) == [k \in Key |-> dictFetchValue(D, k)]

Map == INSTANCE DictMap WITH map <- Contents(d)

\* Resizing, rehashing and iterators are not observable: every call does to
\* the map, and answers, what a map would.
ImplementsMap == Map!Spec

=============================================================================
