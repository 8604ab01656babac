----------------------------- MODULE EvictPool ------------------------------
(***************************************************************************)
(* The eviction pool of a cache handle (evict.c) and the loop of           *)
(* freeMemoryIfNeeded (db.c) that fills it and takes keys from it.         *)
(*                                                                         *)
(* The pool is an array sorted by score.  Each slot owns a preallocated    *)
(* buffer for the name of a key; a name too long for it is copied to the   *)
(* heap.  Shifting slots moves the buffers along, so the code has to hand  *)
(* the buffer that would be overwritten to the slot that becomes free.     *)
(* The pool outlives the call and is not told when keys are deleted.       *)
(*                                                                         *)
(* The score of a sampled key is any number: it depends on the clock, the  *)
(* accesses and the policy, and it is not even initialised when            *)
(* RcSetConfig changes the policy between its two reads (db.c:405,         *)
(* evict.c:151).  How much memory must go is any amount: see FreeMemory.   *)
(***************************************************************************)
EXTENDS Integers, FiniteSets

CONSTANTS
  Key,
  Long,      \* the keys longer than EVPOOL_CACHED_SDS_SIZE
  NULL,
  PoolSize,  \* EVPOOL_SIZE
  MaxIdle,   \* the scores are 0 .. MaxIdle
  Samples,   \* maxmemory_samples
  Copy       \* the heap strings sdsdup can return

ASSUME EvictPoolAssumption ==
  /\ IsFiniteSet(Key) /\ Long \subseteq Key
  /\ PoolSize \in Nat \ {0}
  /\ MaxIdle \in Nat
  /\ Samples \in Nat \ {0}
  /\ NULL \notin Key \cup Copy \cup Int
  /\ Copy \cap Int = {}
  /\ IsFiniteSet(Copy) /\ Cardinality(Copy) >= PoolSize

VARIABLES
  pool,     \* the slots
  text,     \* the contents of the buffers and heap strings; NULL: none
  store,    \* the keyspace: each key is absent, persistent or volatile
  which,    \* the dictionary the policy samples: "all" or "volatile"
  pc,       \* where freeMemoryIfNeeded is: "out", "round", "sample"
  left      \* samples evictionPoolPopulate has still to insert

vars == <<pool, text, store, which, pc, left>>

Pos == 0 .. PoolSize - 1

Last == PoolSize - 1

\* The buffers are named by the slot that owns them at first.
Buffer == Pos

\* evictionPoolAlloc.
NewPool == [i \in Pos |-> [idle |-> 0, key |-> NULL, cached |-> i]]

Evictable(k) == \/ store[k] = "volatile"
                \/ store[k] = "persistent" /\ which = "all"

EvictableKeys == {k \in Key : Evictable(k)}

Init ==
  /\ pool = NewPool
  /\ text = [s \in Buffer \cup Copy |-> NULL]
  /\ store = [k \in Key |-> "absent"]
  /\ which = "all"
  /\ pc = "out"
  /\ left = 0

-----------------------------------------------------------------------------
(* evictionPoolPopulate.                                                   *)

\* Mutant: new entries always go behind the others.
PlaceBehind(idle) ==
  CHOOSE n \in 0 .. PoolSize :
    /\ \A i \in 0 .. n - 1 : pool[i].key # NULL
    /\ n < PoolSize => pool[n].key = NULL

\* The first slot that is empty or has a score that is not smaller.
Place(idle) ==
  CHOOSE n \in 0 .. PoolSize :
    /\ \A i \in 0 .. n - 1 : pool[i].key # NULL /\ pool[i].idle < idle
    /\ n < PoolSize => pool[n].key = NULL \/ pool[n].idle >= idle

\* Mutant: the buffer of the last slot is lost, that of n used twice.
ShiftRightSharing(n) == [i \in Pos |-> IF i <= n THEN pool[i] ELSE pool[i - 1]]

\* Make room at n; the last slot is empty and n gets its buffer.
ShiftRight(n) ==
  [i \in Pos |-> IF i < n THEN pool[i]
                 ELSE IF i > n THEN pool[i - 1]
                 ELSE [pool[n] EXCEPT !.cached = pool[Last].cached]]

\* Make room at n by dropping the first slot, whose buffer n gets.
ShiftLeft(n) ==
  [i \in Pos |-> IF i < n THEN pool[i + 1]
                 ELSE IF i > n THEN pool[i]
                 ELSE [pool[n] EXCEPT !.cached = pool[0].cached]]

\* sdsfree of the name in slot e, unless it is in the slot's buffer.
FreeName(T, e) == IF e.key = e.cached THEN T ELSE [T EXCEPT ![e.key] = NULL]

\* Put the name of k into slot n of P, in the buffer or on the heap.
Fill(P, T, n, k, idle) ==
  \E s \in IF k \in Long THEN {c \in Copy : T[c] = NULL} ELSE {P[n].cached} :
    /\ text' = [T EXCEPT ![s] = k]
    /\ pool' = [P EXCEPT ![n].key = s, ![n].idle = idle]

\* One turn of the loop over the samples.
Insert(k, idle) ==
  LET n == Place(idle)
      full == pool[Last].key # NULL IN
  \/ n = 0 /\ full /\ UNCHANGED <<pool, text>>
  \/ n < PoolSize /\ pool[n].key = NULL /\ Fill(pool, text, n, k, idle)
  \/ /\ n < PoolSize => pool[n].key # NULL
     /\ \/ ~full /\ Fill(ShiftRight(n), text, n, k, idle)
        \/ /\ n > 0 /\ full
           /\ Fill(ShiftLeft(n - 1), FreeName(text, pool[0]), n - 1, k, idle)

Offer(k, idle) ==
  /\ pc = "sample" /\ left > 0
  /\ Evictable(k)
  /\ Insert(k, idle)
  /\ left' = left - 1
  /\ UNCHANGED <<store, which, pc>>

-----------------------------------------------------------------------------
(* freeMemoryIfNeeded.                                                     *)

\* The call finds that memory must be freed and reads the policy.
Begin(w) ==
  /\ pc = "out"
  /\ pc' = "round" /\ which' = w
  /\ UNCHANGED <<pool, text, store, left>>

\* There is nothing to evict: C_ERR.
NoKeys ==
  /\ pc = "round" /\ EvictableKeys = {}
  /\ pc' = "out"
  /\ UNCHANGED <<pool, text, store, which, left>>

\* Mutant: one sample more than there is room for.
PopulateOneMore(n) ==
  /\ pc = "round" /\ EvictableKeys # {}
  /\ n <= Samples /\ n <= Cardinality(EvictableKeys)
  /\ pc' = "sample" /\ left' = n + 1
  /\ UNCHANGED <<pool, text, store, which>>

\* dictGetSomeKeys returns n entries, perhaps none: it starts at a random
\* bucket and gives up after a number of empty ones.
Populate(n) ==
  /\ pc = "round" /\ EvictableKeys # {}
  /\ n <= Samples /\ n <= Cardinality(EvictableKeys)
  /\ pc' = "sample" /\ left' = n
  /\ UNCHANGED <<pool, text, store, which>>

\* Slot i names a key that dictFind finds.
Live(i) == pool[i].key # NULL /\ Evictable(text[pool[i].key])

\* Mutant: the names stay in the pool.
ClearNothing(i) == UNCHANGED <<pool, text>>

\* The slots from i on are emptied and the heap strings among them freed.
Clear(i) ==
  /\ pool' = [j \in Pos |-> IF j >= i /\ pool[j].key # NULL
                            THEN [pool[j] EXCEPT !.key = NULL, !.idle = 0]
                            ELSE pool[j]]
  /\ text' = [s \in DOMAIN text |->
                IF s \in Copy /\ \E j \in i .. Last : pool[j].key = s
                THEN NULL ELSE text[s]]

\* Mutant: from the worst slot up.
PickWorst(i) ==
  /\ pc = "sample" /\ left = 0
  /\ Live(i) /\ \A j \in 0 .. i - 1 : ~Live(j)
  /\ Clear(i)
  /\ store' = [store EXCEPT ![text[pool[i].key]] = "absent"]
  /\ pc' \in {"round", "out"}
  /\ UNCHANGED <<which, left>>

\* From the best slot down: ghosts are dropped, the first key that exists
\* is deleted; then the loop goes on or enough is freed.
Pick(i) ==
  /\ pc = "sample" /\ left = 0
  /\ Live(i) /\ \A j \in i + 1 .. Last : ~Live(j)
  /\ Clear(i)
  /\ store' = [store EXCEPT ![text[pool[i].key]] = "absent"]
  /\ pc' \in {"round", "out"}
  /\ UNCHANGED <<which, left>>

AllGhosts ==
  /\ pc = "sample" /\ left = 0
  /\ \A j \in Pos : ~Live(j)
  /\ Clear(0)
  /\ pc' = "round"
  /\ UNCHANGED <<store, which, left>>

\* Between calls the client writes, deletes, expires or persists a key.
Client(k, s) ==
  /\ pc = "out"
  /\ store[k] # s
  /\ store' = [store EXCEPT ![k] = s]
  /\ UNCHANGED <<pool, text, which, pc, left>>

PopulateSome == \E n \in 1 .. Samples : Populate(n)

Loop ==
  \/ NoKeys \/ AllGhosts \/ Populate(0) \/ PopulateSome
  \/ \E k \in Key, idle \in 0 .. MaxIdle : Offer(k, idle)
  \/ \E i \in Pos : Pick(i)

Next ==
  \/ Loop
  \/ \E w \in {"all", "volatile"} : Begin(w)
  \/ \E k \in Key, s \in {"absent", "persistent", "volatile"} : Client(k, s)

Spec == Init /\ [][Next]_vars

\* A call that began goes on, and a sampler that starts at random buckets
\* of a dictionary that is not empty finds an entry sooner or later.
FairSpec == Spec /\ WF_vars(Loop) /\ SF_vars(PopulateSome)

-----------------------------------------------------------------------------
(* Properties.                                                             *)

\* The array keeps its shape.
TypeOK ==
  /\ pool \in [Pos -> [idle : 0 .. MaxIdle, key : Buffer \cup Copy \cup {NULL},
                       cached : Buffer]]
  /\ text \in [Buffer \cup Copy -> Key \cup {NULL}]
  /\ store \in [Key -> {"absent", "persistent", "volatile"}]
  /\ which \in {"all", "volatile"}
  /\ pc \in {"out", "round", "sample"}
  /\ left \in 0 .. Samples

Used == {i \in Pos : pool[i].key # NULL}

\* The empty slots are at the right and the scores ascend: what the search
\* for a place and the test for a full pool rely on (evict.c:143-145).
PoolOrdered ==
  \A i, j \in Pos : i < j /\ j \in Used => i \in Used /\ pool[i].idle <= pool[j].idle

\* However slots were shifted, every slot has a buffer of its own, a name is
\* in its slot's buffer or in a heap string no other slot names, and every
\* heap string is named: none leaks, none is freed twice.
NamesOwned ==
  /\ \A i, j \in Pos : i # j => pool[i].cached # pool[j].cached
  /\ \A i \in Used : pool[i].key \in Copy \cup {pool[i].cached}
  /\ \A i, j \in Used : i # j => pool[i].key # pool[j].key
  /\ {s \in Copy : text[s] # NULL} = {pool[i].key : i \in Used} \cap Copy

\* The names in the pool with their scores, worst first.
Cand == [i \in 1 .. Cardinality(Used) |->
           <<pool[i - 1].idle, text[pool[i - 1].key]>>]

Best == INSTANCE Candidates WITH cand <- Cand

\* The pool is the list of the best candidates it was ever offered, no
\* buffer is overwritten while it is in use, and the key that is evicted is
\* the best candidate that still exists (evict.c:97-108).
ImplementsCandidates == Best!Spec

\* The loop cannot spin on names of keys that are gone: every call ends.
CallReturns == pc # "out" ~> pc = "out"

=============================================================================
