----------------------------- MODULE FreeMemory -----------------------------
(***************************************************************************)
(* freeMemoryIfNeeded (db.c) seen from the memory it accounts for.  Every  *)
(* thread has a cache handle of its own; all of them share used_memory     *)
(* (zmalloc.c), an atomic counter of the whole process, and the limit in   *)
(* g_db_config.  A call measures what an eviction freed as the difference  *)
(* of two readings of the shared counter and adds it to an unsigned sum.   *)
(*                                                                         *)
(* Which key is evicted is any one here: see EvictPool.  The copy of its   *)
(* name (db.c:477, 484) is made before the first reading and freed after   *)
(* the second: it cancels out and is left out.  So are the tables that     *)
(* stay; the old table of a dictionary under rehash does not, and its last *)
(* rehash step (dict.c:222) may come anywhere in the call.                 *)
(***************************************************************************)
EXTENDS Integers, FiniteSets

CONSTANTS
  Thread,      \* the threads, one cache handle each
  Key,         \* the keys of each cache
  Sizes,       \* the memory a key can take
  Limits,      \* the values of maxmemory
  Word,        \* size_t holds 0 .. Word-1
  MaxUsed,     \* bound on the memory in use
  PoolMemory,  \* the memory the long key names in an eviction pool can take
  TableMemory  \* the memory the old tables of a cache under rehash can take

ASSUME FreeMemoryAssumption ==
  /\ IsFiniteSet(Thread) /\ IsFiniteSet(Key)
  /\ Sizes \subseteq Nat \ {0}
  /\ Limits \subseteq Nat /\ Limits # {}
  /\ PoolMemory \subseteq Nat /\ 0 \in PoolMemory
  /\ TableMemory \subseteq Nat /\ 0 \in TableMemory
  /\ MaxUsed \in Nat
  /\ Word \in Nat /\ Word > MaxUsed

VARIABLES
  used,      \* used_memory
  limit,     \* g_db_config.maxmemory
  size,      \* size[t][k]: the memory key k of t's cache takes; 0: no key
  names,     \* names[t]: the memory of the long names in t's pool
  old,       \* old[t]: the memory of ht[0] of t's dictionaries under rehash
  pc,        \* "out", "loop", "delete", "measure"
  call,      \* the locals of the call: mem_tofree, mem_freed, delta, bestkey,
             \* the limit it read, the long names of the pool at that time,
             \* the old tables it freed while it chose keys, and whether no
             \* other thread has moved the counter meanwhile
  result     \* what the last call of each thread returned; "none": nothing yet

vars == <<used, limit, size, names, old, pc, call, result>>

NoCall == [tofree |-> 0, freed |-> 0, delta |-> 0, key |-> CHOOSE k \in Key : TRUE,
           limit |-> 0, names |-> 0, tables |-> 0, alone |-> TRUE]

Init ==
  /\ used = 0
  /\ limit \in Limits
  /\ size = [t \in Thread |-> [k \in Key |-> 0]]
  /\ names = [t \in Thread |-> 0]
  /\ old = [t \in Thread |-> 0]
  /\ pc = [t \in Thread |-> "out"]
  /\ call = [t \in Thread |-> NoCall]
  /\ result = [t \in Thread |-> "none"]

\* The locals of every call after a step in which t moved the counter.
Moved(t) == IF used' = used THEN call
            ELSE [u \in Thread |->
                    IF u = t \/ pc[u] = "out" THEN call[u]
                    ELSE [call[u] EXCEPT !.alone = FALSE]]

Keys(t) == {k \in Key : size[t][k] # 0}

\* A command on t's cache leaves key k with n bytes, perhaps none, and old
\* tables of o bytes: it may start a rehash or end one.
Write(t, k, n, o) ==
  LET left == used - size[t][k] + n - old[t] + o IN
  /\ pc[t] = "out"
  /\ size[t][k] # n \/ old[t] # o
  /\ left <= MaxUsed
  /\ used' = left
  /\ size' = [size EXCEPT ![t][k] = n]
  /\ old' = [old EXCEPT ![t] = o]
  /\ call' = Moved(t)
  /\ UNCHANGED <<limit, names, pc, result>>

\* RcSetConfig, by a thread that is not modelled.
RcSetConfig(l) ==
  /\ l # limit
  /\ limit' = l
  /\ UNCHANGED <<used, size, names, old, pc, call, result>>

Finish(t, r) ==
  /\ pc' = [pc EXCEPT ![t] = "out"]
  /\ call' = [call EXCEPT ![t] = NoCall]
  /\ result' = [result EXCEPT ![t] = r]
  /\ UNCHANGED <<used, limit, size, names, old>>

\* The limit, the memory in use and the policy are read.  Under
\* MAXMEMORY_NO_EVICTION the call fails at once.
Enter(t) ==
  /\ pc[t] = "out"
  /\ \/ used <= limit /\ Finish(t, "OK")
     \/ used > limit /\ Finish(t, "ERR")
     \/ /\ used > limit
        /\ pc' = [pc EXCEPT ![t] = "loop"]
        /\ call' = [call EXCEPT ![t] =
                      [NoCall EXCEPT !.tofree = used - limit, !.limit = limit,
                                     !.names = names[t]]]
        /\ result' = [result EXCEPT ![t] = "none"]
        /\ UNCHANGED <<used, limit, size, names, old>>

Enough(t) == call[t].freed >= call[t].tofree

ReturnOk(t) == pc[t] = "loop" /\ Enough(t) /\ Finish(t, "OK")

NothingLeft(t) ==
  pc[t] = "loop" /\ ~Enough(t) /\ Keys(t) = {} /\ Finish(t, "ERR")

\* Choosing a key, which may copy long names into the pool or free some, and
\* whose rehash steps (dict.c:483, 618, 684-689) may free old tables; then the
\* first reading of the counter.
Choose(t, k, p, o) ==
  LET left == used - names[t] + p - old[t] + o IN
  /\ pc[t] = "loop" /\ ~Enough(t)
  /\ k \in Keys(t)
  /\ o <= old[t]
  /\ left <= MaxUsed
  /\ used' = left
  /\ names' = [names EXCEPT ![t] = p]
  /\ old' = [old EXCEPT ![t] = o]
  /\ call' = [Moved(t) EXCEPT ![t].key = k, ![t].delta = left,
                              ![t].tables = @ + old[t] - o]
  /\ pc' = [pc EXCEPT ![t] = "delete"]
  /\ UNCHANGED <<limit, size, result>>

\* Mutant: the counter does not learn of the memory freed.
DeleteUncounted(t, o) ==
  /\ pc[t] = "delete"
  /\ o <= old[t]
  /\ size' = [size EXCEPT ![t][call[t].key] = 0]
  /\ old' = [old EXCEPT ![t] = o]
  /\ pc' = [pc EXCEPT ![t] = "measure"]
  /\ UNCHANGED <<used, limit, names, call, result>>

\* Mutant: the key is not found, nothing is deleted.
DeleteNothing(t, o) ==
  /\ pc[t] = "delete"
  /\ o = old[t]
  /\ pc' = [pc EXCEPT ![t] = "measure"]
  /\ UNCHANGED <<used, limit, size, names, old, call, result>>

\* dbDelete, whose rehash steps (dict.c:379) may free old tables too.
Delete(t, o) ==
  LET k == call[t].key IN
  /\ pc[t] = "delete"
  /\ o <= old[t]
  /\ used' = used - size[t][k] - old[t] + o
  /\ size' = [size EXCEPT ![t][k] = 0]
  /\ old' = [old EXCEPT ![t] = o]
  /\ call' = Moved(t)
  /\ pc' = [pc EXCEPT ![t] = "measure"]
  /\ UNCHANGED <<limit, names, result>>

\* Mutant: the second reading of the counter is forgotten.
MeasureOnce(t) ==
  /\ pc[t] = "measure"
  /\ call' = [call EXCEPT ![t].freed = (@ + call[t].delta) % Word]
  /\ pc' = [pc EXCEPT ![t] = "loop"]
  /\ UNCHANGED <<used, limit, size, names, old, result>>

\* Mutant: the difference is not added.
MeasureDropped(t) ==
  /\ pc[t] = "measure"
  /\ call' = [call EXCEPT ![t].key = NoCall.key, ![t].delta = 0]
  /\ pc' = [pc EXCEPT ![t] = "loop"]
  /\ UNCHANGED <<used, limit, size, names, old, result>>

\* The second reading; delta is signed, the sum is not.  bestkey and delta
\* are not read again.
Measure(t) ==
  /\ pc[t] = "measure"
  /\ call' = [call EXCEPT ![t].freed = (@ + call[t].delta - used) % Word,
                          ![t].key = NoCall.key, ![t].delta = 0]
  /\ pc' = [pc EXCEPT ![t] = "loop"]
  /\ UNCHANGED <<used, limit, size, names, old, result>>

Step(t) ==
  \/ ReturnOk(t) \/ NothingLeft(t) \/ Measure(t)
  \/ \E k \in Key, p \in PoolMemory, o \in TableMemory : Choose(t, k, p, o)
  \/ \E o \in TableMemory : Delete(t, o)

Command(t) ==
  \E k \in Key, n \in Sizes \cup {0}, o \in TableMemory : Write(t, k, n, o)

Next ==
  \/ \E t \in Thread : Enter(t) \/ Step(t) \/ Command(t)
  \/ \E l \in Limits : RcSetConfig(l)

Spec == Init /\ [][Next]_vars

\* The operating system runs every thread that is inside a call.
FairSpec == Spec /\ \A t \in Thread : WF_vars(Step(t))

-----------------------------------------------------------------------------
(* Properties.                                                             *)

\* The sum of the values of f, counted unit by unit.
Amount(f) == Cardinality({u \in (DOMAIN f) \X (1 .. MaxUsed) : u[2] <= f[u[1]]})

Flat(s) == [x \in Thread \X Key |-> s[x[1]][x[2]]]

\* The variables keep their types, and the counter is what is allocated.
TypeOK ==
  /\ used \in 0 .. MaxUsed
  /\ size \in [Thread -> [Key -> 0 .. MaxUsed]]
  /\ names \in [Thread -> 0 .. MaxUsed]
  /\ old \in [Thread -> 0 .. MaxUsed]
  /\ used = Amount(Flat(size)) + Amount(names) + Amount(old)
  /\ pc \in [Thread -> {"out", "loop", "delete", "measure"}]
  /\ \A t \in Thread : call[t].freed \in 0 .. Word - 1

LoopReturns(t, r) == pc[t] = "loop" /\ pc'[t] = "out" /\ result'[t] = r

\* What the call aims at, below or above its limit: it subtracts what it
\* evicts from what was in use before it changed the names in its pool
\* (db.c:402, evict.c:236) and before its choices freed old tables, for which
\* it takes no credit.
Aim(t) == call[t].limit + names[t] - call[t].names - call[t].tables

\* C_OK means the process is under the limit the call read (evict.c:78-88) by
\* the old tables its choices freed, but for the names it copied into the
\* pool, as long as no other thread has moved the counter meanwhile.
OkIsUnderLimit ==
  [][\A t \in Thread : LoopReturns(t, "OK") /\ call[t].alone => used <= Aim(t)]_vars

\* A call that is alone may evict keys in vain, under the limit, but never by
\* more than the old tables that its choices freed and the names it dropped:
\* at every single eviction the process is over the limit less these, so what
\* an eviction freed is never credited too low (db.c:408, 478-480).
EvictsOverAim ==
  [][\A t \in Thread : pc[t] = "delete" /\ pc'[t] = "measure" /\ call[t].alone
       => used > Aim(t)]_vars

\* Whatever other threads do to the counter, a call ends.
CallReturns == \A t \in Thread : pc[t] # "out" ~> pc[t] = "out"

=============================================================================
