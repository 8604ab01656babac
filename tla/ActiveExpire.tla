---------------------------- MODULE ActiveExpire ----------------------------
(***************************************************************************)
(* activeExpireCycle (db.c): the background call that samples the expires  *)
(* dictionary at random and deletes the keys past their deadline.  The     *)
(* dictionary is the one of module Dict; its values are the deadlines.     *)
(*                                                                         *)
(* A cycle gives up at once when the dictionary is mostly empty buckets,   *)
(* and nothing in the library ever shrinks the expires dictionary: only    *)
(* hashes, sets and sorted sets call dictResize.                           *)
(***************************************************************************)
EXTENDS Dict

CONSTANTS
  Lookups,    \* ACTIVE_EXPIRE_CYCLE_LOOKUPS_PER_LOOP
  MinPercent, \* the fill, in percent, below which a cycle gives up
  MaxNow      \* bound on the clock

ASSUME ActiveExpireAssumption ==
  Lookups \in Nat \ {0} /\ MinPercent \in Nat /\ MaxNow \in Nat

\* The dictionary is an expires table: deadlines are its values, nothing
\* iterates over it and nothing forbids it to grow.
ExpiresTable == Value \subseteq Nat /\ MaxIterators = 0 /\ ~MayDisable

VARIABLES
  now,      \* mstime()
  fast,     \* the static variable "type", shared by all cache handles
  left,     \* lookups the running cycle has still to make
  expired   \* keys the running cycle has deleted

cycleVars == <<now, fast, left, expired>>
allVars == <<vars, cycleVars>>

CycleInit == Init /\ now = 0 /\ fast = FALSE /\ left = 0 /\ expired = 0

\* The commands of the handle run between cycles.
Command == left = 0 /\ UNCHANGED cycleVars

\* setExpire, removeExpire and dbDelete, getExpire, and emptyDb.
SetExpire(k, when) == Command /\ dictReplace(k, when)
RemoveExpire(k)    == Command /\ dictDelete(k, FALSE)
GetExpire(k)       == Command /\ dictFind(k)
EmptyDb            == Command /\ dictEmpty

Tick ==
  /\ left = 0 /\ now < MaxNow
  /\ now' = now + 1
  /\ UNCHANGED <<vars, fast, left, expired>>

Sparse ==
  /\ dictSize(d) # 0
  /\ dictSlots(d) > InitialSize
  /\ (dictSize(d) * 100) \div dictSlots(d) < MinPercent

\* A cycle that finds nothing to expire, or too many empty buckets.
SkipCycle ==
  /\ left = 0
  /\ dictSize(d) = 0 \/ Sparse
  /\ UNCHANGED allVars

\* Mutant: a single entry is not worth a cycle.
StartCycleUnlessOne ==
  /\ left = 0
  /\ dictSize(d) > 1 /\ ~Sparse
  /\ left' = IF dictSize(d) > Lookups THEN Lookups ELSE dictSize(d)
  /\ expired' = 0
  /\ UNCHANGED <<vars, now, fast>>

StartCycle ==
  LET most == IF fast THEN 2 * Lookups ELSE Lookups IN
  /\ left = 0
  /\ dictSize(d) # 0 /\ ~Sparse
  /\ left' = IF dictSize(d) > most THEN most ELSE dictSize(d)
  /\ expired' = 0
  /\ UNCHANGED <<vars, now, fast>>

\* What the end of a cycle that deleted n keys decides for the next one;
\* another handle's cycle may overwrite it.
Decide(last, n) ==
  IF last THEN fast' \in {n > Lookups \div 4, TRUE, FALSE} ELSE UNCHANGED fast

\* One lookup finds k: dictGetRandomKey, then dbDelete when its deadline
\* has passed, which searches expires again.  There is an entry to draw as
\* long as lookups are left (DrawsSucceed).
Lookup(k) ==
  LET D == RehashStep(d)
      due == \E e \in Found(D, k) : now > e.val
      E == RehashStep(D) IN
  /\ left > 0
  /\ \E b \in Drawn(D) : \E e \in b : e.key = k
  /\ d' = IF due THEN DeleteEntry(E, k) ELSE D
  /\ expired' = expired + (IF due THEN 1 ELSE 0)
  /\ left' = left - 1
  /\ Decide(left = 1, expired')
  /\ UNCHANGED <<canResize, reply, now>>

CycleNext ==
  \/ \E k \in Key : \/ RemoveExpire(k) \/ GetExpire(k) \/ Lookup(k)
                    \/ \E when \in Value : SetExpire(k, when)
  \/ EmptyDb \/ Tick \/ SkipCycle \/ StartCycle

CycleSpec == CycleInit /\ [][CycleNext]_allVars

\* The owner of the cache calls the cycle again and again, and every key is
\* drawn sooner or later.
FairSpec ==
  /\ CycleSpec
  /\ SF_allVars(StartCycle)
  /\ WF_allVars(\E k \in Key : Lookup(k))
  /\ \A k \in Key : SF_allVars(Lookup(k))

-----------------------------------------------------------------------------
(* Properties.                                                             *)

\* A cycle deletes at most one entry with each lookup it has left, so no
\* draw finds the dictionary empty: the way out of the loop at db.c:560 is
\* never taken.
DrawsSucceed == left <= dictSize(d)

Due(k) == \E e \in Found(d, k) : now > e.val

\* A key past its deadline is deleted, or gets a new one, in the end, unless the
\* table becomes sparse: the code then waits for a resize (db.c:541-545).
DueGoes == \A k \in Key : Due(k) ~> ~Due(k) \/ Sparse

=============================================================================
