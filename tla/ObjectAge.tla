----------------------------- MODULE ObjectAge ------------------------------
(***************************************************************************)
(* The access time of an object (evict.c, lookupKey in db.c, createObject  *)
(* in object.c).  One field of a few bits is, depending on the policy at   *)
(* the time of the access, a clock or a pair of a coarser clock and an     *)
(* access counter.  Both clocks round the time down to a whole tick and    *)
(* wrap; the policy can change at any time, and then the field is read in  *)
(* the format it was not written in.                                       *)
(***************************************************************************)
EXTENDS Integers

CONSTANTS
  Obj,
  LdtMod,      \* the minutes are kept modulo LdtMod
  CounterMod,  \* the counter is in 0 .. CounterMod-1
  InitVal,     \* LFU_INIT_VAL
  Resolution,  \* LRU_CLOCK_RESOLUTION: milliseconds per tick of the clock
  MinuteLength, \* milliseconds per minute
  Decays,      \* the values of lfu_decay_time
  MaxNow       \* bound on the time

ASSUME ObjectAgeAssumption ==
  /\ LdtMod \in Nat \ {0} /\ CounterMod \in Nat \ {0}
  /\ Resolution \in Nat \ {0} /\ MinuteLength \in Nat \ {0}
  /\ InitVal \in 0 .. CounterMod - 1
  /\ Decays \subseteq Nat /\ Decays # {}
  /\ MaxNow \in Nat

VARIABLES
  now,      \* the time in milliseconds
  policy,   \* "lru" (any but the LFU policies) or "lfu"
  decay,    \* lfu_decay_time
  lru,      \* the field of each object
  seen      \* history: the time and policy of each object's last access

vars == <<now, policy, decay, lru, seen>>

LruMod == LdtMod * CounterMod

\* getLRUClock.
LRU_CLOCK == (now \div Resolution) % LruMod

LFUGetTimeInMinutes == (now \div MinuteLength) % LdtMod

\* Mutant: the wrap counts one tick too many.
IdleWrapPlusOne(o) ==
  Resolution * (IF LRU_CLOCK >= lru[o] THEN LRU_CLOCK - lru[o]
                ELSE LRU_CLOCK + (LruMod + 1 - lru[o]))

\* Mutant: the wrap counts one tick less than it does.
IdleWrapMinusOne(o) ==
  Resolution * (IF LRU_CLOCK >= lru[o] THEN LRU_CLOCK - lru[o]
                ELSE LRU_CLOCK + (LruMod - 2 - lru[o]))

estimateObjectIdleTime(o) ==
  Resolution * (IF LRU_CLOCK >= lru[o] THEN LRU_CLOCK - lru[o]
                ELSE LRU_CLOCK + (LruMod - 1 - lru[o]))

\* Mutant: the wrap counts one minute too many.
ElapsedWrapPlusOne(ldt) ==
  IF LFUGetTimeInMinutes >= ldt THEN LFUGetTimeInMinutes - ldt
  ELSE LdtMod + 1 - ldt + LFUGetTimeInMinutes

LFUTimeElapsed(ldt) ==
  IF LFUGetTimeInMinutes >= ldt THEN LFUGetTimeInMinutes - ldt
  ELSE LdtMod - 1 - ldt + LFUGetTimeInMinutes

Ldt(o) == lru[o] \div CounterMod

Counter(o) == lru[o] % CounterMod

LFUDecrAndReturn(o) ==
  LET periods == IF decay = 0 THEN 0 ELSE LFUTimeElapsed(Ldt(o)) \div decay IN
  IF periods > Counter(o) THEN 0 ELSE Counter(o) - periods

\* A logarithmic counter: it is incremented with some probability.
LFULogIncr(c) == IF c = CounterMod - 1 THEN {c} ELSE {c, c + 1}

Lfu(c) == LFUGetTimeInMinutes * CounterMod + c

Init ==
  /\ now = 0
  /\ policy \in {"lru", "lfu"} /\ decay \in Decays
  /\ lru = [o \in Obj |-> IF policy = "lfu" THEN Lfu(InitVal) ELSE LRU_CLOCK]
  /\ seen = [o \in Obj |-> [time |-> 0, as |-> policy]]

Stamp(o, v) ==
  /\ lru' = [lru EXCEPT ![o] = v]
  /\ seen' = [seen EXCEPT ![o] = [time |-> now, as |-> policy]]
  /\ UNCHANGED <<now, policy, decay>>

\* createObject: o stands for a new object from now on.
Create(o) == Stamp(o, IF policy = "lfu" THEN Lfu(InitVal) ELSE LRU_CLOCK)

\* lookupKey, updateLFU included.
Access(o) ==
  \/ policy = "lru" /\ Stamp(o, LRU_CLOCK)
  \/ /\ policy = "lfu"
     /\ \E c \in LFULogIncr(LFUDecrAndReturn(o)) : Stamp(o, Lfu(c))

RcSetConfig ==
  /\ policy' \in {"lru", "lfu"} /\ decay' \in Decays
  /\ UNCHANGED <<now, lru, seen>>

Tick ==
  /\ now < MaxNow
  /\ now' = now + 1
  /\ UNCHANGED <<policy, decay, lru, seen>>

Next == Tick \/ RcSetConfig \/ \E o \in Obj : Create(o) \/ Access(o)

Spec == Init /\ [][Next]_vars

-----------------------------------------------------------------------------
(* Properties.                                                             *)

\* The milliseconds since the last access, and the ticks and the minutes that
\* began since.
Idle(o) == now - seen[o].time

Ticks(o) == now \div Resolution - seen[o].time \div Resolution

Minutes(o) == now \div MinuteLength - seen[o].time \div MinuteLength

\* The field of o is a clock less than a turn old.
Clocked(o) == policy = "lru" /\ seen[o].as = "lru" /\ Ticks(o) < LruMod

\* The field of o is a minute and a counter, less than a turn old.
Counted(o) == policy = "lfu" /\ seen[o].as = "lfu" /\ Minutes(o) < LdtMod

\* The idle time is the real one but for the rounding of both readings, less
\* than a tick up or down, and one tick that the wrap of the clock loses
\* (evict.c:63-70).
IdleIsClose ==
  \A o \in Obj : Clocked(o) =>
    estimateObjectIdleTime(o) \in Idle(o) - 2 * Resolution + 1 .. Idle(o) + Resolution - 1

\* The comment of estimateObjectIdleTime, "returns the min number of
\* milliseconds the object was never requested" (evict.c:62): never more than
\* passed.  The code does not keep it, see IdleIsClose.
IdleIsMinimum ==
  \A o \in Obj : Clocked(o) => estimateObjectIdleTime(o) <= Idle(o)

\* Neither the rounding nor the wrap of the clock turns the order of eviction
\* around: an object accessed earlier never looks younger.
LruOrder ==
  \A o, p \in Obj : Clocked(o) /\ Clocked(p) /\ seen[o].time < seen[p].time =>
    estimateObjectIdleTime(o) >= estimateObjectIdleTime(p)

\* What is left of a counter after so many minutes.
CounterAfter(o, minutes) ==
  IF minutes \div decay > Counter(o) THEN 0 ELSE Counter(o) - minutes \div decay

\* A counter decays as it should after the whole minutes since the access, or
\* after one more (the minute that was running at the access) or one less (lost
\* at the wrap): evict.c:290-297, 325-331.
DecayIsClose ==
  \A o \in Obj : Counted(o) /\ decay # 0 =>
    LET whole == Idle(o) \div MinuteLength IN
    LFUDecrAndReturn(o) \in
      CounterAfter(o, whole + 1) .. CounterAfter(o, IF whole = 0 THEN 0 ELSE whole - 1)

\* The comment of LFUTimeElapsed, "compute the minimum number of minutes that
\* elapsed since the last access" (evict.c:290): never more than passed.  The
\* code does not keep it, see DecayIsClose.
ElapsedIsMinimum ==
  \A o \in Obj : Counted(o) => LFUTimeElapsed(Ldt(o)) * MinuteLength <= Idle(o)

=============================================================================
