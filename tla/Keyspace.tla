------------------------------ MODULE Keyspace ------------------------------
(***************************************************************************)
(* The keyspace of one cache handle: db.c, the generic commands of         *)
(* redis.c, the reference counts of object.c and those string commands of  *)
(* t_string.c that create, share or overwrite a value object.              *)
(*                                                                         *)
(* Two dictionaries index the same keys.  dict owns the key string (an     *)
(* sds allocation) and one reference to the value object; expires reuses   *)
(* the key string of dict and owns nothing.  The model therefore keeps     *)
(* the identity of every allocation: a key string is a member of KeyPtr,   *)
(* an object a member of Obj, and the field "uaf" records whether any      *)
(* call has touched an allocation after it was freed.                      *)
(*                                                                         *)
(* Each C function that changes the keyspace is an operator from one       *)
(* database record to the next; a command composes them as its handler     *)
(* does and is one action.                                                 *)
(***************************************************************************)
EXTENDS Values, FiniteSets

CONSTANTS
  Key,            \* the key names
  KeyPtr,         \* the key strings the allocator can hand out
  Obj,            \* the value objects the allocator can hand out
  NULL,           \* the null pointer
  Seconds,        \* the EXPIRE, EXPIREAT and SET arguments
  Increments,     \* the INCRBY arguments
  Created,        \* the <<value, encoding>> pairs the client creates
  MsPerSec,       \* milliseconds per second
  SharedIntegers, \* OBJ_SHARED_INTEGERS
  MaxNow,         \* bound on the clock
  LendGet         \* may a client hand back an object it only got from RcGet

VARIABLES
  db,       \* the keyspace and the heap it lives in
  held,     \* the objects the client owns a reference to
  lent,     \* the object the last command returned uncounted, or NULL
  now,      \* mstime()
  reply     \* the last command: <<name, key, result>>

vars == <<db, held, lent, now, reply>>

-----------------------------------------------------------------------------
Slot   == [key : KeyPtr, val : Obj]
Expiry == [key : KeyPtr, when : LLMin .. LLMax]

ASSUME KeyspaceAssumption ==
  /\ IsFiniteSet(Key)
  /\ NULL \notin Obj \cup Slot \cup Expiry \cup Int \cup Val
  /\ Seconds \subseteq Int
  /\ Increments \subseteq LLMin .. LLMax
  /\ Created \subseteq Strings \X Enc
  /\ \A c \in Created : c[2] = "int" => IsNumber(c[1])
  /\ MsPerSec \in Nat \ {0, 1}
  /\ SharedIntegers \in Nat
  /\ MaxNow \in Nat
  /\ LendGet \in BOOLEAN

DB == [dict    : [Key -> Slot \cup {NULL}],
       expires : [Key -> Expiry \cup {NULL}],
       live    : SUBSET KeyPtr,          \* the allocated key strings
       rc      : [Obj -> Nat],           \* refcount; 0: not allocated
       str     : [Obj -> Val],
       enc     : [Obj -> Enc],
       uaf     : BOOLEAN]

-----------------------------------------------------------------------------
(* object.c.  A count that reaches 0 frees the object; touching the count  *)
(* of a freed object is a use after free.                                  *)

createObject(d, o, v, e) ==
  [d EXCEPT !.rc[o] = 1, !.str[o] = v, !.enc[o] = e]

incrRefCount(d, o) ==
  [d EXCEPT !.rc[o] = IF @ = 0 THEN 0 ELSE @ + 1,
            !.uaf   = @ \/ d.rc[o] = 0]

decrRefCount(d, o) ==
  [d EXCEPT !.rc[o] = IF @ = 0 THEN 0 ELSE @ - 1,
            !.uaf   = @ \/ d.rc[o] = 0]

-----------------------------------------------------------------------------
(* db.c.  A search of expires compares the key with the key strings its    *)
(* entries point to, so those must still be allocated.                     *)

Dangling(d) == \E k \in Key : /\ d.expires[k] # NULL
                              /\ d.expires[k].key \notin d.live

findExpires(d) == [d EXCEPT !.uaf = @ \/ Dangling(d)]

\* removeExpire for every key of K.
removeExpire(d, K) ==
  [findExpires(d) EXCEPT
     !.expires = [k \in Key |-> IF k \in K THEN NULL ELSE @[k]]]

Present(d, k) == d.dict[k] # NULL

\* How many keys of K hold the object o.
Holders(d, K, o) ==
  Cardinality({k \in K : Present(d, k) /\ d.dict[k].val = o})

\* dictDelete on dict, for every key of K: it frees the key string and
\* drops the reference to the value.
dictDelete(d, K) ==
  [d EXCEPT
     !.dict = [k \in Key |-> IF k \in K THEN NULL ELSE @[k]],
     !.live = @ \ {d.dict[k].key : k \in {j \in K : Present(d, j)}},
     !.rc   = [o \in Obj |-> IF @[o] >= Holders(d, K, o)
                             THEN @[o] - Holders(d, K, o) ELSE 0],
     !.uaf  = @ \/ \E o \in Obj : d.rc[o] < Holders(d, K, o)]

\* Mutant: dict first; expires then searches for a key string dict freed.
dbDeleteDictFirst(d, K) == removeExpire(dictDelete(d, K), K)

\* Mutant: the expires entry stays behind.
dbDeleteKeepExpire(d, K) == dictDelete(d, K)

\* expires first: its entry points to the key string dict frees.
dbDelete(d, K) == dictDelete(removeExpire(d, K), K)

emptyDb(d) ==
  [dictDelete(d, Key) EXCEPT !.expires = [k \in Key |-> NULL]]

\* A negative deadline reads as "no expire".
getExpire(d, k) == IF d.expires[k] = NULL THEN -1 ELSE d.expires[k].when

Due(d, k) == getExpire(d, k) >= 0 /\ now > getExpire(d, k)

expireIfNeeded(d, k) ==
  IF Due(d, k) THEN dbDelete(findExpires(d), {k}) ELSE findExpires(d)

ValueOf(d, k) == d.str[d.dict[k].val]

\* p is the string sdsdup allocates for the key.
dbAdd(d, k, p, o) ==
  [d EXCEPT !.dict[k] = [key |-> p, val |-> o], !.live = @ \cup {p}]

\* dictReplace keeps the key string, stores o, then frees the old value.
dbOverwrite(d, k, o) ==
  decrRefCount([d EXCEPT !.dict[k].val = o], d.dict[k].val)

dbPut(d, k, p, o) ==
  IF Present(d, k) THEN dbOverwrite(d, k, o) ELSE dbAdd(d, k, p, o)

\* Mutant: the key takes over the reference of the client.
setKeyNoIncr(d, k, p, o) ==
  removeExpire(dbPut(expireIfNeeded(d, k), k, p, o), {k})

\* Mutant: SET keeps the deadline of the key.
setKeyKeepTtl(d, k, p, o) ==
  incrRefCount(dbPut(expireIfNeeded(d, k), k, p, o), o)

\* setKey, its lookupKeyWrite included.
setKey(d, k, p, o) ==
  removeExpire(incrRefCount(dbPut(expireIfNeeded(d, k), k, p, o), o), {k})

setExpire(d, k, w) ==
  IF ~Present(d, k) THEN d
  ELSE [findExpires(d) EXCEPT
          !.expires[k] = [key  |-> IF @ = NULL THEN d.dict[k].key ELSE @.key,
                          when |-> w]]

\* Mutant: a raw string is changed in place even when it is shared.
PrivateIgnoringCount(d, k) == d.enc[d.dict[k].val] = "raw"

\* May the object at k be modified in place by a string command?
Private(d, k) == /\ d.rc[d.dict[k].val] = 1
                 /\ d.enc[d.dict[k].val] = "raw"

\* n is the private raw copy of a shared or encoded object.
dbUnshareStringValue(d, k, n) ==
  IF Private(d, k) THEN d
  ELSE dbOverwrite(createObject(d, n, ValueOf(d, k), "raw"), k, n)

-----------------------------------------------------------------------------
(* The commands.  Every one that looks its key up expires it first.  The   *)
(* key string and the object a command allocates are any free ones.        *)

Fresh(d) == {o \in Obj : d.rc[o] = 0}

KeyString(d, k) == IF Present(d, k) THEN {NULL} ELSE KeyPtr \ d.live

Return(op, k, r) == reply' = <<op, k, r>>

\* What most commands leave alone.
ClientIdle == lent' = NULL /\ UNCHANGED <<held, now>>

Init ==
  /\ db = [dict    |-> [k \in Key |-> NULL],
           expires |-> [k \in Key |-> NULL],
           live    |-> {},
           rc      |-> [o \in Obj |-> 0],
           str     |-> [o \in Obj |-> Agg],
           enc     |-> [o \in Obj |-> "raw"],
           uaf     |-> FALSE]
  /\ held = {}
  /\ lent = NULL
  /\ now = 0
  /\ reply = <<"init", NULL, NULL>>

\* createStringObject, createStringObjectFromLongLong: made by the client.
CreateString(o, c) ==
  /\ o \in Fresh(db)
  /\ db' = createObject(db, o, c[1], c[2])
  /\ held' = held \cup {o}
  /\ Return("create", NULL, NULL)
  /\ lent' = NULL /\ UNCHANGED now

\* decrRefCount called by the client on an object it owns.
Release(o) ==
  /\ o \in held
  /\ db' = decrRefCount(db, o)
  /\ held' = held \ {o}
  /\ Return("release", NULL, NULL)
  /\ lent' = NULL /\ UNCHANGED now

\* The objects a client can pass as a value.
Offered == held \cup (IF LendGet THEN {lent} \ {NULL} ELSE {})

\* The NX and XX conditions of setGenericCommand.
Refused(d, k, flag) == \/ flag = "setnx" /\ Present(d, k)
                       \/ flag = "setxx" /\ ~Present(d, k)

SetInvalid(k, ex, flag) ==
  /\ ex # NULL /\ ex <= 0
  /\ Return(flag, k, <<"INVALID_ARG", ex>>)
  /\ UNCHANGED db /\ ClientIdle

SetRefused(k, ex, flag) ==
  LET d == expireIfNeeded(db, k) IN
  /\ ex # NULL => ex > 0
  /\ Refused(d, k, flag)
  /\ db' = d
  /\ Return(flag, k, <<"ERR", ex>>)
  /\ ClientIdle

\* RcSet, RcSetnx, RcSetxx; ex is NULL when no expire is given.
Set(k, o, ex, flag) ==
  LET d == expireIfNeeded(db, k) IN
  /\ o \in Offered
  /\ ex # NULL => ex > 0
  /\ ~Refused(d, k, flag)
  /\ \E p \in KeyString(d, k) :
       LET e == setKey(db, k, p, o) IN
       db' = IF ex = NULL THEN e
             ELSE setExpire(e, k, Wrap(now + Wrap(ex * MsPerSec)))
  /\ Return(flag, k, <<"OK", ex>>)
  /\ ClientIdle

\* RcGet: the object is returned without a reference of its own.
Get(k) ==
  LET d == expireIfNeeded(db, k)
      found == Present(d, k) /\ IsString(ValueOf(d, k)) IN
  /\ db' = d
  /\ lent' = IF found /\ LendGet THEN d.dict[k].val ELSE NULL
  /\ Return("get", k, IF found THEN ValueOf(d, k) ELSE NULL)
  /\ UNCHANGED <<held, now>>

\* The commands that only look a string or a type up, and those that look
\* a key up and find nothing to change: RcType, RcStrlen, RcGetRange, a
\* SETRANGE of nothing, a command against a value of the wrong type.
Touch(k) ==
  LET d == expireIfNeeded(db, k) IN
  /\ db' = d
  /\ Return("touch", k, Present(d, k))
  /\ ClientIdle

\* The number INCRBY starts from: an absent key counts as 0.
Base(d, k) == IF Present(d, k) THEN ValueOf(d, k) ELSE <<"num", 0>>

\* Mutant: the test looks at increments above 0 only.
OverflowsAbove(old, incr) == incr > 0 /\ old > 0 /\ incr > LLMax - old

\* The test before the addition.
Overflows(old, incr) ==
  \/ incr < 0 /\ old < 0 /\ incr < LLMin - old
  \/ incr > 0 /\ old > 0 /\ incr > LLMax - old

IncrError(k, incr) ==
  LET d == expireIfNeeded(db, k) IN
  /\ \/ /\ ~IsNumber(Base(d, k))
        /\ Return("incr", k, <<"INVALID_TYPE", 0>>)
     \/ /\ IsNumber(Base(d, k))
        /\ Overflows(Base(d, k)[2], incr)
        /\ Return("incr", k, <<"OVERFLOW", 0>>)
  /\ db' = d
  /\ ClientIdle

\* RcIncr, RcDecr, RcIncrBy, RcDecrBy: in place only on an unshared
\* integer whose new value is not one of the small ones.
IncrBy(k, incr) ==
  LET d == expireIfNeeded(db, k)
      n == Base(d, k)[2] + incr
      inPlace == /\ Present(d, k)
                 /\ d.rc[d.dict[k].val] = 1
                 /\ d.enc[d.dict[k].val] = "int"
                 /\ n < 0 \/ n >= SharedIntegers IN
  /\ IsNumber(Base(d, k))
  /\ ~Overflows(Base(d, k)[2], incr)
  /\ \/ /\ inPlace
        /\ db' = [d EXCEPT !.str[d.dict[k].val] = <<"num", n>>]
     \/ /\ ~inPlace
        /\ \E o \in Fresh(d), p \in KeyString(d, k) :
             db' = dbPut(createObject(d, o, <<"num", n>>, "int"), k, p, o)
  /\ Return("incr", k, <<"OK", n>>)
  /\ ClientIdle

\* RcIncrByFloat, for sums that are whole and in the range of a number.
IncrByFloat(k, incr) ==
  LET d == expireIfNeeded(db, k)
      n == Base(d, k)[2] + incr IN
  /\ IsNumber(Base(d, k))
  /\ n \in LLMin .. LLMax
  /\ \E o \in Fresh(d), p \in KeyString(d, k) :
       db' = dbPut(createObject(d, o, <<"num", n>>, "embstr"), k, p, o)
  /\ Return("incr", k, <<"OK", n>>)
  /\ ClientIdle

\* RcAppend: an absent key shares the client's object, a present one is
\* made private and extended.
AppendNew(k, w) ==
  LET d == expireIfNeeded(db, k) IN
  /\ w \in held
  /\ ~Present(d, k)
  /\ \E p \in KeyString(d, k) : db' = incrRefCount(dbAdd(d, k, p, w), w)
  /\ Return("append", k, d.str[w])
  /\ ClientIdle

\* RcAppend and RcSetRange on a string.
AppendTo(k, w) ==
  LET d == expireIfNeeded(db, k) IN
  /\ w \in held /\ d.enc[w] # "int"
  /\ Present(d, k) /\ IsString(ValueOf(d, k))
  /\ \E n \in IF Private(d, k) THEN {NULL} ELSE Fresh(d) :
       LET e == dbUnshareStringValue(d, k, n) IN
       db' = [e EXCEPT !.str[e.dict[k].val] = Cat(@, d.str[w])]
  /\ Return("append", k, Cat(ValueOf(d, k), d.str[w]))
  /\ ClientIdle

\* RcSetRange on an absent key, and the first element of a list, set, hash
\* or sorted set: the key gets an object the client never owned.
AddOwn(k, v) ==
  LET d == expireIfNeeded(db, k) IN
  /\ ~Present(d, k)
  /\ \E o \in Fresh(d), p \in KeyPtr \ d.live :
       db' = dbAdd(createObject(d, o, v, "raw"), k, p, o)
  /\ Return("add", k, v)
  /\ ClientIdle

\* A pop, remove or delete command that empties an aggregate deletes it.
EmptyOut(k) ==
  LET d == expireIfNeeded(db, k) IN
  /\ Present(d, k) /\ ValueOf(d, k) = Agg
  /\ db' = dbDelete(d, {k})
  /\ Return("empty", k, "OK")
  /\ ClientIdle

\* expireGenericCommand: base is mstime() for RcExpire, 0 for RcExpireat.
ExpireGeneric(op, k, secs, base) ==
  LET d == expireIfNeeded(db, k)
      when == Wrap(Wrap(secs * MsPerSec) + base) IN
  /\ db' = IF ~Present(d, k) THEN d
           ELSE IF when <= now THEN dbDelete(d, {k}) ELSE setExpire(d, k, when)
  /\ Return(op, k, <<secs, Present(d, k)>>)
  /\ ClientIdle

Expire(k, secs)   == ExpireGeneric("expire", k, secs, now)
Expireat(k, secs) == ExpireGeneric("expireat", k, secs, 0)

\* RcTTL reads the clock twice after the lookup: t to see whether the
\* deadline has passed meanwhile, now' to compute what is left.
TTL(k) ==
  LET d == expireIfNeeded(db, k)
      when == getExpire(d, k) IN
  /\ db' = d
  /\ \E t \in {now, now + 1} :
       /\ now' \in {t, t + 1} /\ now' <= MaxNow
       /\ Return("ttl", k,
                 IF ~Present(d, k) THEN -2
                 ELSE IF when = -1 THEN -1
                 ELSE IF when - t < 0 THEN -2
                 ELSE (when - now' + MsPerSec \div 2) \div MsPerSec)
  /\ lent' = NULL /\ UNCHANGED held

Persist(k) ==
  LET d == expireIfNeeded(db, k) IN
  /\ db' = IF Present(d, k) THEN removeExpire(d, {k}) ELSE d
  /\ Return("persist", k, Present(d, k))
  /\ ClientIdle

\* RcDel does not look at the deadline.
Del(k) ==
  /\ db' = dbDelete(db, {k})
  /\ Return("del", k, Present(db, k))
  /\ ClientIdle

\* Neither does RcExists.
Exists(k) ==
  /\ Return("exists", k, Present(db, k))
  /\ UNCHANGED db /\ ClientIdle

CacheSize ==
  /\ Return("size", NULL, Cardinality({k \in Key : Present(db, k)}))
  /\ UNCHANGED db /\ ClientIdle

FlushCache ==
  /\ db' = emptyDb(db)
  /\ Return("flush", NULL, NULL)
  /\ ClientIdle

\* RcRandomkey: the expired keys it draws are deleted, the first other one
\* is returned; without any it deletes them all.
Randomkey ==
  LET expired == {k \in Key : Due(db, k)}
      valid == {k \in Key : Present(db, k)} \ expired IN
  /\ \E K \in SUBSET expired :
       /\ db' = dbDelete(findExpires(db), K)
       /\ \/ \E r \in valid : Return("random", NULL, r)
          \/ /\ valid = {} /\ K = expired
             /\ Return("random", NULL, NULL)
  /\ ClientIdle

\* RcActiveExpireCycle samples entries of expires and deletes those whose
\* deadline has passed, a negative deadline included.
ActiveExpireCycle ==
  LET expired == {k \in Key : /\ db.expires[k] # NULL
                              /\ now > db.expires[k].when} IN
  /\ \E K \in SUBSET expired :
       /\ db' = dbDelete(db, K)
       /\ Return("cycle", NULL, Cardinality(K))
  /\ ClientIdle

\* RcFreeMemoryIfNeeded deletes the keys its policy chooses.
FreeMemoryIfNeeded ==
  /\ \E K \in SUBSET {k \in Key : Present(db, k)} : db' = dbDelete(db, K)
  /\ Return("evict", NULL, NULL)
  /\ ClientIdle

Tick ==
  /\ now < MaxNow
  /\ now' = now + 1
  /\ Return("tick", NULL, NULL)
  /\ UNCHANGED <<db, held, lent>>

SetCommand(k) ==
  \E ex \in Seconds \cup {NULL}, flag \in {"set", "setnx", "setxx"} :
    \/ SetInvalid(k, ex, flag)
    \/ SetRefused(k, ex, flag)
    \/ \E o \in Offered : Set(k, o, ex, flag)

StringCommand(k) ==
  \/ \E incr \in Increments : \/ IncrError(k, incr)
                               \/ IncrBy(k, incr)
                               \/ IncrByFloat(k, incr)
  \/ \E w \in held : AppendNew(k, w) \/ AppendTo(k, w)
  \/ \E v \in {Agg, <<"text", 0>>} : AddOwn(k, v)

KeyCommand(k) ==
  \/ \E secs \in Seconds : Expire(k, secs) \/ Expireat(k, secs)
  \/ Get(k) \/ Touch(k) \/ TTL(k) \/ Persist(k)
  \/ EmptyOut(k) \/ Del(k) \/ Exists(k)

CacheCommand == CacheSize \/ FlushCache \/ Randomkey

Background == ActiveExpireCycle \/ FreeMemoryIfNeeded

Next ==
  \/ \E o \in Obj : Release(o) \/ \E c \in Created : CreateString(o, c)
  \/ \E k \in Key : SetCommand(k) \/ StringCommand(k) \/ KeyCommand(k)
  \/ CacheCommand \/ Background \/ Tick

Spec == Init /\ [][Next]_vars

-----------------------------------------------------------------------------
(* Properties.                                                             *)

\* The records and variables keep their shape through every command.
TypeOK ==
  /\ db \in DB
  /\ held \subseteq Obj
  /\ lent \in Obj \cup {NULL}
  /\ now \in 0 .. MaxNow

\* No command ever touches a key string or a value object after it was
\* freed: the key string expires borrows from dict (db.c:288, 334), the
\* reference counts of values stored under several keys and kept by clients.
NoUseAfterFree == ~db.uaf

KeyStringsOK(d) ==
  /\ \A k \in Key : d.expires[k] # NULL =>
       Present(d, k) /\ d.expires[k].key = d.dict[k].key
  /\ \A j, k \in Key : Present(d, j) /\ Present(d, k) /\ j # k =>
       d.dict[j].key # d.dict[k].key
  /\ d.live = {d.dict[k].key : k \in {j \in Key : Present(d, j)}}

\* An expires entry borrows the key string of the dict entry of the same
\* key, no two entries own one string, and none leaks.
KeyStringsShared == KeyStringsOK(db)

CountsOK(d, H) ==
  \A o \in Obj : d.rc[o] = Holders(d, Key, o) + (IF o \in H THEN 1 ELSE 0)

\* The count of an object is the number of keys that hold it plus one for
\* the client that owns it: nothing leaks and nothing is freed early
\* (setKey increments after storing; INCR and APPEND hand their reference
\* over).
RefCountExact == CountsOK(db, held)

\* A command never changes an object a client still owns, whatever key the
\* client stored it under: INCR, APPEND and SETRANGE modify in place only
\* an object nobody else refers to (t_string.c:86, db.c:584-591).
ClientObjectsUntouched ==
  [][\A o \in held \cap held' :
       db'.str[o] = db.str[o] /\ db'.enc[o] = db.enc[o]]_vars

-----------------------------------------------------------------------------
(* What a client can tell: a key past its deadline is absent, whether or   *)
(* not it was deleted yet.                                                 *)

Visible(k) == Present(db, k) /\ ~Due(db, k)

Kv == [k \in Key |-> IF Visible(k) THEN ValueOf(db, k) ELSE NULL]

Ttl == [k \in Key |-> IF Visible(k) /\ db.expires[k] # NULL
                      THEN db.expires[k].when ELSE NULL]

Cache == INSTANCE TtlCache WITH kv <- Kv, ttl <- Ttl

\* The keyspace implements a map whose keys vanish at their deadline:
\* every reply is one that map gives, a command touches no key but its own,
\* SET makes a key persistent while INCR, APPEND and SETRANGE keep its
\* deadline, and deleting expired keys, by whatever path and whenever, is
\* not observable except through DEL, EXISTS and the size.
ImplementsTtlCache == Cache!Spec

=============================================================================
