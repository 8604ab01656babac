----------------------------- MODULE Aggregates -----------------------------
(***************************************************************************)
(* The hash and set commands on one key, over the encodings of HashType    *)
(* and SetType.  The key holds nothing, a string, a hash object or a set   *)
(* object.  A command is one action; "reply" is what its caller gets.      *)
(***************************************************************************)
EXTENDS HashType, SetType

CONSTANTS
  FieldValues, ItemLists, FieldLists, MemberLists, Increments, Counts,
  FloatTexts,          \* as in Collections
  ZiplistLimits        \* the OBJ_ZSET_MAX_ZIPLIST_ENTRIES of possible builds

\* A fraction is below 2^64 and printed with 17 decimals (ld2string), so it is
\* not long.  Empty lists of arguments are left out.
ASSUME AggregatesAssumption ==
  /\ FieldValues \subseteq Strings \X Strings
  /\ ItemLists \subseteq Seq(FieldValues) \ {<<>>}
  /\ FieldLists \cup MemberLists \subseteq Seq(Strings) \ {<<>>}
  /\ FloatTexts \subseteq Strings \ (Numbers \cup Long)
  /\ Increments \subseteq LLMin .. LLMax /\ Counts \subseteq Int
  /\ ZiplistLimits \subseteq Nat

VARIABLES
  val,       \* what the key holds
  max,       \* the limit this build was compiled with
  call,      \* the last command: <<name, arguments>>
  reply      \* and what it returned: <<status, result>>

vars == <<val, max, call, reply>>

None    == [type |-> "none"]
String  == [type |-> "string"]
Hash(h) == [type |-> "hash", obj |-> h]
Set(s)  == [type |-> "set", obj |-> s]

Fields  == {fv[1] : fv \in FieldValues}

Init ==
  /\ val = None
  /\ max \in ZiplistLimits
  /\ call = <<"none", <<>>>>
  /\ reply = <<"OK", NoValue>>

Answer(cmd, args, status, out) ==
  /\ call' = <<cmd, args>>
  /\ reply' = <<status, out>>
  /\ UNCHANGED max

Refuse(cmd, args, status) == UNCHANGED val /\ Answer(cmd, args, status, NoValue)

-----------------------------------------------------------------------------
(* Hashes.                                                                 *)

\* hashTypeLookupWriteOrCreate, where it does not return NULL.
HashObj == IF val.type = "hash" THEN val.obj ELSE createHashObject

HashOrNothing == val.type \in {"none", "hash"}

SetPair(h, fv) == hashTypeSet(h, fv[1], fv[2], max)

\* HSet and HMSet: one conversion check for all arguments, then the pairs.
HMSet(cmd, args, items) ==
  LET strings == FoldLeft(LAMBDA acc, fv : acc \o fv, <<>>, items)
      all     == FoldLeft(SetPair, hashTypeTryConversion(HashObj, strings), items)
  IN  IF HashOrNothing
      THEN val' = Hash(all) /\ Answer(cmd, args, "OK", NoValue)
      ELSE Refuse(cmd, args, "ERR")

RcHSet(fv) == HMSet("hset", fv, <<fv>>)

RcHMSet(items) == HMSet("hmset", items, items)

RcHSetnx(fv) ==
  LET h == hashTypeTryConversion(HashObj, fv) IN
  IF ~HashOrNothing THEN Refuse("hsetnx", fv, "ERR")
  ELSE /\ val' = Hash(IF hashTypeExists(h, fv[1]) THEN h
                      ELSE hashTypeSet(h, fv[1], fv[2], max))
       /\ Answer("hsetnx", fv, "OK", NoValue)

\* Mutant: the key stays when the last field goes.
RcHDelKeepsKey(fields) ==
  LET done == FoldLeft(hashTypeDelete, HashObj, fields) IN
  IF val.type # "hash" THEN Refuse("hdel", fields, "KEY_NOT_EXIST")
  ELSE /\ val' = Hash(done)
       /\ Answer("hdel", fields, "OK", hashTypeLength(HashObj) - hashTypeLength(done))

\* acc is <<the hash, how many fields are deleted>>; an empty hash is done.
DelField(acc, f) ==
  IF hashTypeLength(acc[1]) > 0 /\ hashTypeExists(acc[1], f)
  THEN <<hashTypeDelete(acc[1], f), acc[2] + 1>> ELSE acc

\* Stops at the field whose deletion empties the hash and deletes the key.
RcHDel(fields) ==
  LET done == FoldLeft(DelField, <<HashObj, 0>>, fields)
  IN  IF val.type # "hash" THEN Refuse("hdel", fields, "KEY_NOT_EXIST")
      ELSE /\ val' = IF hashTypeLength(done[1]) = 0 THEN None ELSE Hash(done[1])
           /\ Answer("hdel", fields, "OK", done[2])

StoredOr0(f) ==
  IF hashTypeExists(HashObj, f) THEN hashTypeGetValue(HashObj, f) ELSE <<"num", 0>>

\* Mutant: HINCRBY without its test for overflow.
RcHIncrbyUnchecked(f, n) ==
  /\ HashOrNothing /\ IsNumber(StoredOr0(f))
  /\ val' = Hash(hashTypeSet(HashObj, f, <<"num", StoredOr0(f)[2] + n>>, max))
  /\ Answer("hincrby", <<f, n>>, "OK", StoredOr0(f)[2] + n)

RcHIncrby(f, n) ==
  LET old == StoredOr0(f)[2]
      overflow == \/ n < 0 /\ old < 0 /\ n < LLMin - old
                  \/ n > 0 /\ old > 0 /\ n > LLMax - old
  IN  IF ~HashOrNothing \/ ~IsNumber(StoredOr0(f))
      THEN Refuse("hincrby", <<f, n>>, "ERR")
      ELSE IF overflow THEN Refuse("hincrby", <<f, n>>, "OVERFLOW")
      ELSE /\ val' = Hash(hashTypeSet(HashObj, f, <<"num", old + n>>, max))
           /\ Answer("hincrby", <<f, n>>, "OK", old + n)

\* Whole sums inside long long only, and fractions that stay fractions.
RcHIncrbyfloat(f, n) ==
  LET old  == StoredOr0(f)
      sums == IF IsNumber(old) THEN {<<"num", old[2] + n>>} \cap Numbers ELSE FloatTexts
  IN  IF ~HashOrNothing \/ old \notin Numbers \cup FloatTexts
      THEN Refuse("hincrbyfloat", <<f, n>>, "ERR")
      ELSE \E sum \in sums :
             /\ val' = Hash(hashTypeSet(HashObj, f, sum, max))
             /\ Answer("hincrbyfloat", <<f, n>>, "OK", sum)

\* The read commands: lookupKeyRead, then the type.
Read(cmd, args, t, out) ==
  IF val.type # t THEN Refuse(cmd, args, "KEY_NOT_EXIST")
  ELSE UNCHANGED val /\ Answer(cmd, args, "OK", out)

\* RcHGet is the case of one field.
RcHMGet(fields) ==
  Read("hmget", fields, "hash",
       [i \in DOMAIN fields |-> hashTypeGetValue(HashObj, fields[i])])

RcHGetAll == Read("hgetall", <<>>, "hash", hashTypePairs(HashObj))

RcHKeys == Read("hkeys", <<>>, "hash", {p[1] : p \in hashTypePairs(HashObj)})

\* How often each value occurs, in whatever order the iterator yields them.
RcHVals ==
  LET pairs == hashTypePairs(HashObj) IN
  Read("hvals", <<>>, "hash",
       [v \in {p[2] : p \in pairs} |-> Cardinality({p \in pairs : p[2] = v})])

RcHExists(f) == Read("hexists", f, "hash", hashTypeExists(HashObj, f))

RcHlen == Read("hlen", <<>>, "hash", hashTypeLength(HashObj))

-----------------------------------------------------------------------------
(* Sets.                                                                   *)

SetObj == IF val.type = "set" THEN val.obj ELSE SetObject({})

\* The first member decides the encoding of a new set.
RcSAdd(members) ==
  LET old == IF val.type = "set" THEN val.obj ELSE setTypeCreate(members[1]) IN
  IF val.type \notin {"none", "set"} THEN Refuse("sadd", members, "ERR")
  ELSE /\ val' = Set(FoldLeft(setTypeAdd, old, members))
       /\ Answer("sadd", members, "OK", NoValue)

\* Deletes the key with the last member; returns C_ERR in every case.
RcSRem(members) ==
  LET left == FoldLeft(setTypeRemove, SetObj, members) IN
  IF val.type # "set" THEN Refuse("srem", members, "KEY_NOT_EXIST")
  ELSE /\ val' = IF setTypeSize(left) = 0 THEN None ELSE Set(left)
       /\ Answer("srem", members, "ERR", NoValue)

RcSCard == Read("scard", <<>>, "set", setTypeSize(SetObj))

RcSIsmember(m) == Read("sismember", m, "set", setTypeIsMember(SetObj, m))

RcSMembers == Read("smembers", <<>>, "set", setTypeMembers(SetObj))

\* Repeated draws are the set of what was drawn.
RcSRandmember(n) ==
  LET size == setTypeSize(SetObj)
      results == IF n < 0 THEN {T \in SUBSET setTypeMembers(SetObj) :
                                  Cardinality(T) \in 1 .. -n}
                 ELSE IF n >= size THEN {setTypeMembers(SetObj)}
                 ELSE RandomMembers(SetObj, n)
  IN  IF val.type # "set" \/ n = 0 THEN Read("srandmember", n, "set", NoValue)
      ELSE \E T \in results : Read("srandmember", n, "set", T)

-----------------------------------------------------------------------------
\* What other commands do to the key: DEL or a deadline, and SET.
Vanish == val.type # "none" /\ val' = None /\ UNCHANGED <<max, call, reply>>

Become == val.type # "string" /\ val' = String /\ UNCHANGED <<max, call, reply>>

Next ==
  \/ \E fv \in FieldValues : RcHSet(fv) \/ RcHSetnx(fv)
  \/ \E items \in ItemLists : RcHMSet(items)
  \/ \E fields \in FieldLists : RcHDel(fields) \/ RcHMGet(fields)
  \/ \E f \in Fields, n \in Increments : RcHIncrby(f, n) \/ RcHIncrbyfloat(f, n)
  \/ \E f \in Fields : RcHExists(f)
  \/ \E members \in MemberLists : RcSAdd(members) \/ RcSRem(members)
  \/ \E members \in MemberLists : RcSIsmember(members[1])
  \/ \E n \in Counts : RcSRandmember(n)
  \/ RcHGetAll \/ RcHKeys \/ RcHVals \/ RcHlen \/ RcSCard \/ RcSMembers
  \/ Vanish \/ Become

Spec == Init /\ [][Next]_vars

-----------------------------------------------------------------------------
(* Properties.                                                             *)

\* The key holds a value of a known type and encoding, in a build of one limit.
TypeOK ==
  /\ max \in ZiplistLimits
  /\ val.type \in {"none", "string", "hash", "set"}
  /\ val.type = "hash" => /\ val.obj.enc \in {"ziplist", "ht"}
                          /\ val.obj.zl \in Seq(Strings)
  /\ val.type = "set"  => /\ val.obj.enc \in {"intset", "ht"}
                          /\ val.obj.ht \subseteq Strings

\* The integers of an intset are strictly ascending as they are read back at
\* its width, and fill its memory; a ziplist names no field twice, holds no
\* more pairs than its limit and no long value.  A long field may be there:
\* HINCRBY and HINCRBYFLOAT do not look for one (intset.c:157,
\* t_hash.c:419, :462).
CompactSound ==
  /\ val.type = "set" /\ val.obj.enc = "intset" =>
       LET is == val.obj.is IN
       /\ Len(is.contents) = is.length * is.encoding
       /\ is.length <= MaxIntsetEntries
       /\ \A i \in 1 .. is.length - 1 : _intsetGet(is, i - 1) < _intsetGet(is, i)
  /\ val.type = "hash" /\ val.obj.enc = "ziplist" =>
       LET zl == val.obj.zl IN
       /\ Len(zl) % 2 = 0 /\ Len(zl) \div 2 <= max
       /\ \A i, j \in DOMAIN zl : i % 2 = 1 /\ j % 2 = 1 /\ zl[i] = zl[j] => i = j
       /\ \A i \in DOMAIN zl : i % 2 = 0 => zl[i] \notin Long

\* No command leaves an empty hash or set in the keyspace (t_hash.c:629,
\* t_set.c:344): the key goes with its last element.
NoEmptyAggregate ==
  /\ val.type = "hash" => hashTypeLength(val.obj) > 0
  /\ val.type = "set"  => setTypeSize(val.obj) > 0

\* The map or the set that the encoding of value v stands for.
Meaning(v) ==
  CASE v.type = "hash" ->
         [type |-> "hash",
          map |-> [f \in {p[1] : p \in hashTypePairs(v.obj)} |-> hashTypeGetValue(v.obj, f)]]
    [] v.type = "set" -> [type |-> "set", set |-> setTypeMembers(v.obj)]
    [] OTHER -> v

\* Through every conversion, the key holds the map or set the commands
\* promise and every reply is the one that map or set gives.
C == INSTANCE Collections WITH val <- Meaning(val)

ImplementsCollections == C!Spec

=============================================================================
