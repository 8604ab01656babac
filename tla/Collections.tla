----------------------------- MODULE Collections -----------------------------
(***************************************************************************)
(* What the hash and set commands promise for one key: it holds nothing, a *)
(* string, a map from fields to values, or a set, and an empty map or set  *)
(* is nothing.  There are no encodings.                                    *)
(***************************************************************************)
EXTENDS Values, Sequences, FiniteSets

CONSTANTS
  FieldValues,   \* the <<field, value>> pairs clients store
  ItemLists,     \* the HMSET arguments: sequences of such pairs
  FieldLists,    \* the HDEL and HMGET arguments
  MemberLists,   \* the SADD and SREM arguments
  Increments,    \* the HINCRBY and HINCRBYFLOAT arguments
  Counts,        \* the SRANDMEMBER arguments
  FloatTexts,    \* the strings of a number that is not whole
  NoValue        \* no such field, or no result

VARIABLES val, call, reply

cvars == <<val, call, reply>>

None    == [type |-> "none"]
String  == [type |-> "string"]
Hash(m) == IF DOMAIN m = {} THEN None ELSE [type |-> "hash", map |-> m]
Set(S)  == IF S = {} THEN None ELSE [type |-> "set", set |-> S]

HashOf == IF val.type = "hash" THEN val.map ELSE <<>>
SetOf  == IF val.type = "set" THEN val.set ELSE {}

Fields == {fv[1] : fv \in FieldValues}
Listed(list) == {list[i] : i \in DOMAIN list}

With(m, f, v)   == [g \in DOMAIN m \cup {f} |-> IF g = f THEN v ELSE m[g]]
Without(m, F)   == [g \in DOMAIN m \ F |-> m[g]]
Lookup(m, f)    == IF f \in DOMAIN m THEN m[f] ELSE NoValue
LastOf(items, f) ==
  items[CHOOSE i \in DOMAIN items :
          /\ items[i][1] = f
          /\ \A j \in i + 1 .. Len(items) : items[j][1] # f][2]
WithAll(m, items) ==
  LET F == {items[i][1] : i \in DOMAIN items}
  IN  [g \in DOMAIN m \cup F |-> IF g \in F THEN LastOf(items, g) ELSE m[g]]

Answer(status, out) == reply' = <<status, out>>

Call(cmd, args) == call' = <<cmd, args>>

\* A write creates a value of type t or changes one; on another it fails.
Write(cmd, args, t, new) ==
  /\ Call(cmd, args)
  /\ IF val.type \in {"none", t}
     THEN val' = new /\ Answer("OK", NoValue)
     ELSE UNCHANGED val /\ Answer("ERR", NoValue)

Read(cmd, args, t, out) ==
  /\ Call(cmd, args)
  /\ UNCHANGED val
  /\ IF val.type = t THEN Answer("OK", out) ELSE Answer("KEY_NOT_EXIST", NoValue)

Init == val = None /\ call = <<"none", <<>>>> /\ reply = <<"OK", NoValue>>

HSet(fv) == Write("hset", fv, "hash", Hash(With(HashOf, fv[1], fv[2])))

HSetnx(fv) ==
  Write("hsetnx", fv, "hash",
        Hash(IF fv[1] \in DOMAIN HashOf THEN HashOf ELSE With(HashOf, fv[1], fv[2])))

HMSet(items) == Write("hmset", items, "hash", Hash(WithAll(HashOf, items)))

HDel(fields) ==
  /\ Call("hdel", fields)
  /\ IF val.type = "hash"
     THEN /\ val' = Hash(Without(HashOf, Listed(fields)))
          /\ Answer("OK", Cardinality(Listed(fields) \cap DOMAIN HashOf))
     ELSE UNCHANGED val /\ Answer("KEY_NOT_EXIST", NoValue)

HIncrby(f, n) ==
  LET old == IF f \in DOMAIN HashOf THEN HashOf[f] ELSE <<"num", 0>>
      new == old[2] + n
  IN  /\ Call("hincrby", <<f, n>>)
      /\ IF val.type \notin {"none", "hash"} \/ ~IsNumber(old)
         THEN UNCHANGED val /\ Answer("ERR", NoValue)
         ELSE IF new \notin LLMin .. LLMax
         THEN UNCHANGED val /\ Answer("OVERFLOW", NoValue)
         ELSE val' = Hash(With(HashOf, f, <<"num", new>>)) /\ Answer("OK", new)

HIncrbyfloat(f, n) ==
  LET old == IF f \in DOMAIN HashOf THEN HashOf[f] ELSE <<"num", 0>>
      sums == IF IsNumber(old) THEN {<<"num", old[2] + n>>} \cap Numbers
              ELSE FloatTexts
  IN  /\ Call("hincrbyfloat", <<f, n>>)
      /\ IF val.type \notin {"none", "hash"} \/ old \notin Numbers \cup FloatTexts
         THEN UNCHANGED val /\ Answer("ERR", NoValue)
         ELSE \E sum \in sums :
                val' = Hash(With(HashOf, f, sum)) /\ Answer("OK", sum)

HMGet(fields) ==
  Read("hmget", fields, "hash", [i \in DOMAIN fields |-> Lookup(HashOf, fields[i])])

HGetAll ==
  Read("hgetall", <<>>, "hash", {<<f, HashOf[f]>> : f \in DOMAIN HashOf})

HKeys == Read("hkeys", <<>>, "hash", DOMAIN HashOf)

\* As many of each value as fields hold it.
HVals ==
  Read("hvals", <<>>, "hash",
       [v \in {HashOf[f] : f \in DOMAIN HashOf} |->
          Cardinality({f \in DOMAIN HashOf : HashOf[f] = v})])

HExists(f) == Read("hexists", f, "hash", f \in DOMAIN HashOf)

Hlen == Read("hlen", <<>>, "hash", Cardinality(DOMAIN HashOf))

SAdd(members) == Write("sadd", members, "set", Set(SetOf \cup Listed(members)))

\* The status is the one the code returns, removed or not.
SRem(members) ==
  /\ Call("srem", members)
  /\ IF val.type = "set"
     THEN val' = Set(SetOf \ Listed(members)) /\ Answer("ERR", NoValue)
     ELSE UNCHANGED val /\ Answer("KEY_NOT_EXIST", NoValue)

SCard == Read("scard", <<>>, "set", Cardinality(SetOf))

SIsmember(m) == Read("sismember", m, "set", m \in SetOf)

SMembers == Read("smembers", <<>>, "set", SetOf)

\* A positive count asks for that many different members, or all of them;
\* a negative one for so many draws; zero gets no answer.
SRandmember(n) ==
  IF val.type # "set" \/ n = 0 THEN Read("srandmember", n, "set", NoValue)
  ELSE \E T \in SUBSET SetOf :
         /\ IF n > 0 THEN Cardinality(T) = (IF n < Cardinality(SetOf)
                                            THEN n ELSE Cardinality(SetOf))
            ELSE Cardinality(T) \in 1 .. -n
         /\ Read("srandmember", n, "set", T)

\* DEL, SET and expiry take the key away or make it a string.
Other == val' \in {None, String} /\ UNCHANGED <<call, reply>>

Next ==
  \/ \E fv \in FieldValues : HSet(fv) \/ HSetnx(fv)
  \/ \E items \in ItemLists : HMSet(items)
  \/ \E fields \in FieldLists : HDel(fields) \/ HMGet(fields)
  \/ \E f \in Fields, n \in Increments : HIncrby(f, n) \/ HIncrbyfloat(f, n)
  \/ \E f \in Fields : HExists(f)
  \/ \E members \in MemberLists : SAdd(members) \/ SRem(members)
  \/ \E members \in MemberLists : SIsmember(members[1])
  \/ \E n \in Counts : SRandmember(n)
  \/ HGetAll \/ HKeys \/ HVals \/ Hlen \/ SCard \/ SMembers
  \/ Other

Spec == Init /\ [][Next]_cvars

=============================================================================
