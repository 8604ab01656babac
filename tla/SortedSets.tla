----------------------------- MODULE SortedSets -----------------------------
(***************************************************************************)
(* What the sorted set commands promise for one key: it holds nothing,     *)
(* something that is not a sorted set, or a map from elements to scores    *)
(* that is never empty.  Ranks and ranges are those of the elements in the *)
(* order of their scores, equal scores in the order of the elements.       *)
(*                                                                         *)
(* A lexicographic range is only meant for elements of one score; among    *)
(* several, it may give any of the elements.                               *)
(***************************************************************************)
EXTENDS Integers, SequencesExt

CONSTANTS
  Member,         \* elements
  ItemLists,      \* arguments of ZADD: lists of <<score, element>>
  MemberLists,    \* arguments of ZREM
  ScoreRanges,    \* pairs of [open, num]
  LexRanges,      \* pairs of [kind, str]
  Indexes,        \* indexes clients pass
  Limits,         \* pairs of an offset and a limit
  Inf, NaN,       \* the largest double, and not a number
  Nil             \* no result

VARIABLES val, call, reply

svars == <<val, call, reply>>

None    == [type |-> "none"]
Foreign == [type |-> "string"]
Zset(map) == IF map = <<>> THEN None ELSE [type |-> "zset", map |-> map]

map == IF val.type = "zset" THEN val.map ELSE <<>>

Init == val = None /\ call = <<"none", <<>>>> /\ reply = <<"OK", Nil>>

\* The elements of S in order.
Sorted(S) ==
  SetToSortSeq(S, LAMBDA a, b : map[a] < map[b] \/ (map[a] = map[b] /\ a < b))

ranking == Sorted(DOMAIN map)

Directed(seq, reverse) == IF reverse THEN Reverse(seq) ELSE seq

Scored(seq) == [i \in DOMAIN seq |-> <<seq[i], map[seq[i]]>>]

Without(S) == [m \in DOMAIN map \ S |-> map[m]]

\* A command that has no arguments to refuse, on a key that has to be there.
On(cmd, args, new, out) ==
  /\ call' = <<cmd, args>>
  /\ IF val.type = "zset" THEN val' = Zset(new) /\ reply' = <<"OK", out>>
     ELSE UNCHANGED val /\ reply' = <<"KEY_NOT_EXIST", Nil>>

Refuse(cmd, args, status) ==
  call' = <<cmd, args>> /\ UNCHANGED val /\ reply' = <<status, Nil>>

-----------------------------------------------------------------------------
(* Ranges.                                                                 *)

ScoresOK(r) == r[1].num # NaN /\ r[2].num # NaN

InScores(r) ==
  {m \in DOMAIN map :
     /\ IF r[1].open THEN map[m] > r[1].num ELSE map[m] >= r[1].num
     /\ IF r[2].open THEN map[m] < r[2].num ELSE map[m] <= r[2].num}

LexOK(r) == r[1].kind # "?" /\ r[2].kind # "?"

InLex(r) ==
  {m \in DOMAIN map :
     /\ \/ r[1].kind = "-"
        \/ r[1].kind = "[" /\ m >= r[1].str
        \/ r[1].kind = "(" /\ m > r[1].str
     /\ \/ r[2].kind = "+"
        \/ r[2].kind = "[" /\ m <= r[2].str
        \/ r[2].kind = "(" /\ m < r[2].str}

OneScore == \A m, n \in DOMAIN map : map[m] = map[n]

Flip(r, reverse) == IF reverse THEN <<r[2], r[1]>> ELSE r

\* The ranks, from 0, that a pair of indexes covers.
Ranks(start, end) ==
  LET At(i) == IF i < 0 THEN Len(ranking) + i ELSE i
  IN  {k \in 0 .. Len(ranking) - 1 : At(start) <= k /\ k <= At(end)}

AtRanks(seq, K) ==
  FoldLeft(LAMBDA acc, k : IF k - 1 \in K THEN Append(acc, seq[k]) ELSE acc,
           <<>>, [k \in DOMAIN seq |-> k])

-----------------------------------------------------------------------------
(* Commands.                                                               *)

\* A sum of doubles: infinite past the largest finite one, NaN for inf - inf.
Sum(a, b) ==
  IF a + b = 0 /\ a \in {-Inf, Inf} THEN NaN
  ELSE IF a \in {-Inf, Inf} THEN a ELSE IF b \in {-Inf, Inf} THEN b
  ELSE IF a + b > Inf THEN Inf ELSE IF a + b < -Inf THEN -Inf ELSE a + b

Assign(f, m, s) == [x \in DOMAIN f \cup {m} |-> IF x = m THEN s ELSE f[x]]

Unscorable(items) == items = <<>> \/ \E i \in DOMAIN items : items[i][1] = NaN

ZAdd(items) ==
  IF Unscorable(items) \/ val.type = "string" THEN Refuse("zadd", items, "ERR")
  ELSE /\ val' = Zset(FoldLeft(LAMBDA f, it : Assign(f, it[2], it[1]), map, items))
       /\ call' = <<"zadd", items>> /\ reply' = <<"OK", Nil>>

ZIncrby(items) ==
  LET m == items[1][2]
      s == IF m \in DOMAIN map THEN Sum(items[1][1], map[m]) ELSE items[1][1]
  IN  IF Unscorable(items) \/ Len(items) > 1 \/ val.type = "string" \/ s = NaN
      THEN Refuse("zincrby", items, "ERR")
      ELSE /\ val' = Zset(Assign(map, m, s))
           /\ call' = <<"zincrby", items>> /\ reply' = <<"OK", Nil>>

ZRem(members) == On("zrem", members, Without(ToSet(members)), Nil)

\* An empty range is an error, unlike in the other two deletions.
ZRemrangebyrank(start, end) ==
  LET K == Ranks(start, end) IN
  IF NaN \in {start, end} \/ (val.type = "zset" /\ K = {})
  THEN Refuse("zremrangebyrank", <<start, end>>, "ERR")
  ELSE On("zremrangebyrank", <<start, end>>, Without(ToSet(AtRanks(ranking, K))), Nil)

ZRemrangebyscore(r) ==
  IF ~ScoresOK(r) THEN Refuse("zremrangebyscore", r, "ERR")
  ELSE On("zremrangebyscore", r, Without(InScores(r)), Nil)

ZRemrangebylex(r) ==
  IF ~LexOK(r) THEN Refuse("zremrangebylex", r, "ERR")
  ELSE \E S \in IF OneScore THEN {InLex(r)} ELSE SUBSET DOMAIN map :
         On("zremrangebylex", r, Without(S), Nil)

ZRange(cmd, start, end, reverse) ==
  On(cmd, <<start, end>>, map,
     AtRanks(Directed(Scored(ranking), reverse), Ranks(start, end)))

ZRangebyscore(cmd, r, offset, limit, reverse) ==
  LET S    == InScores(Flip(r, reverse))
      all  == Directed(Scored(Sorted(S)), reverse)
      last == IF limit < 0 THEN Len(all) ELSE Min({Len(all), offset + limit})
  IN  IF ~ScoresOK(r) THEN Refuse(cmd, <<r, offset, limit>>, "ERR")
      ELSE On(cmd, <<r, offset, limit>>, map,
              IF offset < 0 THEN <<>> ELSE SubSeq(all, offset + 1, last))

ZRangebylex(cmd, r, reverse) ==
  IF ~LexOK(r) THEN Refuse(cmd, r, "ERR")
  ELSE \E S \in IF OneScore THEN {InLex(Flip(r, reverse))} ELSE SUBSET DOMAIN map :
         On(cmd, r, map, Directed(Sorted(S), reverse))

Counted(cmd, r, ok, n) ==
  IF val.type = "zset" /\ ~ok THEN Refuse(cmd, r, "ERR") ELSE On(cmd, r, map, n)

ZCount(r) == Counted("zcount", r, ScoresOK(r), Cardinality(InScores(r)))

ZLexcount(r) ==
  \E n \in IF OneScore THEN {Cardinality(InLex(r))} ELSE 0 .. Cardinality(DOMAIN map) :
    Counted("zlexcount", r, LexOK(r), n)

\* On an element that has to be there.
OnItem(cmd, m, out) ==
  IF val.type = "zset" /\ m \notin DOMAIN map THEN Refuse(cmd, m, "ITEM_NOT_EXIST")
  ELSE On(cmd, m, map, out)

ZRank(m)    == OnItem("zrank", m, IndexFirstSubSeq(<<m>>, ranking) - 1)
ZRevrank(m) == OnItem("zrevrank", m, IndexFirstSubSeq(<<m>>, Reverse(ranking)) - 1)
ZScore(m)   == OnItem("zscore", m, map[m])

ZCard == On("zcard", <<>>, map, Cardinality(DOMAIN map))

\* DEL, SET and expiry.
Other == val' \in {None, Foreign} /\ UNCHANGED <<call, reply>>

Next ==
  \/ \E items \in ItemLists : ZAdd(items) \/ ZIncrby(items)
  \/ \E members \in MemberLists : ZRem(members)
  \/ \E i, j \in Indexes : \/ ZRemrangebyrank(i, j)
                           \/ ZRange("zrange", i, j, FALSE)
                           \/ ZRange("zrevrange", i, j, TRUE)
  \/ \E r \in ScoreRanges : ZRemrangebyscore(r) \/ ZCount(r)
  \/ \E r \in ScoreRanges, l \in Limits :
       \/ ZRangebyscore("zrangebyscore", r, l[1], l[2], FALSE)
       \/ ZRangebyscore("zrevrangebyscore", r, l[1], l[2], TRUE)
  \/ \E r \in LexRanges : \/ ZRemrangebylex(r) \/ ZLexcount(r)
                          \/ ZRangebylex("zrangebylex", r, FALSE)
                          \/ ZRangebylex("zrevrangebylex", r, TRUE)
  \/ \E m \in Member : ZRank(m) \/ ZRevrank(m) \/ ZScore(m)
  \/ ZCard \/ Other

Spec == Init /\ [][Next]_svars

=============================================================================
