------------------------------ MODULE ZSetType ------------------------------
(***************************************************************************)
(* The sorted set commands of t_zset.c on one key.  The key holds nothing, *)
(* a string, or a sorted set in one of its encodings.                      *)
(*                                                                         *)
(* Arguments are numbers as parsed; NaN stands for one that does not       *)
(* parse.  A bound of a score range is [open, num], a bound of a           *)
(* lexicographic range is [kind, str] with the kinds "-", "+", "(", "["    *)
(* and "?", which is none of them.                                         *)
(***************************************************************************)
EXTENDS ZSet

CONSTANTS
  Member,                 \* elements of the sorted set
  ItemLists,              \* as in SortedSets
  MemberLists, ScoreRanges, LexRanges, Indexes, Limits, Nil,
  ZiplistLimits           \* values of OBJ_ZSET_MAX_ZIPLIST_ENTRIES: the
                          \* build's is 0

ASSUME ZSetTypeAssumption ==
  /\ Member \subseteq Int /\ Long \subseteq Member
  /\ ZiplistLimits \subseteq Nat

VARIABLES
  val,      \* what the key holds
  max,      \* OBJ_ZSET_MAX_ZIPLIST_ENTRIES
  call,     \* the last command: <<name, arguments>>
  reply     \* and what it returned: <<status, result>>

vars == <<val, max, call, reply>>

None    == [type |-> "none"]
Foreign == [type |-> "string"]
Zset(z) == [type |-> "zset", z |-> z]

Keep(size, z) == IF size = 0 THEN None ELSE Zset(z)

Init ==
  /\ val = None /\ max \in ZiplistLimits
  /\ call = <<"none", <<>>>> /\ reply = <<"OK", Nil>>

Return(cmd, args, status, out) ==
  call' = <<cmd, args>> /\ reply' = <<status, out>> /\ UNCHANGED max

Fail(cmd, args, status) == UNCHANGED val /\ Return(cmd, args, status, Nil)

\* A command that changes nothing.
Answer(cmd, args, out) == UNCHANGED val /\ Return(cmd, args, "OK", out)

IsZset == val.type = "zset"

-----------------------------------------------------------------------------
(* Arguments.                                                              *)

zslParseRange(r) ==
  [min |-> r[1].num, max |-> r[2].num, minex |-> r[1].open, maxex |-> r[2].open]

ScoreRangeOK(r) == r[1].num # NaN /\ r[2].num # NaN

LexStr(item) ==
  CASE item.kind = "-" -> MinString [] item.kind = "+" -> MaxString [] OTHER -> item.str

zslParseLexRange(r) ==
  [min |-> LexStr(r[1]), minex |-> r[1].kind # "[",
   max |-> LexStr(r[2]), maxex |-> r[2].kind # "["]

LexRangeOK(r) == r[1].kind # "?" /\ r[2].kind # "?"

\* With reverse the first bound that the client gives is the maximum.
Ordered(r, reverse) == IF reverse THEN <<r[2], r[1]>> ELSE r

\* The conversion of negative indexes.
Start(start, llen) == Max({0, IF start < 0 THEN llen + start ELSE start})
End(end, llen)     == Min({llen - 1, IF end < 0 THEN llen + end ELSE end})

-----------------------------------------------------------------------------
(* Walks.  A cursor is a position or a node, and 0 or less past the end.   *)

PairAt(z, c) ==
  IF z.enc = "ziplist" THEN z.zl[c] ELSE <<z.zsl.node[c].ele, z.zsl.node[c].score>>

\* zzlNext and zzlPrev, or the pointers of the node.
Step(z, c, reverse) ==
  IF z.enc = "ziplist"
  THEN IF reverse THEN c - 1 ELSE IF c = Len(z.zl) THEN 0 ELSE c + 1
  ELSE IF reverse THEN z.zsl.node[c].backward ELSE Forward(z.zsl, c, 1)

PairsFrom(z, c, reverse) ==
  LET run[d \in Int] == IF d <= 0 THEN <<>>
                        ELSE <<PairAt(z, d)>> \o run[Step(z, d, reverse)]
  IN  run[c]

\* The loops over offset and limit: a negative offset runs past the end, a
\* negative limit is none.  They end at the first pair outside the range.
Taken(pairs, offset, limit, inside) ==
  LET rest == IF offset < 0 THEN <<>> ELSE SubSeq(pairs, offset + 1, Len(pairs))
      stop == SelectInSeq(rest, LAMBDA pair : pair \notin inside)
      size == IF stop = 0 THEN Len(rest) ELSE stop - 1
  IN  SubSeq(rest, 1, IF limit < 0 THEN size ELSE Min({size, limit}))

-----------------------------------------------------------------------------
(* Commands that change the set.                                           *)

\* The elements whose nodes the command may create.
Touched(items) ==
  {items[i][2] : i \in DOMAIN items} \cup
  (IF IsZset THEN {val.z.zl[i][1] : i \in DOMAIN val.z.zl} ELSE {})

\* Neither NX nor XX is ever passed.
zaddGenericCommand(cmd, items, incr) ==
  LET bad == items = <<>> \/ (incr /\ Len(items) > 1)
               \/ \E i \in DOMAIN items : items[i][1] = NaN
      new == IF max = 0 \/ items[1][2] \in Long
             THEN createZsetObject ELSE createZsetZiplistObject
  IN  IF bad \/ val.type = "string" THEN Fail(cmd, items, "ERR")
      ELSE \E levels \in [Touched(items) -> 1 .. MaxLevel] :
             LET add(s, item) ==
                   IF s[2] THEN zsetAdd(s[1], item[1], item[2], incr, levels, max)
                   ELSE s
                 done == FoldLeft(add, <<IF IsZset THEN val.z ELSE new, TRUE>>, items)
             IN  /\ val' = Zset(done[1])
                 /\ Return(cmd, items, IF done[2] THEN "OK" ELSE "ERR", Nil)

RcZAdd(items)    == zaddGenericCommand("zadd", items, FALSE)
RcZIncrby(items) == zaddGenericCommand("zincrby", items, TRUE)

\* Stops at the element that empties the set.
RcZRem(members) ==
  IF ~IsZset THEN Fail("zrem", members, "KEY_NOT_EXIST")
  ELSE LET rem(z, m) == IF zsetLength(z) = 0 THEN z ELSE zsetDel(z, m)
           left == FoldLeft(rem, val.z, members)
       IN  /\ val' = Keep(zsetLength(left), left)
           /\ Return("zrem", members, "OK", Nil)

\* Mutant: the key is kept when the range was the whole set.
KeepTrimmedAlways(zl, table) ==
  IF val.z.enc = "ziplist" THEN Zset(ZiplistZset(zl))
  ELSE Zset(TableZset(table.zsl, table.dict))

\* The key after a range went: zl or table is what is left of its object.
KeepTrimmed(zl, table) ==
  IF val.z.enc = "ziplist" THEN Keep(Len(zl), ZiplistZset(zl))
  ELSE Keep(Cardinality(DOMAIN table.dict), TableZset(table.zsl, table.dict))

RcZRemrangebyrank(start, end) ==
  LET args == <<start, end>>
      llen == zsetLength(val.z)
      s == Start(start, llen)
      e == End(end, llen)
  IN  IF NaN \in {start, end} THEN Fail("zremrangebyrank", args, "ERR")
      ELSE IF ~IsZset THEN Fail("zremrangebyrank", args, "KEY_NOT_EXIST")
      ELSE IF s > e THEN Fail("zremrangebyrank", args, "ERR")
      ELSE /\ val' = KeepTrimmed(zzlDeleteRangeByRank(val.z.zl, s + 1, e + 1),
                       zslDeleteRangeByRank(val.z.zsl, s + 1, e + 1, val.z.dict))
           /\ Return("zremrangebyrank", args, "OK", Nil)

RcZRemrangebyscore(r) ==
  IF ~ScoreRangeOK(r) THEN Fail("zremrangebyscore", r, "ERR")
  ELSE IF ~IsZset THEN Fail("zremrangebyscore", r, "KEY_NOT_EXIST")
  ELSE LET range == zslParseRange(r)
       IN  /\ val' = KeepTrimmed(zzlDeleteRangeByScore(val.z.zl, range),
                       zslDeleteRangeByScore(val.z.zsl, range, val.z.dict))
           /\ Return("zremrangebyscore", r, "OK", Nil)

RcZRemrangebylex(r) ==
  IF ~LexRangeOK(r) THEN Fail("zremrangebylex", r, "ERR")
  ELSE IF ~IsZset THEN Fail("zremrangebylex", r, "KEY_NOT_EXIST")
  ELSE LET range == zslParseLexRange(r)
       IN  /\ val' = KeepTrimmed(zzlDeleteRangeByLex(val.z.zl, range),
                       zslDeleteRangeByLex(val.z.zsl, range, val.z.dict))
           /\ Return("zremrangebylex", r, "OK", Nil)

-----------------------------------------------------------------------------
(* Commands that read it.                                                  *)

\* Without a walk when the range starts at an end.
zrangeGenericCommand(cmd, start, end, reverse) ==
  LET args == <<start, end>>
      z    == val.z
      llen == zsetLength(z)
      s    == Start(start, llen)
      e    == End(end, llen)
      from == IF z.enc = "ziplist" THEN IF reverse THEN llen - s ELSE s + 1
              ELSE IF s = 0 THEN IF reverse THEN z.zsl.tail ELSE Forward(z.zsl, Header, 1)
              ELSE zslGetElementByRank(z.zsl, IF reverse THEN llen - s ELSE s + 1)
  IN  IF ~IsZset THEN Fail(cmd, args, "KEY_NOT_EXIST")
      ELSE IF s > e THEN Answer(cmd, args, <<>>)
      ELSE Answer(cmd, args, SubSeq(PairsFrom(z, from, reverse), 1, e - s + 1))

RcZrange(start, end)    == zrangeGenericCommand("zrange", start, end, FALSE)
RcZRevrange(start, end) == zrangeGenericCommand("zrevrange", start, end, TRUE)

\* Where a range of scores starts in either direction.
EdgeOfRange(z, range, reverse) ==
  IF z.enc = "ziplist"
  THEN IF reverse THEN zzlLastInRange(z.zl, range) ELSE zzlFirstInRange(z.zl, range)
  ELSE IF reverse THEN zslLastInRange(z.zsl, range) ELSE zslFirstInRange(z.zsl, range)

EdgeOfLexRange(z, range, reverse) ==
  IF z.enc = "ziplist"
  THEN IF reverse THEN zzlLastInLexRange(z.zl, range) ELSE zzlFirstInLexRange(z.zl, range)
  ELSE IF reverse THEN zslLastInLexRange(z.zsl, range) ELSE zslFirstInLexRange(z.zsl, range)

genericZrangebyscoreCommand(cmd, r, offset, limit, reverse) ==
  LET args  == <<r, offset, limit>>
      range == zslParseRange(Ordered(r, reverse))
      pairs == PairsFrom(val.z, EdgeOfRange(val.z, range, reverse), reverse)
      inside == IF reverse THEN zzlOverMin(pairs, range) ELSE zzlUnderMax(pairs, range)
  IN  IF ~ScoreRangeOK(r) THEN Fail(cmd, args, "ERR")
      ELSE IF ~IsZset THEN Fail(cmd, args, "KEY_NOT_EXIST")
      ELSE Answer(cmd, args, Taken(pairs, offset, limit, inside))

RcZRangebyscore(r, offset, limit) ==
  genericZrangebyscoreCommand("zrangebyscore", r, offset, limit, FALSE)

RcZRevrangebyscore(r, offset, limit) ==
  genericZrangebyscoreCommand("zrevrangebyscore", r, offset, limit, TRUE)

\* Offset 0 and no limit.
genericZrangebylexCommand(cmd, r, reverse) ==
  LET range == zslParseLexRange(Ordered(r, reverse))
      pairs == PairsFrom(val.z, EdgeOfLexRange(val.z, range, reverse), reverse)
      inside == IF reverse THEN zzlOverLexMin(pairs, range) ELSE zzlUnderLexMax(pairs, range)
      taken == Taken(pairs, 0, -1, inside)
  IN  IF ~LexRangeOK(r) THEN Fail(cmd, r, "ERR")
      ELSE IF ~IsZset THEN Fail(cmd, r, "KEY_NOT_EXIST")
      ELSE Answer(cmd, r, [i \in DOMAIN taken |-> taken[i][1]])

RcZRangebylex(r)    == genericZrangebylexCommand("zrangebylex", r, FALSE)
RcZRevrangebylex(r) == genericZrangebylexCommand("zrevrangebylex", r, TRUE)

\* From the ranks of the first and the last node of a range.
CountBetween(zsl, first, last) ==
  LET Rank(x) == zslGetRank(zsl, zsl.node[x].score, zsl.node[x].ele)
      upper == zsl.length - (Rank(first) - 1)
  IN  IF first = NULL THEN 0
      ELSE IF last = NULL THEN upper ELSE upper - (zsl.length - Rank(last))

RcZCount(r) ==
  LET range == zslParseRange(r)
      z     == val.z
      pairs == PairsFrom(z, zzlFirstInRange(z.zl, range), FALSE)
      count == IF z.enc = "ziplist"
               THEN Len(Taken(pairs, 0, -1, zzlUnderMax(pairs, range)))
               ELSE CountBetween(z.zsl, zslFirstInRange(z.zsl, range),
                                        zslLastInRange(z.zsl, range))
  IN  IF ~IsZset THEN Fail("zcount", r, "KEY_NOT_EXIST")
      ELSE IF ~ScoreRangeOK(r) THEN Fail("zcount", r, "ERR")
      ELSE Answer("zcount", r, count)

RcZLexcount(r) ==
  LET range == zslParseLexRange(r)
      z     == val.z
      pairs == PairsFrom(z, zzlFirstInLexRange(z.zl, range), FALSE)
      count == IF z.enc = "ziplist"
               THEN Len(Taken(pairs, 0, -1, zzlUnderLexMax(pairs, range)))
               ELSE CountBetween(z.zsl, zslFirstInLexRange(z.zsl, range),
                                        zslLastInLexRange(z.zsl, range))
  IN  IF ~IsZset THEN Fail("zlexcount", r, "KEY_NOT_EXIST")
      ELSE IF ~LexRangeOK(r) THEN Fail("zlexcount", r, "ERR")
      ELSE Answer("zlexcount", r, count)

zrankGenericCommand(cmd, m, reverse) ==
  LET rank == zsetRank(val.z, m, reverse)
  IN  IF ~IsZset THEN Fail(cmd, m, "KEY_NOT_EXIST")
      ELSE IF rank < 0 THEN Fail(cmd, m, "ITEM_NOT_EXIST")
      ELSE Answer(cmd, m, rank)

RcZRank(m)    == zrankGenericCommand("zrank", m, FALSE)
RcZRevrank(m) == zrankGenericCommand("zrevrank", m, TRUE)

RcZScore(m) ==
  IF ~IsZset THEN Fail("zscore", m, "KEY_NOT_EXIST")
  ELSE IF ~Has(val.z, m) THEN Fail("zscore", m, "ITEM_NOT_EXIST")
  ELSE Answer("zscore", m, zsetScore(val.z, m))

RcZCard ==
  IF ~IsZset THEN Fail("zcard", <<>>, "KEY_NOT_EXIST")
  ELSE Answer("zcard", <<>>, zsetLength(val.z))

\* What other commands do to the key: DEL or a deadline, and SET.
Vanish == val.type # "none" /\ val' = None /\ UNCHANGED <<max, call, reply>>

Become == val.type # "string" /\ val' = Foreign /\ UNCHANGED <<max, call, reply>>

Next ==
  \/ \E items \in ItemLists : RcZAdd(items) \/ RcZIncrby(items)
  \/ \E members \in MemberLists : RcZRem(members)
  \/ \E i, j \in Indexes : RcZRemrangebyrank(i, j)
  \/ \E i, j \in Indexes \ {NaN} : RcZrange(i, j) \/ RcZRevrange(i, j)
  \/ \E r \in ScoreRanges : RcZRemrangebyscore(r) \/ RcZCount(r)
  \/ \E r \in ScoreRanges, l \in Limits :
       RcZRangebyscore(r, l[1], l[2]) \/ RcZRevrangebyscore(r, l[1], l[2])
  \/ \E r \in LexRanges :
       \/ RcZRemrangebylex(r) \/ RcZLexcount(r)
       \/ RcZRangebylex(r) \/ RcZRevrangebylex(r)
  \/ \E m \in Member : RcZRank(m) \/ RcZRevrank(m) \/ RcZScore(m)
  \/ RcZCard \/ Vanish \/ Become

Spec == Init /\ [][Next]_vars

-----------------------------------------------------------------------------
(* Properties.                                                             *)

IsTable == IsZset /\ val.z.enc = "skiplist"

\* The nodes from the head on: as many as there are.
Order(zsl) ==
  LET run[x \in Int] == IF x = NULL THEN <<>> ELSE <<x>> \o run[Forward(zsl, x, 1)]
  IN  run[Forward(zsl, Header, 1)]

\* The list is in order, backward is its inverse, and on each level a node
\* points to the next node of that level and knows how many places away it
\* is, or how many nodes follow where there is none.  Ranks are sums of these
\* spans (zset.c:428, 452), and every insertion and deletion adjusts them on
\* all levels (zset.c:178, 197).
SpansExact ==
  IsTable =>
    LET zsl   == val.z.zsl
        node  == zsl.node
        order == Order(zsl)
        Place_(x) == IF x = Header THEN 0 ELSE CHOOSE k \in DOMAIN order : order[k] = x
        Later(x, i) == {k \in DOMAIN order : k > Place_(x) /\ i \in DOMAIN node[order[k]].level}
    IN  /\ Len(order) = zsl.length
        /\ ToSet(order) \cup {Header} = DOMAIN node
        /\ zsl.tail = IF order = <<>> THEN NULL ELSE Last(order)
        /\ \A k \in DOMAIN order :
             LET x == node[order[k]] IN
             /\ x.backward = IF k = 1 THEN NULL ELSE order[k - 1]
             /\ k > 1 => Before(node[order[k - 1]].score, node[order[k - 1]].ele,
                                x.score, x.ele)
        /\ zsl.level = Max({1} \cup {Len(node[x].level) : x \in DOMAIN node \ {Header}})
        /\ \A x \in DOMAIN node : \A i \in 1 .. Min({zsl.level, Len(node[x].level)}) :
             LET at == IF Later(x, i) = {} THEN 0 ELSE Min(Later(x, i))
             IN  node[x].level[i] =
                   IF at = 0 THEN [forward |-> NULL, span |-> zsl.length - Place_(x)]
                   ELSE [forward |-> order[at], span |-> at - Place_(x)]

\* "The elements are added to a hash table mapping Redis objects to scores. At
\* the same time the elements are added to a skip list" (zset.c:40): every
\* dictionary entry points into a node of the list that holds its element,
\* also after a node was freed and its address taken again.
DictAgrees ==
  IsTable =>
    /\ DOMAIN val.z.dict = {val.z.zsl.node[x].ele : x \in DOMAIN val.z.zsl.node \ {Header}}
    /\ \A e \in DOMAIN val.z.dict :
         /\ val.z.dict[e] \in DOMAIN val.z.zsl.node \ {Header}
         /\ val.z.zsl.node[val.z.dict[e]].ele = e

\* An empty sorted set does not stay in the keyspace (t_zset.c:602, 619, 813).
NoEmptyZset == IsZset => zsetLength(val.z) > 0

\* In either encoding the key holds the map from elements to scores that the
\* commands promise, and every reply is the one that map gives.
S == INSTANCE SortedSets WITH
       val <- IF ~IsZset THEN val
              ELSE [type |-> "zset",
                    map  |-> IF IsTable
                             THEN [e \in DOMAIN val.z.dict |-> zsetScore(val.z, e)]
                             ELSE [e \in {val.z.zl[i][1] : i \in DOMAIN val.z.zl} |->
                                     zsetScore(val.z, e)]]

ImplementsSortedSets == S!Spec

=============================================================================
