-------------------------------- MODULE ZSet --------------------------------
(***************************************************************************)
(* The sorted set objects of zset.c, in their two encodings: a ziplist of  *)
(* <<element, score>> pairs in order, or a skip list with a dictionary     *)
(* that maps each element to the node its score is read from.              *)
(*                                                                         *)
(* Scores are the integers of -Inf .. Inf, whose ends stand for the two    *)
(* infinities, and NaN.                                                    *)
(***************************************************************************)
EXTENDS SkipList

CONSTANTS
  Inf,       \* the double that is larger than every other
  NaN,       \* the result of inf - inf
  Long       \* elements longer than OBJ_ZSET_MAX_ZIPLIST_VALUE

ASSUME ZSetAssumption == Inf \in Nat \ {0} /\ NaN \in Int \ (-Inf .. Inf)

ZiplistZset(zl)      == [enc |-> "ziplist", zl |-> zl, zsl |-> zslCreate, dict |-> <<>>]
TableZset(zsl, dict) == [enc |-> "skiplist", zl |-> <<>>, zsl |-> zsl, dict |-> dict]

createZsetZiplistObject == ZiplistZset(<<>>)
createZsetObject        == TableZset(zslCreate, <<>>)

\* The sum of two doubles; one past the largest finite value is infinite.
Plus(a, b) ==
  IF {a, b} = {-Inf, Inf} THEN NaN
  ELSE IF a \in {-Inf, Inf} THEN a ELSE IF b \in {-Inf, Inf} THEN b
  ELSE Max({-Inf, Min({Inf, a + b})})

-----------------------------------------------------------------------------
(* The ziplist encoding: positions of pairs count from 1, 0 is none.       *)

zzlFind(zl, ele) == SelectInSeq(zl, LAMBDA pair : pair[1] = ele)

zzlDelete(zl, p) == RemoveAt(zl, p)

\* Before the first pair that is larger, or at the end.
zzlInsert(zl, ele, score) ==
  LET p == SelectInSeq(zl, LAMBDA pair : Before(score, ele, pair[2], pair[1]))
  IN  IF p = 0 THEN Append(zl, <<ele, score>>) ELSE InsertAt(zl, p, <<ele, score>>)

\* over and under are the pairs above the minimum and below the maximum.
zzlIsInRange(zl, over, under) == zl # <<>> /\ Last(zl) \in over /\ zl[1] \in under

\* The first pair over the minimum, if it is not over the maximum.
zzlFirstOf(zl, over, under) ==
  LET p == SelectInSeq(zl, LAMBDA pair : pair \in over)
  IN  IF zzlIsInRange(zl, over, under) /\ p # 0 /\ zl[p] \in under THEN p ELSE 0

zzlLastOf(zl, over, under) ==
  LET p == SelectLastInSeq(zl, LAMBDA pair : pair \in under)
  IN  IF zzlIsInRange(zl, over, under) /\ p # 0 /\ zl[p] \in over THEN p ELSE 0

zzlOverMin(zl, range)  == {pair \in ToSet(zl) : zslValueGteMin(pair[2], range)}
zzlUnderMax(zl, range) == {pair \in ToSet(zl) : zslValueLteMax(pair[2], range)}

zzlOverLexMin(zl, range)  == {pair \in ToSet(zl) : zslLexValueGteMin(pair[1], range)}
zzlUnderLexMax(zl, range) == {pair \in ToSet(zl) : zslLexValueLteMax(pair[1], range)}

zzlFirstInRange(zl, range) ==
  IF NeverInRange(range) THEN 0
  ELSE zzlFirstOf(zl, zzlOverMin(zl, range), zzlUnderMax(zl, range))

zzlLastInRange(zl, range) ==
  IF NeverInRange(range) THEN 0
  ELSE zzlLastOf(zl, zzlOverMin(zl, range), zzlUnderMax(zl, range))

zzlFirstInLexRange(zl, range) ==
  IF NeverInLexRange(range) THEN 0
  ELSE zzlFirstOf(zl, zzlOverLexMin(zl, range), zzlUnderLexMax(zl, range))

zzlLastInLexRange(zl, range) ==
  IF NeverInLexRange(range) THEN 0
  ELSE zzlLastOf(zl, zzlOverLexMin(zl, range), zzlUnderLexMax(zl, range))

\* The pairs from p on go as long as they are below the maximum; p = 0 is no
\* range at all.
zzlDeleteRun(zl, p, under) ==
  LET stop == SelectInSubSeq(zl, p, Len(zl), LAMBDA pair : pair \notin under)
  IN  IF p = 0 THEN zl
      ELSE SubSeq(zl, 1, p - 1) \o (IF stop = 0 THEN <<>> ELSE SubSeq(zl, stop, Len(zl)))

zzlDeleteRangeByScore(zl, range) ==
  zzlDeleteRun(zl, zzlFirstInRange(zl, range), zzlUnderMax(zl, range))

zzlDeleteRangeByLex(zl, range) ==
  zzlDeleteRun(zl, zzlFirstInLexRange(zl, range), zzlUnderLexMax(zl, range))

zzlDeleteRangeByRank(zl, start, end) ==
  SubSeq(zl, 1, start - 1) \o SubSeq(zl, end + 1, Len(zl))

-----------------------------------------------------------------------------
(* Both encodings.                                                         *)

zsetLength(z) == IF z.enc = "ziplist" THEN Len(z.zl) ELSE z.zsl.length

\* One node for each pair, at the level drawn for its element.
zsetConvert(z, levels) ==
  LET add(s, pair) ==
        LET x == FreshNode(s.zsl)
        IN  TableZset(zslInsert(s.zsl, x, pair[2], pair[1], levels[pair[1]]),
                      (pair[1] :> x) @@ s.dict)
  IN  IF z.enc = "skiplist" THEN z ELSE FoldLeft(add, createZsetObject, z.zl)

Has(z, ele) ==
  IF z.enc = "ziplist" THEN zzlFind(z.zl, ele) # 0 ELSE ele \in DOMAIN z.dict

\* The score of an element the set has.
zsetScore(z, ele) ==
  IF z.enc = "ziplist" THEN z.zl[zzlFind(z.zl, ele)][2]
  ELSE z.zsl.node[z.dict[ele]].score

\* Mutant: the dictionary goes on pointing to the node that is freed.
PlaceKeepingEntry(z, ele, score, level) ==
  LET cut == IF Has(z, ele) THEN zslDelete(z.zsl, zsetScore(z, ele), ele) ELSE z.zsl
      x   == FreshNode(z.zsl)
  IN  TableZset(zslInsert(cut, x, score, ele, level), z.dict @@ (ele :> x))

\* Puts the element in the list with the score, and points its dictionary
\* entry to the new node; the old node, if any, is freed after that.
Place(z, ele, score, level) ==
  LET cut == IF Has(z, ele) THEN zslDelete(z.zsl, zsetScore(z, ele), ele) ELSE z.zsl
      x   == FreshNode(z.zsl)
  IN  TableZset(zslInsert(cut, x, score, ele, level), (ele :> x) @@ z.dict)

\* max is OBJ_ZSET_MAX_ZIPLIST_ENTRIES.  <<object, FALSE if not a number>>
zsetAdd(z, given, ele, incr, levels, max) ==
  LET score == IF incr /\ Has(z, ele) THEN Plus(given, zsetScore(z, ele)) ELSE given
      zl    == IF Has(z, ele) THEN zzlDelete(z.zl, zzlFind(z.zl, ele)) ELSE z.zl
      grown == ZiplistZset(zzlInsert(zl, ele, score))
  IN  IF score = NaN THEN <<z, FALSE>>
      ELSE IF Has(z, ele) /\ score = zsetScore(z, ele) THEN <<z, TRUE>>
      ELSE IF z.enc = "skiplist" THEN <<Place(z, ele, score, levels[ele]), TRUE>>
      ELSE IF ~Has(z, ele) /\ (Len(grown.zl) > max \/ ele \in Long)
      THEN <<zsetConvert(grown, levels), TRUE>>
      ELSE <<grown, TRUE>>

\* The dictionary entry goes first, then the node with the score it gave.
zsetDel(z, ele) ==
  IF ~Has(z, ele) THEN z
  ELSE IF z.enc = "ziplist"
  THEN ZiplistZset(zzlDelete(z.zl, zzlFind(z.zl, ele)))
  ELSE TableZset(zslDelete(z.zsl, zsetScore(z, ele), ele),
                 Restrict(z.dict, DOMAIN z.dict \ {ele}))

\* From 0, or -1 where there is no such element.
zsetRank(z, ele, reverse) ==
  LET rank == IF z.enc = "ziplist" THEN zzlFind(z.zl, ele)
              ELSE zslGetRank(z.zsl, zsetScore(z, ele), ele)
  IN  IF ~Has(z, ele) THEN -1
      ELSE IF reverse THEN zsetLength(z) - rank ELSE rank - 1

=============================================================================
