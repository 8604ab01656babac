------------------------------ MODULE SkipList ------------------------------
(***************************************************************************)
(* The skip list of zset.c.  Nodes are numbered by address, and the header *)
(* is 0.  A list is a record: its nodes, the top level in use, its length  *)
(* and its tail; a node keeps an element, its score, the node before it,   *)
(* and for each of its levels, numbered from 1, a forward pointer and the  *)
(* span it crosses.                                                        *)
(* Elements are integers in the order of sdscmp, scores integers in the    *)
(* order of the doubles they stand for.                                    *)
(***************************************************************************)
EXTENDS Integers, SequencesExt

CONSTANTS
  MaxLevel,    \* ZSKIPLIST_MAXLEVEL: 32
  MinString,   \* the strings "minstring" and "maxstring", which stand for
  MaxString    \* the ends of the order in a lexicographic range

ASSUME SkipListAssumption ==
  MaxLevel \in Nat \ {0} /\ MinString \in Int /\ MaxString \in Int

Header == 0
NULL   == -1

zslCreate ==
  [node   |-> [x \in {Header} |->
                 [ele |-> 0, score |-> 0, backward |-> NULL,
                  level |-> [i \in 1 .. MaxLevel |-> [forward |-> NULL, span |-> 0]]]],
   level  |-> 1,
   length |-> 0,
   tail   |-> NULL]

Forward(zsl, x, i) == zsl.node[x].level[i].forward

\* The order of the list: by score, then by element.
Before(s, e, t, f) == s < t \/ (s = t /\ e < f)

-----------------------------------------------------------------------------
(* Searches.  pass says of a node and its rank whether a walk goes on to    *)
(* that node.                                                              *)

\* <<node, rank>> where a walk along level i from at ends.
Walk(zsl, i, at, pass) ==
  LET go[x \in DOMAIN zsl.node, n \in Int] ==
        LET l == zsl.node[x].level[i]
        IN  IF l.forward # NULL /\ pass[l.forward, n + l.span]
            THEN go[l.forward, n + l.span] ELSE <<x, n>>
  IN  go[at[1], at[2]]

\* Where the walk leaves each level, from the top level down: the code's
\* arrays update and rank.
Descend(zsl, pass) ==
  LET down(i, path) ==
        <<Walk(zsl, i, IF path = <<>> THEN <<Header, 0>> ELSE path[1], pass)>> \o path
  IN  FoldRight(down, [i \in 1 .. zsl.level |-> i], <<>>)

ToElement(zsl, score, ele) ==
  Descend(zsl, [y \in DOMAIN zsl.node, n \in Nat |->
                  Before(zsl.node[y].score, zsl.node[y].ele, score, ele)])

zslGetRank(zsl, score, ele) ==
  LET path == Descend(zsl, [y \in DOMAIN zsl.node, n \in Nat |->
                ~Before(score, ele, zsl.node[y].score, zsl.node[y].ele)])
      hits == {i \in 1 .. zsl.level : /\ path[i][1] # Header
                                      /\ zsl.node[path[i][1]].ele = ele}
  IN  IF hits = {} THEN 0 ELSE path[Max(hits)][2]

\* Mutant: the walk stops before the node of that rank.
ElementBeforeRank(zsl, rank) ==
  LET path == Descend(zsl, [y \in DOMAIN zsl.node, n \in Nat |-> n < rank])
  IN  path[1][1]

zslGetElementByRank(zsl, rank) ==
  LET path == Descend(zsl, [y \in DOMAIN zsl.node, n \in Nat |-> n <= rank])
      hits == {i \in 1 .. zsl.level : path[i][2] = rank}
  IN  IF hits = {} THEN NULL ELSE path[Max(hits)][1]

-----------------------------------------------------------------------------
(* Insertion and deletion.                                                 *)

\* Mutant: the levels above the new node keep their spans.
KeptSpan(span) == span

\* The span of update[i] at a level the new node does not have.
UntouchedSpan(span) == span + 1

\* The lowest free address.
FreshNode(zsl) == Min(1 .. zsl.length + 1 \ DOMAIN zsl.node)

\* A new node at x, of a level the code draws at random.
zslInsert(zsl, x, score, ele, level) ==
  LET path  == ToElement(zsl, score, ele)
      top   == Max({zsl.level, level})
      update(i) == IF i <= zsl.level THEN path[i][1] ELSE Header
      rank(i)   == IF i <= zsl.level THEN path[i][2] ELSE 0
      span(i)   == IF i <= zsl.level THEN zsl.node[update(i)].level[i].span
                   ELSE zsl.length
      next  == Forward(zsl, update(1), 1)
      Linked(y) ==
        [i \in DOMAIN zsl.node[y].level |->
           IF i > top \/ update(i) # y THEN zsl.node[y].level[i]
           ELSE IF i <= level THEN [forward |-> x, span |-> rank(1) - rank(i) + 1]
           ELSE [zsl.node[y].level[i] EXCEPT !.span = UntouchedSpan(@)]]
      new == [ele |-> ele, score |-> score,
              backward |-> IF update(1) = Header THEN NULL ELSE update(1),
              level |-> [i \in 1 .. level |->
                           [forward |-> Forward(zsl, update(i), i),
                            span |-> span(i) - (rank(1) - rank(i))]]]
  IN  [node |-> (x :> new) @@
                [y \in DOMAIN zsl.node |->
                   [zsl.node[y] EXCEPT !.level = Linked(y),
                                       !.backward = IF y = next THEN x ELSE @]],
       level  |-> top,
       length |-> zsl.length + 1,
       tail   |-> IF next = NULL THEN x ELSE zsl.tail]

\* x goes; update[i] is the last node before it on level i.
zslDeleteNode(zsl, x, update) ==
  LET node == zsl.node
      next == Forward(zsl, x, 1)
      Unlinked(y) ==
        [i \in DOMAIN node[y].level |->
           IF i > zsl.level \/ update[i] # y THEN node[y].level[i]
           ELSE IF node[y].level[i].forward = x
           THEN [forward |-> node[x].level[i].forward,
                 span |-> node[y].level[i].span + node[x].level[i].span - 1]
           ELSE [node[y].level[i] EXCEPT !.span = @ - 1]]
      left == [y \in DOMAIN node \ {x} |->
                 [node[y] EXCEPT !.level = Unlinked(y),
                                 !.backward = IF y = next THEN node[x].backward ELSE @]]
  IN  [node   |-> left,
       level  |-> Max({1} \cup {i \in 1 .. zsl.level :
                                  left[Header].level[i].forward # NULL}),
       length |-> zsl.length - 1,
       tail   |-> IF next = NULL THEN node[x].backward ELSE zsl.tail]

UpdateOf(path) == [i \in DOMAIN path |-> path[i][1]]

\* The list without the element, or as it was if the element is not there
\* with that score.
zslDelete(zsl, score, ele) ==
  LET update == UpdateOf(ToElement(zsl, score, ele))
      x == Forward(zsl, update[1], 1)
  IN  IF x # NULL /\ zsl.node[x].score = score /\ zsl.node[x].ele = ele
      THEN zslDeleteNode(zsl, x, update) ELSE zsl

-----------------------------------------------------------------------------
(* Ranges by score: [min, max, minex, maxex].                              *)

zslValueGteMin(value, spec) == IF spec.minex THEN value > spec.min ELSE value >= spec.min

zslValueLteMax(value, spec) == IF spec.maxex THEN value < spec.max ELSE value <= spec.max

NeverInRange(range) ==
  range.min > range.max \/ (range.min = range.max /\ (range.minex \/ range.maxex))

\* over and under are the nodes above the minimum and below the maximum of a
\* range: whether the tail is in one and the head in the other.
EndsInRange(zsl, over, under) ==
  zsl.tail # NULL /\ zsl.tail \in over /\ Forward(zsl, Header, 1) \in under

FirstOf(zsl, over, under) ==
  LET path == Descend(zsl, [y \in DOMAIN zsl.node, n \in Nat |-> y \notin over])
      x    == Forward(zsl, path[1][1], 1)
  IN  IF EndsInRange(zsl, over, under) /\ x \in under THEN x ELSE NULL

LastOf(zsl, over, under) ==
  LET path == Descend(zsl, [y \in DOMAIN zsl.node, n \in Nat |-> y \in under])
      x    == path[1][1]
  IN  IF EndsInRange(zsl, over, under) /\ x \in over THEN x ELSE NULL

OverMin(zsl, range)  == {y \in DOMAIN zsl.node : zslValueGteMin(zsl.node[y].score, range)}
UnderMax(zsl, range) == {y \in DOMAIN zsl.node : zslValueLteMax(zsl.node[y].score, range)}

zslFirstInRange(zsl, range) ==
  IF NeverInRange(range) THEN NULL
  ELSE FirstOf(zsl, OverMin(zsl, range), UnderMax(zsl, range))

zslLastInRange(zsl, range) ==
  IF NeverInRange(range) THEN NULL
  ELSE LastOf(zsl, OverMin(zsl, range), UnderMax(zsl, range))

-----------------------------------------------------------------------------
(* Ranges by element.                                                      *)

\* Negative, zero or positive; the two special strings are the ends of the
\* order wherever they come from.
sdscmplex(a, b) ==
  IF a = MinString \/ b = MaxString THEN -1
  ELSE IF a = MaxString \/ b = MinString THEN 1
  ELSE a - b

zslLexValueGteMin(value, spec) ==
  IF spec.minex THEN sdscmplex(value, spec.min) > 0 ELSE sdscmplex(value, spec.min) >= 0

zslLexValueLteMax(value, spec) ==
  IF spec.maxex THEN sdscmplex(value, spec.max) < 0 ELSE sdscmplex(value, spec.max) <= 0

NeverInLexRange(range) ==
  LET cmp == sdscmplex(range.min, range.max)
  IN  cmp > 0 \/ (cmp = 0 /\ (range.minex \/ range.maxex))

OverLexMin(zsl, range)  == {y \in DOMAIN zsl.node : zslLexValueGteMin(zsl.node[y].ele, range)}
UnderLexMax(zsl, range) == {y \in DOMAIN zsl.node : zslLexValueLteMax(zsl.node[y].ele, range)}

zslFirstInLexRange(zsl, range) ==
  IF NeverInLexRange(range) THEN NULL
  ELSE FirstOf(zsl, OverLexMin(zsl, range), UnderLexMax(zsl, range))

zslLastInLexRange(zsl, range) ==
  IF NeverInLexRange(range) THEN NULL
  ELSE LastOf(zsl, OverLexMin(zsl, range), UnderLexMax(zsl, range))

-----------------------------------------------------------------------------
(* Range deletions: from the list, and from the dictionary dict that maps  *)
(* each element to its node.                                               *)

\* The nodes after the path go as long as they pass.
DeleteRun(zsl, dict, path, pass) ==
  LET update == UpdateOf(path)
      del(s, k) ==
        IF s.x = NULL \/ ~pass[s.x, s.rank] THEN s
        ELSE [zsl  |-> zslDeleteNode(s.zsl, s.x, update),
              dict |-> Restrict(s.dict, DOMAIN s.dict \ {s.zsl.node[s.x].ele}),
              x    |-> Forward(s.zsl, s.x, 1),
              rank |-> s.rank + 1]
      last == FoldLeft(del, [zsl |-> zsl, dict |-> dict, rank |-> path[1][2] + 1,
                             x |-> Forward(zsl, path[1][1], 1)],
                       [k \in 1 .. zsl.length |-> k])
  IN  [zsl |-> last.zsl, dict |-> last.dict]

zslDeleteRangeByScore(zsl, range, dict) ==
  DeleteRun(zsl, dict,
            Descend(zsl, [y \in DOMAIN zsl.node, n \in Nat |-> y \notin OverMin(zsl, range)]),
            [y \in DOMAIN zsl.node, n \in Nat |-> y \in UnderMax(zsl, range)])

zslDeleteRangeByLex(zsl, range, dict) ==
  DeleteRun(zsl, dict,
            Descend(zsl, [y \in DOMAIN zsl.node, n \in Nat |-> y \notin OverLexMin(zsl, range)]),
            [y \in DOMAIN zsl.node, n \in Nat |-> y \in UnderLexMax(zsl, range)])

zslDeleteRangeByRank(zsl, start, end, dict) ==
  DeleteRun(zsl, dict,
            Descend(zsl, [y \in DOMAIN zsl.node, n \in Nat |-> n < start]),
            [y \in DOMAIN zsl.node, n \in Nat |-> n <= end])

=============================================================================
