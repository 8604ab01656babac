----------------------------- MODULE QuickList ------------------------------
(***************************************************************************)
(* quicklist.c: a list kept as a chain of nodes, each of which holds a     *)
(* ziplist.  A quicklist is a record: its nodes from head to tail and its  *)
(* cached number of entries; a node caches its number of entries and its   *)
(* bytes.  A ziplist is the sequence of its values here; module ZipList is *)
(* about its bytes.  The compression depth is 0 in this program            *)
(* (commondef.h:98), so no node is ever compressed.                        *)
(*                                                                         *)
(* Node numbers start at 1, offsets into a node at 0 as in the code; a     *)
(* negative offset counts from the end of the node.                        *)
(***************************************************************************)
EXTENDS Integers, SequencesExt

CONSTANTS
  Value,      \* the strings a list can hold
  Bytes,      \* the bytes of an entry that holds the value
  Estimate,   \* what _quicklistNodeAllowInsert takes for them: more for an
              \* integer, less behind an entry of 254 bytes or more
  Header,     \* the bytes of an empty ziplist: 11
  Limit       \* optimization_level[1] and SIZE_SAFETY_LIMIT: 8192

ASSUME QuickListAssumption ==
  /\ Bytes \in [Value -> Nat \ {0}] /\ Estimate \in [Value -> Nat \ {0}]
  /\ Header \in Nat /\ Limit \in Nat

ziplistBlobLen(zl) == FoldLeft(LAMBDA n, v : n + Bytes[v], Header, zl)

\* A node right after quicklistNodeUpdateSz, with an exact count.
Node(zl) == [zl |-> zl, count |-> Len(zl), sz |-> ziplistBlobLen(zl)]

\* The node after its ziplist became zl and its count changed by n.
Update(node, zl, n) ==
  [zl |-> zl, count |-> node.count + n, sz |-> ziplistBlobLen(zl)]

quicklistCreate == [nodes |-> <<>>, count |-> 0]

Entries(ql) == FlattenSeq([i \in DOMAIN ql.nodes |-> ql.nodes[i].zl])

Exists(ql, i) == i \in DOMAIN ql.nodes

\* The position in zl of an offset, 0 where ziplistIndex returns NULL.
ziplistIndex(zl, offset) ==
  LET p == IF offset < 0 THEN Len(zl) + offset + 1 ELSE offset + 1
  IN  IF p \in DOMAIN zl THEN p ELSE 0

\* num entries from the offset on; -1, cast to unsigned, means all of them.
ziplistDeleteRange(zl, offset, num) ==
  LET p == ziplistIndex(zl, offset)
      n == IF num = -1 THEN Len(zl) ELSE num
  IN  IF p = 0 THEN zl ELSE SubSeq(zl, 1, p - 1) \o SubSeq(zl, p + n, Len(zl))

-----------------------------------------------------------------------------
(* The two size tests.  fill is -2, so sizes decide and counts never do.   *)

_quicklistNodeAllowInsert(ql, i, v) ==
  Exists(ql, i) /\ ql.nodes[i].sz + Estimate[v] <= Limit

_quicklistNodeAllowMerge(ql, a, b) ==
  /\ Exists(ql, a) /\ Exists(ql, b)
  /\ ql.nodes[a].sz + ql.nodes[b].sz - Header <= Limit

-----------------------------------------------------------------------------
(* Nodes.                                                                  *)

\* node becomes the i-th node.
__quicklistInsertNode(ql, i, node) == [ql EXCEPT !.nodes = InsertAt(@, i, node)]

__quicklistDelNode(ql, i) ==
  [nodes |-> RemoveAt(ql.nodes, i), count |-> ql.count - ql.nodes[i].count]

\* One entry more at the head, in the head node or in a new one.
quicklistPushHead(ql, v) ==
  LET pushed == IF _quicklistNodeAllowInsert(ql, 1, v)
                THEN [ql EXCEPT !.nodes[1] = Update(@, <<v>> \o @.zl, 1)]
                ELSE __quicklistInsertNode(ql, 1, Node(<<v>>))
  IN  [pushed EXCEPT !.count = @ + 1]

quicklistPushTail(ql, v) ==
  LET n == Len(ql.nodes)
      pushed == IF _quicklistNodeAllowInsert(ql, n, v)
                THEN [ql EXCEPT !.nodes[n] = Update(@, Append(@.zl, v), 1)]
                ELSE __quicklistInsertNode(ql, n + 1, Node(<<v>>))
  IN  [pushed EXCEPT !.count = @ + 1]

\* The entry at position p of node i goes, and the node with its last entry.
quicklistDelIndex(ql, i, p) ==
  LET left == [ql EXCEPT !.nodes[i] = Update(@, RemoveAt(@.zl, p), -1)]
  IN  [(IF left.nodes[i].count = 0 THEN __quicklistDelNode(left, i) ELSE left)
         EXCEPT !.count = @ - 1]

quicklistPush(ql, v, where) ==
  IF where = "head" THEN quicklistPushHead(ql, v) ELSE quicklistPushTail(ql, v)

\* The entry at offset 0 or -1 of the end node, and the list without it.
quicklistPopCustom(ql, where) ==
  LET i == IF where = "head" THEN 1 ELSE Len(ql.nodes)
      p == ziplistIndex(ql.nodes[i].zl, IF where = "head" THEN 0 ELSE -1)
  IN  [ql |-> quicklistDelIndex(ql, i, p), value |-> ql.nodes[i].zl[p]]

\* <<node, offset>> of an index, <<0, 0>> where there is none.  Backward
\* searches walk from the tail and give a negative offset.
quicklistIndex(ql, idx) ==
  LET n == Len(ql.nodes)
      forward == idx >= 0
      index   == IF forward THEN idx ELSE -idx - 1
      At(k)   == ql.nodes[IF forward THEN k ELSE n + 1 - k].count
      before[k \in 0 .. n] == IF k = 0 THEN 0 ELSE before[k - 1] + At(k)
      k == Min({j \in 1 .. n : before[j] > index})
  IN  IF index >= ql.count \/ \A j \in 1 .. n : before[j] <= index THEN <<0, 0>>
      ELSE IF forward THEN <<k, index - before[k - 1]>>
      ELSE <<n + 1 - k, -index - 1 + before[k - 1]>>

quicklistReplaceAtIndex(ql, idx, v) ==
  LET at == quicklistIndex(ql, idx)
      p  == ziplistIndex(ql.nodes[at[1]].zl, at[2])
  IN  [ql EXCEPT !.nodes[at[1]] = Update(@, ReplaceAt(@.zl, p, v), 0)]

-----------------------------------------------------------------------------
(* Splits and merges.                                                      *)

\* Mutant: the right ziplist goes first.
_quicklistZiplistMergeSwapped(ql, a) ==
  __quicklistDelNode([ql EXCEPT !.nodes[a] = Node(ql.nodes[a + 1].zl \o @.zl),
                                !.nodes[a + 1].count = 0], a + 1)

\* Nodes a and a+1 become one; the count of the other is cleared first.
_quicklistZiplistMerge(ql, a) ==
  __quicklistDelNode([ql EXCEPT !.nodes[a] = Node(@.zl \o ql.nodes[a + 1].zl),
                                !.nodes[a + 1].count = 0], a + 1)

\* The two nodes before c, the two after it, then c with each neighbour.
_quicklistMergeNodes(ql, c) ==
  LET left   == _quicklistNodeAllowMerge(ql, c - 1, c - 2)
      ql1    == IF left THEN _quicklistZiplistMerge(ql, c - 2) ELSE ql
      c1     == IF left THEN c - 1 ELSE c
      ql2    == IF _quicklistNodeAllowMerge(ql1, c1 + 1, c1 + 2)
                THEN _quicklistZiplistMerge(ql1, c1 + 1) ELSE ql1
      back   == _quicklistNodeAllowMerge(ql2, c1, c1 - 1)
      ql3    == IF back THEN _quicklistZiplistMerge(ql2, c1 - 1) ELSE ql2
      target == IF back THEN c1 - 1 ELSE c1
  IN  IF _quicklistNodeAllowMerge(ql3, target, target + 1)
      THEN _quicklistZiplistMerge(ql3, target) ELSE ql3

\* <<what stays in the node, what the new node gets>>
_quicklistSplitNode(node, offset, after) ==
  IF after
  THEN <<Node(ziplistDeleteRange(node.zl, offset + 1, -1)),
         Node(ziplistDeleteRange(node.zl, 0, offset + 1))>>
  ELSE <<Node(ziplistDeleteRange(node.zl, 0, offset)),
         Node(ziplistDeleteRange(node.zl, offset, -1))>>

\* v beside the entry at offset of node i.
_quicklistInsert(ql, i, offset, v, after) ==
  LET node      == ql.nodes[i]
      full      == ~_quicklistNodeAllowInsert(ql, i, v)
      at_tail   == after /\ offset = node.count
      at_head   == ~after /\ offset = 0
      near      == IF after THEN i + 1 ELSE i - 1
      full_near == ~_quicklistNodeAllowInsert(ql, near, v)
      p         == IF after THEN offset + 2 ELSE offset + 1
      parts     == _quicklistSplitNode(node, offset, after)
      new       == Update(parts[2], IF after THEN <<v>> \o parts[2].zl
                                    ELSE Append(parts[2].zl, v), 1)
      split     == __quicklistInsertNode([ql EXCEPT !.nodes[i] = parts[1]],
                                         IF after THEN i + 1 ELSE i, new)
      inserted  ==
        IF ~full THEN [ql EXCEPT !.nodes[i] = Update(@, InsertAt(@.zl, p, v), 1)]
        ELSE IF (at_tail \/ at_head) /\ Exists(ql, near)
        THEN IF full_near
             THEN __quicklistInsertNode(ql, IF after THEN i + 1 ELSE i, Node(<<v>>))
             ELSE [ql EXCEPT !.nodes[near] =
                     Update(@, IF after THEN <<v>> \o @.zl ELSE Append(@.zl, v), 1)]
        ELSE _quicklistMergeNodes(split, IF after THEN i ELSE i + 1)
  IN  [inserted EXCEPT !.count = @ + 1]

-----------------------------------------------------------------------------
(* Ranges and iterators.                                                   *)

\* Mutant: a partial deletion leaves the cached count of the list alone.
DelFromNodeUncounted(ql, i, offset, del) ==
  [ql EXCEPT !.nodes[i] = Update(@, ziplistDeleteRange(@.zl, offset, del), -del)]

\* del entries of node i from offset on, and the node if that empties it.
DelFromNode(ql, i, offset, del) ==
  LET left == [ql EXCEPT
                 !.nodes[i] = Update(@, ziplistDeleteRange(@.zl, offset, del), -del),
                 !.count = @ - del]
  IN  IF left.nodes[i].count = 0 THEN __quicklistDelNode(left, i) ELSE left

\* One round of the loop: s is the list, the node, the offset and how many
\* entries are still to go.
DelRound(s) ==
  LET node == s.ql.nodes[s.i]
      whole == s.offset = 0 /\ s.extent >= node.count
      del == IF whole THEN node.count
             ELSE IF s.offset >= 0 /\ s.extent >= node.count THEN node.count - s.offset
             ELSE IF s.offset < 0 THEN Min({-s.offset, s.extent})
             ELSE s.extent
      ql == IF whole THEN __quicklistDelNode(s.ql, s.i)
            ELSE DelFromNode(s.ql, s.i, s.offset, del)
  IN  [ql |-> ql, offset |-> 0, extent |-> s.extent - del,
       i |-> IF Len(ql.nodes) < Len(s.ql.nodes) THEN s.i ELSE s.i + 1]

quicklistDelRange(ql, start, count) ==
  LET extent == IF start >= 0 THEN Min({count, ql.count - start})
                ELSE Min({count, -start})
      at     == quicklistIndex(ql, start)
      first  == [ql |-> ql, i |-> at[1], offset |-> at[2], extent |-> extent]
      rounds == FoldLeft(LAMBDA s, k : IF s.extent = 0 THEN s ELSE DelRound(s),
                         first, ql.nodes)
  IN  IF count <= 0 \/ at[1] = 0 THEN ql ELSE rounds.ql

\* An iterator: the list, the current node (0 past the end), the offset in
\* it, whether it has an entry in hand (zi), and its direction, 1 or -1.
quicklistGetIteratorAtIdx(ql, direction, idx) ==
  LET at == quicklistIndex(ql, idx)
  IN  [ql |-> ql, current |-> at[1], offset |-> at[2], zi |-> FALSE,
       direction |-> direction]

\* The position the iterator comes to in its node, 0 when it has run out.
Reached(it) ==
  LET zl   == it.ql.nodes[it.current].zl
      here == ziplistIndex(zl, it.offset)
      next == here + it.direction
  IN  IF ~it.zi THEN here ELSE IF next \in DOMAIN zl THEN next ELSE 0

\* quicklistNext: the next entry of this node, or the first of a later one.
quicklistNext(it) ==
  LET d     == it.direction
      later == {j \in DOMAIN it.ql.nodes :
                  /\ IF d = 1 THEN j > it.current ELSE j < it.current
                  /\ it.ql.nodes[j].zl # <<>>}
  IN  IF it.current = 0 THEN it
      ELSE IF Reached(it) # 0
      THEN [it EXCEPT !.zi = TRUE, !.offset = IF it.zi THEN @ + d ELSE @]
      ELSE IF later = {} THEN [it EXCEPT !.current = 0]
      ELSE [it EXCEPT !.current = IF d = 1 THEN Min(later) ELSE Max(later),
                      !.offset  = IF d = 1 THEN 0 ELSE -1,
                      !.zi      = TRUE]

InHand(it) == ziplistIndex(it.ql.nodes[it.current].zl, it.offset)

\* Deletes the entry in hand; the iterator keeps its offset, or goes to the
\* neighbour of a node that is gone.
quicklistDelEntry(it) ==
  LET ql   == quicklistDelIndex(it.ql, it.current, InHand(it))
      gone == Len(ql.nodes) < Len(it.ql.nodes)
      step == IF it.direction = 1 THEN it.current ELSE it.current - 1
  IN  IF ~gone THEN [it EXCEPT !.ql = ql, !.zi = FALSE]
      ELSE [it EXCEPT !.ql = ql, !.zi = FALSE,
                      !.current = IF step \in DOMAIN ql.nodes THEN step ELSE 0,
                      !.offset  = IF it.direction = 1 THEN 0 ELSE -1]

=============================================================================
