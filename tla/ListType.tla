------------------------------ MODULE ListType ------------------------------
(***************************************************************************)
(* The list commands of t_list.c on one key, over the quicklists of        *)
(* QuickList.  The key holds nothing, a string, or a quicklist.            *)
(***************************************************************************)
EXTENDS QuickList

CONSTANTS
  ValueLists, Indexes, Nil,   \* as in Lists
  MaxLen                      \* bound on the length of the list

ASSUME ListTypeAssumption ==
  /\ ValueLists \subseteq Seq(Value) \ {<<>>}
  /\ Indexes \subseteq Int
  /\ MaxLen \in Nat

VARIABLES
  val,      \* what the key holds
  call,     \* the last command: <<name, arguments>>
  reply     \* and what it returned: <<status, result>>

vars == <<val, call, reply>>

None    == [type |-> "none"]
Foreign == [type |-> "string"]
List(q) == [type |-> "list", ql |-> q]

Ends == {"head", "tail"}

Init == val = None /\ call = <<"none", <<>>>> /\ reply = <<"OK", Nil>>

Return(cmd, args, status, out) == call' = <<cmd, args>> /\ reply' = <<status, out>>

\* lookupKeyWrite or lookupKeyRead, and checkType.
NotAList(cmd, args) ==
  val.type # "list" /\ UNCHANGED val /\ Return(cmd, args, "KEY_NOT_EXIST", Nil)

IsList == val.type = "list"

\* Mutant: the key is kept whatever the length.
KeepAlways(ql) == List(ql)

\* listTypeLength is read after the change; an empty list goes with its key.
Keep(ql) == IF ql.count = 0 THEN None ELSE List(ql)

listTypePush(ql, vals, where) ==
  FoldLeft(LAMBDA q, v : quicklistPush(q, v, where), ql, vals)

Room(n) == (IF IsList THEN val.ql.count ELSE 0) + n <= MaxLen

pushGenericCommand(where, vals) ==
  /\ Room(Len(vals))
  /\ IF val.type = "string"
     THEN UNCHANGED val /\ Return("push", <<where, vals>>, "ERR", Nil)
     ELSE /\ val' = List(listTypePush(IF IsList THEN val.ql ELSE quicklistCreate,
                                 vals, where))
          /\ Return("push", <<where, vals>>, "OK", Nil)

pushxGenericCommand(where, vals) ==
  \/ NotAList("pushx", <<where, vals>>)
  \/ /\ IsList
     /\ Room(Len(vals))
     /\ val' = List(listTypePush(val.ql, vals, where))
     /\ Return("pushx", <<where, vals>>, "OK", Nil)

popGenericCommand(where) ==
  \/ NotAList("pop", where)
  \/ /\ IsList
     /\ LET popped == quicklistPopCustom(val.ql, where)
        IN  val' = Keep(popped.ql) /\ Return("pop", where, "OK", popped.value)

RcLPush(vals)  == pushGenericCommand("head", vals)
RcRPush(vals)  == pushGenericCommand("tail", vals)
RcLPushx(vals) == pushxGenericCommand("head", vals)
RcRPushx(vals) == pushxGenericCommand("tail", vals)
RcLPop         == popGenericCommand("head")
RcRPop         == popGenericCommand("tail")

\* The list commands' iterators and the entry one has in hand.
listTypeInitIterator(ql, direction) ==
  quicklistGetIteratorAtIdx(ql, direction, IF direction = 1 THEN 0 ELSE -1)

ElementOf(it) == it.ql.nodes[it.current].zl[InHand(it)]

\* Seeks the pivot from the head, then inserts beside it.
RcLInsert(where, pivot, v) ==
  \/ NotAList("linsert", <<where, pivot, v>>)
  \/ /\ IsList
     /\ Room(1)
     /\ LET seek(it, k) == IF it.current # 0 /\ it.zi /\ ElementOf(it) = pivot
                           THEN it ELSE quicklistNext(it)
            found == FoldLeft(seek, listTypeInitIterator(val.ql, 1),
                              <<"first">> \o Entries(val.ql))
        IN  val' = IF found.current = 0 THEN val
                   ELSE List(_quicklistInsert(val.ql, found.current, found.offset,
                                              v, where = "tail"))
     /\ Return("linsert", <<where, pivot, v>>, "OK", Nil)

\* One round of the loop of LREM: s.left is 0 once count entries are gone,
\* and never 0 for a count of 0.
RemoveNext(s, v) ==
  LET it == quicklistNext(s.it) IN
  IF s.left = 0 THEN s
  ELSE IF it.current = 0 \/ ElementOf(it) # v THEN [s EXCEPT !.it = it]
  ELSE [it |-> quicklistDelEntry(it), left |-> s.left - 1]

RcLRem(count, v) ==
  \/ NotAList("lrem", <<count, v>>)
  \/ /\ IsList
     /\ LET start == listTypeInitIterator(val.ql, IF count < 0 THEN -1 ELSE 1)
            size  == IF count < 0 THEN -count ELSE IF count = 0 THEN -1 ELSE count
            swept == FoldLeft(LAMBDA s, k : RemoveNext(s, v),
                              [it |-> start, left |-> size], Entries(val.ql))
        IN  val' = Keep(swept.it.ql)
     /\ Return("lrem", <<count, v>>, "OK", Nil)

RcLSet(i, v) ==
  \/ NotAList("lset", <<i, v>>)
  \/ /\ IsList
     /\ IF quicklistIndex(val.ql, i)[1] = 0
        THEN UNCHANGED val /\ Return("lset", <<i, v>>, "ITEM_NOT_EXIST", Nil)
        ELSE /\ val' = List(quicklistReplaceAtIndex(val.ql, i, v))
             /\ Return("lset", <<i, v>>, "OK", Nil)

\* The conversion of negative indexes that LRANGE and LTRIM share.
First(start, llen) == Max({0, IF start < 0 THEN llen + start ELSE start})
Final(end, llen)   == Min({llen - 1, IF end < 0 THEN llen + end ELSE end})

RcLTrim(start, end) ==
  \/ NotAList("ltrim", <<start, end>>)
  \/ /\ IsList
     /\ LET llen  == val.ql.count
            empty == First(start, llen) > Final(end, llen)
            ltrim == IF empty THEN llen ELSE First(start, llen)
            rtrim == IF empty THEN 0 ELSE llen - Final(end, llen) - 1
            left  == quicklistDelRange(val.ql, 0, ltrim)
        IN  val' = Keep(quicklistDelRange(left, -rtrim, rtrim))
     /\ Return("ltrim", <<start, end>>, "OK", Nil)

\* rangelen calls of listTypeNext from start on.
RcLRange(start, end) ==
  \/ NotAList("lrange", <<start, end>>)
  \/ /\ IsList
     /\ UNCHANGED val
     /\ LET s == First(start, val.ql.count)
            e == Final(end, val.ql.count)
            take(acc, k) == LET it == quicklistNext(acc.it)
                            IN  [it |-> it, out |-> Append(acc.out, ElementOf(it))]
            read == FoldLeft(take, [it |-> quicklistGetIteratorAtIdx(val.ql, 1, s),
                                    out |-> <<>>], [k \in 1 .. e - s + 1 |-> k])
        IN  Return("lrange", <<start, end>>, "OK", read.out)

RcLIndex(i) ==
  \/ NotAList("lindex", i)
  \/ /\ IsList
     /\ UNCHANGED val
     /\ LET at == quicklistIndex(val.ql, i)
            zl == val.ql.nodes[at[1]].zl
        IN  IF at[1] = 0 THEN Return("lindex", i, "ITEM_NOT_EXIST", Nil)
            ELSE Return("lindex", i, "OK", zl[ziplistIndex(zl, at[2])])

RcLLen ==
  \/ NotAList("llen", <<>>)
  \/ IsList /\ UNCHANGED val /\ Return("llen", <<>>, "OK", val.ql.count)

\* What other commands do to the key: DEL or a deadline, and SET.
Vanish == val.type # "none" /\ val' = None /\ UNCHANGED <<call, reply>>

Become == val.type # "string" /\ val' = Foreign /\ UNCHANGED <<call, reply>>

Next ==
  \/ \E vals \in ValueLists :
       RcLPush(vals) \/ RcRPush(vals) \/ RcLPushx(vals) \/ RcRPushx(vals)
  \/ RcLPop \/ RcRPop
  \/ \E w \in Ends, pivot, v \in Value : RcLInsert(w, pivot, v)
  \/ \E i \in Indexes, v \in Value : RcLRem(i, v) \/ RcLSet(i, v)
  \/ \E i, j \in Indexes : RcLTrim(i, j) \/ RcLRange(i, j)
  \/ \E i \in Indexes : RcLIndex(i)
  \/ RcLLen \/ Vanish \/ Become

Spec == Init /\ [][Next]_vars

-----------------------------------------------------------------------------
(* Properties.                                                             *)

\* The cached counts and sizes are those of the entries, through every
\* split, merge and partial deletion, and no node is empty (quicklist.h:48).
NodesCounted ==
  val.type = "list" =>
    /\ val.ql.count = Len(Entries(val.ql))
    /\ \A i \in DOMAIN val.ql.nodes :
         LET n == val.ql.nodes[i] IN
         /\ n.zl \in Seq(Value) \ {<<>>}
         /\ n.count = Len(n.zl)
         /\ n.sz = ziplistBlobLen(n.zl)

\* An empty list does not stay in the keyspace (t_list.c:205, 405, 477).
NoEmptyList == val.type = "list" => val.ql.count > 0

\* Whatever the nodes, the key holds the sequence the commands promise and
\* every reply is the one that sequence gives.
L == INSTANCE Lists WITH
       val <- IF val.type = "list" THEN [type |-> "list", list |-> Entries(val.ql)]
              ELSE val

ImplementsLists == L!Spec

=============================================================================
