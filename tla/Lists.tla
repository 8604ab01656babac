------------------------------- MODULE Lists --------------------------------
(***************************************************************************)
(* What the list commands promise for one key: it holds nothing, something *)
(* that is not a list, or a sequence, and an empty sequence is nothing.    *)
(***************************************************************************)
EXTENDS Integers, SequencesExt

CONSTANTS
  Value,        \* the strings a list can hold
  ValueLists,   \* the arguments of the pushes
  Indexes,      \* the indexes and counts clients pass
  Nil           \* no result

VARIABLES val, call, reply

lvars == <<val, call, reply>>

None    == [type |-> "none"]
Foreign == [type |-> "string"]
List(l) == IF l = <<>> THEN None ELSE [type |-> "list", list |-> l]

l == IF val.type = "list" THEN val.list ELSE <<>>

Reply(cmd, args, status, out) == call' = <<cmd, args>> /\ reply' = <<status, out>>

\* A command on a list that exists: its new value and its result.
On(cmd, args, new, out) ==
  /\ call' = <<cmd, args>>
  /\ IF val.type = "list"
     THEN val' = List(new) /\ reply' = <<"OK", out>>
     ELSE UNCHANGED val /\ reply' = <<"KEY_NOT_EXIST", Nil>>

\* The elements of l at the positions I, in order.
At(I) == FoldLeft(LAMBDA acc, i : IF i \in I THEN Append(acc, l[i]) ELSE acc,
                  <<>>, [i \in 1 .. Len(l) |-> i])

\* The position of an index, which counts from the end when it is negative.
Position(i) == IF i < 0 THEN Len(l) + i + 1 ELSE i + 1

Between(start, end) == {p \in DOMAIN l : Position(start) <= p /\ p <= Position(end)}

Pushed(where, vals) == IF where = "head" THEN Reverse(vals) \o l ELSE l \o vals

Init == val = None /\ call = <<"none", <<>>>> /\ reply = <<"OK", Nil>>

Push(where, vals) ==
  /\ call' = <<"push", <<where, vals>>>>
  /\ IF val.type = "string" THEN UNCHANGED val /\ reply' = <<"ERR", Nil>>
     ELSE val' = List(Pushed(where, vals)) /\ reply' = <<"OK", Nil>>

Pushx(where, vals) == On("pushx", <<where, vals>>, Pushed(where, vals), Nil)

Pop(where) ==
  IF where = "head" THEN On("pop", where, Tail(l), l[1])
  ELSE On("pop", where, Front(l), Last(l))

\* Beside the first occurrence of pivot, if there is one.
LInsert(where, pivot, v) ==
  LET p == SelectInSeq(l, LAMBDA e : e = pivot)
  IN  On("linsert", <<where, pivot, v>>,
         IF p = 0 THEN l ELSE InsertAt(l, IF where = "head" THEN p ELSE p + 1, v), Nil)

\* The first count occurrences of v, the last -count, or all.
LRem(count, v) ==
  LET hits  == {i \in DOMAIN l : l[i] = v}
      doomed == {i \in hits :
                   \/ count = 0
                   \/ Cardinality({j \in hits : j <= i}) <= count
                   \/ Cardinality({j \in hits : j >= i}) <= -count}
  IN  On("lrem", <<count, v>>, At(DOMAIN l \ doomed), Nil)

LTrim(start, end) == On("ltrim", <<start, end>>, At(Between(start, end)), Nil)

LRange(start, end) == On("lrange", <<start, end>>, l, At(Between(start, end)))

\* LSET and LINDEX have a status of their own for an index out of range.
LSet(i, v) ==
  IF val.type = "list" /\ Position(i) \notin DOMAIN l
  THEN UNCHANGED val /\ Reply("lset", <<i, v>>, "ITEM_NOT_EXIST", Nil)
  ELSE On("lset", <<i, v>>, [l EXCEPT ![Position(i)] = v], Nil)

LIndex(i) ==
  IF val.type = "list" /\ Position(i) \notin DOMAIN l
  THEN UNCHANGED val /\ Reply("lindex", i, "ITEM_NOT_EXIST", Nil)
  ELSE On("lindex", i, l, l[Position(i)])

LLen == On("llen", <<>>, l, Len(l))

\* DEL, SET and expiry.
Other == val' \in {None, Foreign} /\ UNCHANGED <<call, reply>>

Next ==
  \/ \E w \in {"head", "tail"}, vals \in ValueLists : Push(w, vals) \/ Pushx(w, vals)
  \/ \E w \in {"head", "tail"} : Pop(w)
  \/ \E w \in {"head", "tail"}, pivot, v \in Value : LInsert(w, pivot, v)
  \/ \E i \in Indexes, v \in Value : LRem(i, v) \/ LSet(i, v)
  \/ \E i, j \in Indexes : LTrim(i, j) \/ LRange(i, j)
  \/ \E i \in Indexes : LIndex(i)
  \/ LLen
  \/ Other

Spec == Init /\ [][Next]_lvars

=============================================================================
