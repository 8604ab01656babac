------------------------------ MODULE SetType -------------------------------
(***************************************************************************)
(* The set objects of t_set.c: an intset while every member is an integer  *)
(* and there are few of them, a dictionary after that.  A dictionary is    *)
(* the set of its keys here; module Dict is about its tables.              *)
(***************************************************************************)
EXTENDS Values, IntSet

CONSTANT MaxIntsetEntries    \* OBJ_SET_MAX_INTSET_ENTRIES

ASSUME SetTypeAssumption ==
  /\ MaxIntsetEntries \in Nat
  /\ 2 * (LLMax + 1) = Power[4]    \* long long is int64_t

IntsetObject(is) == [enc |-> "intset", is |-> is, ht |-> {}]
SetObject(ht)    == [enc |-> "ht", is |-> intsetNew, ht |-> ht]

\* isSdsRepresentableAsLongLong: string2ll takes exactly the strings that
\* ll2string makes, so an integer member has one spelling.
setTypeCreate(value) ==
  IF IsNumber(value) THEN IntsetObject(intsetNew) ELSE SetObject({})

\* What an iterator yields, in the spelling of sdsfromlonglong.
setTypeMembers(s) ==
  IF s.enc = "ht" THEN s.ht
  ELSE {<<"num", n>> : n \in ToSet(intsetElements(s.is))}

setTypeSize(s) == IF s.enc = "ht" THEN Cardinality(s.ht) ELSE s.is.length

setTypeConvert(s) == SetObject(setTypeMembers(s))

\* Mutant: the member that forces the conversion is lost.
setTypeAddConvertOnly(s, value) ==
  IF s.enc = "ht" THEN SetObject(s.ht \cup {value})
  ELSE IF ~IsNumber(value) THEN setTypeConvert(s)
  ELSE IntsetObject(intsetAdd(s.is, value[2])[1])

setTypeAdd(s, value) ==
  IF s.enc = "ht" THEN SetObject(s.ht \cup {value})
  ELSE IF ~IsNumber(value)
       THEN SetObject(setTypeMembers(setTypeConvert(s)) \cup {value})
  ELSE LET added == intsetAdd(s.is, value[2]) IN
       IF added[2] /\ added[1].length > MaxIntsetEntries
       THEN setTypeConvert(IntsetObject(added[1]))
       ELSE IntsetObject(added[1])

setTypeIsMember(s, value) ==
  IF s.enc = "ht" THEN value \in s.ht
  ELSE IsNumber(value) /\ intsetFind(s.is, value[2])

setTypeRemove(s, value) ==
  IF s.enc = "ht" THEN SetObject(s.ht \ {value})
  ELSE IF IsNumber(value) THEN IntsetObject(intsetRemove(s.is, value[2])[1])
  ELSE s

\* SRANDMEMBER with a positive count below the size: from the whole set,
\* dropping members at random, or collecting them one by one at random;
\* either way any set of that size can come out.
RandomMembers(s, count) ==
  {T \in SUBSET setTypeMembers(s) : Cardinality(T) = count}

=============================================================================
