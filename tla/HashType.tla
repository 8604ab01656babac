------------------------------ MODULE HashType ------------------------------
(***************************************************************************)
(* The hash objects of t_hash.c: a ziplist in which a field is followed by *)
(* its value, or a dictionary.  Strings a ziplist stores as integers come  *)
(* back in the spelling they had.                                          *)
(***************************************************************************)
EXTENDS Values, SequencesExt

CONSTANTS
  Long,   \* the strings longer than OBJ_HASH_MAX_ZIPLIST_VALUE
  NoValue \* no such field

\* A long long is printed in fewer characters than the limit.
ASSUME HashTypeAssumption == Long \subseteq Strings \ Numbers /\ NoValue \notin Strings

ZiplistHash(zl) == [enc |-> "ziplist", zl |-> zl, ht |-> <<>>]
TableHash(ht)   == [enc |-> "ht", zl |-> <<>>, ht |-> ht]

createHashObject == ZiplistHash(<<>>)

\* ziplistFind with skip 1: entries 1, 3, ... are compared; 0 when absent.
FieldIndex(zl, field) ==
  LET hits == {i \in DOMAIN zl : i % 2 = 1 /\ zl[i] = field}
  IN  IF hits = {} THEN 0 ELSE Min(hits)

hashTypeLength(h) ==
  IF h.enc = "ziplist" THEN Len(h.zl) \div 2 ELSE Cardinality(DOMAIN h.ht)

\* The pairs in iteration order, each field added with dictAdd: of two
\* equal fields the first stays.
hashTypeConvert(h) ==
  LET zl == h.zl IN
  IF h.enc = "ht" THEN h
  ELSE TableHash([f \in {zl[i] : i \in {j \in DOMAIN zl : j % 2 = 1}} |->
                    zl[FieldIndex(zl, f) + 1]])

hashTypeTryConversion(h, args) ==
  IF \E i \in DOMAIN args : args[i] \in Long THEN hashTypeConvert(h) ELSE h

hashTypeGetValue(h, field) ==
  IF h.enc = "ziplist"
  THEN LET i == FieldIndex(h.zl, field)
       IN  IF i = 0 THEN NoValue ELSE h.zl[i + 1]
  ELSE IF field \in DOMAIN h.ht THEN h.ht[field] ELSE NoValue

hashTypeExists(h, field) == hashTypeGetValue(h, field) # NoValue

\* max is OBJ_ZSET_MAX_ZIPLIST_ENTRIES, the limit this function reads.
hashTypeSet(h, field, value, max) ==
  LET i   == FieldIndex(h.zl, field)
      zl  == IF i # 0
             THEN InsertAt(RemoveAt(h.zl, i + 1), i + 1, value)
             ELSE h.zl \o <<field, value>>
      new == ZiplistHash(zl)
  IN  IF h.enc = "ht"
      THEN TableHash([f \in DOMAIN h.ht \cup {field} |->
                        IF f = field THEN value ELSE h.ht[f]])
      ELSE IF hashTypeLength(new) > max THEN hashTypeConvert(new) ELSE new

\* Deletes the entry that held the field, then the one that followed it.
hashTypeDelete(h, field) ==
  LET i == FieldIndex(h.zl, field) IN
  IF h.enc = "ht" THEN TableHash(Restrict(h.ht, DOMAIN h.ht \ {field}))
  ELSE IF i = 0 THEN h
  ELSE ZiplistHash(RemoveAt(RemoveAt(h.zl, i), i))

\* What the iterator yields: a set of <<field, value>>.
hashTypePairs(h) ==
  IF h.enc = "ziplist"
  THEN {<<h.zl[i], h.zl[i + 1]>> : i \in {j \in DOMAIN h.zl : j % 2 = 1}}
  ELSE {<<f, h.ht[f]>> : f \in DOMAIN h.ht}

=============================================================================
