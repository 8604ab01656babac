------------------------------- MODULE ZipList -------------------------------
(***************************************************************************)
(* The ziplist of ziplist.c: entries packed one after the other, each      *)
(* behind the length of the one before it, which takes one byte or five.   *)
(* A ziplist is a record of the three header fields and the entries; an    *)
(* entry is                                                                *)
(*   [prevsize, prevlen, str, size, data]                                  *)
(* with the size of its payload, and as data an item or a number.  Entries *)
(* are numbered from 1, and the end marker comes after the last; pointers  *)
(* are offsets in bytes.                                                   *)
(*                                                                         *)
(* An item is a string, [len, text], or a string that is the decimal form  *)
(* of a number, [len, num].                                                *)
(***************************************************************************)
EXTENDS Integers, SequencesExt

CONSTANTS
  Item,          \* what clients store and look for
  Batches,       \* sequences of items: the other list of a merge
  MaxEntries,    \* bound on the entries of the list
  Indexes,       \* indexes clients pass
  LenMax,        \* UINT16_MAX
  BigPrevlen,    \* ZIP_BIG_PREVLEN: 254
  IntBits,       \* the bits in a byte of an integer: 8
  NULL           \* no entry

ASSUME ZipListAssumption ==
  {MaxEntries, LenMax, BigPrevlen} \subseteq Nat /\ IntBits \in Nat \ {0}

VARIABLES
  zl,       \* the ziplist
  cut,      \* a move of bytes lost some of them
  call,     \* the last operation: <<name, arguments>>
  reply     \* and what it returned

vars == <<zl, cut, call, reply>>

HeaderSize == 10     \* ZIPLIST_HEADER_SIZE, and ZIPLIST_END_SIZE
EndSize    == 1

-----------------------------------------------------------------------------
(* Entries.                                                                *)

IsNumber(item) == "num" \in DOMAIN item

\* Half the numbers that so many bytes can hold; the others are negative.
Half(bytes) == 2 ^ (IntBits * bytes - 1)

\* The bytes of an integer: none if it fits in the encoding byte.
zipIntSize(num) ==
  IF num \in 0 .. 12 THEN 0
  ELSE Min({bytes \in 1 .. 4 : num \in -Half(bytes) .. Half(bytes) - 1} \cup {8})

\* The number that the entry keeps instead of the string.
zipTryEncoding(item) == "num" \in DOMAIN item /\ item.len < 32

\* What is read back of a number written in so many bytes.
zipSaveInteger(num, bytes) ==
  LET low == num % (2 * Half(bytes))
  IN  IF bytes = 0 THEN num ELSE IF low >= Half(bytes) THEN low - 2 * Half(bytes) ELSE low

Encode(item) ==
  LET bytes == zipIntSize(item.num) IN
  IF zipTryEncoding(item)
  THEN [str |-> FALSE, size |-> bytes, data |-> zipSaveInteger(item.num, bytes)]
  ELSE [str |-> TRUE, size |-> item.len, data |-> item]

zipStorePrevEntryLength(len) == IF len < BigPrevlen THEN 1 ELSE 5

zipStoreEntryEncoding(e) ==
  IF ~e.str \/ e.size <= 63 THEN 1 ELSE IF e.size <= 16383 THEN 2 ELSE 5

\* The bytes behind the previous length.
Body(e) == zipStoreEntryEncoding(e) + e.size

zipRawEntryLength(e) == e.prevsize + Body(e)

ziplistNew ==
  [bytes |-> HeaderSize + EndSize, tail |-> HeaderSize, len |-> 0, entries |-> <<>>]

Size(z) == Len(z.entries)

\* The offset of entry k, or of the end marker.
Offset(z, k) ==
  LET at[j \in 1 .. Size(z) + 1] ==
        IF j = 1 THEN HeaderSize ELSE at[j - 1] + zipRawEntryLength(z.entries[j - 1])
  IN  at[k]

\* The entry at an offset; 0 where none starts.
EntryAt(z, p) ==
  LET found == {k \in 1 .. Size(z) + 1 : Offset(z, k) = p}
  IN  IF found = {} THEN 0 ELSE CHOOSE k \in found : TRUE

\* ZIPLIST_INCR_LENGTH.
Count(z, n) == IF z.len < LenMax THEN z.len + n ELSE z.len

-----------------------------------------------------------------------------
(* Changes.  Each gives the ziplist.                                       *)

\* From entry from on, writes the length of each entry into the next, until
\* one has it already or has room for it.  A field never shrinks.
__ziplistCascadeUpdate(z, from) ==
  LET step(s, k) ==
        LET rawlen == zipRawEntryLength(s.z.entries[k])
            next   == s.z.entries[k + 1]
            size   == zipStorePrevEntryLength(rawlen)
            extra  == size - next.prevsize
            isTail == s.z.tail = Offset(s.z, k + 1)
        IN  IF ~s.going \/ next.prevlen = rawlen THEN [s EXCEPT !.going = FALSE]
            ELSE IF extra > 0
            THEN [z |-> [s.z EXCEPT
                           !.bytes = @ + extra,
                           !.tail = IF isTail THEN @ ELSE @ + extra,
                           !.entries[k + 1] = [@ EXCEPT !.prevsize = size,
                                                        !.prevlen = rawlen]],
                  going |-> TRUE]
            ELSE [z |-> [s.z EXCEPT !.entries[k + 1].prevlen = rawlen],
                  going |-> FALSE]
  IN  FoldLeft(step, [z |-> z, going |-> TRUE],
               [i \in 1 .. Size(z) - from |-> from + i - 1]).z

\* The entry after num entries from k on, and how their deletion changes its
\* size.
After(z, k, num) == Min({Size(z) + 1, k + num})
DeleteDiff(z, k, n) ==
  IF n > Size(z) THEN 0
  ELSE zipStorePrevEntryLength(z.entries[k].prevlen) - z.entries[n].prevsize

__ziplistDelete(z, k, num) ==
  LET n      == After(z, k, num)
      first  == z.entries[k]
      totlen == Offset(z, n) - Offset(z, k)
      diff   == DeleteDiff(z, k, n)
      after  == IF n > Size(z) THEN <<>>
                ELSE <<[z.entries[n] EXCEPT !.prevsize = @ + diff,
                                            !.prevlen = first.prevlen]>>
                     \o SubSeq(z.entries, n + 1, Size(z))
      left   == [bytes |-> z.bytes - totlen + diff,
                 tail  |-> IF n > Size(z) THEN Offset(z, k) - first.prevlen
                           ELSE z.tail - totlen + IF n = Size(z) THEN 0 ELSE diff,
                 len   |-> Count(z, k - n),
                 entries |-> SubSeq(z.entries, 1, k - 1) \o after]
  IN  IF diff # 0 THEN __ziplistCascadeUpdate(left, k) ELSE left

\* The size of the entry for item at k, and how the next one changes its own.
PrevlenAt(z, k) ==
  IF k <= Size(z) THEN z.entries[k].prevlen
  ELSE IF EntryAt(z, z.tail) \in 1 .. Size(z)
  THEN zipRawEntryLength(z.entries[EntryAt(z, z.tail)]) ELSE 0

Required(z, k, item) ==
  Body(Encode(item)) + zipStorePrevEntryLength(PrevlenAt(z, k))

\* Mutant: the field of the next entry may shrink by more than comes in.
AnyDiff(reqlen, diff) == diff

\* It keeps its five bytes if the new entry has fewer than the four it saves.
Forced(reqlen, diff) == IF diff = -4 /\ reqlen < 4 THEN 0 ELSE diff

InsertDiff(z, k, item) ==
  IF k > Size(z) THEN 0
  ELSE Forced(Required(z, k, item),
              zipStorePrevEntryLength(Required(z, k, item)) - z.entries[k].prevsize)

__ziplistInsert(z, k, item) ==
  LET prevlen == PrevlenAt(z, k)
      reqlen  == Required(z, k, item)
      diff    == InsertDiff(z, k, item)
      new     == [prevsize |-> zipStorePrevEntryLength(prevlen), prevlen |-> prevlen]
                 @@ Encode(item)
      after   == IF k > Size(z) THEN <<>>
                 ELSE <<[z.entries[k] EXCEPT !.prevsize = @ + diff, !.prevlen = reqlen]>>
                      \o SubSeq(z.entries, k + 1, Size(z))
      grown   == [bytes |-> z.bytes + reqlen + diff,
                  tail  |-> IF k > Size(z) THEN Offset(z, k)
                            ELSE z.tail + reqlen + IF k = Size(z) THEN 0 ELSE diff,
                  len   |-> Count(z, 1),
                  entries |-> SubSeq(z.entries, 1, k - 1) \o <<new>> \o after]
  IN  IF diff # 0 THEN __ziplistCascadeUpdate(grown, k + 1) ELSE grown

\* second goes behind first; neither is empty.
ziplistMerge(first, second) ==
  LET both == [bytes |-> first.bytes + second.bytes - HeaderSize - EndSize,
               tail  |-> first.bytes - EndSize + second.tail - HeaderSize,
               len   |-> Min({LenMax, first.len + second.len}),
               entries |-> first.entries \o second.entries]
  IN  __ziplistCascadeUpdate(both, EntryAt(both, first.tail))

-----------------------------------------------------------------------------
(* Reads.  A pointer is an offset, and NULL is none.                       *)

\* Back from the tail over the lengths of the entries before.
ziplistPrev(z, p) ==
  LET k == EntryAt(z, p)
  IN  IF k = Size(z) + 1 THEN IF Size(z) = 0 THEN NULL ELSE z.tail
      ELSE IF p = HeaderSize THEN NULL ELSE p - z.entries[k].prevlen

ziplistNext(z, p) ==
  LET k == EntryAt(z, p) IN IF k >= Size(z) THEN NULL ELSE Offset(z, k + 1)

\* From the head, or with a negative index from the tail.
ziplistIndex(z, index) ==
  LET step(s, i) ==
        LET prevlen == z.entries[EntryAt(z, s.p)].prevlen
        IN  IF prevlen > 0 THEN [p |-> s.p - prevlen, left |-> s.left - 1] ELSE s
      back == FoldLeft(step, [p |-> z.tail, left |-> -index - 1],
                       [i \in 1 .. -index - 1 |-> i])
  IN  IF index >= 0
      THEN IF index < Size(z) THEN Offset(z, index + 1) ELSE NULL
      ELSE IF Size(z) = 0 \/ back.left > 0 THEN NULL ELSE back.p

ziplistGet(z, p) ==
  IF p = NULL \/ EntryAt(z, p) \notin 1 .. Size(z) THEN NULL
  ELSE z.entries[EntryAt(z, p)].data

Holds(e, item) ==
  IF e.str THEN e.size = item.len /\ e.data = item
  ELSE zipTryEncoding(item) /\ e.data = item.num

ziplistCompare(z, p, item) == Holds(z.entries[EntryAt(z, p)], item)

\* From p on, looking at one entry in skip + 1.
ziplistFind(z, p, item, skip) ==
  LET from == EntryAt(z, p)
      hits == {k \in from .. Size(z) :
                 (k - from) % (skip + 1) = 0 /\ Holds(z.entries[k], item)}
  IN  IF hits = {} THEN NULL ELSE Offset(z, Min(hits))

\* Mutant: the header is taken at its word.
HeaderLen(z) == z.len

\* Counts the entries if the header does not know, and writes the header if
\* it can.
ziplistLen(z) == IF z.len < LenMax THEN z.len ELSE Size(z)

-----------------------------------------------------------------------------
(* Operations on the list, at a pointer that a read has given.             *)

Init ==
  zl = ziplistNew /\ cut = FALSE /\ call = <<"none", <<>>>> /\ reply = NULL

Return(op, args, out) == call' = <<op, args>> /\ reply' = out

Answer(op, args, out) == UNCHANGED <<zl, cut>> /\ Return(op, args, out)

\* ziplistInsert, and ziplistPush at either end.  The list is resized before
\* its bytes are moved.
Insert(k, item) ==
  /\ Size(zl) < MaxEntries
  /\ zl' = __ziplistInsert(zl, k, item)
  /\ cut' = (cut \/ (k <= Size(zl) /\ Required(zl, k, item) + InsertDiff(zl, k, item) < 0))
  /\ Return("insert", <<k, item>>, NULL)

\* The next entry is written over the last of those removed where it grows.
DeleteFrom(k, num) ==
  LET n == After(zl, k, num)
  IN  /\ zl' = __ziplistDelete(zl, k, num)
      /\ cut' = (cut \/ DeleteDiff(zl, k, n) > Offset(zl, n) - Offset(zl, k))

\* The caller goes on at the same offset.
Delete(k) ==
  /\ DeleteFrom(k, 1)
  /\ Return("delete", k, ziplistGet(zl', Offset(zl, k)))

DeleteRange(index, num) ==
  LET p == ziplistIndex(zl, index)
  IN  /\ IF p = NULL \/ num = 0 THEN UNCHANGED <<zl, cut>>
         ELSE DeleteFrom(EntryAt(zl, p), num)
      /\ Return("range", <<index, num>>, NULL)

Pushed(batch) ==
  FoldLeft(LAMBDA z, item : __ziplistInsert(z, Size(z) + 1, item), ziplistNew, batch)

Merge(batch, behind) ==
  /\ Size(zl) > 0 /\ Size(zl) + Len(batch) <= MaxEntries
  /\ zl' = IF behind THEN ziplistMerge(zl, Pushed(batch)) ELSE ziplistMerge(Pushed(batch), zl)
  /\ Return("merge", <<batch, behind>>, NULL) /\ UNCHANGED cut

Index(index) == Answer("index", index, ziplistGet(zl, ziplistIndex(zl, index)))
NextOf(k)    == Answer("next", k, ziplistGet(zl, ziplistNext(zl, Offset(zl, k))))
PrevOf(k)    == Answer("prev", k, ziplistGet(zl, ziplistPrev(zl, Offset(zl, k))))

Compare(k, item) == Answer("compare", <<k, item>>, ziplistCompare(zl, Offset(zl, k), item))

Find(item, skip) ==
  LET p == ziplistFind(zl, HeaderSize, item, skip)
  IN  Answer("find", <<item, skip>>, IF p = NULL THEN 0 ELSE EntryAt(zl, p))

Length ==
  /\ zl' = [zl EXCEPT !.len = IF ziplistLen(zl) < LenMax THEN ziplistLen(zl) ELSE @]
  /\ Return("len", <<>>, ziplistLen(zl)) /\ UNCHANGED cut

Next ==
  \/ \E k \in 1 .. Size(zl) + 1, item \in Item : Insert(k, item)
  \/ \E k \in 1 .. Size(zl) : Delete(k) \/ \E item \in Item : Compare(k, item)
  \/ \E index \in Indexes, num \in 0 .. 2 : DeleteRange(index, num)
  \/ \E batch \in Batches, behind \in BOOLEAN : Merge(batch, behind)
  \/ \E index \in Indexes : Index(index)
  \/ \E k \in 1 .. Size(zl) + 1 : NextOf(k) \/ PrevOf(k)
  \/ \E item \in Item, skip \in 0 .. 1 : Find(item, skip)
  \/ Length

Spec == Init /\ [][Next]_vars

-----------------------------------------------------------------------------
(* Properties.                                                             *)

\* Every entry knows the length of the one before it and has room for it, the
\* header knows the bytes, the tail and, unless there are too many, the number
\* of entries; and no resize or move of bytes has lost any (ziplist.c:615,
\* 677, 742, 855: the cascade may stop only where all that follows is right).
HeadersExact ==
  /\ \A k \in 1 .. Size(zl) :
       LET e == zl.entries[k]
           before == IF k = 1 THEN 0 ELSE zipRawEntryLength(zl.entries[k - 1])
       IN  e.prevlen = before /\ e.prevsize >= zipStorePrevEntryLength(before)
  /\ zl.bytes = Offset(zl, Size(zl) + 1) + EndSize
  /\ zl.tail = Offset(zl, Max({1, Size(zl)}))
  /\ zl.len = LenMax \/ zl.len = Size(zl)
  /\ ~cut

\* The ziplist is the sequence of the items stored in it, and every walk over
\* it, from either end, sees that sequence (ziplist.c:964, 992, 1011, 1107).
Entries == INSTANCE PackedSequence WITH
             seq <- [k \in 1 .. Size(zl) |->
                       CHOOSE item \in Item : Holds(zl.entries[k], item)]

ImplementsSequence == Entries!Spec

=============================================================================
