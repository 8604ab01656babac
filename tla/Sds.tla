--------------------------------- MODULE Sds ---------------------------------
(***************************************************************************)
(* The dynamic strings of sds.c.  A string is a record of its header type, *)
(* the two numbers of the header, as wide as the type has them, and the    *)
(* buffer behind it, which ends with one byte for the terminator.  Types   *)
(* are numbered from 1, SDS_TYPE_5, which does not know of free space: its *)
(* alloc is its length.                                                    *)
(***************************************************************************)
EXTENDS Integers, SequencesExt

CONSTANTS
  TypeSize,      \* <<2^5, 2^8, 2^16, 2^32>>: lengths that do not fit a type
  MaxPrealloc,   \* SDS_MAX_PREALLOC
  Unwritten      \* a byte of fresh memory

ASSUME SdsAssumption ==
  /\ TypeSize \in Seq(Nat \ {0})
  /\ \A t, u \in DOMAIN TypeSize : t < u => TypeSize[t] < TypeSize[u]
  /\ MaxPrealloc \in Nat
  /\ Unwritten \notin Int

Type5 == 1
Type8 == 2

\* What a header field of the type keeps of a number.
Stored(type, n) == IF type \in DOMAIN TypeSize THEN n % TypeSize[type] ELSE n

sdsReqType(size) ==
  Min({Len(TypeSize) + 1} \cup {t \in DOMAIN TypeSize : size < TypeSize[t]})

\* Type 5 is not for strings that are appended to.
AppendType(size) == Max({Type8, sdsReqType(size)})

Fill(n, byte) == [i \in 1 .. n |-> byte] \o <<>>

sdsnewlen(bytes) ==
  LET n    == Len(bytes)
      type == IF n = 0 THEN Type8 ELSE sdsReqType(n)
  IN  [type |-> type, len |-> Stored(type, n), alloc |-> Stored(type, n),
       buf |-> Append(bytes, 0)]

sdsContent(s) == SubSeq(s.buf, 1, s.len)

sdsavail(s) == IF s.type = Type5 THEN 0 ELSE s.alloc - s.len

sdssetlen(s, n) ==
  [s EXCEPT !.len = Stored(s.type, n), !.alloc = IF s.type = Type5 THEN Stored(Type5, n) ELSE @]

\* From offset at on.
Write(s, at, bytes) ==
  [s EXCEPT !.buf = SubSeq(@, 1, at) \o bytes \o SubSeq(@, at + Len(bytes) + 1, Len(@))]

\* Mutant: the type is chosen before the length is doubled.
NeededSize(needed, newlen) == needed

\* The size that the header has to be able to count.
CountedSize(needed, newlen) == newlen

sdsMakeRoomFor(s, addlen) ==
  LET needed == s.len + addlen
      newlen == IF needed < MaxPrealloc THEN 2 * needed ELSE needed + MaxPrealloc
      type   == AppendType(CountedSize(needed, newlen))
  IN  IF sdsavail(s) >= addlen THEN s
      ELSE [type |-> type, len |-> Stored(type, s.len), alloc |-> Stored(type, newlen),
            buf |-> SubSeq(s.buf, 1, s.len + 1) \o Fill(newlen - s.len, Unwritten)]

sdsgrowzero(s, len) ==
  IF len <= s.len THEN s
  ELSE sdssetlen(Write(sdsMakeRoomFor(s, len - s.len), s.len, Fill(len - s.len + 1, 0)), len)

sdscatlen(s, bytes) ==
  sdssetlen(Write(sdsMakeRoomFor(s, Len(bytes)), s.len, Append(bytes, 0)),
            s.len + Len(bytes))

\* A buffer of the size that the header says, which holds as many bytes as
\* the header says, all written, and a terminator behind them.
Sound(s) ==
  /\ s.len <= s.alloc
  /\ Len(s.buf) = s.alloc + 1
  /\ s.buf[s.len + 1] = 0
  /\ \A i \in 1 .. s.len : s.buf[i] # Unwritten

=============================================================================
