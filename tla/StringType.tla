----------------------------- MODULE StringType -----------------------------
(***************************************************************************)
(* The commands of t_string.c and bitops.c that read and write the bytes   *)
(* of a value, on one key.  The key holds nothing, a list, or a string     *)
(* object: a number, or bytes in an embedded or a raw string.              *)
(*                                                                         *)
(* A byte has ByteBits bits, eight; bytes are numbers.                     *)
(***************************************************************************)
EXTENDS Sds

CONSTANTS
  ByteBits,       \* bits of a byte, of which the first is the highest
  WordBytes,      \* bytes of an unsigned long
  CountWord,      \* bytes of a uint32_t
  CountBlock,     \* the seven such words that redisPopcount adds at a time
  UnsignedMod,    \* 2^32: what a conversion to unsigned int keeps
  MaxLength,      \* the limit of checkStringLength: 512 MB
  EmbedLimit,     \* OBJ_ENCODING_EMBSTR_SIZE_LIMIT
  Digits,         \* the decimal form of each number: a function to bytes
  Texts,          \* values that clients pass
  Offsets,        \* offsets of SETRANGE
  Bits,           \* bit offsets
  Indexes,        \* ends of ranges
  Nil,            \* no result
  Beyond          \* bytes from behind the string

\* That powers of 2 are positive is a fact of arithmetic, stated for provers
\* that do not know it.  The ones of a block can be counted in one byte.
ASSUME StringAssumption ==
  /\ ByteBits = 8
  /\ {WordBytes, UnsignedMod, MaxLength, EmbedLimit} \subseteq Nat \ {0}
  /\ {CountWord, CountBlock} \subseteq Nat \ {0}
  /\ CountBlock * CountWord * ByteBits < 2 ^ ByteBits
  /\ \A i \in 0 .. ByteBits - 1 : 2 ^ i \in Nat \ {0}
  /\ Type8 \in DOMAIN TypeSize => EmbedLimit < TypeSize[Type8]
  /\ Texts \subseteq Seq(Int)
  /\ \A n \in DOMAIN Digits : Digits[n] \in Seq(Int)
  /\ Bits \subseteq Nat
  /\ Offsets \cup Indexes \subseteq Int

VARIABLES
  val,      \* what the key holds
  call,     \* the last command: <<name, arguments>>
  reply     \* and what it returned: <<status, result>>

vars == <<val, call, reply>>

None    == [type |-> "none"]
Foreign == [type |-> "list"]
Str(o)  == [type |-> "string", o |-> o]

Init == val = None /\ call = <<"none", <<>>>> /\ reply = <<"OK", Nil>>

Return(cmd, args, status, out) == call' = <<cmd, args>> /\ reply' = <<status, out>>

Fail(cmd, args, status) == UNCHANGED val /\ Return(cmd, args, status, Nil)

Answer(cmd, args, out) == UNCHANGED val /\ Return(cmd, args, "OK", out)

Put(cmd, args, o, out) == val' = Str(o) /\ Return(cmd, args, "OK", out)

IsString == val.type = "string"

-----------------------------------------------------------------------------
(* String objects.                                                         *)

Raw(s) == [enc |-> "raw", s |-> s]

createStringObjectFromLongLong(n) == [enc |-> "int", num |-> n]

\* An embedded string has a header of type 8 whatever its length.
createStringObject(bytes) ==
  IF Len(bytes) <= EmbedLimit
  THEN [enc |-> "embstr",
        s |-> [type |-> Type8, len |-> Stored(Type8, Len(bytes)),
               alloc |-> Stored(Type8, Len(bytes)), buf |-> Append(bytes, 0)]]
  ELSE Raw(sdsnewlen(bytes))

\* The bytes a command sees, from a buffer on the stack for a number.
Bytes(o) == IF o.enc = "int" THEN Digits[o.num] ELSE sdsContent(o.s)

stringObjectLen(o) == IF o.enc = "int" THEN Len(Digits[o.num]) ELSE o.s.len

\* A string that may be changed in place: a copy unless it is raw and no
\* client has a reference to it.
dbUnshareStringValue(o, shared) ==
  IF shared \/ o.enc # "raw" THEN Raw(sdsnewlen(Bytes(o))) ELSE o

checkStringLength(size) == size <= MaxLength

-----------------------------------------------------------------------------
(* Bytes.                                                                  *)

RcSet(text) == Put("set", text, createStringObject(text), Nil)

\* A value that INCR leaves.
SetNumber(n) == Put("number", n, createStringObjectFromLongLong(n), Nil)

appendCommand(text) ==
  IF val.type = "none"
  THEN Put("append", text, createStringObject(text), Len(text))
  ELSE IF ~IsString THEN Fail("append", text, "INVALID_TYPE")
  ELSE IF ~checkStringLength(stringObjectLen(val.o) + Len(text))
  THEN Fail("append", text, "OVERFLOW")
  ELSE \E shared \in BOOLEAN :
         LET s == sdscatlen(dbUnshareStringValue(val.o, shared).s, text)
         IN  Put("append", text, Raw(s), s.len)

setrangeCommand(offset, text) ==
  LET args == <<offset, text>>
      end  == offset + Len(text)
  IN  IF offset < 0 THEN Fail("setrange", args, "INVALID_ARG")
      ELSE IF val.type = "list" THEN Fail("setrange", args, "INVALID_TYPE")
      ELSE IF text = <<>>
      THEN Answer("setrange", args, IF IsString THEN stringObjectLen(val.o) ELSE 0)
      ELSE IF ~checkStringLength(end) THEN Fail("setrange", args, "OVERFLOW")
      ELSE \E shared \in BOOLEAN :
             LET o == IF IsString THEN dbUnshareStringValue(val.o, shared)
                      ELSE Raw(sdsnewlen(<<>>))
                 s == Write(sdsgrowzero(o.s, end), offset, text)
             IN  Put("setrange", args, Raw(s), s.len)

FromEnd(index, strlen) == IF index < 0 THEN Max({0, strlen + index}) ELSE index

getrangeCommand(start, end) ==
  LET args   == <<start, end>>
      str    == Bytes(val.o)
      strlen == Len(str)
      s      == FromEnd(start, strlen)
      e      == FromEnd(end, strlen)
      last   == IF e % UnsignedMod >= strlen THEN strlen - 1 ELSE e
  IN  IF val.type = "none" THEN Fail("getrange", args, "KEY_NOT_EXIST")
      ELSE IF ~IsString THEN Fail("getrange", args, "INVALID_TYPE")
      ELSE IF \/ start < 0 /\ end < 0 /\ start > end
              \/ s > last \/ strlen = 0
      THEN Answer("getrange", args, <<>>)
      ELSE Answer("getrange", args,
                  IF last < strlen THEN SubSeq(str, s + 1, last + 1) ELSE Beyond)

RcStrlen ==
  IF ~IsString THEN Fail("strlen", <<>>, "KEY_NOT_EXIST")
  ELSE Answer("strlen", <<>>, stringObjectLen(val.o))

-----------------------------------------------------------------------------
(* Bits.                                                                   *)

AllOnes == 2 ^ ByteBits - 1

BitOf(byte, i) == (byte \div 2 ^ (ByteBits - 1 - i)) % 2

\* The bit at an offset into the bytes.
BitAt(bytes, i) == BitOf(bytes[i \div ByteBits + 1], i % ByteBits)

\* A table in the code.
bitsinbyte(byte) == Cardinality({i \in 0 .. ByteBits - 1 : BitOf(byte, i) = 1})

CountBits == CountWord * ByteBits

\* x & 0x5555, 0x3333 or 0x0F0F: of every two groups of g bits the lower one.
EverySecond(x, g) ==
  MapThenSumSet(LAMBDA i : (x \div 4 ^ (g * i) % 2 ^ g) * 4 ^ (g * i),
                0 .. CountBits \div (2 * g) - 1)

\* Mutant: the last mask is missing.
SidewaysUnmasked(word) ==
  LET pairs   == word - EverySecond(word \div 2, 1)
      nibbles == EverySecond(pairs, 2) + EverySecond(pairs \div 4, 2)
  IN  nibbles + nibbles \div 16

\* The ones of each byte of a word, in this byte.
Sideways(word) ==
  LET pairs   == word - EverySecond(word \div 2, 1)
      nibbles == EverySecond(pairs, 2) + EverySecond(pairs \div 4, 2)
  IN  EverySecond(nibbles + nibbles \div 16, 4)

\* The sum of all bytes of a word, in the highest of them.
Product(word) ==
  LET ones == MapThenSumSet(LAMBDA i : 2 ^ (i * ByteBits), 0 .. CountWord - 1)
  IN  (word * ones % 2 ^ CountBits) \div 2 ^ (CountBits - ByteBits)

\* skew bytes come before the first aligned word.  Counts these bytes by the
\* table, then blocks of words, then the remaining bytes by the table.
redisPopcount(bytes, skew) ==
  LET lead   == Min({skew, Len(bytes)})
      block  == CountBlock * CountWord
      blocks == (Len(bytes) - lead) \div block
      last   == lead + blocks * block
      Word(at)  == MapThenSumSet(LAMBDA i : bytes[at + i] * 2 ^ ((i - 1) * ByteBits),
                                 1 .. CountWord)
      Block(at) == MapThenSumSet(LAMBDA w : Sideways(Word(at + w * CountWord)),
                                 0 .. CountBlock - 1)
  IN  MapThenSumSet(LAMBDA k : bitsinbyte(bytes[k]), 1 .. lead \cup last + 1 .. Len(bytes))
        + MapThenSumSet(LAMBDA n : Product(Block(lead + n * block)), 0 .. blocks - 1)

\* Mutant: what is missing in the last word is taken for ones.
PadWithOnes(bytes) == bytes \o Fill(WordBytes - Len(bytes), AllOnes)

\* The word is zero on the right where the string ends.
Padded(bytes) == bytes \o Fill(WordBytes - Len(bytes), 0)

\* Again skew bytes come before the first aligned word.  Skips these bytes, then
\* words, as long as they cannot hold the bit, and looks into one word from
\* there.
redisBitpos(bytes, bit, skew) ==
  LET count   == Len(bytes)
      skipval == IF bit = 1 THEN 0 ELSE AllOnes
      lead    == Min({skew, count})
      found   == {i \in 1 .. lead : bytes[i] # skipval}
      Skipped(c) == \A i \in c + 1 .. c + WordBytes : i <= count /\ bytes[i] = skipval
      go[c \in 0 .. count] == IF Skipped(c) THEN go[c + WordBytes] ELSE c
      at      == IF found = {} THEN go[lead] ELSE Min(found) - 1
      word    == Padded(SubSeq(bytes, at + 1, Min({count, at + WordBytes})))
      hits    == {i \in 0 .. WordBytes * ByteBits - 1 : BitAt(word, i) = bit}
  IN  IF hits # {} THEN at * ByteBits + Min(hits) ELSE IF bit = 1 THEN -1 ELSE 0

\* There is no limit to the offset.
lookupStringForBitCommand(maxbit, shared) ==
  LET size == maxbit \div ByteBits + 1
  IN  IF val.type = "none" THEN Raw(sdsnewlen(Fill(size, 0)))
      ELSE Raw(sdsgrowzero(dbUnshareStringValue(val.o, shared).s, size))

RcSetBit(bitoffset, on) ==
  LET args == <<bitoffset, on>>
      byte == bitoffset \div ByteBits
      mask == 2 ^ (ByteBits - 1 - (bitoffset % ByteBits))
  IN  IF on \notin {0, 1} \/ val.type = "list" THEN Fail("setbit", args, "ERR")
      ELSE \E shared \in BOOLEAN :
             LET s   == lookupStringForBitCommand(bitoffset, shared).s
                 old == s.buf[byte + 1]
                 new == old + (on - BitOf(old, bitoffset % ByteBits)) * mask
             IN  Put("setbit", args, Raw(Write(s, byte, <<new>>)), Nil)

RcGetBit(bitoffset) ==
  LET bytes == Bytes(val.o)
  IN  IF ~IsString THEN Fail("getbit", bitoffset, "KEY_NOT_EXIST")
      ELSE Answer("getbit", bitoffset,
                  IF bitoffset \div ByteBits < Len(bytes) THEN BitAt(bytes, bitoffset) ELSE 0)

\* The bytes may lie anywhere in memory.
RcBitCount(start, end, have_offset) ==
  LET args   == <<start, end, have_offset>>
      bytes  == Bytes(val.o)
      strlen == Len(bytes)
      s == IF have_offset THEN FromEnd(start, strlen) ELSE 0
      e == IF have_offset THEN Min({strlen - 1, FromEnd(end, strlen)}) ELSE strlen - 1
  IN  IF ~IsString THEN Fail("bitcount", args, "KEY_NOT_EXIST")
      ELSE IF have_offset /\ start < 0 /\ end < 0 /\ start > end
      THEN Fail("bitcount", args, "ERR")
      ELSE IF s > e THEN Answer("bitcount", args, 0)
      ELSE \E skew \in 0 .. CountWord - 1 :
             Answer("bitcount", args, redisPopcount(SubSeq(bytes, s + 1, e + 1), skew))

\* given is what the client passes of the range: nothing, the start, or both
\* ends.  The bytes may lie anywhere in memory.
RcBitPos(bit, start, end, given) ==
  LET args   == <<bit, start, end, given>>
      bytes  == Bytes(val.o)
      strlen == Len(bytes)
      s == IF given = "nothing" THEN 0 ELSE FromEnd(start, strlen)
      e == IF given = "both" THEN Min({strlen - 1, FromEnd(end, strlen)}) ELSE strlen - 1
  IN  IF bit \notin {0, 1} THEN Fail("bitpos", args, "ERR")
      ELSE IF ~IsString THEN Fail("bitpos", args, "KEY_NOT_EXIST")
      ELSE IF s > e THEN Answer("bitpos", args, -1)
      ELSE \E skew \in 0 .. WordBytes - 1 :
             LET pos == redisBitpos(SubSeq(bytes, s + 1, e + 1), bit, skew)
             IN  IF given = "both" /\ bit = 0 /\ pos = (e - s + 1) * ByteBits
                 THEN UNCHANGED val /\ Return("bitpos", args, "ERR", -1)
                 ELSE Answer("bitpos", args, IF pos = -1 THEN -1 ELSE pos + s * ByteBits)

\* What other commands do to the key: DEL or a deadline, and RPUSH.
Vanish == val.type # "none" /\ val' = None /\ UNCHANGED <<call, reply>>

Become == val.type = "none" /\ val' = Foreign /\ UNCHANGED <<call, reply>>

Next ==
  \/ \E text \in Texts : RcSet(text) \/ appendCommand(text)
  \/ \E n \in DOMAIN Digits : SetNumber(n)
  \/ \E offset \in Offsets, text \in Texts : setrangeCommand(offset, text)
  \/ \E i, j \in Indexes :
       \/ getrangeCommand(i, j)
       \/ \E have \in BOOLEAN : RcBitCount(i, j, have)
       \/ \E bit \in 0 .. 2, given \in {"nothing", "start", "both"} :
            RcBitPos(bit, i, j, given)
  \/ RcStrlen
  \/ \E bitoffset \in Bits :
       RcGetBit(bitoffset) \/ \E on \in 0 .. 2 : RcSetBit(bitoffset, on)
  \/ Vanish \/ Become

Spec == Init /\ [][Next]_vars

-----------------------------------------------------------------------------
(* Properties.                                                             *)

\* However a string came to be and grew, its header and its buffer agree
\* (sds.c:197, 368, 386, object.c:125): the type can count the space that was
\* reserved ahead, and no byte is seen that nobody wrote.
HeaderSound == IsString /\ val.o.enc # "int" => Sound(val.o.s)

\* GETRANGE, after its comment on the precondition of the copy
\* (t_string.c:195), reads no byte behind the string.
ReadsInside == reply[2] # Beyond

\* In any encoding, and wherever its bytes lie in memory, the value is the
\* string that the commands promise, and so is every reply (t_string.c:162,
\* bitops.c:80: words and padding, and ends of ranges from either side).
S == INSTANCE Strings WITH
       val <- IF IsString THEN [type |-> "string", str |-> Bytes(val.o)] ELSE val

ImplementsStrings == S!Spec

=============================================================================
