------------------------------- MODULE Strings -------------------------------
(***************************************************************************)
(* What the string and bit commands promise for one key: it holds nothing, *)
(* something that is not a string, or a sequence of bytes.  Bits are       *)
(* numbered through the bytes, in each from the highest.                   *)
(***************************************************************************)
EXTENDS Integers, SequencesExt

CONSTANTS ByteBits, MaxLength, Digits, Texts, Offsets, Bits, Indexes, Nil

VARIABLES val, call, reply

svars == <<val, call, reply>>

None     == [type |-> "none"]
Foreign  == [type |-> "list"]
Str(str) == [type |-> "string", str |-> str]

IsString == val.type = "string"
str      == IF IsString THEN val.str ELSE <<>>

Init == val = None /\ call = <<"none", <<>>>> /\ reply = <<"OK", Nil>>

Write(cmd, args, new, out) ==
  call' = <<cmd, args>> /\ val' = Str(new) /\ reply' = <<"OK", out>>

Refuse(cmd, args, status) ==
  call' = <<cmd, args>> /\ UNCHANGED val /\ reply' = <<status, Nil>>

\* Of a key that holds a string.
Read(cmd, args, out) ==
  IF IsString THEN call' = <<cmd, args>> /\ UNCHANGED val /\ reply' = <<"OK", out>>
  ELSE Refuse(cmd, args, "KEY_NOT_EXIST")

-----------------------------------------------------------------------------
(* Bytes.                                                                  *)

\* The string over a range of its length, zero where it has no bytes.
Stretched(n) == [i \in 1 .. n |-> IF i <= Len(str) THEN str[i] ELSE 0]

Longer(n) == IF n > Len(str) THEN n ELSE Len(str)

Set(text) == Write("set", text, text, Nil)

SetNumber(n) == Write("number", n, Digits[n], Nil)

AppendTo(text) ==
  IF val.type = "list" THEN Refuse("append", text, "INVALID_TYPE")
  ELSE IF IsString /\ Len(str) + Len(text) > MaxLength THEN Refuse("append", text, "OVERFLOW")
  ELSE Write("append", text, str \o text, Len(str) + Len(text))

\* Bytes from an offset on; between the string and the offset come zeros.
SetRange(offset, text) ==
  LET args == <<offset, text>>
      new  == [i \in 1 .. Longer(offset + Len(text)) |->
                 IF i - offset \in DOMAIN text THEN text[i - offset]
                 ELSE Stretched(i)[i]]
  IN  IF offset < 0 THEN Refuse("setrange", args, "INVALID_ARG")
      ELSE IF val.type = "list" THEN Refuse("setrange", args, "INVALID_TYPE")
      ELSE IF text = <<>>
      THEN call' = <<"setrange", args>> /\ UNCHANGED val /\ reply' = <<"OK", Len(str)>>
      ELSE IF offset + Len(text) > MaxLength THEN Refuse("setrange", args, "OVERFLOW")
      ELSE Write("setrange", args, new, Len(new))

\* The places from 1 between two indexes from 0, or from the end where they
\* are negative; an end before the string means its first byte.
Places(start, end) ==
  LET At(i) == IF i < 0 THEN Len(str) + i ELSE i
  IN  {k \in DOMAIN str : At(start) < k /\ k <= Max({0, At(end)}) + 1}

\* Both indexes from the end, and the wrong way round.
Crossed(start, end) == start < 0 /\ end < 0 /\ start > end

GetRange(start, end) ==
  LET K == IF Crossed(start, end) THEN {} ELSE Places(start, end)
  IN  IF val.type = "list" THEN Refuse("getrange", <<start, end>>, "INVALID_TYPE")
      ELSE Read("getrange", <<start, end>>,
                IF K = {} THEN <<>> ELSE SubSeq(str, Min(K), Max(K)))

-----------------------------------------------------------------------------
(* Bits.                                                                   *)

Bit(bytes, i) ==
  (bytes[i \div ByteBits + 1] \div 2 ^ (ByteBits - 1 - (i % ByteBits))) % 2

\* The bits in some of the places.
BitsOf(K, bit) ==
  {i \in 0 .. Len(str) * ByteBits - 1 : i \div ByteBits + 1 \in K /\ Bit(str, i) = bit}

\* A string of the same or a greater length with one bit changed, if at all.
SetBit(i, on) ==
  LET byte == i \div ByteBits + 1
      wide == Stretched(Longer(byte))
      mask == 2 ^ (ByteBits - 1 - (i % ByteBits))
  IN  IF on \notin {0, 1} \/ val.type = "list" THEN Refuse("setbit", <<i, on>>, "ERR")
      ELSE Write("setbit", <<i, on>>,
                 [wide EXCEPT ![byte] = @ + mask * (on - Bit(wide, i))], Nil)

GetBit(i) ==
  Read("getbit", i, IF i \div ByteBits < Len(str) THEN Bit(str, i) ELSE 0)

BitCount(start, end, have) ==
  IF IsString /\ have /\ Crossed(start, end) THEN Refuse("bitcount", <<start, end, have>>, "ERR")
  ELSE Read("bitcount", <<start, end, have>>,
            Cardinality(BitsOf(IF have THEN Places(start, end) ELSE DOMAIN str, 1)))

\* Without an end the string goes on with zeros for ever.
BitPos(bit, start, end, given) ==
  LET args == <<bit, start, end, given>>
      K    == CASE given = "nothing" -> DOMAIN str
                [] given = "start"   -> Places(start, Len(str))
                [] given = "both"    -> Places(start, end)
      hits == BitsOf(K, bit)
      clear == bit = 0 /\ K # {}
  IN  IF bit \notin {0, 1} THEN Refuse("bitpos", args, "ERR")
      ELSE IF ~IsString THEN Refuse("bitpos", args, "KEY_NOT_EXIST")
      ELSE /\ call' = <<"bitpos", args>> /\ UNCHANGED val
           /\ reply' = IF hits # {} THEN <<"OK", Min(hits)>>
                       ELSE IF clear /\ given # "both" THEN <<"OK", Len(str) * ByteBits>>
                       ELSE <<IF clear THEN "ERR" ELSE "OK", -1>>

\* DEL, expiry, and commands of other types.
Other == val' \in {None, Foreign} /\ UNCHANGED <<call, reply>>

Next ==
  \/ \E text \in Texts : Set(text) \/ AppendTo(text)
  \/ \E n \in DOMAIN Digits : SetNumber(n)
  \/ \E offset \in Offsets, text \in Texts : SetRange(offset, text)
  \/ \E i, j \in Indexes :
       \/ GetRange(i, j)
       \/ \E have \in BOOLEAN : BitCount(i, j, have)
       \/ \E bit \in 0 .. 2, given \in {"nothing", "start", "both"} : BitPos(bit, i, j, given)
  \/ Read("strlen", <<>>, Len(str))
  \/ \E i \in Bits : GetBit(i) \/ \E on \in 0 .. 2 : SetBit(i, on)
  \/ Other

Spec == Init /\ [][Next]_svars

=============================================================================
