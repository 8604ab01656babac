------------------------------- MODULE IntSet -------------------------------
(***************************************************************************)
(* intset.c: a sorted array of integers that are all stored at one width.  *)
(* Memory is a sequence of units of the narrowest width, so that a move or *)
(* an upgrade in place overwrites what it would overwrite: an integer is   *)
(* one, two or four consecutive units, little end first, in two's          *)
(* complement.  An intset is a record; each function maps one to the next. *)
(***************************************************************************)
EXTENDS Integers, SequencesExt

CONSTANT Unit     \* the values of a unit: 2^16, sizeof(int16_t) being 1 here

ASSUME IntSetAssumption == Unit \in Nat \ {0} /\ Unit % 2 = 0

\* sizeof int16_t, int32_t and int64_t, in units.
Width == {1, 2, 4}

\* The number of values n units take.
Power[n \in 0 .. 4] == IF n = 0 THEN 1 ELSE Unit * Power[n - 1]

Fits(v, enc) == v \in -(Power[enc] \div 2) .. (Power[enc] \div 2) - 1

_intsetValueEncoding(v) == Min({w \in Width : Fits(v, w)} \cup {4})

\* The integer at pos, were the memory an array of width enc.
_intsetGetEncoded(is, pos, enc) ==
  LET from[i \in 0 .. enc] ==   \* what the units from the i-th on are worth
        IF i = enc THEN 0
        ELSE is.contents[pos * enc + i + 1] + Unit * from[i + 1]
      u == from[0]
  IN  IF u >= Power[enc] \div 2 THEN u - Power[enc] ELSE u

_intsetGet(is, pos) == _intsetGetEncoded(is, pos, is.encoding)

\* What does not fit the width is cut off.
_intsetSet(is, pos, v) ==
  LET e == is.encoding IN
  [is EXCEPT !.contents =
     [i \in DOMAIN @ |-> IF i \in pos * e + 1 .. (pos + 1) * e
                         THEN (v \div Power[i - pos * e - 1]) % Unit
                         ELSE @[i]]]

intsetNew == [encoding |-> 1, length |-> 0, contents |-> <<>>]

\* New units are written before they are read; 0 stands for any value.
intsetResize(is, len) ==
  [is EXCEPT !.contents =
     [i \in 1 .. len * is.encoding |-> IF i \in DOMAIN @ THEN @[i] ELSE 0]]

\* <<found, position of value or position to insert it at>>
intsetSearch(is, value) ==
  LET n == is.length
      search[r \in (0 .. n) \X (-1 .. n - 1)] ==   \* r is <<min, max>>
        IF r[2] < r[1] THEN <<FALSE, r[1]>>
        ELSE LET mid == (r[1] + r[2]) \div 2
                 cur == _intsetGet(is, mid)
             IN  IF value > cur THEN search[<<mid + 1, r[2]>>]
                 ELSE IF value < cur THEN search[<<r[1], mid - 1>>]
                 ELSE <<TRUE, mid>>
  IN  IF n = 0 THEN <<FALSE, 0>>
      ELSE IF value > _intsetGet(is, n - 1) THEN <<FALSE, n>>
      ELSE IF value < _intsetGet(is, 0) THEN <<FALSE, 0>>
      ELSE search[<<0, n - 1>>]

\* Mutant: front to back, over integers that are not read yet.
FrontToBack(is) == [i \in 1 .. is.length |-> i - 1]

\* The positions of is in the order in which the upgrade moves them.
BackToFront(is) == [i \in 1 .. is.length |-> is.length - i]

intsetUpgradeAndAdd(is, value) ==
  LET old     == is.encoding
      prepend == IF value < 0 THEN 1 ELSE 0
      wide    == intsetResize([is EXCEPT !.encoding = _intsetValueEncoding(value)],
                              is.length + 1)
      moved   == FoldLeft(LAMBDA s, pos :
                            _intsetSet(s, pos + prepend, _intsetGetEncoded(s, pos, old)),
                          wide, BackToFront(is))
  IN  [_intsetSet(moved, IF prepend = 1 THEN 0 ELSE is.length, value)
         EXCEPT !.length = @ + 1]

\* memmove of the integers from position from to the end.
intsetMoveTail(is, from, to) ==
  LET e == is.encoding IN
  [is EXCEPT !.contents =
     [i \in DOMAIN @ |-> IF i \in to * e + 1 .. (to + is.length - from) * e
                         THEN @[i - (to - from) * e] ELSE @[i]]]

\* <<the intset, success>>
intsetAdd(is, value) ==
  LET at  == intsetSearch(is, value)
      big == intsetResize(is, is.length + 1)
      gap == IF at[2] < is.length THEN intsetMoveTail(big, at[2], at[2] + 1) ELSE big
  IN  IF _intsetValueEncoding(value) > is.encoding
      THEN <<intsetUpgradeAndAdd(is, value), TRUE>>
      ELSE IF at[1] THEN <<is, FALSE>>
      ELSE <<[_intsetSet(gap, at[2], value) EXCEPT !.length = @ + 1], TRUE>>

intsetFind(is, value) ==
  /\ _intsetValueEncoding(value) <= is.encoding
  /\ intsetSearch(is, value)[1]

intsetRemove(is, value) ==
  LET pos    == intsetSearch(is, value)[2]
      closed == IF pos < is.length - 1 THEN intsetMoveTail(is, pos + 1, pos) ELSE is
  IN  IF ~intsetFind(is, value) THEN <<is, FALSE>>
      ELSE <<[intsetResize(closed, is.length - 1) EXCEPT !.length = @ - 1], TRUE>>

\* intsetGet for every position, and so what intsetRandom draws from.
intsetElements(is) == [i \in 1 .. is.length |-> _intsetGet(is, i - 1)]

=============================================================================
