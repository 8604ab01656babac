---------------------------- MODULE MCStringType ----------------------------
(***************************************************************************)
(* Words of two bytes, of which BITCOUNT adds two at a time: in six bytes  *)
(* there is room for an unaligned one, a block and a remaining one.        *)
(* Header types that end at 2, 4 and 8 bytes, and at most 3 ahead, so that *)
(* strings of up to 6 bytes pass through all of them; unsigned integers    *)
(* end at 8.                                                               *)
(***************************************************************************)
EXTENDS StringType

MCTypeSize == <<2, 4, 8>>
MCDigits   == (1 :> <<2>>) @@ (-12 :> <<1, 2, 3>>)
MCTexts    == {<<>>, <<255>>, <<37, 255>>}
MCOffsets  == {-1, 1, 3}
MCBits     == {1, 35}
MCIndexes  == {-5, -1, 1, 2, 7}

\* With an end past the unsigned integers.
MCWideIndexes == {0, 8}

\* No step reads the last command; the reply is kept for ReadsInside.
View == <<val, reply[2] = Beyond>>

=============================================================================
