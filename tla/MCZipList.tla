------------------------------ MODULE MCZipList ------------------------------
(***************************************************************************)
(* Items around the length where the next field takes five bytes: with the *)
(* small field an entry of 250 bytes is short and with the large one it is *)
(* long, so that it passes a cascade on.  The empty string and 7 make      *)
(* entries of 2 bytes, and a number of two bytes one of 4: fewer than the  *)
(* four bytes that a shrinking field saves, or as many.  The count of the  *)
(* header is lost at 3 entries.  With bytes of three bits 31 is the last   *)
(* number of two, and -2049 the first, downwards, that takes eight.        *)
(***************************************************************************)
EXTENDS ZipList

Text(len) == [len |-> len, text |-> "t"]

MCItem == {Text(0), Text(249), Text(300), [len |-> 1, num |-> 7],
           [len |-> 2, num |-> 31], [len |-> 5, num |-> -2049]}
MCBatches == {<<Text(300)>>, <<Text(0), Text(249)>>, <<Text(249), Text(249)>>}
MCIndexes == {-6, -2, -1, 0, 1, 4}

\* No step reads the last operation or its reply.
View == <<zl, cut>>

=============================================================================
