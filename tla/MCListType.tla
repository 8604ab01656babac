----------------------------- MODULE MCListType -----------------------------
(***************************************************************************)
(* Strings of three sizes: two or three small ones fill a node, the middle *)
(* one is an integer whose size is overestimated, and the large one is     *)
(* over the limit by itself.                                               *)
(***************************************************************************)
EXTENDS ListType

CONSTANTS small, middle, large

MCValue    == {small, middle, large}
MCBytes    == (small :> 2) @@ (middle :> 3) @@ (large :> 8)
MCEstimate == (small :> 2) @@ (middle :> 4) @@ (large :> 8)
MCLists    == {<<v>> : v \in MCValue} \cup {<<small, middle>>}
MCIndexes  == -3 .. 3

\* No step reads the last call or its reply.
View == val

=============================================================================
