----------------------------- MODULE MCZSetType -----------------------------
(***************************************************************************)
(* Three elements, of which 3 is long, the scores 0, 1 and the infinities  *)
(* (1 + 1 is past the largest finite one), and three levels.               *)
(***************************************************************************)
EXTENDS ZSetType

Bound(open, num) == [open |-> open, num |-> num]
Lex(kind, str)   == [kind |-> kind, str |-> str]

MCMember      == 1 .. 3
MCMinString   == -100
MCLong        == {3}
MCPairs       == {0, 1} \X MCMember \cup {-Inf, Inf} \X {1}
MCItemLists   == {<<>>} \cup {<<p>> : p \in MCPairs \cup {<<NaN, 1>>}}
                   \cup {<<<<0, 1>>, <<0, 2>>>>, <<<<1, 2>>, <<0, 1>>>>,
                         <<<<0, 2>>, <<NaN, 1>>>>}
MCMemberLists == {<<m>> : m \in MCMember} \cup {<<1, 2>>, <<3, 2, 1>>}
MCScoreRanges == {<<Bound(FALSE, -Inf), Bound(FALSE, Inf)>>,
                  <<Bound(FALSE, 0), Bound(FALSE, 1)>>,
                  <<Bound(TRUE, 0), Bound(FALSE, Inf)>>,
                  <<Bound(FALSE, -Inf), Bound(TRUE, 1)>>,
                  <<Bound(TRUE, 0), Bound(FALSE, 0)>>,
                  <<Bound(FALSE, 1), Bound(FALSE, 0)>>,
                  <<Bound(FALSE, NaN), Bound(FALSE, 0)>>}
MCLexRanges   == {<<Lex("-", 0), Lex("+", 0)>>, <<Lex("+", 0), Lex("-", 0)>>,
                  <<Lex("[", 2), Lex("+", 0)>>, <<Lex("-", 0), Lex("(", 2)>>,
                  <<Lex("(", 1), Lex("[", 3)>>, <<Lex("[", 3), Lex("[", 1)>>,
                  <<Lex("(", 2), Lex("[", 2)>>, <<Lex("?", 0), Lex("+", 0)>>}
MCIndexes     == {-2, 0, 1, NaN}
MCLimits      == {<<0, -1>>, <<1, 1>>, <<0, 0>>, <<-1, 2>>}

\* No step reads the last call or its reply, the header's spans above the top
\* level, or an address except to follow it: nodes are named by their elements.
Name(zsl, x) == IF x \in DOMAIN zsl.node THEN zsl.node[x].ele ELSE NULL

Named(zsl) ==
  <<zsl.level, zsl.length, Name(zsl, zsl.tail),
    {<<zsl.node[x].ele, zsl.node[x].score, Name(zsl, zsl.node[x].backward),
       [i \in 1 .. Min({zsl.level, Len(zsl.node[x].level)}) |->
          <<Name(zsl, Forward(zsl, x, i)), zsl.node[x].level[i].span>>]>> :
     x \in DOMAIN zsl.node}>>

\* Comparing val with itself makes TLC evaluate it before it is stored.
View ==
  IF val # val THEN <<>>
  ELSE IF ~IsZset THEN <<val, max>>
  ELSE <<val.z.zl, Named(val.z.zsl),
         [e \in DOMAIN val.z.dict |-> Name(val.z.zsl, val.z.dict[e])], max, val.z.enc>>

=============================================================================
