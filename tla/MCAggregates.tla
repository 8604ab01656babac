---------------------------- MODULE MCAggregates ----------------------------
(***************************************************************************)
(* One key.  Widths of 2, 4 and 8 bits stand for 16, 32 and 64.            *)
(***************************************************************************)
EXTENDS Aggregates

Num(n) == <<"num", n>>
Txt(n) == <<"text", n>>

MCFields      == {Num(1), Txt(0), Txt(1)}
MCFieldValues == MCFields \X {Num(LLMax), Num(-1), Txt(0), Txt(1)}
MCLong        == {Txt(1)}
MCFloatTexts  == {Txt(0)}
MCItemLists   == {<<a, b>> : a, b \in MCFieldValues}
MCFieldLists  == {<<f>> : f \in MCFields} \cup {<<f, g>> : f, g \in MCFields}
MCMembers     == {Num(-9), Num(-3), Num(-1), Num(0), Num(5), Num(LLMax), Txt(0)}
MCMemberLists == {<<m>> : m \in MCMembers} \cup {<<m, n>> : m, n \in MCMembers}
MCIncrements  == {-LLMax, LLMax}
MCCounts      == {-2, 0, 1, 2, 5}
MCLimits      == {0, 1, 2}

\* No step reads the last call or its reply.
View == <<val, max>>

=============================================================================
