----------------------------- MODULE MCIntercom -----------------------------
EXTENDS IntercomInv, TLC

CONSTANTS c1, c2, c3, g1, g2

Pair == {c1, c2}
Trio == {c1, c2, c3}

\* Everybody in one group, nobody in any, and one user outside of it.
OneGroup == [c \in Client |-> g1]
NoGroups == [c \in Client |-> NoGroup]
Hub == (c1 :> g1) @@ (c2 :> NoGroup) @@ (c3 :> g1)
=============================================================================
