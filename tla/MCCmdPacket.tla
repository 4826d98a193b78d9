---------------------------- MODULE MCCmdPacket ----------------------------
EXTENDS CmdPacket

A == <<"A">>
B == <<"B">>
TwoNames == <<A, B>>

Symbols ==
  {" ", "=", "&", "CR", "LF", "x", "space;", "equal;", "amp;", "return;", "newline;"}

\* Every text of up to two symbols, and of three that begins with an &.
Texts ==
  UNION {[1 .. n -> Symbols] : n \in 0 .. 2} \cup {t \in [1 .. 3 -> Symbols] : t[1] = "&"}

Values == [n \in {A, B, USERID} |->
  CASE n = A -> Texts
    [] n = B -> {<<" ", "=">>}
    [] n = USERID -> {<<"x">>}]

\* An empty one, one with separators, and one with two attributes.
Items == {[n \in {A} |-> <<>>], [n \in {A} |-> <<"CR", "LF", "x">>], [n \in {A, B} |-> <<"x">>]}
=============================================================================
