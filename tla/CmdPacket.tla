------------------------------ MODULE CmdPacket ------------------------------
(***************************************************************************)
(* The commands that the client and the server exchange: how a packet is   *)
(* put together, written out as one text, encrypted, and read again on the *)
(* other side (src_base/CmdPacket.cpp, AppClient.cpp).                     *)
(*                                                                         *)
(* A text is a sequence of symbols.  The letters of an escape sequence     *)
(* after its & are one symbol, "x" and the names stand for the characters  *)
(* that nothing looks at, and a number, zero or false is its text; so are  *)
(* the conversions of it.  Names are in capitals, as everywhere in the     *)
(* code.  The calls are those of a sender that sets an attribute once.     *)
(***************************************************************************)
EXTENDS Integers, Sequences, FiniteSets, SequencesExt

CONSTANTS Names,   \* names of attributes, sorted as std::map sorts them
          Value,   \* what each of them, and USERID, is set to
          Item,    \* the items that are added
          MaxItems \* items of a packet

\* The names that KCmdPacket keeps in members of their own.
CMD == <<"CMD">>
USERID == <<"USERID">>

ASSUME CmdPacketAssumption ==
  /\ Names \in Seq(Seq(STRING)) /\ CMD \notin ToSet(Names) /\ USERID \notin ToSet(Names)
  /\ DOMAIN Value = ToSet(Names) \cup {USERID}
  /\ \A i \in Item : DOMAIN i \subseteq ToSet(Names)
  /\ MaxItems \in Nat

VARIABLES
  packet,     \* KCmdPacket of the sender
  wire,       \* what was sent: a text, and whether it was encrypted
  received,   \* KCmdPacket of the receiver
  meant,      \* history: the attributes the sender set
  meantItems  \* history: the items it added

vars == <<packet, wire, received, meant, meantItems>>

NoPacket == [xns |-> <<>>, cmd |-> <<>>, userid |-> <<>>, attribs |-> <<>>, items |-> <<>>]
Erroneous == [NoPacket EXCEPT !.xns = <<"ERR">>]
CRLF == <<"CR", "LF">>

-----------------------------------------------------------------------------
(* CommandStringEncode and CommandStringDecode.                            *)

Escape == [c \in {" ", "=", "&", "CR", "LF"} |->
  CASE c = " "  -> <<"&", "space;">>
    [] c = "="  -> <<"&", "equal;">>
    [] c = "&"  -> <<"&", "amp;">>
    [] c = "CR" -> <<"&", "return;">>
    [] c = "LF" -> <<"&", "newline;">>]

\* Mutant: the & of a value is not escaped.
EncodeKeepsAmp(s) ==
  FlattenSeq([i \in DOMAIN s |-> IF s[i] \in DOMAIN Escape \ {"&"} THEN Escape[s[i]] ELSE <<s[i]>>])

\* CommandStringEncode: character by character.
CommandStringEncode(s) ==
  FlattenSeq([i \in DOMAIN s |-> IF s[i] \in DOMAIN Escape THEN Escape[s[i]] ELSE <<s[i]>>])

\* The first escape of c is replaced until there is none.
Replaced[s \in Seq(STRING), c \in DOMAIN Escape] ==
  IF \E i \in 1 .. Len(s) - 1 : SubSeq(s, i, i + 1) = Escape[c]
    THEN Replaced[ReplaceFirstSubSeq(<<c>>, Escape[c], s), c]
    ELSE s

\* One character after the other: what a pass has put together is seen by the next.
CommandStringDecode(s) ==
  FoldLeft(LAMBDA t, c : Replaced[t, c], s, <<" ", "=", "&", "CR", "LF">>)

-----------------------------------------------------------------------------
(* Splitting and joining.                                                  *)

\* The parts of s between the tokens, the empty ones included.
Parts[s \in Seq(STRING), token \in Seq(STRING)] ==
  LET at == {i \in 1 .. Len(s) - Len(token) + 1 : SubSeq(s, i, i + Len(token) - 1) = token}
  IN  IF at = {} THEN <<s>>
      ELSE LET i == CHOOSE i \in at : \A j \in at : i <= j
           IN  <<SubSeq(s, 1, i - 1)>> \o Parts[SubSeq(s, i + Len(token), Len(s)), token]

\* Mutant: the parts that are left are numbered without a gap.
StrSplitDense(s, token) ==
  LET full == SelectSeq(Parts[s, token], LAMBDA p : p # <<>>)
  IN  [n \in {i - 1 : i \in DOMAIN full} |-> full[n + 1]]

\* StrSplit: an empty part is left out, and its number with it.
StrSplit(s, token) ==
  LET parts == Parts[s, token]
  IN  [n \in {i - 1 : i \in {j \in DOMAIN parts : parts[j] # <<>>}} |-> parts[n + 1]]

\* operator[] of a map.
At(map, key) == IF key \in DOMAIN map THEN map[key] ELSE <<>>
With(map, key, value) == [k \in DOMAIN map \cup {key} |-> IF k = key THEN value ELSE map[k]]
Count(map) == Cardinality(DOMAIN map)

TRIMSPACE(s) ==
  LET solid == {i \in DOMAIN s : s[i] # " "}
  IN  IF solid = {} THEN <<>>
      ELSE SubSeq(s, CHOOSE i \in solid : \A j \in solid : i <= j,
                     CHOOSE i \in solid : \A j \in solid : j <= i)

\* " NAME=value" of every attribute, in the order of the map.
AttribString(attribs) ==
  LET set == SelectSeq(Names, LAMBDA n : n \in DOMAIN attribs)
  IN  FlattenSeq([i \in DOMAIN set |-> <<" ">> \o set[i] \o <<"=">> \o attribs[set[i]]])

-----------------------------------------------------------------------------
(* KCmdItem.                                                               *)

ItemString(attribs) == TRIMSPACE(AttribString(attribs))

\* KCmdItem(data): whatever the numbers of the elements are.
ParseItem(s) ==
  LET element == StrSplit(s, <<" ">>)
      attrib(n) == StrSplit(element[n], <<"=">>)
      name(n) == At(attrib(n), 0)
      last(k) == CHOOSE n \in DOMAIN element :
        name(n) = k /\ \A m \in DOMAIN element : name(m) = k => m <= n
  IN  [k \in {name(n) : n \in DOMAIN element} |-> At(attrib(last(k)), 1)]

-----------------------------------------------------------------------------
(* KCmdPacket.                                                             *)

\* SetAttrib of an encoded value: CMD and USERID have members.
Stored(p, name, value) ==
  CASE name = CMD -> [p EXCEPT !.cmd = value]
    [] name = USERID -> [p EXCEPT !.userid = value]
    [] OTHER -> [p EXCEPT !.attribs = With(@, name, value)]

\* The encoded value of an attribute.
Attrib(p, name) ==
  CASE name = CMD -> p.cmd
    [] name = USERID -> p.userid
    [] OTHER -> At(p.attribs, name)

\* GetAttrib, read as a value: AsString and the conversions.
GetAttrib(p, name) == CommandStringDecode(Attrib(p, name))

\* Mutant: the first line is not ended.
GetStringOneLine(p) ==
  TRIMSPACE(p.xns \o <<" ">> \o CMD \o <<"=">> \o p.cmd
            \o (IF p.userid = <<>> THEN <<>> ELSE <<" ">> \o USERID \o <<"=">> \o p.userid)
            \o AttribString(p.attribs) \o p.items)

\* KCmdPacket::GetString.
GetString(p) ==
  TRIMSPACE(
    TRIMSPACE(p.xns \o <<" ">> \o CMD \o <<"=">> \o p.cmd
              \o (IF p.userid = <<>> THEN <<>> ELSE <<" ">> \o USERID \o <<"=">> \o p.userid)
              \o AttribString(p.attribs))
    \o CRLF \o p.items)

\* The constructor that reads a text.  As many elements, and lines, are visited as
\* the map has, by their numbers: empty parts before them hide the last ones.
Parse(s) ==
  LET line == StrSplit(s, CRLF)
      element == StrSplit(At(line, 0), <<" ">>)
      attrib(n) == StrSplit(At(element, n), <<"=">>)
      store(p, n) == IF At(element, n) = <<>> THEN p ELSE Stored(p, At(attrib(n), 0), At(attrib(n), 1))
      lines == [n \in 1 .. Count(line) - 1 |-> IF At(line, n) = <<>> THEN <<>> ELSE At(line, n) \o CRLF]
  IN  IF line = <<>> \/ element = <<>> THEN Erroneous
      ELSE FoldLeft(store,
                    [NoPacket EXCEPT !.xns = At(element, 0), !.items = FlattenSeq(lines)],
                    [n \in 1 .. Count(element) - 1 |-> n])

\* GetItemList, each item read by KCmdItem(data).
GetItemList(p) ==
  LET line == StrSplit(p.items, CRLF)
      kept == SelectSeq([n \in 1 .. Count(line) |-> At(line, n - 1)], LAMBDA l : l # <<>>)
  IN  [i \in DOMAIN kept |-> ParseItem(kept[i])]

-----------------------------------------------------------------------------
(* The sender.                                                             *)

Nothing == [text |-> <<>>, encrypted |-> FALSE]

Init ==
  /\ packet = NoPacket /\ wire = Nothing /\ received = NoPacket
  /\ meant = <<>> /\ meantItems = <<>>

\* KCmdPacketEx rPacket("...", n) and SetCMD.
Create ==
  /\ packet = NoPacket
  /\ packet' = [Parse(<<"kind">>) EXCEPT !.cmd = <<"cmd">>]
  /\ UNCHANGED <<wire, received, meant, meantItems>>

Building == packet # NoPacket /\ wire = Nothing

\* SetAttrib, SetAttribUL, SetAttribBL ...: nothing is stored for "", zero and false.
SetAttrib(name, value) ==
  /\ Building /\ name \notin DOMAIN meant
  /\ packet' = IF value = <<>> THEN packet ELSE Stored(packet, name, CommandStringEncode(value))
  /\ meant' = With(meant, name, value)
  /\ UNCHANGED <<wire, received, meantItems>>

\* A KCmdItem is filled by its SetAttrib and added by SetItem.
SetItem(i) ==
  /\ Building /\ Len(meantItems) < MaxItems
  /\ LET attribs == [n \in {m \in DOMAIN i : i[m] # <<>>} |-> CommandStringEncode(i[n])]
     IN  packet' = [packet EXCEPT !.items = @ \o ItemString(attribs) \o CRLF]
  /\ meantItems' = Append(meantItems, i)
  /\ UNCHANGED <<wire, received, meant>>

\* CConnectServer::SendData and CAppClient::SendData: the text with its NUL, in the
\* clear or in blocks of 16 bytes.
SendData(encrypted) ==
  /\ Building
  /\ wire' = [text |-> GetString(packet), encrypted |-> encrypted]
  /\ UNCHANGED <<packet, received, meant, meantItems>>

-----------------------------------------------------------------------------
(* The receiver.                                                           *)

\* OnXNetClientReceivedFromServer.  The length it gives to the constructor, which
\* wants a NUL there, is one more than the blocks it decrypted: what lies behind
\* them on the stack decides.
Receive ==
  /\ wire # Nothing /\ received = NoPacket
  /\ received' \in {Parse(wire.text)} \cup (IF wire.encrypted THEN {Erroneous} ELSE {})
  /\ UNCHANGED <<packet, wire, meant, meantItems>>

\* GetAttrib reads through operator[], which inserts what is not there.
Read(name) ==
  /\ received # NoPacket
  /\ received' = Stored(received, name, Attrib(received, name))
  /\ UNCHANGED <<packet, wire, meant, meantItems>>

Next ==
  \/ Create
  \/ \E name \in DOMAIN Value : \E value \in Value[name] : SetAttrib(name, value)
  \/ \E i \in Item : SetItem(i)
  \/ \E encrypted \in BOOLEAN : SendData(encrypted)
  \/ Receive
  \/ \E name \in DOMAIN Value : Read(name)

Spec == Init /\ [][Next]_vars

-----------------------------------------------------------------------------
(* Properties.                                                             *)

\* Only what was encrypted may be dropped: its length is wrong.
Arrived == received # NoPacket /\ (wire.encrypted => received.xns # Erroneous.xns)

Occurs(word, s) == \E i \in 1 .. Len(s) - Len(word) + 1 : SubSeq(s, i, i + Len(word) - 1) = word

\* Written out, a value with one of these is taken for the escape of an escape.
Faithful(s) == \A c \in {"&", "CR", "LF"} : ~ Occurs(Escape[c], s)

\* An attribute is read as it was set, or as empty if nobody set it, whatever separators it
\* and its neighbours have; unless it has the text &amp; &return; or &newline;, and then it
\* never is (302-375, 519-586, 785-808).
ReadAsMeant ==
  Arrived => \A n \in DOMAIN Value :
    GetAttrib(received, n) = At(meant, n) <=> Faithful(At(meant, n))

\* An item is full when one of its attributes was stored.
Full(i) == \E n \in DOMAIN i : i[n] # <<>>
Stripped(i) == [n \in {m \in DOMAIN i : i[m] # <<>>} |-> i[n]]
ItemsMeant == LET full == SelectSeq(meantItems, Full) IN [k \in DOMAIN full |-> Stripped(full[k])]
ItemsRead ==
  LET read == GetItemList(received)
  IN  [k \in DOMAIN read |-> [n \in DOMAIN read[k] |-> CommandStringDecode(read[k][n])]]

\* The items arrive in their order, all of them, but for one lost at the end for
\* every empty one that stood before a full one (226-249, 577-585).
Misplaced ==
  {k \in DOMAIN meantItems : ~ Full(meantItems[k]) /\ \E m \in k .. Len(meantItems) : Full(meantItems[m])}
ItemsArrive ==
  Arrived =>
    ItemsRead = SubSeq(ItemsMeant, 1, Len(ItemsMeant) - Cardinality(Misplaced))

\* A packet that was read can be written out again and says the same, even when
\* attributes were asked for that it does not have (764-782).
Relayed == received # NoPacket => Parse(GetString(received)) = received

=============================================================================
