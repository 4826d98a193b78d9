---------------------------- MODULE LinkMicProofs ----------------------------
(***************************************************************************)
(* An anchor hears the room, a guest is heard under its id, and nothing    *)
(* outlives a manager, for any number of users and logins, and however     *)
(* many packets are under way.                                             *)
(***************************************************************************)
EXTENDS LinkMicInv, TLAPS

-----------------------------------------------------------------------------
(* Queues.                                                                 *)

LEMMA AppendIs ==
  ASSUME NEW S, NEW q \in Seq(S), NEW p \in S
  PROVE  /\ Append(q, p) \in Seq(S) /\ Len(q) \in Nat /\ Len(Append(q, p)) = Len(q) + 1
         /\ \A i \in 1 .. Len(q) : Append(q, p)[i] = q[i]
         /\ Append(q, p)[Len(q) + 1] = p
         /\ q \o <<p>> = Append(q, p) /\ q \o <<>> = q
OBVIOUS

LEMMA TailIs ==
  ASSUME NEW S, NEW q \in Seq(S), q # <<>>
  PROVE  /\ Tail(q) \in Seq(S) /\ Len(q) \in Nat /\ Len(Tail(q)) = Len(q) - 1 /\ Len(q) > 0
         /\ \A i \in 1 .. Len(q) - 1 : Tail(q)[i] = q[i + 1]
         /\ Head(q) = q[1] /\ Head(q) \in S
OBVIOUS

LEMMA HasAppend ==
  ASSUME NEW S, NEW q \in Seq(S), NEW p \in S, NEW cmd
  PROVE  Has(Append(q, p), cmd) <=> Has(q, cmd) \/ p.cmd = cmd
<1>1. Len(q) \in Nat /\ \A i : i \in 1 .. Len(q) + 1 <=> i \in 1 .. Len(q) \/ i = Len(q) + 1
  BY AppendIs
<1> QED
  BY <1>1, AppendIs DEF Has

LEMMA HasTail ==
  ASSUME NEW S, NEW q \in Seq(S), q # <<>>, NEW cmd
  PROVE  Has(q, cmd) <=> Head(q).cmd = cmd \/ Has(Tail(q), cmd)
<1>1. \A i : i \in 1 .. Len(q) <=> i = 1 \/ (i - 1 \in 1 .. Len(q) - 1 /\ i \in Int)
  BY TailIs
<1>2. \A i \in 1 .. Len(q) - 1 : i + 1 \in 1 .. Len(q)
  BY TailIs
<1>3. ASSUME NEW i \in 1 .. Len(q), q[i].cmd = cmd PROVE Head(q).cmd = cmd \/ Has(Tail(q), cmd)
  <2>1. i = 1 \/ (i - 1 \in 1 .. Len(q) - 1 /\ Tail(q)[i - 1] = q[i])
    BY TailIs
  <2> QED
    BY <1>3, <2>1, TailIs DEF Has
<1>4. Head(q).cmd = cmd \/ Has(Tail(q), cmd) => Has(q, cmd)
  BY <1>1, <1>2, TailIs DEF Has
<1> QED
  BY <1>3, <1>4 DEF Has

\* What becomes of a receiver depends on what comes before.
LEMMA BecomesPrefix ==
  ASSUME NEW S, NEW q \in Seq(S), NEW p \in S, NEW k \in 0 .. Len(q), NEW u, NEW x, NEW y
  PROVE  Becomes(Append(q, p), k, u, x, y) <=> Becomes(q, k, u, x, y)
<1>1. \A i \in 1 .. k : Append(q, p)[i] = q[i]
  BY AppendIs
<1>2. \A i \in 1 .. k : \A j \in i + 1 .. k : j \in 1 .. k
  OBVIOUS
<1> QED
  BY <1>1, <1>2 DEF Becomes

\* A packet at the end has the last word, if it is about u.
LEMMA BecomesAppend ==
  ASSUME NEW S, NEW q \in Seq(S), NEW p \in S, NEW u, NEW x, NEW y
  PROVE  /\ Concerns(p, u) => Becomes(Append(q, p), Len(q) + 1, u, x, IdIn(p, u))
         /\ ~ Concerns(p, u) /\ Becomes(q, Len(q), u, x, y) => Becomes(Append(q, p), Len(q) + 1, u, x, y)
<1> DEFINE n == Len(q)
           Q == Append(q, p)
<1>1. n \in Nat /\ Q[n + 1] = p /\ \A i \in 1 .. n : Q[i] = q[i]
  BY AppendIs
<1>2. /\ \A i \in 1 .. n + 1 : i \in 1 .. n \/ i = n + 1
      /\ \A i \in 1 .. n : i \in 1 .. n + 1 /\ \A j \in i + 1 .. n + 1 : j \in i + 1 .. n \/ j = n + 1
      /\ \A i \in 1 .. n : \A j \in i + 1 .. n : j \in 1 .. n
      /\ n + 1 \in 1 .. n + 1 /\ (n + 1) + 1 .. n + 1 = {}
  BY <1>1
<1> HIDE DEF n, Q
<1>3. Concerns(p, u) => Becomes(Q, n + 1, u, x, IdIn(p, u))
  BY <1>1, <1>2 DEF Becomes
<1>4. ASSUME ~ Concerns(p, u), Becomes(q, n, u, x, y) PROVE Becomes(Q, n + 1, u, x, y)
  <2>1. CASE x = y /\ \A i \in 1 .. n : ~ Concerns(q[i], u)
    BY <1>1, <1>2, <1>4, <2>1 DEF Becomes
  <2>2. ASSUME NEW i \in 1 .. n, Concerns(q[i], u), IdIn(q[i], u) = y, \A j \in i + 1 .. n : ~ Concerns(q[j], u)
        PROVE  Becomes(Q, n + 1, u, x, y)
    <3>1. \A j \in i + 1 .. n + 1 : ~ Concerns(Q[j], u)
      BY <1>1, <1>2, <1>4, <2>2
    <3> QED
      BY <1>1, <1>2, <2>2, <3>1 DEF Becomes
  <2> QED
    BY <1>4, <2>1, <2>2 DEF Becomes
<1> QED
  BY <1>3, <1>4 DEF n, Q

\* Reading the first packet makes of a receiver what it says.
LEMMA BecomesTail ==
  ASSUME NEW S, NEW q \in Seq(S), q # <<>>, NEW k \in 0 .. Len(q) - 1, NEW u, NEW x, NEW y, NEW x1,
         Becomes(q, k + 1, u, x, y),
         x1 = IF Concerns(Head(q), u) THEN IdIn(Head(q), u) ELSE x
  PROVE  Becomes(Tail(q), k, u, x1, y)
<1> DEFINE Q == Tail(q)
<1>1. Len(q) \in Nat /\ k \in Nat /\ Head(q) = q[1] /\ \A i \in 1 .. k : Q[i] = q[i + 1]
  BY TailIs
<1>2. \A i \in 1 .. k + 1 : i = 1 \/ (i - 1 \in 1 .. k /\ i = (i - 1) + 1)
  BY <1>1
<1>3. \A i \in 1 .. k : i + 1 \in 1 .. k + 1 /\ i + 1 \in 1 + 1 .. k + 1
  BY <1>1
<1>4. \A i \in 1 .. k : \A j \in i + 1 .. k : j \in 1 .. k /\ j + 1 \in (i + 1) + 1 .. k + 1
  BY <1>1
<1>5. 1 \in 1 .. k + 1
  BY <1>1
<1> HIDE DEF Q
<1>6. CASE x = y /\ \A j \in 1 .. k + 1 : ~ Concerns(q[j], u)
  BY <1>1, <1>3, <1>5, <1>6 DEF Becomes
<1>7. ASSUME Concerns(q[1], u), IdIn(q[1], u) = y, \A j \in 1 + 1 .. k + 1 : ~ Concerns(q[j], u)
      PROVE  Becomes(Q, k, u, x1, y)
  BY <1>1, <1>3, <1>7 DEF Becomes
<1>8. ASSUME NEW i \in 1 .. k, Concerns(q[i + 1], u), IdIn(q[i + 1], u) = y,
             \A j \in (i + 1) + 1 .. k + 1 : ~ Concerns(q[j], u)
      PROVE  Becomes(Q, k, u, x1, y)
  <2>1. \A j \in i + 1 .. k : ~ Concerns(Q[j], u)
    BY <1>1, <1>4, <1>8
  <2> QED
    BY <1>1, <1>8, <2>1 DEF Becomes
<1> QED
  BY <1>2, <1>6, <1>7, <1>8 DEF Becomes, Q

-----------------------------------------------------------------------------
(* What an anchor will make of its packets.                                *)

LEMMA Packets ==
  ASSUME NEW p \in ToClient
  PROVE  /\ p.cmd \in {"LOGINSERVERED", "LOGINREFUSED", "RELOGIN", "USERQUIT",
                       "REMOTEUSERLOGIN", "REMOTEUSERQUIT", "UPDATEUSERLIST"}
         /\ p.cmd \in {"REMOTEUSERLOGIN", "REMOTEUSERQUIT"} => p.user \in Client /\ p.id \in AudioID
         /\ p.cmd = "UPDATEUSERLIST" => p.ids \in [Client -> AudioID \cup {None}]
BY DEF ToClient

\* News of u, or no news: what the anchor will hear follows the ids.
LEMMA NewsAppend ==
  ASSUME NEW q \in Seq(ToClient), NEW p \in ToClient, NEW heard, NEW ids, NEW ids1, NEW closed,
         \A u \in Client : ids1[u] = IF Concerns(p, u) THEN IdIn(p, u) ELSE ids[u],
         p.cmd = "REMOTEUSERLOGIN" => ids[p.user] = None
  PROVE  /\ InStep(q, heard, ids) => InStep(Append(q, p), heard, ids1)
         /\ Complete(q, heard, ids, closed) => Complete(Append(q, p), heard, ids1, closed)
         /\ NeverTwice(q, heard) /\ InStep(q, heard, ids) => NeverTwice(Append(q, p), heard)
<1>1. /\ Len(q) \in Nat /\ Len(Append(q, p)) = Len(q) + 1 /\ Append(q, p)[Len(q) + 1] = p
      /\ \A i \in 1 .. Len(q) : Append(q, p)[i] = q[i]
      /\ \A i \in 1 .. Len(q) + 1 : i \in 1 .. Len(q) \/ i = Len(q) + 1
      /\ \A i \in 1 .. Len(q) : i - 1 \in 0 .. Len(q) /\ \A j \in 1 .. i - 1 : j \in 1 .. Len(q)
      /\ Len(q) + 1 - 1 = Len(q) /\ Len(q) \in 0 .. Len(q)
  BY AppendIs
<1>2. ASSUME InStep(q, heard, ids) PROVE InStep(Append(q, p), heard, ids1)
  <2>1. ASSUME NEW u \in Client
        PROVE  \E y \in {None, ids1[u]} : Becomes(Append(q, p), Len(q) + 1, u, heard[u], y)
    <3>1. PICK y \in {None, ids[u]} : Becomes(q, Len(q), u, heard[u], y)
      BY <1>2 DEF InStep
    <3>2. CASE Concerns(p, u)
      BY <3>2, BecomesAppend
    <3>3. CASE ~ Concerns(p, u)
      BY <3>1, <3>3, BecomesAppend
    <3> QED
      BY <3>2, <3>3
  <2> QED
    BY <1>1, <2>1 DEF InStep
<1>3. ASSUME Complete(q, heard, ids, closed) PROVE Complete(Append(q, p), heard, ids1, closed)
  <2>1. ASSUME NEW u \in Client
        PROVE  \/ Becomes(Append(q, p), Len(q) + 1, u, heard[u], ids1[u])
               \/ u \in closed /\ \A i \in 1 .. Len(q) + 1 : ~ Concerns(Append(q, p)[i], u)
    <3>1. CASE Concerns(p, u)
      BY <3>1, BecomesAppend
    <3>2. CASE ~ Concerns(p, u) /\ Becomes(q, Len(q), u, heard[u], ids[u])
      BY <3>2, BecomesAppend
    <3>3. CASE ~ Concerns(p, u) /\ u \in closed /\ \A i \in 1 .. Len(q) : ~ Concerns(q[i], u)
      BY <1>1, <3>3
    <3> QED
      BY <1>3, <3>1, <3>2, <3>3 DEF Complete
  <2> QED
    BY <1>1, <2>1 DEF Complete
<1>4. ASSUME NeverTwice(q, heard), InStep(q, heard, ids), NEW i \in 1 .. Len(q) + 1,
             Append(q, p)[i].cmd = "REMOTEUSERLOGIN"
      PROVE  \/ \E j \in 1 .. i - 1 : Append(q, p)[j].cmd \in Ends
             \/ LET u == Append(q, p)[i].user IN Becomes(Append(q, p), i - 1, u, heard[u], None)
  <2>1. CASE i \in 1 .. Len(q)
    <3>1. \/ \E j \in 1 .. i - 1 : q[j].cmd \in Ends
          \/ Becomes(q, i - 1, q[i].user, heard[q[i].user], None)
      BY <1>1, <1>4, <2>1 DEF NeverTwice
    <3>2. Becomes(q, i - 1, q[i].user, heard[q[i].user], None)
            <=> Becomes(Append(q, p), i - 1, q[i].user, heard[q[i].user], None)
      BY <1>1, <2>1, BecomesPrefix
    <3> QED
      BY <1>1, <2>1, <3>1, <3>2
  <2>2. CASE i = Len(q) + 1
    <3>1. p.user \in Client /\ ids[p.user] = None
      BY <1>1, <1>4, <2>2, Packets
    <3>2. Becomes(q, Len(q), p.user, heard[p.user], None)
      BY <1>4, <3>1 DEF InStep
    <3>3. Becomes(Append(q, p), Len(q), p.user, heard[p.user], None)
      BY <1>1, <3>2, BecomesPrefix
    <3> QED
      BY <1>1, <2>2, <3>3
  <2> QED
    BY <1>1, <2>1, <2>2
<1>5. NeverTwice(q, heard) /\ InStep(q, heard, ids) => NeverTwice(Append(q, p), heard)
  BY <1>1, <1>4 DEF NeverTwice
<1> QED
  BY <1>2, <1>3, <1>5

\* After the end nothing matters.
LEMMA NeverTwiceAtEnd ==
  ASSUME NEW q \in Seq(ToClient), NEW p \in ToClient, NEW heard, NeverTwice(q, heard),
         p.cmd = "REMOTEUSERLOGIN" => \E cmd \in Ends : Has(q, cmd)
  PROVE  NeverTwice(Append(q, p), heard)
<1>1. /\ Len(q) \in Nat /\ Len(Append(q, p)) = Len(q) + 1 /\ Append(q, p)[Len(q) + 1] = p
      /\ \A i \in 1 .. Len(q) : Append(q, p)[i] = q[i]
      /\ \A i \in 1 .. Len(q) + 1 : i \in 1 .. Len(q) \/ i = Len(q) + 1
      /\ \A i \in 1 .. Len(q) : i - 1 \in 0 .. Len(q) /\ \A j \in 1 .. i - 1 : j \in 1 .. Len(q)
      /\ Len(q) + 1 - 1 = Len(q)
  BY AppendIs
<1>2. ASSUME NEW i \in 1 .. Len(q) + 1, Append(q, p)[i].cmd = "REMOTEUSERLOGIN"
      PROVE  \/ \E j \in 1 .. i - 1 : Append(q, p)[j].cmd \in Ends
             \/ LET u == Append(q, p)[i].user IN Becomes(Append(q, p), i - 1, u, heard[u], None)
  <2>1. CASE i \in 1 .. Len(q)
    <3>1. \/ \E j \in 1 .. i - 1 : q[j].cmd \in Ends
          \/ Becomes(q, i - 1, q[i].user, heard[q[i].user], None)
      BY <1>1, <1>2, <2>1 DEF NeverTwice
    <3>2. Becomes(q, i - 1, q[i].user, heard[q[i].user], None)
            <=> Becomes(Append(q, p), i - 1, q[i].user, heard[q[i].user], None)
      BY <1>1, <2>1, BecomesPrefix
    <3> QED
      BY <1>1, <2>1, <3>1, <3>2
  <2>2. CASE i = Len(q) + 1
    <3>1. PICK j \in 1 .. Len(q) : q[j].cmd \in Ends
      BY <1>1, <1>2, <2>2 DEF Has
    <3> QED
      BY <1>1, <2>2, <3>1
  <2> QED
    BY <1>1, <2>1, <2>2
<1> QED
  BY <1>1, <1>2 DEF NeverTwice

\* The list names everybody who is logged in.
LEMMA ListAppend ==
  ASSUME NEW q \in Seq(ToClient), NEW p \in ToClient, NEW heard, NEW ids, NEW closed,
         InStep(q, heard, ids), p.cmd = "UPDATEUSERLIST", p.ids = ids
  PROVE  Complete(Append(q, p), heard, ids, closed)
<1>1. Len(Append(q, p)) = Len(q) + 1
  BY AppendIs
<1>2. ASSUME NEW u \in Client PROVE Becomes(Append(q, p), Len(q) + 1, u, heard[u], ids[u])
  <2>1. CASE ids[u] # None
    BY <2>1, BecomesAppend DEF Concerns, IdIn
  <2>2. CASE ids[u] = None
    <3>1. Becomes(q, Len(q), u, heard[u], ids[u])
      BY <2>2 DEF InStep
    <3> QED
      BY <2>2, <3>1, BecomesAppend DEF Concerns
  <2> QED
    BY <2>1, <2>2
<1> QED
  BY <1>1, <1>2 DEF Complete

\* Reading a packet changes nothing of what comes out in the end.
LEMMA NewsTail ==
  ASSUME NEW q \in Seq(ToClient), q # <<>>, Head(q).cmd \notin Ends,
         NEW heard, NEW heard1, NEW ids, NEW closed, NEW closed1,
         \A u \in Client : heard1[u] = IF Concerns(Head(q), u) THEN IdIn(Head(q), u) ELSE heard[u],
         \A u \in closed : Concerns(Head(q), u) \/ u \in closed1
  PROVE  /\ InStep(q, heard, ids) => InStep(Tail(q), heard1, ids)
         /\ Complete(q, heard, ids, closed) => Complete(Tail(q), heard1, ids, closed1)
         /\ NeverTwice(q, heard) => NeverTwice(Tail(q), heard1)
<1>1. /\ Len(q) \in Nat /\ Len(q) > 0 /\ Len(Tail(q)) = Len(q) - 1 /\ Head(q) = q[1]
      /\ \A i \in 1 .. Len(q) - 1 : Tail(q)[i] = q[i + 1] /\ i + 1 \in 1 .. Len(q) /\ q[i + 1] \in ToClient
      /\ (Len(q) - 1) + 1 = Len(q) /\ Len(q) - 1 \in 0 .. Len(q) - 1 /\ 1 \in 1 .. Len(q)
  BY TailIs
<1>2. ASSUME NEW k \in 0 .. Len(q) - 1, NEW u \in Client, NEW y, Becomes(q, k + 1, u, heard[u], y)
      PROVE  Becomes(Tail(q), k, u, heard1[u], y)
  BY <1>2, BecomesTail
<1>7. \A u \in Client : \A y : Becomes(q, Len(q), u, heard[u], y)
                            => Becomes(Tail(q), Len(q) - 1, u, heard1[u], y)
  BY <1>1, <1>2
<1>3. InStep(q, heard, ids) => InStep(Tail(q), heard1, ids)
  BY <1>1, <1>7 DEF InStep
<1>4. Complete(q, heard, ids, closed) => Complete(Tail(q), heard1, ids, closed1)
  <2> SUFFICES ASSUME Complete(q, heard, ids, closed), NEW u \in Client
               PROVE  \/ Becomes(Tail(q), Len(q) - 1, u, heard1[u], ids[u])
                      \/ u \in closed1 /\ \A i \in 1 .. Len(q) - 1 : ~ Concerns(Tail(q)[i], u)
    BY <1>1 DEF Complete
  <2>1. CASE Becomes(q, Len(q), u, heard[u], ids[u])
    BY <1>1, <1>2, <2>1
  <2>2. CASE u \in closed /\ \A i \in 1 .. Len(q) : ~ Concerns(q[i], u)
    BY <1>1, <2>2
  <2> QED
    BY <2>1, <2>2 DEF Complete
<1>5. ASSUME NeverTwice(q, heard), NEW i \in 1 .. Len(q) - 1, Tail(q)[i].cmd = "REMOTEUSERLOGIN"
      PROVE  \/ \E j \in 1 .. i - 1 : Tail(q)[j].cmd \in Ends
             \/ LET u == Tail(q)[i].user IN Becomes(Tail(q), i - 1, u, heard1[u], None)
  <2>1. q[i + 1].cmd = "REMOTEUSERLOGIN" /\ q[i + 1].user \in Client /\ i + 1 \in 1 .. Len(q) /\ (i + 1) - 1 = i
    BY <1>1, <1>5, Packets
  <2>2. CASE \E j \in 1 .. i : q[j].cmd \in Ends
    <3>1. PICK j \in 1 .. i : q[j].cmd \in Ends
      BY <2>2
    <3>2. j # 1
      BY <1>1, <3>1
    <3>3. j - 1 \in 1 .. i - 1 /\ j - 1 \in 1 .. Len(q) - 1 /\ (j - 1) + 1 = j
      BY <1>1, <3>1, <3>2
    <3> QED
      BY <1>1, <3>1, <3>3
  <2>3. CASE Becomes(q, i, q[i + 1].user, heard[q[i + 1].user], None)
    <3>1. i - 1 \in 0 .. Len(q) - 1 /\ (i - 1) + 1 = i
      BY <1>1
    <3> QED
      BY <1>1, <1>2, <2>1, <2>3, <3>1
  <2> QED
    BY <1>5, <2>1, <2>2, <2>3 DEF NeverTwice
<1>6. NeverTwice(q, heard) => NeverTwice(Tail(q), heard1)
  BY <1>1, <1>5 DEF NeverTwice
<1> QED
  BY <1>3, <1>4, <1>6

\* Nor does closing a user.
LEMMA NewsShut ==
  ASSUME NEW q \in Seq(ToClient), NEW heard \in [Client -> AudioID \cup {None}], NEW ids, NEW closed, NEW w
  PROVE  LET heard1 == [heard EXCEPT ![w] = None] IN
         /\ InStep(q, heard, ids) => InStep(q, heard1, ids)
         /\ Complete(q, heard, ids, closed) => Complete(q, heard1, ids, closed \cup {w})
         /\ NeverTwice(q, heard) => NeverTwice(q, heard1)
<1> DEFINE heard1 == [heard EXCEPT ![w] = None]
           closed1 == closed \cup {w}
<1>0. \A u \in Client : heard1[u] = IF u = w THEN None ELSE heard[u]
  OBVIOUS
<1>00. closed \subseteq closed1 /\ w \in closed1
  OBVIOUS
<1> HIDE DEF heard1, closed1
<1>1. ASSUME NEW k, NEW x, NEW y, Becomes(q, k, w, x, y)
      PROVE  Becomes(q, k, w, None, y) \/ \A i \in 1 .. k : ~ Concerns(q[i], w)
  BY <1>1 DEF Becomes
<1>2. ASSUME NEW k, \A i \in 1 .. k : ~ Concerns(q[i], w)
      PROVE  Becomes(q, k, w, None, None)
  BY <1>2 DEF Becomes
<1>3. ASSUME NEW k, NEW x, Becomes(q, k, w, x, None) PROVE Becomes(q, k, w, None, None)
  BY <1>1, <1>2, <1>3
<1>4. InStep(q, heard, ids) => InStep(q, heard1, ids)
  BY <1>0, <1>1, <1>2 DEF InStep
<1>5. Complete(q, heard, ids, closed) => Complete(q, heard1, ids, closed1)
  BY <1>0, <1>00, <1>1 DEF Complete
<1>6. NeverTwice(q, heard) => NeverTwice(q, heard1)
  <2>1. \A i \in 1 .. Len(q) : q[i].cmd = "REMOTEUSERLOGIN" => q[i].user \in Client
    BY Packets
  <2> QED
    BY <1>0, <1>3, <2>1 DEF NeverTwice
<1> QED
  BY <1>4, <1>5, <1>6 DEF heard1, closed1

-----------------------------------------------------------------------------
(* Types.                                                                  *)

LEMMA TypeInit == Init => LinkMicTypeOK
<1> SUFFICES ASSUME Init PROVE LinkMicTypeOK
  OBVIOUS
<1>1. Nobody \in [Client -> AudioID \cup {None}]
  BY DEF Nobody
<1> QED
  BY <1>1 DEF Init, LinkMicTypeOK, Link

\* What the server writes.
LEMMA PacketTypes ==
  ASSUME LinkMicTypeOK, NEW c \in Client
  PROVE  /\ \A cmd \in {"LOGINSERVERED", "LOGINREFUSED", "RELOGIN", "USERQUIT"} : Packet(cmd) \in ToClient
         /\ \A id \in AudioID : About("REMOTEUSERLOGIN", c, id) \in ToClient /\ About("REMOTEUSERQUIT", c, id) \in ToClient
         /\ logged[c] # None => About("REMOTEUSERQUIT", c, logged[c]) \in ToClient
         /\ UserList([logged EXCEPT ![c] = None]) \in ToClient
         /\ \A cmd \in {"GETUSERLIST", "QUITSERVER"} : Packet(cmd) \in ToServer
         /\ \A id \in AudioID : Login(id) \in ToServer
<1>1. [logged EXCEPT ![c] = None] \in [Client -> AudioID \cup {None}]
  BY DEF LinkMicTypeOK
<1>2. logged[c] # None => logged[c] \in AudioID
  BY DEF LinkMicTypeOK
<1> QED
  BY <1>1, <1>2 DEF Packet, About, UserList, Login, ToClient, ToServer

\* Leaves and a login, one packet at a time.
LEMMA ToldIs ==
  ASSUME LinkMicTypeOK, NEW c \in Client, NEW q \in Seq(ToClient), NEW id \in AudioID
  PROVE  LET quit == About("REMOTEUSERQUIT", c, logged[c])
             login == About("REMOTEUSERLOGIN", c, id) IN
         /\ q \o Leaves(c) = IF logged[c] # None THEN Append(q, quit) ELSE q
         /\ q \o (Leaves(c) \o << login >>) = Append(q \o Leaves(c), login)
         /\ q \o Leaves(c) \in Seq(ToClient)
<1> DEFINE quit == About("REMOTEUSERQUIT", c, logged[c])
           login == About("REMOTEUSERLOGIN", c, id)
<1>1. login \in ToClient /\ (logged[c] # None => quit \in ToClient)
  BY PacketTypes
<1> HIDE DEF quit, login
<1>2. CASE logged[c] # None
  <2>1. quit \in ToClient
    BY <1>1, <1>2
  <2>2. Leaves(c) = <<quit>>
    BY <1>2 DEF Leaves, quit
  <2>3. q \o <<quit>> = Append(q, quit)
    BY <2>1, AppendIs
  <2>4. q \o (<<quit>> \o <<login>>) = Append(q \o <<quit>>, login)
    BY <1>1, <2>1
  <2> QED
    BY <1>2, <2>1, <2>2, <2>3, <2>4 DEF quit, login
<1>3. CASE logged[c] = None
  <2>1. Leaves(c) = <<>>
    BY <1>3 DEF Leaves
  <2>2. q \o <<>> = q /\ q \o (<<>> \o <<login>>) = Append(q \o <<>>, login)
    BY <1>1
  <2> QED
    BY <1>3, <2>1, <2>2 DEF quit, login
<1> QED
  BY <1>2, <1>3

LEMMA TellTypes ==
  ASSUME LinkMicTypeOK, NEW c \in Client, NEW own \in Seq(ToClient), NEW other \in Seq(ToClient), Tell(c, own, other)
  PROVE  toClient' \in [Client -> Seq(ToClient)]
<1>1. \A d \in Client : toClient[d] \o own \in Seq(ToClient) /\ toClient[d] \o other \in Seq(ToClient)
  BY DEF LinkMicTypeOK
<1> QED
  BY <1>1 DEF Tell, LinkMicTypeOK

LEMMA SessionEndsTypes ==
  ASSUME LinkMicTypeOK, NEW c \in Client, SessionEnds(c)
  PROVE  /\ toServer' \in [Client -> Seq(ToServer)] /\ toClient' \in [Client -> Seq(ToClient)]
         /\ logged' \in [Client -> AudioID \cup {None}]
<1>1. \A d \in Client : logged[c] # None => Append(toClient[d], About("REMOTEUSERQUIT", c, logged[c])) \in Seq(ToClient)
  BY PacketTypes, AppendIs DEF LinkMicTypeOK
<1>2. <<>> \in Seq(ToClient) /\ <<>> \in Seq(ToServer)
  OBVIOUS
<1> QED
  BY <1>1, <1>2 DEF SessionEnds, LinkMicTypeOK

LEMMA CloseMediaTypes ==
  ASSUME LinkMicTypeOK, NEW c \in Client, CloseMedia(c)
  PROVE  /\ openLocalUser' \in [Client -> AudioID \cup {None}] /\ mic' \in [Client -> BOOLEAN]
         /\ openRemoteUser' \in [Client -> [Client -> AudioID \cup {None}]]
         /\ shut' \in [Client -> SUBSET Client] /\ stale' \in [Client -> BOOLEAN] /\ stranded' \in [Client -> BOOLEAN]
         /\ lost' = lost
<1>1. Nobody \in [Client -> AudioID \cup {None}]
  BY DEF Nobody
<1> QED
  BY <1>1 DEF CloseMedia, CloseMediaSender, LinkMicTypeOK

\* A packet read, and a packet sent.
LEMMA HandledTypes ==
  ASSUME LinkMicTypeOK, NEW c \in Client, toClient[c] # <<>>, Handled(c)
  PROVE  /\ toClient' \in [Client -> Seq(ToClient)] /\ toClient'[c] = Tail(toClient[c])
         /\ \A d \in Client \ {c} : toClient'[d] = toClient[d]
         /\ Head(toClient[c]) \in ToClient
BY TailIs DEF Handled, LinkMicTypeOK

LEMMA SentTypes ==
  ASSUME LinkMicTypeOK, NEW c \in Client, NEW p \in ToServer, toServer' = Sent(c, p)
  PROVE  /\ toServer' \in [Client -> Seq(ToServer)]
         /\ toServer'[c] = IF link[c] = "up" THEN Append(toServer[c], p) ELSE toServer[c]
         /\ \A d \in Client \ {c} : toServer'[d] = toServer[d]
BY AppendIs DEF Sent, LinkMicTypeOK

LEMMA ServedTypes ==
  ASSUME LinkMicTypeOK, NEW c \in Client, toServer[c] # <<>>, Served(c)
  PROVE  /\ toServer' \in [Client -> Seq(ToServer)] /\ toServer'[c] = Tail(toServer[c])
         /\ \A d \in Client \ {c} : toServer'[d] = toServer[d]
         /\ Head(toServer[c]) \in ToServer
BY TailIs DEF Served, LinkMicTypeOK

LEMMA OpenTypes ==
  ASSUME LinkMicTypeOK, NEW c \in Client, NEW ids \in [Client -> AudioID \cup {None}], OpenReceivers(c, ids)
  PROVE  /\ openRemoteUser' \in [Client -> [Client -> AudioID \cup {None}]]
         /\ lost' \in [Client -> SUBSET (Client \X (AudioID \cup {None}))]
         /\ shut' \in [Client -> SUBSET Client]
<1>1. [u \in Client |-> IF u \in {v \in Client : ids[v] # None} THEN ids[u] ELSE openRemoteUser[c][u]]
        \in [Client -> AudioID \cup {None}]
  BY DEF LinkMicTypeOK
<1>2. \A u \in Client : <<u, openRemoteUser[c][u]>> \in Client \X (AudioID \cup {None})
  BY DEF LinkMicTypeOK
<1> QED
  BY <1>1, <1>2 DEF OpenReceivers, LinkMicTypeOK

LEMMA TypeNext == LinkMicTypeOK /\ [Next]_vars => LinkMicTypeOK'
<1> SUFFICES ASSUME LinkMicTypeOK, [Next]_vars PROVE LinkMicTypeOK'
  OBVIOUS
<1> USE DEF LinkMicTypeOK
<1>1. CASE UNCHANGED vars
  BY <1>1 DEF vars, mediaVars, historyVars, queueVars
<1>2. ASSUME NEW c \in Client, Calls(c) PROVE LinkMicTypeOK'
  <2>1. CASE LoginLinkMicServer(c)
    BY <2>1 DEF LoginLinkMicServer, queueVars, Link, Nobody
  <2>2. CASE LogoutServer(c)
    <3>1. Packet("QUITSERVER") \in ToServer
      BY PacketTypes
    <3>2. toServer' \in [Client -> Seq(ToServer)]
      BY <2>2, <3>1, SentTypes DEF LogoutServer
    <3> QED
      BY <2>2, <3>2 DEF LogoutServer, historyVars, Nobody
  <2>3. ASSUME NEW u \in Client, CloseRemoteUserVideo(c, u) PROVE LinkMicTypeOK'
    BY <2>3 DEF CloseRemoteUserVideo, historyVars, queueVars
  <2> QED
    BY <1>2, <2>1, <2>2, <2>3 DEF Calls
<1>3. ASSUME NEW c \in Client, Handle(c) PROVE LinkMicTypeOK'
  <2>1. CASE LoginServered(c)
    <3>1. toClient' \in [Client -> Seq(ToClient)]
      BY <2>1, HandledTypes DEF LoginServered, Receives
    <3>2. toServer' \in [Client -> Seq(ToServer)]
      BY <2>1, PacketTypes, SentTypes DEF LoginServered
    <3>3. openLocalUser' \in [Client -> AudioID \cup {None}] /\ mic' \in [Client -> BOOLEAN]
      <4>1. (mic[c] \/ c \in HasVideo) \in BOOLEAN
        OBVIOUS
      <4>2. CASE UNCHANGED <<openLocalUser, mic>>
        BY <4>2
      <4>3. CASE /\ openLocalUser' = [openLocalUser EXCEPT ![c] = audioID[c]]
                 /\ mic' = [mic EXCEPT ![c] = mic[c] \/ c \in HasVideo]
        BY <4>1, <4>3
      <4> QED
        BY <2>1, <4>2, <4>3 DEF LoginServered, OpenMediaSender
    <3> QED
      BY <2>1, <3>1, <3>2, <3>3 DEF LoginServered, historyVars
  <2>2. ASSUME NEW cmd, Teardown(c, cmd)
        PROVE  /\ link' \in [Client -> Link] /\ toServer' \in [Client -> Seq(ToServer)]
               /\ toClient' \in [Client -> Seq(ToClient)] /\ logged' \in [Client -> AudioID \cup {None}]
               /\ UNCHANGED <<audioID, userInfoList>>
    BY <2>2, SessionEndsTypes DEF Teardown, Link
  <2>3. CASE LoginRefused(c)
    BY <2>2, <2>3 DEF LoginRefused, mediaVars, historyVars
  <2>4. CASE SessionOver(c)
    <3>1. PICK cmd : Teardown(c, cmd) /\ CloseMedia(c)
      BY <2>4 DEF SessionOver
    <3> QED
      BY <2>2, <3>1, CloseMediaTypes
  <2>5. CASE RemoteUserLogin(c)
    <3>1. toClient' \in [Client -> Seq(ToClient)] /\ Head(toClient[c]) \in ToClient
      BY <2>5, HandledTypes DEF RemoteUserLogin, Receives
    <3>2. Head(toClient[c]).user \in Client /\ Head(toClient[c]).id \in AudioID
      BY <2>5, <3>1, Packets DEF RemoteUserLogin, Receives
    <3>3. [Nobody EXCEPT ![Head(toClient[c]).user] = Head(toClient[c]).id] \in [Client -> AudioID \cup {None}]
      BY <3>2 DEF Nobody
    <3>4. /\ openRemoteUser' \in [Client -> [Client -> AudioID \cup {None}]]
          /\ lost' \in [Client -> SUBSET (Client \X (AudioID \cup {None}))]
          /\ shut' \in [Client -> SUBSET Client]
      BY <2>5, <3>3, OpenTypes DEF RemoteUserLogin
    <3>5. userInfoList' \in [Client -> [Client -> AudioID \cup {None}]]
      BY <2>5, <3>2 DEF RemoteUserLogin
    <3> QED
      BY <2>5, <3>1, <3>4, <3>5 DEF RemoteUserLogin, historyVars
  <2>6. CASE RemoteUserQuit(c)
    <3>1. toClient' \in [Client -> Seq(ToClient)] /\ Head(toClient[c]) \in ToClient
      BY <2>6, HandledTypes DEF RemoteUserQuit, Receives
    <3>2. Head(toClient[c]).user \in Client
      BY <2>6, <3>1, Packets DEF RemoteUserQuit, Receives
    <3> QED
      BY <2>6, <3>1, <3>2 DEF RemoteUserQuit, historyVars
  <2>7. CASE UpdateUserList(c)
    <3>1. toClient' \in [Client -> Seq(ToClient)] /\ Head(toClient[c]) \in ToClient
      BY <2>7, HandledTypes DEF UpdateUserList, Receives
    <3>2. Head(toClient[c]).ids \in [Client -> AudioID \cup {None}]
      BY <2>7, <3>1, Packets DEF UpdateUserList, Receives
    <3>3. /\ openRemoteUser' \in [Client -> [Client -> AudioID \cup {None}]]
          /\ lost' \in [Client -> SUBSET (Client \X (AudioID \cup {None}))]
          /\ shut' \in [Client -> SUBSET Client]
      BY <2>7, <3>2, OpenTypes DEF UpdateUserList
    <3>4. userInfoList' \in [Client -> [Client -> AudioID \cup {None}]]
      BY <2>7, <3>2 DEF UpdateUserList
    <3> QED
      BY <2>7, <3>1, <3>3, <3>4 DEF UpdateUserList, historyVars
  <2> QED
    BY <1>3, <2>1, <2>3, <2>4, <2>5, <2>6, <2>7 DEF Handle
<1>4. ASSUME NEW c \in Client, ServerAnswers(c) \/ ServerKick(c) PROVE LinkMicTypeOK'
  <2> DEFINE Rest == UNCHANGED ClientVars
  <2>1. Rest
    BY <1>4 DEF ServerAnswers, ServerLogin, ServerUserList, ServerQuit, ServerIgnores, ServerKick
  <2>2. toServer' \in [Client -> Seq(ToServer)]
    BY <1>4, ServedTypes DEF ServerAnswers, ServerLogin, ServerUserList, ServerQuit, ServerIgnores, ServerKick, Asked
  <2>3. Leaves(c) \in Seq(ToClient) /\ \A p \in ToClient : <<p>> \in Seq(ToClient) /\ Leaves(c) \o <<p>> \in Seq(ToClient)
    <3>1. Leaves(c) \in Seq(ToClient)
      <4>1. logged[c] # None => About("REMOTEUSERQUIT", c, logged[c]) \in ToClient
        BY PacketTypes
      <4>2. \A p \in ToClient : <<p>> \in Seq(ToClient)
        OBVIOUS
      <4> QED
        BY <4>1, <4>2 DEF Leaves
    <3>2. ASSUME NEW p \in ToClient PROVE <<p>> \in Seq(ToClient)
      BY <3>2
    <3> QED
      BY <3>1, <3>2
  <2>4. toClient' \in [Client -> Seq(ToClient)] /\ logged' \in [Client -> AudioID \cup {None}]
    <3>1. CASE ServerLogin(c)
      <4> DEFINE id == Head(toServer[c]).id
      <4>1. id \in AudioID
        <5>1. Head(toServer[c]) \in ToServer /\ Head(toServer[c]).cmd = "LOGINSERVER"
          BY <3>1, ServedTypes DEF ServerLogin, Asked
        <5> QED
          BY <5>1 DEF ToServer
      <4>2. /\ << Packet("LOGINSERVERED") >> \in Seq(ToClient) /\ << Packet("LOGINREFUSED") >> \in Seq(ToClient)
            /\ Leaves(c) \o << About("REMOTEUSERLOGIN", c, id) >> \in Seq(ToClient) /\ <<>> \in Seq(ToClient)
        <5>1. Packet("LOGINSERVERED") \in ToClient /\ Packet("LOGINREFUSED") \in ToClient
          BY PacketTypes
        <5>2. About("REMOTEUSERLOGIN", c, id) \in ToClient
          BY <4>1, PacketTypes
        <5> QED
          BY <2>3, <5>1, <5>2
      <4> QED
        BY <3>1, <4>1, <4>2, TellTypes DEF ServerLogin
    <3>2. CASE ServerUserList(c) \/ ServerQuit(c) \/ ServerKick(c) \/ ServerIgnores(c)
      <4>1. /\ << UserList([logged EXCEPT ![c] = None]) >> \in Seq(ToClient) /\ << Packet("USERQUIT") >> \in Seq(ToClient)
            /\ << Packet("RELOGIN") >> \in Seq(ToClient) /\ <<>> \in Seq(ToClient)
        <5>1. Packet("USERQUIT") \in ToClient /\ Packet("RELOGIN") \in ToClient
          BY PacketTypes
        <5>2. UserList([logged EXCEPT ![c] = None]) \in ToClient
          BY PacketTypes
        <5> QED
          BY <2>3, <5>1, <5>2
      <4> QED
        BY <2>3, <3>2, <4>1, TellTypes DEF ServerUserList, ServerQuit, ServerKick, ServerIgnores
    <3> QED
      BY <1>4, <3>1, <3>2 DEF ServerAnswers
  <2> QED
    BY <2>1, <2>2, <2>4 DEF ClientVars, mediaVars, historyVars
<1>5. ASSUME NEW c \in Client, Connection(c) \/ Restarted(c) \/ Busy(c) PROVE LinkMicTypeOK'
  <2>1. CASE Connected(c) \/ Reconnected(c)
    <3>1. LoginServer(c)
      BY <2>1 DEF Connected, Reconnected
    <3>2. audioID[c] + 1 \in AudioID
      <4>1. audioID[c] \in AudioID \cup {None} /\ audioID[c] < MaxLogins /\ MaxLogins \in Nat
        BY <3>1, LinkMicAssumption DEF LoginServer
      <4> QED
        BY <4>1 DEF AudioID, None
    <3>3. audioID' \in [Client -> AudioID \cup {None}] /\ audioID'[c] \in AudioID
      BY <3>1, <3>2 DEF LoginServer
    <3>4. toServer' \in [Client -> Seq(ToServer)]
      BY <3>1, <3>3, PacketTypes, AppendIs DEF LoginServer
    <3> QED
      BY <3>1, <3>3, <3>4 DEF LoginServer, mediaVars, Link
  <2>2. CASE Disconnected(c)
    BY <2>2, CloseMediaTypes DEF Disconnected, queueVars, Link
  <2>3. CASE ServerDrop(c)
    BY <2>3, SessionEndsTypes DEF ServerDrop, Link, mediaVars, historyVars
  <2>4. CASE Restarted(c)
    BY <2>4 DEF Restarted, Link, mediaVars, queueVars
  <2>5. CASE Busy(c)
    BY <2>5 DEF Busy, Link, mediaVars, historyVars, queueVars
  <2> QED
    BY <1>5, <2>1, <2>2, <2>3, <2>4, <2>5 DEF Connection
<1> QED
  BY <1>1, <1>2, <1>3, <1>4, <1>5 DEF Next

-----------------------------------------------------------------------------
(* The other users: nothing of theirs changes but what they have to read.  *)

Same(d) ==
  /\ link'[d] = link[d] /\ audioID'[d] = audioID[d] /\ openLocalUser'[d] = openLocalUser[d] /\ mic'[d] = mic[d]
  /\ openRemoteUser'[d] = openRemoteUser[d] /\ shut'[d] = shut[d] /\ stale'[d] = stale[d]
  /\ stranded'[d] = stranded[d] /\ toServer'[d] = toServer[d]

LEMMA Untouched ==
  ASSUME NEW d \in Client, Good(d), Same(d), toClient'[d] = toClient[d],
         logged' = logged \/ (logged[d] = None /\ logged'[d] = None)
  PROVE  Good(d)'
<1> USE DEF Same
<1>1. (Fresh(d)' <=> Fresh(d)) /\ (EndPending(d)' <=> EndPending(d))
  BY DEF Fresh, EndPending
<1>2. Sessions(d)' /\ Beginning(d)'
  BY <1>1 DEF Good, Sessions, Beginning
<1>3. Refusals(toClient[d], stranded[d] \/ Fresh(d))'
  BY <1>1 DEF Good, Refusals
<1>4. Ids(d)' /\ Shut(d)'
  BY DEF Good, Ids, Shut
<1>5. Senders(d)'
  BY <1>1 DEF Good, Senders
<1>6. Hearing(d)'
  BY <1>1 DEF Good, Hearing, Others
<1> QED
  BY <1>2, <1>3, <1>4, <1>5, <1>6 DEF Good

\* News about another user, c, who has another id, or none, now.
LEMMA HeardOfOne ==
  ASSUME NEW d \in Client, NEW q \in Seq(ToClient), NEW p \in ToClient, NEW c \in Client \ {d},
         NEW heard, NEW ids, NEW ids1, NEW closed,
         \/ p.cmd = "REMOTEUSERQUIT" /\ p.user = c /\ ids1[c] = None
         \/ p.cmd = "REMOTEUSERLOGIN" /\ p.user = c /\ ids1[c] = p.id /\ ids[c] = None,
         \A u \in Client \ {c} : ids1[u] = ids[u]
  PROVE  /\ InStep(q, heard, ids) => InStep(Append(q, p), heard, ids1)
         /\ Complete(q, heard, ids, closed) => Complete(Append(q, p), heard, ids1, closed)
         /\ NeverTwice(q, heard) /\ (InStep(q, heard, ids) \/ \E cmd \in Ends : Has(q, cmd))
              => NeverTwice(Append(q, p), heard)
<1>1. \A u \in Client : ids1[u] = IF Concerns(p, u) THEN IdIn(p, u) ELSE ids[u]
  BY DEF Concerns, IdIn
<1>2. p.cmd = "REMOTEUSERLOGIN" => ids[p.user] = None
  OBVIOUS
<1>3. /\ InStep(q, heard, ids) => InStep(Append(q, p), heard, ids1)
      /\ Complete(q, heard, ids, closed) => Complete(Append(q, p), heard, ids1, closed)
      /\ NeverTwice(q, heard) /\ InStep(q, heard, ids) => NeverTwice(Append(q, p), heard)
  BY <1>1, <1>2, NewsAppend
<1>4. NeverTwice(q, heard) /\ (\E cmd \in Ends : Has(q, cmd)) => NeverTwice(Append(q, p), heard)
  BY NeverTwiceAtEnd
<1> QED
  BY <1>3, <1>4

LEMMA RefusalsAppend ==
  ASSUME NEW q \in Seq(ToClient), NEW p \in ToClient, NEW fresh, Refusals(q, fresh),
         p.cmd = "LOGINREFUSED" => (q = <<>> /\ fresh) \/ \E cmd \in Ends : Has(q, cmd)
  PROVE  Refusals(Append(q, p), fresh)
<1>1. /\ Len(q) \in Nat /\ Len(Append(q, p)) = Len(q) + 1 /\ Append(q, p)[Len(q) + 1] = p
      /\ \A i \in 1 .. Len(q) : Append(q, p)[i] = q[i]
      /\ \A i \in 1 .. Len(q) + 1 : i \in 1 .. Len(q) \/ i = Len(q) + 1
      /\ \A i \in 1 .. Len(q) : \A j \in 1 .. i - 1 : j \in 1 .. Len(q)
      /\ q = <<>> => Len(q) = 0
  BY AppendIs
<1>2. \A i \in 1 .. Len(q) : Append(q, p)[i].cmd = "LOGINREFUSED" =>
        (\E j \in 1 .. i - 1 : Append(q, p)[j].cmd \in Ends) \/ (i = 1 /\ fresh)
  BY <1>1 DEF Refusals
<1>3. ASSUME p.cmd = "LOGINREFUSED"
      PROVE  (\E j \in 1 .. Len(q) : Append(q, p)[j].cmd \in Ends) \/ (Len(q) + 1 = 1 /\ fresh)
  BY <1>1, <1>3 DEF Has
<1> QED
  BY <1>1, <1>2, <1>3 DEF Refusals

\* Most of what holds of d depends on nothing but the ends and the answers it has to read.
LEMMA OthersHear ==
  ASSUME NEW d \in Client, Good(d), Same(d), logged[d] # None, logged'[d] = logged[d],
         \A cmd \in Ends \cup {"LOGINSERVERED"} : Has(toClient[d], cmd)' <=> Has(toClient[d], cmd),
         Refusals(toClient'[d], stranded[d] \/ Fresh(d))
  PROVE  /\ Sessions(d)' /\ Beginning(d)' /\ Refusals(toClient[d], stranded[d] \/ Fresh(d))'
         /\ Ids(d)' /\ Senders(d)' /\ Shut(d)'
         /\ EndPending(d)' <=> EndPending(d)
<1> USE DEF Same
<1>1. EndPending(d)' <=> EndPending(d)
  BY DEF EndPending
<1>2. Fresh(d)' <=> Fresh(d)
  BY DEF Fresh
<1>3. Sessions(d)' /\ Beginning(d)'
  BY <1>1, <1>2 DEF Good, Sessions, Beginning
<1>4. Refusals(toClient[d], stranded[d] \/ Fresh(d))'
  BY <1>2 DEF Refusals
<1>5. Ids(d)' /\ Shut(d)'
  BY DEF Good, Ids, Shut
<1>6. Senders(d)'
  BY <1>1 DEF Good, Senders
<1> QED
  BY <1>1, <1>3, <1>4, <1>5, <1>6

\* c leaves, comes, or comes back, and d is told.
LEMMA Announced ==
  ASSUME LinkMicTypeOK, NEW c \in Client, NEW d \in Client \ {c}, Good(d), Same(d), logged[d] # None,
         NEW id \in AudioID \cup {None},
         logged' = [logged EXCEPT ![c] = id],
         toClient'[d] = IF id = None THEN toClient[d] \o Leaves(c)
                        ELSE toClient[d] \o (Leaves(c) \o << About("REMOTEUSERLOGIN", c, id) >>)
  PROVE  Good(d)'
<1> DEFINE q == toClient[d]
           q1 == q \o Leaves(c)
           q2 == toClient'[d]
           ids == Others(d)
           ids1 == [ids EXCEPT ![c] = None]
           ids2 == Others(d)'
           heard == openRemoteUser[d]
           login == About("REMOTEUSERLOGIN", c, id)
           quit == About("REMOTEUSERQUIT", c, logged[c])
           fresh == stranded[d] \/ Fresh(d)
<1>1. q \in Seq(ToClient)
  BY DEF LinkMicTypeOK
<1>2. /\ ids \in [Client -> AudioID \cup {None}] /\ ids1 \in [Client -> AudioID \cup {None}]
      /\ ids1[c] = None /\ \A u \in Client \ {c} : ids1[u] = ids[u] /\ ids2[u] = ids[u]
      /\ ids[c] = logged[c] /\ ids2[c] = id /\ ids2 = [ids EXCEPT ![c] = id]
      /\ logged'[d] = logged[d] /\ c \in Client \ {d}
  <2>1. /\ ids \in [Client -> AudioID \cup {None}] /\ c # d
        /\ \A u \in Client : ids[u] = IF u = d THEN None ELSE logged[u]
    BY DEF Others, LinkMicTypeOK
  <2>2. /\ logged' \in [Client -> AudioID \cup {None}] /\ logged'[d] = logged[d]
        /\ \A u \in Client : logged'[u] = IF u = c THEN id ELSE logged[u]
    BY <2>1 DEF LinkMicTypeOK
  <2>3. /\ ids2 \in [Client -> AudioID \cup {None}]
        /\ \A u \in Client : ids2[u] = IF u = d THEN None ELSE logged'[u]
    BY <2>2 DEF Others
  <2> HIDE DEF ids, ids2
  <2>4. ids2 = [ids EXCEPT ![c] = id]
    BY <2>1, <2>2, <2>3
  <2> QED
    BY <2>1, <2>2, <2>3, <2>4
<1>3. /\ q1 \in Seq(ToClient) /\ q1 = IF logged[c] # None THEN Append(q, quit) ELSE q
      /\ q2 = IF id = None THEN q1 ELSE Append(q1, login)
  <2>1. CASE id = None
    <3>1. q \o Leaves(c) = (IF logged[c] # None THEN Append(q, quit) ELSE q) /\ q \o Leaves(c) \in Seq(ToClient)
      <4>1. CASE logged[c] # None
        <5>1. logged[c] \in AudioID
          BY <4>1 DEF LinkMicTypeOK
        <5> QED
          BY <1>1, <5>1, ToldIs
      <4>2. CASE logged[c] = None
        BY <1>1, <4>2, AppendIs DEF Leaves
      <4> QED
        BY <4>1, <4>2
    <3> QED
      BY <2>1, <3>1
  <2>2. CASE id \in AudioID
    <3>1. id # None
      BY <2>2 DEF AudioID, None
    <3> QED
      BY <1>1, <2>2, <3>1, ToldIs
  <2> QED
    BY <2>1, <2>2
<1>4. /\ logged[c] # None => quit \in ToClient /\ quit.cmd = "REMOTEUSERQUIT" /\ quit.user = c
      /\ id # None => login \in ToClient /\ login.cmd = "REMOTEUSERLOGIN" /\ login.user = c /\ login.id = id
  BY PacketTypes DEF About
<1> HIDE DEF q, q1, q2, ids, ids1, ids2, heard, login, quit, fresh
<1>5. \A cmd \in Ends \cup {"LOGINSERVERED"} : Has(q1, cmd) <=> Has(q, cmd)
  BY <1>1, <1>3, <1>4, HasAppend DEF Ends
<1>6. \A cmd \in Ends \cup {"LOGINSERVERED"} : Has(q2, cmd) <=> Has(q1, cmd)
  BY <1>3, <1>4, HasAppend DEF Ends
<1>7. Refusals(q, fresh) => Refusals(q1, fresh)
  BY <1>1, <1>3, <1>4, RefusalsAppend
<1>8. Refusals(q1, fresh) => Refusals(q2, fresh)
  BY <1>3, <1>4, RefusalsAppend
<1>9. /\ Sessions(d)' /\ Beginning(d)' /\ Refusals(toClient[d], stranded[d] \/ Fresh(d))'
      /\ Ids(d)' /\ Senders(d)' /\ Shut(d)'
      /\ EndPending(d)' <=> EndPending(d)
  BY <1>2, <1>5, <1>6, <1>7, <1>8, OthersHear DEF q, q2, fresh, Good
<1>10. /\ InStep(q, heard, ids) => InStep(q1, heard, ids1)
       /\ Complete(q, heard, ids, shut[d]) => Complete(q1, heard, ids1, shut[d])
       /\ NeverTwice(q, heard) /\ (InStep(q, heard, ids) \/ EndPending(d)) => NeverTwice(q1, heard)
  <2>1. CASE logged[c] # None
    <3>1. /\ quit \in ToClient /\ quit.cmd = "REMOTEUSERQUIT" /\ quit.user = c /\ ids1[c] = None
          /\ c \in Client \ {d} /\ \A u \in Client \ {c} : ids1[u] = ids[u]
      BY <1>2, <1>4, <2>1
    <3>2. q1 = Append(q, quit)
      BY <1>3, <2>1
    <3>3. /\ InStep(q, heard, ids) => InStep(Append(q, quit), heard, ids1)
          /\ Complete(q, heard, ids, shut[d]) => Complete(Append(q, quit), heard, ids1, shut[d])
          /\ NeverTwice(q, heard) /\ (InStep(q, heard, ids) \/ \E cmd \in Ends : Has(q, cmd))
               => NeverTwice(Append(q, quit), heard)
      BY <1>1, <3>1, HeardOfOne
    <3> QED
      BY <3>2, <3>3 DEF q, EndPending
  <2>2. CASE logged[c] = None
    <3>1. ids1 = ids /\ q1 = q
      BY <1>2, <1>3, <2>2 DEF ids1
    <3> QED
      BY <3>1
  <2> QED
    BY <2>1, <2>2
<1>11. /\ InStep(q1, heard, ids1) => InStep(q2, heard, ids2)
       /\ Complete(q1, heard, ids1, shut[d]) => Complete(q2, heard, ids2, shut[d])
       /\ NeverTwice(q1, heard) /\ (InStep(q1, heard, ids1) \/ EndPending(d)) => NeverTwice(q2, heard)
  <2>1. EndPending(d) => \E cmd \in Ends : Has(q1, cmd)
    BY <1>5 DEF EndPending, q
  <2>2. CASE id # None
    <3>1. /\ login \in ToClient /\ login.cmd = "REMOTEUSERLOGIN" /\ login.user = c /\ login.id = id
          /\ ids1[c] = None /\ ids2[c] = login.id
          /\ c \in Client \ {d} /\ \A u \in Client \ {c} : ids2[u] = ids1[u]
      BY <1>2, <1>4, <2>2
    <3>2. q2 = Append(q1, login) /\ q1 \in Seq(ToClient)
      BY <1>3, <2>2
    <3>3. /\ InStep(q1, heard, ids1) => InStep(Append(q1, login), heard, ids2)
          /\ Complete(q1, heard, ids1, shut[d]) => Complete(Append(q1, login), heard, ids2, shut[d])
          /\ NeverTwice(q1, heard) /\ (InStep(q1, heard, ids1) \/ \E cmd \in Ends : Has(q1, cmd))
               => NeverTwice(Append(q1, login), heard)
      BY <3>1, <3>2, HeardOfOne
    <3> QED
      BY <2>1, <3>2, <3>3
  <2>3. CASE id = None
    <3>1. ids2 = ids1 /\ q2 = q1
      BY <1>2, <1>3, <2>3 DEF ids1
    <3> QED
      BY <3>1
  <2> QED
    BY <2>2, <2>3
<1>12. Has(toClient[d], "LOGINSERVERED")' <=> Has(toClient[d], "LOGINSERVERED")
  BY <1>5, <1>6 DEF q, q2
<1>13. Hearing(d)'
  BY <1>2, <1>9, <1>10, <1>11, <1>12 DEF Good, Hearing, Same, q, q2, heard, ids, ids2
<1> QED
  BY <1>9, <1>13 DEF Good

-----------------------------------------------------------------------------
(* The client itself.                                                      *)

LEMMA EmptyQueue ==
  /\ \A cmd : ~ Has(<<>>, cmd)
  /\ \A heard : NeverTwice(<<>>, heard)
  /\ \A fresh : Refusals(<<>>, fresh)
  /\ \A id : LastLogin(<<>>, id)
  /\ \A ids : InStep(<<>>, Nobody, ids)
BY DEF Has, NeverTwice, Refusals, LastLogin, InStep, Becomes, Nobody

LEMMA RefusalsTail ==
  ASSUME NEW q \in Seq(ToClient), q # <<>>, NEW fresh, Refusals(q, fresh), Head(q).cmd \notin Ends, NEW fresh1
  PROVE  Refusals(Tail(q), fresh1)
<1>1. /\ Len(q) \in Nat /\ Len(q) > 0 /\ Len(Tail(q)) = Len(q) - 1 /\ Head(q) = q[1]
      /\ \A i \in 1 .. Len(q) - 1 : Tail(q)[i] = q[i + 1] /\ i + 1 \in 1 .. Len(q) /\ i + 1 # 1
  BY TailIs
<1>2. ASSUME NEW i \in 1 .. Len(q) - 1, Tail(q)[i].cmd = "LOGINREFUSED"
      PROVE  \E j \in 1 .. i - 1 : Tail(q)[j].cmd \in Ends
  <2>1. PICK j \in 1 .. (i + 1) - 1 : q[j].cmd \in Ends
    BY <1>1, <1>2 DEF Refusals
  <2>2. j # 1
    BY <1>1, <2>1
  <2>3. j - 1 \in 1 .. i - 1 /\ j - 1 \in 1 .. Len(q) - 1 /\ (j - 1) + 1 = j
    BY <1>1, <2>1, <2>2
  <2> QED
    BY <1>1, <2>1, <2>3
<1> QED
  BY <1>1, <1>2 DEF Refusals

LEMMA RefusalsStay ==
  ASSUME NEW q, NEW fresh, NEW fresh1, fresh => fresh1, Refusals(q, fresh)
  PROVE  Refusals(q, fresh1)
BY DEF Refusals

LEMMA LastLoginTail ==
  ASSUME NEW q \in Seq(ToServer), q # <<>>, NEW id, LastLogin(q, id)
  PROVE  /\ LastLogin(Tail(q), id)
         /\ Head(q).cmd = "LOGINSERVER" => Head(q).id = id \/ Has(Tail(q), "LOGINSERVER")
<1>1. /\ Len(q) \in Nat /\ Len(q) > 0 /\ Len(Tail(q)) = Len(q) - 1 /\ Head(q) = q[1]
      /\ \A i \in 1 .. Len(q) - 1 : Tail(q)[i] = q[i + 1] /\ i + 1 \in 1 .. Len(q)
  BY TailIs
<1>2. ASSUME NEW i \in 1 .. Len(q), NEW j \in i + 1 .. Len(q)
      PROVE  j - 1 \in 1 .. Len(q) - 1 /\ j - 1 \in (i - 1) + 1 .. Len(q) - 1 /\ Tail(q)[j - 1] = q[j]
  BY <1>1
<1>3. ASSUME NEW i \in 1 .. Len(q) - 1, Tail(q)[i].cmd = "LOGINSERVER"
      PROVE  Tail(q)[i].id = id \/ \E j \in i + 1 .. Len(q) - 1 : Tail(q)[j].cmd = "LOGINSERVER"
  <2>1. /\ q[i + 1].cmd = "LOGINSERVER" /\ i + 1 \in 1 .. Len(q) /\ (i + 1) - 1 = i
        /\ q[i + 1].id = id \/ \E j \in (i + 1) + 1 .. Len(q) : q[j].cmd = "LOGINSERVER"
    BY <1>1, <1>3 DEF LastLogin
  <2> QED
    BY <1>1, <1>2, <2>1
<1>4. ASSUME Head(q).cmd = "LOGINSERVER" PROVE Head(q).id = id \/ Has(Tail(q), "LOGINSERVER")
  <2>1. 1 \in 1 .. Len(q) /\ (q[1].id = id \/ \E j \in 1 + 1 .. Len(q) : q[j].cmd = "LOGINSERVER")
    BY <1>1, <1>4 DEF LastLogin
  <2> QED
    BY <1>1, <1>2, <2>1 DEF Has
<1> QED
  BY <1>1, <1>3, <1>4 DEF LastLogin

LEMMA LastLoginAppend ==
  ASSUME NEW q \in Seq(ToServer), NEW p \in ToServer, NEW id
  PROVE  /\ p.cmd = "LOGINSERVER" => LastLogin(Append(q, p), p.id)
         /\ p.cmd # "LOGINSERVER" /\ LastLogin(q, id) => LastLogin(Append(q, p), id)
<1>1. /\ Len(q) \in Nat /\ Len(Append(q, p)) = Len(q) + 1 /\ Append(q, p)[Len(q) + 1] = p
      /\ \A i \in 1 .. Len(q) : Append(q, p)[i] = q[i]
      /\ \A i \in 1 .. Len(q) + 1 : i \in 1 .. Len(q) \/ i = Len(q) + 1
      /\ \A i \in 1 .. Len(q) : Len(q) + 1 \in i + 1 .. Len(q) + 1
      /\ \A i \in 1 .. Len(q) : \A j \in i + 1 .. Len(q) : j \in 1 .. Len(q) /\ j \in i + 1 .. Len(q) + 1
  BY AppendIs
<1>2. p.cmd = "LOGINSERVER" => LastLogin(Append(q, p), p.id)
  BY <1>1 DEF LastLogin
<1>3. p.cmd # "LOGINSERVER" /\ LastLogin(q, id) => LastLogin(Append(q, p), id)
  BY <1>1 DEF LastLogin
<1> QED
  BY <1>2, <1>3

\* Without a session there is little to keep.
LEMMA GoodWithoutSession ==
  ASSUME NEW c \in Client, toServer'[c] = <<>>, toClient'[c] = <<>>, logged'[c] = None,
         link'[c] \notin {"none", "connecting"} => audioID'[c] # None,
         link'[c] # "lost" => stranded'[c] \/ Fresh(c)',
         openLocalUser'[c] <= audioID'[c],
         stale'[c] <=> openLocalUser'[c] \notin {None, audioID'[c]},
         mic'[c] => openLocalUser'[c] # None,
         Shut(c)'
  PROVE  Good(c)'
<1>1. \A cmd : ~ Has(toClient'[c], cmd) /\ ~ Has(toServer'[c], cmd)
  BY EmptyQueue
<1>2. Sessions(c)' /\ Beginning(c)'
  BY DEF Sessions, Beginning
<1>3. Refusals(toClient[c], stranded[c] \/ Fresh(c))'
  BY EmptyQueue
<1>4. Ids(c)'
  BY EmptyQueue DEF Ids
<1>5. Senders(c)'
  BY DEF Senders
<1>6. Hearing(c)'
  BY EmptyQueue DEF Hearing
<1> QED
  BY <1>2, <1>3, <1>4, <1>5, <1>6 DEF Good

\* What no queue of the client says is kept, if its connection, its media and its session
\* stay and nothing is taken out of its queue.
LEMMA Unmoved ==
  ASSUME LinkMicTypeOK, NEW c \in Client, Good(c), link[c] \in {"up", "busy", "connecting"}, link'[c] \in {"up", "busy"},
         openLocalUser'[c] = openLocalUser[c], openRemoteUser'[c] = openRemoteUser[c], shut'[c] = shut[c],
         stranded'[c] = stranded[c], toClient'[c] = toClient[c], logged' = logged,
         Has(toServer[c], "GETUSERLIST") => Has(toServer'[c], "GETUSERLIST"),
         Ids(c)', stale'[c] <=> openLocalUser'[c] \notin {None, audioID'[c]},
         audioID[c] <= audioID'[c], audioID'[c] \in Int, mic'[c] => mic[c]
  PROVE  Good(c)'
<1>1. (Fresh(c)' <=> Fresh(c)) /\ (EndPending(c)' <=> EndPending(c))
  BY DEF Fresh, EndPending
<1>2. link[c] = "connecting" => logged[c] = None /\ (stranded[c] \/ Fresh(c))
  BY DEF Good, Sessions, Beginning
<1>3. Sessions(c)' /\ Beginning(c)'
  BY <1>1, <1>2 DEF Good, Sessions, Beginning
<1>4. Refusals(toClient[c], stranded[c] \/ Fresh(c))'
  BY <1>1 DEF Good, Refusals
<1>5. Senders(c)'
  <2>1. openLocalUser[c] \in Int /\ audioID[c] \in Int
    BY DEF LinkMicTypeOK, AudioID, None
  <2> QED
    BY <1>1, <2>1 DEF Good, Senders
<1>6. Shut(c)'
  BY DEF Good, Shut
<1>7. Hearing(c)'
  BY <1>1 DEF Good, Hearing, Others
<1> QED
  BY <1>3, <1>4, <1>5, <1>6, <1>7 DEF Good

LEMMA CallsKeepOwn ==
  ASSUME LinkMicTypeOK, NEW c \in Client, Good(c), Calls(c)
  PROVE  Good(c)'
<1>0. audioID[c] \in Int /\ audioID[c] >= 0 /\ openLocalUser[c] \in Int /\ toServer[c] \in Seq(ToServer)
  BY DEF LinkMicTypeOK, AudioID, None
<1>1. CASE LoginLinkMicServer(c)
  <2>1. toServer'[c] = <<>> /\ toClient'[c] = <<>> /\ logged'[c] = None
    BY <1>1 DEF LoginLinkMicServer, Good, Sessions, queueVars
  <2>2. /\ link'[c] = "connecting" /\ openLocalUser'[c] = None /\ mic'[c] = FALSE /\ openRemoteUser'[c] = Nobody
        /\ shut'[c] = {} /\ stale'[c] = FALSE /\ audioID'[c] = audioID[c]
    BY <1>1 DEF LoginLinkMicServer, LinkMicTypeOK
  <2>3. None <= audioID[c]
    BY <1>0 DEF None
  <2>4. Fresh(c)' /\ Shut(c)'
    BY <2>2 DEF Fresh, Shut
  <2> QED
    BY <2>1, <2>2, <2>3, <2>4, GoodWithoutSession
<1>2. CASE LogoutServer(c)
  <2>1. /\ UNCHANGED <<link, audioID, openLocalUser, openRemoteUser, lost, shut, historyVars, toClient, logged>>
        /\ mic'[c] = FALSE
    BY <1>2 DEF LogoutServer, LinkMicTypeOK
  <2>2. toServer'[c] = IF link[c] = "up" THEN Append(toServer[c], Packet("QUITSERVER")) ELSE toServer[c]
    BY <1>2, PacketTypes, SentTypes DEF LogoutServer
  <2>3. Packet("QUITSERVER") \in ToServer /\ Packet("QUITSERVER").cmd = "QUITSERVER"
    BY PacketTypes DEF Packet
  <2>4. \A cmd : Has(toServer[c], cmd) => Has(toServer'[c], cmd)
    BY <1>0, <2>2, <2>3, HasAppend
  <2>5. LastLogin(toServer'[c], audioID[c])
    BY <1>0, <2>2, <2>3, LastLoginAppend DEF Good, Ids
  <2>6. Ids(c)'
    BY <2>1, <2>4, <2>5 DEF Good, Ids
  <2>7. stale'[c] <=> openLocalUser'[c] \notin {None, audioID'[c]}
    BY <2>1 DEF Good, Senders, historyVars
  <2>8. CASE link[c] \in {"up", "busy"}
    BY <1>0, <2>1, <2>4, <2>6, <2>7, <2>8, Unmoved DEF historyVars
  <2>9. CASE link[c] \notin {"up", "busy"}
    <3>1. toServer'[c] = <<>> /\ toClient'[c] = <<>> /\ logged'[c] = None
      BY <2>1, <2>2, <2>9 DEF Good, Sessions
    <3>2. link[c] # "lost" => stranded[c] \/ Fresh(c)
      BY <1>2, <2>9 DEF Good, Beginning, LogoutServer, LinkMicTypeOK, Link
    <3>3. (Fresh(c)' <=> Fresh(c)) /\ Shut(c)'
      BY <2>1 DEF Good, Fresh, Shut
    <3>4. link'[c] \notin {"none", "connecting"} => audioID'[c] # None
      BY <2>1 DEF Good, Ids
    <3>5. openLocalUser'[c] <= audioID'[c]
      BY <2>1 DEF Good, Senders
    <3> QED
      BY <2>1, <2>7, <3>1, <3>2, <3>3, <3>4, <3>5, GoodWithoutSession DEF historyVars
  <2> QED
    BY <2>8, <2>9
<1>3. ASSUME NEW u \in Client, CloseRemoteUserVideo(c, u) PROVE Good(c)'
  <2>1. /\ UNCHANGED <<link, audioID, openLocalUser, mic, lost, userInfoList, historyVars, queueVars, logged>>
        /\ openRemoteUser'[c] = [openRemoteUser[c] EXCEPT ![u] = None] /\ shut'[c] = shut[c] \cup {u}
        /\ openRemoteUser[c][u] # None
    BY <1>3 DEF CloseRemoteUserVideo, LinkMicTypeOK
  <2>2. ~ Fresh(c)
    BY <2>1 DEF Fresh, Nobody
  <2>3. EndPending(c)' <=> EndPending(c)
    BY <2>1 DEF EndPending, queueVars
  <2>4. Sessions(c)' /\ Ids(c)'
    BY <2>1, <2>3 DEF Good, Sessions, Ids, queueVars
  <2>5. Beginning(c)'
    BY <2>1, <2>2, <2>3 DEF Good, Beginning, historyVars
  <2>6. Refusals(toClient[c], stranded[c] \/ Fresh(c))'
    BY <2>1, <2>2, RefusalsStay DEF Good, historyVars, queueVars
  <2>7. Senders(c)'
    BY <2>1, <2>3 DEF Good, Senders, historyVars, queueVars
  <2>8. openRemoteUser[c] \in [Client -> AudioID \cup {None}] /\ toClient[c] \in Seq(ToClient)
    BY DEF LinkMicTypeOK
  <2>9. Shut(c)'
    BY <2>1, <2>8 DEF Good, Shut
  <2>11. /\ \A ids : InStep(toClient[c], openRemoteUser[c], ids) => InStep(toClient[c], openRemoteUser'[c], ids)
         /\ \A ids : Complete(toClient[c], openRemoteUser[c], ids, shut[c])
                       => Complete(toClient[c], openRemoteUser'[c], ids, shut'[c])
         /\ NeverTwice(toClient[c], openRemoteUser[c]) => NeverTwice(toClient[c], openRemoteUser'[c])
    <3> DEFINE heard1 == [openRemoteUser[c] EXCEPT ![u] = None]
               closed1 == shut[c] \cup {u}
    <3>1. /\ \A ids : InStep(toClient[c], openRemoteUser[c], ids) => InStep(toClient[c], heard1, ids)
          /\ \A ids : Complete(toClient[c], openRemoteUser[c], ids, shut[c])
                        => Complete(toClient[c], heard1, ids, closed1)
          /\ NeverTwice(toClient[c], openRemoteUser[c]) => NeverTwice(toClient[c], heard1)
      BY <2>8, NewsShut
    <3>2. openRemoteUser'[c] = heard1 /\ shut'[c] = closed1
      BY <2>1
    <3> QED
      BY <3>1, <3>2
  <2>12. Hearing(c)'
    BY <2>1, <2>3, <2>11 DEF Good, Hearing, Others, historyVars, queueVars
  <2> QED
    BY <2>4, <2>5, <2>6, <2>7, <2>9, <2>12 DEF Good
<1> QED
  BY <1>1, <1>2, <1>3 DEF Calls

\* closeMediaSender and StopAllRemoteMedia leave nothing.
LEMMA CloseMediaIs ==
  ASSUME LinkMicTypeOK, NEW c \in Client, Good(c), CloseMedia(c)
  PROVE  /\ openLocalUser'[c] = None /\ mic'[c] = FALSE /\ openRemoteUser'[c] = Nobody /\ shut'[c] = {}
         /\ stale'[c] = FALSE /\ stranded'[c] = FALSE /\ Fresh(c)' /\ Shut(c)'
<1>1. mic[c] => openLocalUser[c] # None
  BY DEF Good, Senders
<1>2. /\ openLocalUser'[c] = None /\ mic'[c] = (mic[c] /\ openLocalUser[c] = None) /\ openRemoteUser'[c] = Nobody
      /\ shut'[c] = {} /\ stale'[c] = FALSE /\ stranded'[c] = FALSE
  BY DEF CloseMedia, CloseMediaSender, LinkMicTypeOK
<1> QED
  BY <1>1, <1>2 DEF Fresh, Shut

LEMMA ConnectionKeepsOwn ==
  ASSUME LinkMicTypeOK, NEW c \in Client, Good(c), Connection(c) \/ Restarted(c) \/ Busy(c)
  PROVE  Good(c)'
<1>0. /\ audioID[c] \in Int /\ audioID[c] >= 0 /\ openLocalUser[c] \in Int /\ toServer[c] \in Seq(ToServer)
      /\ openLocalUser[c] <= audioID[c]
  BY DEF LinkMicTypeOK, AudioID, None, Good, Senders
<1>1. CASE Connected(c) \/ Reconnected(c)
  <2>1. LoginServer(c) /\ link[c] \in {"connecting", "busy"}
    BY <1>1 DEF Connected, Reconnected
  <2>2. /\ UNCHANGED <<mediaVars, userInfoList, stranded, toClient, logged>>
        /\ audioID'[c] = audioID[c] + 1 /\ (stale'[c] <=> openLocalUser[c] # None) /\ link'[c] = "up"
        /\ toServer'[c] = Append(toServer[c], Login(audioID'[c]))
    BY <2>1 DEF LoginServer, LinkMicTypeOK
  <2>3. audioID'[c] \in AudioID /\ audioID'[c] # None
    <3>1. audioID[c] < MaxLogins /\ MaxLogins \in Nat
      BY <2>1, LinkMicAssumption DEF LoginServer
    <3> QED
      BY <1>0, <2>2, <3>1 DEF AudioID, None
  <2>4. Login(audioID'[c]) \in ToServer /\ Login(audioID'[c]).cmd = "LOGINSERVER" /\ Login(audioID'[c]).id = audioID'[c]
    BY <2>3 DEF Login, ToServer
  <2>5. /\ \A cmd : Has(toServer[c], cmd) => Has(toServer'[c], cmd)
        /\ Has(toServer'[c], "LOGINSERVER")
    BY <1>0, <2>2, <2>4, HasAppend
  <2>6. LastLogin(toServer'[c], audioID'[c])
    BY <1>0, <2>2, <2>4, LastLoginAppend
  <2>7. Ids(c)'
    BY <2>2, <2>3, <2>5, <2>6 DEF Ids
  <2>8. stale'[c] <=> openLocalUser'[c] \notin {None, audioID'[c]}
    <3>1. openLocalUser'[c] = openLocalUser[c] /\ openLocalUser[c] # audioID'[c]
      BY <1>0, <2>2 DEF mediaVars
    <3> QED
      BY <2>2, <3>1
  <2>9. /\ openLocalUser'[c] = openLocalUser[c] /\ openRemoteUser'[c] = openRemoteUser[c] /\ shut'[c] = shut[c]
        /\ stranded'[c] = stranded[c] /\ toClient'[c] = toClient[c] /\ logged' = logged /\ (mic'[c] => mic[c])
        /\ audioID[c] <= audioID'[c] /\ audioID'[c] \in Int
        /\ link[c] \in {"up", "busy", "connecting"} /\ link'[c] \in {"up", "busy"}
    BY <1>0, <2>1, <2>2 DEF mediaVars
  <2> QED
    BY <2>5, <2>7, <2>8, <2>9, Unmoved
<1>2. CASE Disconnected(c)
  <2>1. /\ link[c] = "lost" /\ link'[c] = "down" /\ CloseMedia(c) /\ UNCHANGED <<audioID, userInfoList, queueVars, logged>>
    BY <1>2 DEF Disconnected, LinkMicTypeOK
  <2>2. toServer'[c] = <<>> /\ toClient'[c] = <<>> /\ logged'[c] = None /\ audioID'[c] # None
    BY <2>1 DEF Good, Sessions, Ids, queueVars
  <2> QED
    BY <1>0, <2>1, <2>2, CloseMediaIs, GoodWithoutSession DEF None
<1>3. CASE ServerDrop(c)
  <2>1. /\ link'[c] = "lost" /\ toServer'[c] = <<>> /\ toClient'[c] = <<>> /\ logged'[c] = None
        /\ UNCHANGED <<audioID, mediaVars, userInfoList, historyVars>> /\ link[c] = "busy"
    BY <1>3 DEF ServerDrop, SessionEnds, LinkMicTypeOK
  <2>2. Shut(c)' /\ audioID'[c] # None /\ (stale'[c] <=> openLocalUser'[c] \notin {None, audioID'[c]})
        /\ (mic'[c] => openLocalUser'[c] # None)
    BY <2>1 DEF Good, Shut, Ids, Senders, mediaVars, historyVars
  <2> QED
    BY <1>0, <2>1, <2>2, GoodWithoutSession DEF mediaVars
<1>4. CASE Restarted(c)
  <2>1. /\ link'[c] = "up" /\ link[c] \in {"lost", "down"}
        /\ stranded'[c] = (openLocalUser[c] # None \/ openRemoteUser[c] # Nobody)
        /\ UNCHANGED <<audioID, mediaVars, userInfoList, stale, queueVars, logged>>
    BY <1>4 DEF Restarted, LinkMicTypeOK
  <2>2. Shut(c)' /\ audioID'[c] # None /\ (stale'[c] <=> openLocalUser'[c] \notin {None, audioID'[c]})
        /\ (mic'[c] => openLocalUser'[c] # None)
    BY <2>1 DEF Good, Shut, Ids, Senders, mediaVars
  <2>3. stranded'[c] \/ Fresh(c)'
    BY <2>1 DEF Fresh, mediaVars
  <2>4. toServer'[c] = <<>> /\ toClient'[c] = <<>> /\ logged'[c] = None
    BY <2>1 DEF Good, Sessions, queueVars
  <2> QED
    BY <1>0, <2>1, <2>2, <2>3, <2>4, GoodWithoutSession DEF mediaVars
<1>5. CASE Busy(c)
  <2>1. link[c] = "up" /\ link'[c] = "busy" /\ UNCHANGED <<audioID, mediaVars, userInfoList, historyVars, queueVars, logged>>
    BY <1>5 DEF Busy, LinkMicTypeOK
  <2>2. Ids(c)' /\ (stale'[c] <=> openLocalUser'[c] \notin {None, audioID'[c]})
    BY <2>1 DEF Good, Ids, Senders, mediaVars, historyVars, queueVars
  <2> QED
    BY <1>0, <2>1, <2>2, Unmoved DEF mediaVars, historyVars, queueVars
<1> QED
  BY <1>1, <1>2, <1>3, <1>4, <1>5 DEF Connection

\* A packet is read that ends nothing, and the receivers do what it says.
LEMMA ReadsKeepsOwn ==
  ASSUME LinkMicTypeOK, NEW c \in Client, Good(c), link[c] = "up", link'[c] = "up",
         toClient[c] # <<>>, Head(toClient[c]).cmd \notin Ends, toClient'[c] = Tail(toClient[c]),
         logged' = logged, stranded'[c] = stranded[c], Ids(c)', Senders(c)', Shut(c)',
         Has(toServer[c], "GETUSERLIST") \/ Head(toClient[c]).cmd = "LOGINSERVERED" => Has(toServer'[c], "GETUSERLIST"),
         c \in Anchor => \A u \in Client : openRemoteUser'[c][u] =
           IF Concerns(Head(toClient[c]), u) THEN IdIn(Head(toClient[c]), u) ELSE openRemoteUser[c][u],
         c \in Anchor => \A u \in shut[c] : Concerns(Head(toClient[c]), u) \/ u \in shut'[c]
  PROVE  Good(c)'
<1> DEFINE q == toClient[c]
           heard == openRemoteUser[c]
           heard1 == openRemoteUser'[c]
           closed1 == shut'[c]
<1>1. q \in Seq(ToClient) /\ q # <<>> /\ Head(q).cmd \notin Ends
  BY DEF LinkMicTypeOK
<1>2. \A cmd : Has(q, cmd) <=> Head(q).cmd = cmd \/ Has(Tail(q), cmd)
  BY <1>1, HasTail
<1>3. EndPending(c)' <=> EndPending(c)
  BY <1>1, <1>2 DEF EndPending
<1>4. logged[c] # None \/ EndPending(c)
  BY <1>1 DEF Good, Sessions
<1>5. Sessions(c)' /\ Beginning(c)'
  BY <1>3, <1>4 DEF Sessions, Beginning
<1>6. Refusals(toClient[c], stranded[c] \/ Fresh(c))'
  BY <1>1, RefusalsTail DEF Good
<1>7. Hearing(c)'
  <2> SUFFICES ASSUME c \in Anchor, ~ stranded[c] PROVE Hearing(c)'
    BY DEF Hearing
  <2>1. /\ \A u \in Client : heard1[u] = IF Concerns(Head(q), u) THEN IdIn(Head(q), u) ELSE heard[u]
        /\ \A u \in shut[c] : Concerns(Head(q), u) \/ u \in closed1
    OBVIOUS
  <2> HIDE DEF q, heard, heard1, closed1
  <2>2. /\ InStep(q, heard, Others(c)) => InStep(Tail(q), heard1, Others(c))
        /\ Complete(q, heard, Others(c), shut[c]) => Complete(Tail(q), heard1, Others(c), closed1)
        /\ NeverTwice(q, heard) => NeverTwice(Tail(q), heard1)
    BY <1>1, <2>1, NewsTail
  <2>3. Others(c)' = Others(c)
    BY DEF Others
  <2> QED
    BY <1>2, <1>3, <2>2, <2>3 DEF q, heard, heard1, closed1, Good, Hearing
<1> QED
  BY <1>5, <1>6, <1>7 DEF Good

LEMMA HandlersKeepOwn ==
  ASSUME LinkMicTypeOK, NEW c \in Client, Good(c),
         LoginServered(c) \/ RemoteUserLogin(c) \/ RemoteUserQuit(c) \/ UpdateUserList(c)
  PROVE  Good(c)'
<1> DEFINE p == Head(toClient[c])
<1>1. /\ link[c] = "up" /\ toClient[c] # <<>> /\ Handled(c) /\ UNCHANGED <<link, audioID, historyVars, logged>>
      /\ p.cmd \in {"LOGINSERVERED", "REMOTEUSERLOGIN", "REMOTEUSERQUIT", "UPDATEUSERLIST"}
  BY DEF LoginServered, RemoteUserLogin, RemoteUserQuit, UpdateUserList, Receives
<1>2. toClient'[c] = Tail(toClient[c]) /\ p \in ToClient /\ p.cmd \notin Ends
  BY <1>1, HandledTypes DEF Ends
<1>3. /\ audioID[c] \in Int /\ openLocalUser[c] \in Int /\ toServer[c] \in Seq(ToServer) /\ toClient[c] \in Seq(ToClient)
      /\ openRemoteUser[c] \in [Client -> AudioID \cup {None}] /\ shut[c] \subseteq Client
  BY DEF LinkMicTypeOK, AudioID, None
<1>4. \A cmd : Has(toClient[c], cmd) <=> p.cmd = cmd \/ Has(toClient'[c], cmd)
  BY <1>1, <1>2, <1>3, HasTail
<1>5. EndPending(c)' <=> EndPending(c)
  BY <1>2, <1>4 DEF EndPending
<1>6. audioID[c] # None /\ openLocalUser[c] <= audioID[c]
  BY <1>1 DEF Good, Ids, Senders
<1>7. CASE LoginServered(c)
  <2>1. /\ p.cmd = "LOGINSERVERED" /\ UNCHANGED <<openRemoteUser, shut>>
        /\ toServer' = Sent(c, Packet("GETUSERLIST"))
    BY <1>7 DEF LoginServered, Receives
  <2>2. Packet("GETUSERLIST") \in ToServer /\ Packet("GETUSERLIST").cmd = "GETUSERLIST"
    BY PacketTypes DEF Packet
  <2>3. toServer'[c] = Append(toServer[c], Packet("GETUSERLIST"))
    BY <1>1, <2>1, <2>2, SentTypes
  <2>4. \A cmd : Has(toServer'[c], cmd) <=> Has(toServer[c], cmd) \/ cmd = "GETUSERLIST"
    BY <1>3, <2>2, <2>3, HasAppend
  <2>5. LastLogin(toServer'[c], audioID[c])
    BY <1>3, <2>2, <2>3, LastLoginAppend DEF Good, Ids
  <2>6. Ids(c)'
    BY <1>1, <2>4, <2>5 DEF Good, Ids
  <2>7. \/ openLocalUser'[c] = openLocalUser[c] /\ mic'[c] = mic[c] /\ (openLocalUser[c] # None \/ c \in Anchor)
        \/ openLocalUser'[c] = audioID[c] /\ openLocalUser[c] = None
    BY <1>7 DEF LoginServered, OpenMediaSender, LinkMicTypeOK
  <2>8. openLocalUser'[c] <= audioID[c] /\ (stale[c] <=> openLocalUser'[c] \notin {None, audioID[c]})
    BY <1>3, <1>6, <2>7 DEF Good, Senders
  <2>9. Senders(c)'
    BY <1>1, <1>6, <2>7, <2>8 DEF Good, Senders, historyVars
  <2>10. Shut(c)' /\ \A u \in Client : ~ Concerns(p, u)
    BY <2>1 DEF Good, Shut, Concerns
  <2>11. \A u \in Client : openRemoteUser'[c][u] = IF Concerns(p, u) THEN IdIn(p, u) ELSE openRemoteUser[c][u]
    BY <2>1, <2>10
  <2> QED
    BY <1>1, <1>2, <2>1, <2>4, <2>6, <2>9, <2>10, <2>11, ReadsKeepsOwn DEF historyVars
<1>8. CASE RemoteUserLogin(c) \/ RemoteUserQuit(c) \/ UpdateUserList(c)
  <2>1. UNCHANGED <<openLocalUser, mic, toServer>> /\ p.cmd # "LOGINSERVERED"
    BY <1>8 DEF RemoteUserLogin, RemoteUserQuit, UpdateUserList, Receives
  <2>2. Ids(c)'
    BY <1>1, <2>1 DEF Good, Ids
  <2>3. Senders(c)'
    BY <1>1, <1>4, <1>5, <2>1 DEF Good, Senders, historyVars
  <2>4. ASSUME NEW ids \in [Client -> AudioID \cup {None}],
               \A u \in Client : ids[u] = IF Concerns(p, u) THEN IdIn(p, u) ELSE None,
               \A u \in Client : Concerns(p, u) => ids[u] # None, OpenReceivers(c, ids)
        PROVE  /\ \A u \in Client : openRemoteUser'[c][u] = IF Concerns(p, u) THEN IdIn(p, u) ELSE openRemoteUser[c][u]
               /\ \A u \in shut[c] : Concerns(p, u) \/ u \in shut'[c]
               /\ Shut(c)'
    <3>1. /\ openRemoteUser'[c] = [u \in Client |-> IF u \in {v \in Client : ids[v] # None} THEN ids[u]
                                                    ELSE openRemoteUser[c][u]]
          /\ shut'[c] = shut[c] \ {v \in Client : ids[v] # None}
      BY <2>4 DEF OpenReceivers, LinkMicTypeOK
    <3>2. \A u \in Client : openRemoteUser'[c][u] = IF ids[u] # None THEN ids[u] ELSE openRemoteUser[c][u]
      BY <3>1
    <3>3. \A u \in Client : Concerns(p, u) <=> ids[u] # None
      BY <2>4
    <3>4. \A u \in shut'[c] : u \in Client /\ ids[u] = None /\ u \in shut[c]
      BY <1>3, <3>1
    <3> QED
      BY <1>3, <2>4, <3>1, <3>2, <3>3, <3>4 DEF Good, Shut
  <2>5. /\ c \in Anchor => \A u \in Client : openRemoteUser'[c][u] = IF Concerns(p, u) THEN IdIn(p, u) ELSE openRemoteUser[c][u]
        /\ c \in Anchor => \A u \in shut[c] : Concerns(p, u) \/ u \in shut'[c]
        /\ Shut(c)'
    <3>1. CASE RemoteUserLogin(c)
      <4> DEFINE ids == [Nobody EXCEPT ![p.user] = p.id]
      <4>1. p.cmd = "REMOTEUSERLOGIN" /\ p.user \in Client /\ p.id \in AudioID /\ p.id # None
        BY <1>2, <3>1, Packets DEF RemoteUserLogin, Receives, AudioID, None
      <4>2. ids \in [Client -> AudioID \cup {None}] /\ \A u \in Client : ids[u] = IF u = p.user THEN p.id ELSE None
        BY <4>1 DEF Nobody
      <4>3. \A u \in Client : (Concerns(p, u) <=> u = p.user) /\ IdIn(p, u) = p.id
        BY <4>1 DEF Concerns, IdIn
      <4>4. IF c \in Anchor THEN OpenReceivers(c, ids) ELSE UNCHANGED <<openRemoteUser, lost, shut>>
        BY <3>1 DEF RemoteUserLogin
      <4> HIDE DEF ids, p
      <4>5. CASE c \in Anchor
        BY <2>4, <4>1, <4>2, <4>3, <4>4, <4>5
      <4>6. CASE c \notin Anchor
        BY <4>4, <4>6 DEF Good, Shut
      <4> QED
        BY <4>5, <4>6
    <3>2. CASE RemoteUserQuit(c)
      <4>1. p.cmd = "REMOTEUSERQUIT" /\ p.user \in Client
        BY <1>2, <3>2, Packets DEF RemoteUserQuit, Receives
      <4>2. \A u \in Client : (Concerns(p, u) <=> u = p.user) /\ IdIn(p, u) = None
        BY <4>1 DEF Concerns, IdIn
      <4>3. openRemoteUser'[c] = [openRemoteUser[c] EXCEPT ![p.user] = None] /\ shut'[c] = shut[c] \ {p.user}
        BY <3>2 DEF RemoteUserQuit, LinkMicTypeOK
      <4> HIDE DEF p
      <4> QED
        BY <1>3, <4>1, <4>2, <4>3 DEF Good, Shut
    <3>3. CASE UpdateUserList(c)
      <4> DEFINE ids == p.ids
      <4>1. p.cmd = "UPDATEUSERLIST" /\ ids \in [Client -> AudioID \cup {None}]
        BY <1>2, <3>3, Packets DEF UpdateUserList, Receives
      <4>2. \A u \in Client : (Concerns(p, u) <=> ids[u] # None) /\ IdIn(p, u) = ids[u]
        BY <4>1 DEF Concerns, IdIn
      <4>3. IF c \in Anchor THEN OpenReceivers(c, ids) ELSE UNCHANGED <<openRemoteUser, lost, shut>>
        BY <3>3 DEF UpdateUserList
      <4> HIDE DEF ids, p
      <4>4. CASE c \in Anchor
        BY <2>4, <4>1, <4>2, <4>3, <4>4
      <4>5. CASE c \notin Anchor
        BY <4>3, <4>5 DEF Good, Shut
      <4> QED
        BY <4>4, <4>5
    <3> QED
      BY <1>8, <3>1, <3>2, <3>3
  <2> QED
    BY <1>1, <1>2, <2>1, <2>2, <2>3, <2>5, ReadsKeepsOwn DEF historyVars
<1> QED
  BY <1>7, <1>8

\* The first refusal of a queue comes to a client that has nothing open, or after CS_RESTARTED.
LEMMA TeardownKeepsOwn ==
  ASSUME LinkMicTypeOK, NEW c \in Client, Good(c), LoginRefused(c) \/ SessionOver(c)
  PROVE  Good(c)'
<1>1. PICK cmd \in Ends : Teardown(c, cmd)
  BY DEF LoginRefused, SessionOver, Ends
<1>2. /\ toServer'[c] = <<>> /\ toClient'[c] = <<>> /\ logged'[c] = None /\ link'[c] = "none" /\ audioID'[c] = audioID[c]
  BY <1>1 DEF Teardown, SessionEnds, LinkMicTypeOK
<1>3. audioID[c] \in Int /\ audioID[c] >= 0
  BY DEF LinkMicTypeOK, AudioID, None
<1>4. CASE LoginRefused(c)
  <2>1. /\ toClient[c] # <<>> /\ Head(toClient[c]).cmd = "LOGINREFUSED" /\ UNCHANGED <<mediaVars, historyVars>>
    BY <1>4 DEF LoginRefused, Teardown, Receives
  <2>2. stranded[c] \/ Fresh(c)
    <3>1. /\ toClient[c] \in Seq(ToClient) /\ Len(toClient[c]) \in Nat /\ Len(toClient[c]) > 0
          /\ Head(toClient[c]) = toClient[c][1]
      BY <2>1, TailIs DEF LinkMicTypeOK
    <3>2. 1 \in 1 .. Len(toClient[c]) /\ 1 .. 1 - 1 = {}
      BY <3>1
    <3> QED
      BY <2>1, <3>1, <3>2 DEF Good, Refusals
  <2>3. /\ Fresh(c)' <=> Fresh(c)
        /\ stranded'[c] <=> stranded[c]
        /\ openLocalUser'[c] <= audioID'[c]
        /\ stale'[c] <=> openLocalUser'[c] \notin {None, audioID'[c]}
        /\ mic'[c] => openLocalUser'[c] # None
        /\ Shut(c)'
    BY <1>2, <2>1 DEF Good, Fresh, Senders, Shut, mediaVars, historyVars
  <2> QED
    BY <1>2, <2>2, <2>3, GoodWithoutSession
<1>5. CASE SessionOver(c)
  <2>1. CloseMedia(c)
    BY <1>5 DEF SessionOver
  <2> QED
    BY <1>2, <1>3, <2>1, CloseMediaIs, GoodWithoutSession DEF None
<1> QED
  BY <1>4, <1>5

-----------------------------------------------------------------------------
(* The client that the server answers.                                     *)

LEMMA ServedIs ==
  ASSUME LinkMicTypeOK, NEW c \in Client, Good(c), NEW cmd, Asked(c, cmd), Served(c)
  PROVE  /\ LastLogin(toServer'[c], audioID[c])
         /\ \A cmd1 : Has(toServer[c], cmd1) <=> cmd1 = cmd \/ Has(toServer'[c], cmd1)
         /\ cmd = "LOGINSERVER" => /\ Head(toServer[c]).id = audioID[c] \/ Has(toServer'[c], "LOGINSERVER")
                                   /\ Head(toServer[c]).id \in AudioID
         /\ link[c] = "up" /\ audioID[c] # None
<1>1. toServer[c] \in Seq(ToServer) /\ toServer[c] # <<>> /\ Head(toServer[c]).cmd = cmd /\ link[c] = "up"
  BY DEF LinkMicTypeOK, Asked
<1>2. toServer'[c] = Tail(toServer[c]) /\ Head(toServer[c]) \in ToServer
  BY <1>1, ServedTypes
<1>3. LastLogin(toServer[c], audioID[c]) /\ audioID[c] # None
  BY <1>1 DEF Good, Ids
<1>4. cmd = "LOGINSERVER" => Head(toServer[c]).id \in AudioID
  BY <1>1, <1>2 DEF ToServer
<1> QED
  BY <1>1, <1>2, <1>3, <1>4, LastLoginTail, HasTail

\* The server writes p to c; what it takes from its queue leaves Ids.
LEMMA WrittenTo ==
  ASSUME LinkMicTypeOK, NEW c \in Client, Good(c), link[c] = "up",
         NEW p \in ToClient, toClient'[c] = Append(toClient[c], p),
         UNCHANGED ClientVars, \A u \in Client \ {c} : logged'[u] = logged[u], logged' \in [Client -> AudioID \cup {None}],
         p.cmd \notin {"REMOTEUSERLOGIN", "REMOTEUSERQUIT"},
         Ids(c)'
  PROVE  /\ Shut(c)' /\ Others(c)' = Others(c)
         /\ \A cmd : Has(toClient'[c], cmd) <=> Has(toClient[c], cmd) \/ p.cmd = cmd
         /\ p.cmd \notin Ends => (EndPending(c)' <=> EndPending(c))
         /\ p.cmd \in Ends => EndPending(c)'
         /\ NeverTwice(toClient[c], openRemoteUser[c]) => NeverTwice(toClient'[c], openRemoteUser[c])
         /\ logged'[c] # None \/ EndPending(c)' => Sessions(c)' /\ Beginning(c)'
         /\ (p.cmd = "LOGINREFUSED" => logged[c] = None) => Refusals(toClient[c], stranded[c] \/ Fresh(c))'
         /\ logged'[c] = None \/ EndPending(c)' \/ Has(toClient[c], "LOGINSERVERED")'
               \/ (logged[c] # None /\ ~ EndPending(c)) => Senders(c)'
         /\ Fresh(c)' <=> Fresh(c)
<1>1. toClient[c] \in Seq(ToClient) /\ logged \in [Client -> AudioID \cup {None}] /\ logged' \in [Client -> AudioID \cup {None}]
  BY DEF LinkMicTypeOK
<1>2. \A cmd : Has(toClient'[c], cmd) <=> Has(toClient[c], cmd) \/ p.cmd = cmd
  BY <1>1, HasAppend
<1>3. /\ p.cmd \notin Ends => (EndPending(c)' <=> EndPending(c))
      /\ p.cmd \in Ends \/ EndPending(c) => EndPending(c)'
  BY <1>2 DEF EndPending
<1>4. Others(c)' = Others(c)
  <2>1. \A u \in Client : Others(c)'[u] = Others(c)[u]
    BY <1>1 DEF Others
  <2> QED
    BY <1>1, <2>1 DEF Others
<1>5. NeverTwice(toClient[c], openRemoteUser[c]) => NeverTwice(toClient'[c], openRemoteUser[c])
  BY <1>1, NeverTwiceAtEnd
<1>6. Shut(c)' /\ (Fresh(c)' <=> Fresh(c))
  BY DEF Good, Shut, Fresh, ClientVars, mediaVars
<1>7. logged'[c] # None \/ EndPending(c)' => Sessions(c)' /\ Beginning(c)'
  BY DEF Sessions, Beginning, ClientVars
<1>8. ASSUME p.cmd = "LOGINREFUSED" => logged[c] = None PROVE Refusals(toClient[c], stranded[c] \/ Fresh(c))'
  <2> DEFINE fresh == stranded[c] \/ Fresh(c)
  <2>1. Refusals(toClient[c], fresh)
    BY DEF Good
  <2>2. p.cmd = "LOGINREFUSED" => (toClient[c] = <<>> /\ fresh) \/ \E cmd \in Ends : Has(toClient[c], cmd)
    BY <1>8 DEF Good, Sessions, Beginning, EndPending
  <2> HIDE DEF fresh
  <2>3. Refusals(toClient'[c], fresh)
    BY <1>1, <2>1, <2>2, RefusalsAppend
  <2>4. fresh => (stranded[c] \/ Fresh(c))'
    BY <1>6 DEF fresh, ClientVars, historyVars
  <2> QED
    BY <2>3, <2>4 DEF Refusals
<1>9. logged'[c] = None \/ EndPending(c)' \/ Has(toClient[c], "LOGINSERVERED")'
        \/ (logged[c] # None /\ ~ EndPending(c)) => Senders(c)'
  BY <1>2 DEF Good, Senders, ClientVars, mediaVars, historyVars
<1> QED
  BY <1>2, <1>3, <1>4, <1>5, <1>6, <1>7, <1>8, <1>9

\* The session of c ends: c will read that.
LEMMA EndsKeepOwn ==
  ASSUME LinkMicTypeOK, NEW c \in Client, Good(c), link[c] = "up",
         NEW p \in ToClient, p.cmd \in Ends, toClient'[c] = Append(toClient[c], p),
         UNCHANGED ClientVars, logged' = [logged EXCEPT ![c] = None],
         p.cmd = "LOGINREFUSED" => logged[c] = None,
         LastLogin(toServer'[c], audioID[c])
  PROVE  Good(c)'
<1>1. /\ \A u \in Client \ {c} : logged'[u] = logged[u]
      /\ logged' \in [Client -> AudioID \cup {None}] /\ logged'[c] = None
  BY DEF LinkMicTypeOK
<1>2. Ids(c)'
  BY <1>1 DEF Good, Ids, ClientVars
<1>3. p.cmd \notin {"REMOTEUSERLOGIN", "REMOTEUSERQUIT"}
  BY DEF Ends
<1>4. /\ Shut(c)' /\ EndPending(c)' /\ Sessions(c)' /\ Beginning(c)' /\ Senders(c)'
      /\ Refusals(toClient[c], stranded[c] \/ Fresh(c))'
      /\ NeverTwice(toClient[c], openRemoteUser[c]) => NeverTwice(toClient'[c], openRemoteUser[c])
  BY <1>1, <1>2, <1>3, WrittenTo
<1>5. Hearing(c)'
  BY <1>1, <1>4 DEF Good, Hearing, ClientVars, mediaVars, historyVars
<1> QED
  BY <1>2, <1>4, <1>5 DEF Good

LEMMA TellIs ==
  ASSUME LinkMicTypeOK, NEW c \in Client, NEW p \in ToClient, NEW other, Tell(c, <<p>>, other)
  PROVE  /\ toClient'[c] = Append(toClient[c], p)
         /\ \A d \in Client \ {c} : toClient'[d] = IF logged[d] # None THEN toClient[d] \o other ELSE toClient[d]
<1>1. toClient[c] \in Seq(ToClient)
  BY DEF LinkMicTypeOK
<1>2. toClient[c] \o <<p>> = Append(toClient[c], p)
  BY <1>1, AppendIs
<1> QED
  BY <1>2 DEF Tell

LEMMA ServerKeepsOwn ==
  ASSUME LinkMicTypeOK, NEW c \in Client, Good(c), ServerAnswers(c) \/ ServerKick(c)
  PROVE  Good(c)'
<1>0. /\ UNCHANGED ClientVars /\ toClient[c] \in Seq(ToClient) /\ logged \in [Client -> AudioID \cup {None}]
      /\ openRemoteUser[c] \in [Client -> AudioID \cup {None}]
  BY DEF ServerAnswers, ServerLogin, ServerUserList, ServerQuit, ServerIgnores, ServerKick, LinkMicTypeOK
<1>p. /\ \A cmd \in {"LOGINSERVERED", "LOGINREFUSED", "RELOGIN", "USERQUIT"} : Packet(cmd) \in ToClient /\ Packet(cmd).cmd = cmd
      /\ UserList(Others(c)) \in ToClient /\ UserList(Others(c)).cmd = "UPDATEUSERLIST"
      /\ UserList(Others(c)).ids = Others(c)
  BY PacketTypes DEF Packet, UserList, Others
<1>1. CASE ServerLogin(c)
  <2> DEFINE id == Head(toServer[c]).id
  <2>1. /\ LastLogin(toServer'[c], audioID[c]) /\ id \in AudioID /\ id # None
        /\ id = audioID[c] \/ Has(toServer'[c], "LOGINSERVER")
        /\ link[c] = "up" /\ audioID[c] # None
    BY <1>1, ServedIs DEF ServerLogin, AudioID, None
  <2>2. CASE /\ Tell(c, << Packet("LOGINSERVERED") >>, Leaves(c) \o << About("REMOTEUSERLOGIN", c, id) >>)
             /\ logged' = [logged EXCEPT ![c] = id]
    <3> DEFINE p == Packet("LOGINSERVERED")
    <3>1. toClient'[c] = Append(toClient[c], p) /\ p \in ToClient /\ p.cmd = "LOGINSERVERED"
      BY <1>p, <2>2, TellIs
    <3>2. /\ \A u \in Client \ {c} : logged'[u] = logged[u]
          /\ logged' \in [Client -> AudioID \cup {None}] /\ logged'[c] = id
      BY <2>1, <2>2 DEF LinkMicTypeOK
    <3> HIDE DEF p, id
    <3>3. Ids(c)'
      BY <1>0, <2>1, <3>2 DEF Ids, ClientVars
    <3>4. p.cmd \notin Ends
      BY <3>1 DEF Ends
    <3>5. /\ Shut(c)' /\ Others(c)' = Others(c) /\ (EndPending(c)' <=> EndPending(c)) /\ Has(toClient'[c], "LOGINSERVERED")
          /\ NeverTwice(toClient[c], openRemoteUser[c]) => NeverTwice(toClient'[c], openRemoteUser[c])
          /\ Sessions(c)' /\ Beginning(c)' /\ Refusals(toClient[c], stranded[c] \/ Fresh(c))' /\ Senders(c)'
      BY <1>0, <2>1, <3>1, <3>2, <3>3, <3>4, WrittenTo
    <3>6. ASSUME c \in Anchor, ~ stranded[c], ~ EndPending(c)
          PROVE  InStep(toClient'[c], openRemoteUser[c], Others(c))
      <4>1. InStep(toClient[c], openRemoteUser[c], Others(c))
        <5>1. CASE logged[c] # None
          BY <3>6, <5>1 DEF Good, Hearing
        <5>2. CASE logged[c] = None
          BY <2>1, <3>6, <5>2, EmptyQueue DEF Good, Sessions, Beginning, Fresh
        <5> QED
          BY <5>1, <5>2
      <4>2. \A u \in Client : ~ Concerns(p, u)
        BY <3>1 DEF Concerns
      <4> QED
        BY <1>0, <3>1, <4>1, <4>2, NewsAppend
    <3>7. Hearing(c)'
      BY <1>0, <3>5, <3>6 DEF Good, Hearing, ClientVars, mediaVars, historyVars
    <3> QED
      BY <3>3, <3>5, <3>7 DEF Good
  <2>3. CASE logged[c] = None /\ Tell(c, << Packet("LOGINREFUSED") >>, <<>>) /\ UNCHANGED logged
    <3> DEFINE p == Packet("LOGINREFUSED")
    <3>1. toClient'[c] = Append(toClient[c], p) /\ p \in ToClient /\ p.cmd = "LOGINREFUSED" /\ p.cmd \in Ends
      BY <1>p, <2>3, TellIs DEF Ends
    <3>2. logged' = [logged EXCEPT ![c] = None]
      BY <1>0, <2>3
    <3> HIDE DEF p
    <3> QED
      BY <1>0, <2>1, <2>3, <3>1, <3>2, EndsKeepOwn
  <2> QED
    BY <1>1, <2>2, <2>3 DEF ServerLogin
<1>2. CASE ServerUserList(c)
  <2> DEFINE p == UserList(Others(c))
  <2>1. /\ LastLogin(toServer'[c], audioID[c]) /\ logged[c] # None /\ logged' = logged
        /\ Has(toServer[c], "LOGINSERVER") => Has(toServer'[c], "LOGINSERVER")
        /\ link[c] = "up" /\ audioID[c] # None
    BY <1>2, ServedIs DEF ServerUserList
  <2>2. toClient'[c] = Append(toClient[c], p) /\ p \in ToClient /\ p.cmd = "UPDATEUSERLIST" /\ p.ids = Others(c)
    BY <1>p, <1>2, TellIs DEF ServerUserList, Others
  <2> HIDE DEF p
  <2>3. Ids(c)'
    BY <1>0, <2>1 DEF Good, Ids, ClientVars
  <2>4. p.cmd \notin Ends
    BY <2>2 DEF Ends
  <2>5. /\ Shut(c)' /\ Others(c)' = Others(c) /\ (EndPending(c)' <=> EndPending(c))
        /\ NeverTwice(toClient[c], openRemoteUser[c]) => NeverTwice(toClient'[c], openRemoteUser[c])
        /\ Sessions(c)' /\ Beginning(c)' /\ Refusals(toClient[c], stranded[c] \/ Fresh(c))' /\ Senders(c)'
    BY <1>0, <2>1, <2>2, <2>3, <2>4, WrittenTo
  <2>6. ASSUME c \in Anchor, ~ stranded[c], ~ EndPending(c)
        PROVE  /\ InStep(toClient'[c], openRemoteUser[c], Others(c))
               /\ Complete(toClient'[c], openRemoteUser[c], Others(c), shut[c])
    <3>1. InStep(toClient[c], openRemoteUser[c], Others(c))
      BY <2>1, <2>6 DEF Good, Hearing
    <3>2. \A u \in Client : Others(c)[u] = IF Concerns(p, u) THEN IdIn(p, u) ELSE Others(c)[u]
      BY <2>2 DEF Concerns, IdIn
    <3>3. p.cmd # "REMOTEUSERLOGIN"
      BY <2>2
    <3>4. InStep(Append(toClient[c], p), openRemoteUser[c], Others(c))
      BY <1>0, <2>2, <3>1, <3>2, <3>3, NewsAppend
    <3>5. Complete(Append(toClient[c], p), openRemoteUser[c], Others(c), shut[c])
      BY <1>0, <2>2, <3>1, ListAppend
    <3> QED
      BY <2>2, <3>4, <3>5
  <2>7. Hearing(c)'
    BY <1>0, <2>5, <2>6 DEF Good, Hearing, ClientVars, mediaVars, historyVars
  <2> QED
    BY <2>3, <2>5, <2>7 DEF Good
<1>3. CASE ServerQuit(c) \/ ServerKick(c)
  <2>1. /\ LastLogin(toServer'[c], audioID[c]) /\ link[c] = "up"
    <3>1. CASE ServerQuit(c)
      BY <3>1, ServedIs DEF ServerQuit
    <3>2. CASE ServerKick(c)
      BY <3>2 DEF ServerKick, Good, Ids
    <3> QED
      BY <1>3, <3>1, <3>2
  <2>2. PICK p \in ToClient : p.cmd \in {"USERQUIT", "RELOGIN"} /\ Tell(c, <<p>>, Leaves(c))
    BY <1>p, <1>3 DEF ServerQuit, ServerKick
  <2>3. toClient'[c] = Append(toClient[c], p) /\ p.cmd \in Ends /\ p.cmd # "LOGINREFUSED"
    BY <2>2, TellIs DEF Ends
  <2>4. logged' = [logged EXCEPT ![c] = None]
    BY <1>3 DEF ServerQuit, ServerKick
  <2> QED
    BY <1>0, <2>1, <2>3, <2>4, EndsKeepOwn
<1>4. CASE ServerIgnores(c)
  <2>1. /\ LastLogin(toServer'[c], audioID[c]) /\ link[c] = "up" /\ audioID[c] # None
        /\ logged[c] = None /\ toClient' = toClient /\ logged' = logged
    BY <1>4, ServedIs DEF ServerIgnores
  <2>2. Ids(c)'
    BY <1>0, <2>1 DEF Ids, ClientVars
  <2>3. (Fresh(c)' <=> Fresh(c)) /\ (EndPending(c)' <=> EndPending(c))
    BY <1>0, <2>1 DEF Fresh, EndPending, ClientVars, mediaVars
  <2>4. Sessions(c)' /\ Beginning(c)'
    BY <1>0, <2>1, <2>3 DEF Good, Sessions, Beginning, ClientVars, historyVars
  <2>5. Refusals(toClient[c], stranded[c] \/ Fresh(c))'
    BY <1>0, <2>1, <2>3, RefusalsStay DEF Good, ClientVars, historyVars
  <2>6. Senders(c)' /\ Shut(c)'
    BY <1>0, <2>1, <2>3 DEF Good, Senders, Shut, ClientVars, mediaVars, historyVars
  <2>7. Hearing(c)'
    BY <1>0, <2>1 DEF Good, Hearing, ClientVars, mediaVars, historyVars
  <2> QED
    BY <2>2, <2>4, <2>5, <2>6, <2>7 DEF Good
<1> QED
  BY <1>1, <1>2, <1>3, <1>4 DEF ServerAnswers

-----------------------------------------------------------------------------
(* Every step, of every client.                                            *)

Steps(c) ==
  Calls(c) \/ Handle(c) \/ ServerAnswers(c) \/ Connection(c) \/ Restarted(c) \/ Busy(c) \/ ServerKick(c)

LEMMA OwnKept ==
  ASSUME LinkMicTypeOK, NEW c \in Client, Good(c), Steps(c)
  PROVE  Good(c)'
BY CallsKeepOwn, HandlersKeepOwn, TeardownKeepsOwn, ConnectionKeepsOwn, ServerKeepsOwn DEF Steps, Handle

\* A session that ends is announced to those that have one.
LEMMA SessionEndsToOthers ==
  ASSUME LinkMicTypeOK, NEW c \in Client, NEW d \in Client \ {c}, Good(d), Same(d),
         logged' = [logged EXCEPT ![c] = None],
         toClient'[d] = IF logged[d] # None THEN toClient[d] \o Leaves(c) ELSE toClient[d]
  PROVE  Good(d)'
<1>1. logged'[d] = logged[d]
  BY DEF LinkMicTypeOK
<1>2. None \in AudioID \cup {None}
  OBVIOUS
<1>3. CASE logged[d] = None
  BY <1>1, <1>3, Untouched
<1>4. CASE logged[d] # None
  BY <1>2, <1>4, Announced
<1> QED
  BY <1>3, <1>4

LEMMA OthersKept ==
  ASSUME LinkMicTypeOK, NEW c \in Client, NEW d \in Client \ {c}, Good(d), Steps(c)
  PROVE  Good(d)'
<1>1. CASE Calls(c)
  <2>1. Same(d) /\ toClient'[d] = toClient[d] /\ logged' = logged
    <3>1. CASE LoginLinkMicServer(c)
      BY <3>1 DEF LoginLinkMicServer, Same, LinkMicTypeOK, queueVars
    <3>2. CASE LogoutServer(c)
      <4>1. toServer'[d] = toServer[d]
        BY <3>2, PacketTypes, SentTypes DEF LogoutServer
      <4> QED
        BY <3>2, <4>1 DEF LogoutServer, Same, LinkMicTypeOK, historyVars
    <3>3. ASSUME NEW u \in Client, CloseRemoteUserVideo(c, u)
          PROVE  Same(d) /\ toClient'[d] = toClient[d] /\ logged' = logged
      BY <3>3 DEF CloseRemoteUserVideo, Same, LinkMicTypeOK, historyVars, queueVars
    <3> QED
      BY <1>1, <3>1, <3>2, <3>3 DEF Calls
  <2> QED
    BY <2>1, Untouched
<1>2. CASE LoginServered(c) \/ RemoteUserLogin(c) \/ RemoteUserQuit(c) \/ UpdateUserList(c)
  <2>1. toClient'[d] = toClient[d]
    BY <1>2, HandledTypes DEF LoginServered, RemoteUserLogin, RemoteUserQuit, UpdateUserList, Receives
  <2>2. CASE LoginServered(c)
    <3>1. toServer'[d] = toServer[d]
      BY <2>2, PacketTypes, SentTypes DEF LoginServered
    <3>2. openLocalUser'[d] = openLocalUser[d] /\ mic'[d] = mic[d]
      BY <2>2 DEF LoginServered, OpenMediaSender, LinkMicTypeOK
    <3>3. Same(d) /\ logged' = logged
      BY <2>2, <3>1, <3>2 DEF LoginServered, Same, historyVars
    <3> QED
      BY <2>1, <3>3, Untouched
  <2>3. CASE RemoteUserLogin(c) \/ RemoteUserQuit(c) \/ UpdateUserList(c)
    <3>1. openRemoteUser'[d] = openRemoteUser[d] /\ shut'[d] = shut[d]
      BY <2>3 DEF RemoteUserLogin, RemoteUserQuit, UpdateUserList, OpenReceivers, LinkMicTypeOK
    <3>2. Same(d) /\ logged' = logged
      BY <2>3, <3>1 DEF RemoteUserLogin, RemoteUserQuit, UpdateUserList, Same, historyVars
    <3> QED
      BY <2>1, <3>2, Untouched
  <2> QED
    BY <1>2, <2>2, <2>3
<1>3. ASSUME SessionEnds(c), Same(d) PROVE Good(d)'
  <2>1. logged' = [logged EXCEPT ![c] = None]
    BY <1>3 DEF SessionEnds
  <2>2. toClient'[d] = IF logged[d] # None THEN toClient[d] \o Leaves(c) ELSE toClient[d]
    <3>1. toClient[d] \in Seq(ToClient)
      BY DEF LinkMicTypeOK
    <3>2. logged[c] # None => About("REMOTEUSERQUIT", c, logged[c]) \in ToClient
      BY PacketTypes
    <3>3. toClient[d] \o Leaves(c) =
            IF logged[c] # None THEN Append(toClient[d], About("REMOTEUSERQUIT", c, logged[c])) ELSE toClient[d]
      <4> DEFINE q == toClient[d]
                 quit == About("REMOTEUSERQUIT", c, logged[c])
      <4>1. Leaves(c) = IF logged[c] # None THEN <<quit>> ELSE <<>>
        BY DEF Leaves
      <4>2. q \in Seq(ToClient) /\ (logged[c] # None => quit \in ToClient)
        BY <3>1, <3>2
      <4> HIDE DEF q, quit
      <4>3. q \o <<>> = q /\ (logged[c] # None => q \o <<quit>> = Append(q, quit))
        BY <4>2, AppendIs
      <4>4. q \o Leaves(c) = IF logged[c] # None THEN Append(q, quit) ELSE q
        BY <4>1, <4>3
      <4> QED
        BY <4>4 DEF q, quit
    <3> QED
      BY <1>3, <3>3 DEF SessionEnds
  <2> QED
    BY <1>3, <2>1, <2>2, SessionEndsToOthers
<1>4. CASE LoginRefused(c) \/ SessionOver(c)
  <2>1. PICK cmd : Teardown(c, cmd)
    BY <1>4 DEF LoginRefused, SessionOver
  <2>2. /\ openLocalUser'[d] = openLocalUser[d] /\ mic'[d] = mic[d]
        /\ openRemoteUser'[d] = openRemoteUser[d] /\ shut'[d] = shut[d] /\ stale'[d] = stale[d]
        /\ stranded'[d] = stranded[d]
    BY <1>4 DEF LoginRefused, SessionOver, CloseMedia, CloseMediaSender, LinkMicTypeOK, mediaVars, historyVars
  <2>3. Same(d) /\ SessionEnds(c)
    BY <2>1, <2>2 DEF Teardown, SessionEnds, Same, LinkMicTypeOK
  <2> QED
    BY <1>3, <2>3
<1>5. CASE Connected(c) \/ Reconnected(c) \/ Restarted(c) \/ Busy(c)
  <2>1. CASE Connected(c) \/ Reconnected(c)
    BY <2>1, Untouched DEF Connected, Reconnected, LoginServer, Same, LinkMicTypeOK, mediaVars
  <2>2. CASE Restarted(c) \/ Busy(c)
    BY <2>2, Untouched DEF Restarted, Busy, Same, LinkMicTypeOK, mediaVars, historyVars, queueVars
  <2> QED
    BY <1>5, <2>1, <2>2
<1>6. CASE Disconnected(c)
  BY <1>6, Untouched DEF Disconnected, CloseMedia, CloseMediaSender, Same, LinkMicTypeOK, queueVars
<1>7. CASE ServerDrop(c)
  <2>1. Same(d) /\ SessionEnds(c)
    BY <1>7 DEF ServerDrop, SessionEnds, Same, LinkMicTypeOK, mediaVars, historyVars
  <2> QED
    BY <1>3, <2>1
<1>8. CASE ServerAnswers(c) \/ ServerKick(c)
  <2>1. Same(d)
    <3>1. toServer'[d] = toServer[d]
      BY <1>8, ServedTypes DEF ServerAnswers, ServerLogin, ServerUserList, ServerQuit, ServerIgnores, ServerKick, Asked
    <3>2. UNCHANGED ClientVars
      BY <1>8 DEF ServerAnswers, ServerLogin, ServerUserList, ServerQuit, ServerIgnores, ServerKick
    <3> QED
      BY <3>1, <3>2 DEF Same, ClientVars, mediaVars, historyVars
  <2>2. /\ toClient[d] \in Seq(ToClient) /\ toClient[d] \o <<>> = toClient[d]
        /\ logged \in [Client -> AudioID \cup {None}]
        /\ \A cmd \in {"LOGINSERVERED", "LOGINREFUSED", "RELOGIN", "USERQUIT"} : Packet(cmd) \in ToClient
        /\ UserList([logged EXCEPT ![c] = None]) \in ToClient
    BY PacketTypes, AppendIs DEF LinkMicTypeOK
  <2>3. CASE ServerLogin(c)
    <3> DEFINE id == Head(toServer[c]).id
    <3>1. id \in AudioID /\ id # None
      <4>1. Head(toServer[c]) \in ToServer /\ Head(toServer[c]).cmd = "LOGINSERVER"
        BY <2>3, ServedTypes DEF ServerLogin, Asked
      <4> QED
        BY <4>1 DEF ToServer, AudioID, None
    <3>2. CASE /\ Tell(c, << Packet("LOGINSERVERED") >>, Leaves(c) \o << About("REMOTEUSERLOGIN", c, id) >>)
               /\ logged' = [logged EXCEPT ![c] = id]
      <4>1. /\ logged'[d] = logged[d]
            /\ toClient'[d] = IF logged[d] # None THEN toClient[d] \o (Leaves(c) \o << About("REMOTEUSERLOGIN", c, id) >>)
                              ELSE toClient[d]
        BY <2>2, <3>2, TellIs
      <4> HIDE DEF id
      <4>2. CASE logged[d] = None
        BY <2>1, <4>1, <4>2, Untouched
      <4>3. CASE logged[d] # None
        <5>1. id \in AudioID \cup {None} /\ logged' = [logged EXCEPT ![c] = id]
          BY <3>1, <3>2
        <5>2. toClient'[d] = IF id = None THEN toClient[d] \o Leaves(c)
                             ELSE toClient[d] \o (Leaves(c) \o << About("REMOTEUSERLOGIN", c, id) >>)
          BY <3>1, <4>1, <4>3
        <5> QED
          BY <2>1, <4>3, <5>1, <5>2, Announced
      <4> QED
        BY <4>2, <4>3
    <3>3. CASE Tell(c, << Packet("LOGINREFUSED") >>, <<>>) /\ UNCHANGED logged
      <4>1. toClient'[d] = IF logged[d] # None THEN toClient[d] \o <<>> ELSE toClient[d]
        BY <2>2, <3>3, TellIs
      <4>2. toClient'[d] = toClient[d] /\ logged' = logged
        BY <2>2, <3>3, <4>1
      <4> QED
        BY <2>1, <4>2, Untouched
    <3> QED
      BY <2>3, <3>2, <3>3 DEF ServerLogin
  <2>4. CASE ServerUserList(c)
    <3> DEFINE p == UserList([logged EXCEPT ![c] = None])
    <3>1. p \in ToClient /\ Tell(c, <<p>>, <<>>) /\ logged' = logged
      BY <2>2, <2>4 DEF ServerUserList
    <3> HIDE DEF p
    <3>2. toClient'[d] = IF logged[d] # None THEN toClient[d] \o <<>> ELSE toClient[d]
      BY <3>1, TellIs
    <3>3. toClient'[d] = toClient[d]
      BY <2>2, <3>2
    <3> QED
      BY <2>1, <3>1, <3>3, Untouched
  <2>5. CASE ServerIgnores(c)
    BY <2>1, <2>5, Untouched DEF ServerIgnores
  <2>6. CASE ServerQuit(c) \/ ServerKick(c)
    <3>1. PICK p \in ToClient : Tell(c, <<p>>, Leaves(c))
      BY <2>2, <2>6 DEF ServerQuit, ServerKick
    <3>2. toClient'[d] = IF logged[d] # None THEN toClient[d] \o Leaves(c) ELSE toClient[d]
      BY <3>1, TellIs
    <3>3. logged' = [logged EXCEPT ![c] = None]
      BY <2>6 DEF ServerQuit, ServerKick
    <3> QED
      BY <2>1, <3>2, <3>3, SessionEndsToOthers
  <2> QED
    BY <1>8, <2>3, <2>4, <2>5, <2>6 DEF ServerAnswers
<1> QED
  BY <1>1, <1>2, <1>4, <1>5, <1>6, <1>7, <1>8 DEF Steps, Handle, Connection

LEMMA LinkMicInvInit == Init => LinkMicInv
<1> SUFFICES ASSUME Init PROVE LinkMicInv
  OBVIOUS
<1>1. LinkMicTypeOK
  BY TypeInit
<1>2. ASSUME NEW c \in Client PROVE Good(c)
  <2>1. /\ link[c] = "none" /\ audioID[c] = None /\ openLocalUser[c] = None /\ mic[c] = FALSE /\ openRemoteUser[c] = Nobody
        /\ shut[c] = {} /\ stale[c] = FALSE /\ stranded[c] = FALSE /\ toServer[c] = <<>> /\ toClient[c] = <<>>
        /\ logged[c] = None
    BY DEF Init, Nobody
  <2>2. \A cmd : ~ Has(toClient[c], cmd)
    BY <2>1, EmptyQueue
  <2>3. Sessions(c) /\ Beginning(c) /\ Shut(c)
    BY <2>1 DEF Sessions, Beginning, Fresh, Shut
  <2>4. Refusals(toClient[c], stranded[c] \/ Fresh(c)) /\ Ids(c)
    BY <2>1, EmptyQueue DEF Ids
  <2>5. Senders(c)
    BY <2>1 DEF Senders, None
  <2>6. Hearing(c)
    BY <2>1, EmptyQueue DEF Hearing
  <2> QED
    BY <2>3, <2>4, <2>5, <2>6 DEF Good
<1> QED
  BY <1>1, <1>2 DEF LinkMicInv

LEMMA LinkMicInvNext == LinkMicInv /\ [Next]_vars => LinkMicInv'
<1> SUFFICES ASSUME LinkMicInv, [Next]_vars PROVE LinkMicInv'
  OBVIOUS
<1>1. LinkMicTypeOK /\ LinkMicTypeOK' /\ \A d \in Client : Good(d)
  BY TypeNext DEF LinkMicInv
<1>2. ASSUME UNCHANGED vars, NEW d \in Client PROVE Good(d)'
  BY <1>1, <1>2, Untouched DEF vars, mediaVars, historyVars, queueVars, Same
<1>3. ASSUME NEW c \in Client, Steps(c), NEW d \in Client PROVE Good(d)'
  BY <1>1, <1>3, OwnKept, OthersKept
<1> QED
  BY <1>1, <1>2, <1>3 DEF Next, Steps, LinkMicInv

-----------------------------------------------------------------------------
(* What follows.                                                           *)

\* The invariant of a room: what an anchor will make of the packets that it has not read,
\* and the id that each sender has.
THEOREM LinkMicInvariant == Spec => []LinkMicInv
BY LinkMicInvInit, LinkMicInvNext, PTL DEF Spec

\* The queues of a client that has settled say nothing.
LEMMA SettledHears ==
  ASSUME LinkMicInv, NEW a \in Anchor, NEW u \in Client, Settled(a), ~ stranded[a]
  PROVE  openRemoteUser[a][u] = IF u \in shut[a] \cup {a} THEN None ELSE logged[u]
<1>1. a \in Client /\ Good(a) /\ logged \in [Client -> AudioID \cup {None}]
  BY LinkMicAssumption DEF LinkMicInv, LinkMicTypeOK
<1>2. \A cmd : ~ Has(toClient[a], cmd) /\ ~ Has(toServer[a], cmd)
  BY EmptyQueue DEF Settled
<1>3. Complete(toClient[a], openRemoteUser[a], Others(a), shut[a])
  BY <1>1, <1>2 DEF Good, Hearing, EndPending, Settled
<1>4. Len(toClient[a]) = 0 /\ 1 .. 0 = {}
  BY DEF Settled
<1>5. openRemoteUser[a][u] = Others(a)[u] \/ u \in shut[a]
  BY <1>3, <1>4 DEF Complete, Becomes
<1>6. u \in shut[a] => openRemoteUser[a][u] = None
  BY <1>1 DEF Good, Shut
<1>7. Others(a)[u] = IF u = a THEN None ELSE logged[u]
  BY <1>1 DEF Others
<1> QED
  BY <1>5, <1>6, <1>7

\* An anchor listens to every user under the id of its login, and to nobody who is gone,
\* as soon as it has read all that it was told.
THEOREM AnchorsHear == Spec => []AnchorHears
<1>1. LinkMicInv => AnchorHears
  BY SettledHears DEF AnchorHears
<1> QED
  BY <1>1, LinkMicInvariant, PTL

\* It hears every guest but those that logged in again without a new sender.
THEOREM GuestsAreHeard == Spec => []GuestIsHeard
<1>1. LinkMicInv => GuestIsHeard
  <2> SUFFICES ASSUME LinkMicInv, NEW a \in Anchor, NEW g \in Client \ Anchor,
                      Settled(a), Settled(g), g \notin shut[a], ~ stranded[a]
               PROVE  openLocalUser[g] = openRemoteUser[a][g] <=> ~ stale[g]
    BY DEF GuestIsHeard
  <2>1. openRemoteUser[a][g] = logged[g]
    BY SettledHears
  <2>2. Good(g) /\ \A cmd : ~ Has(toClient[g], cmd) /\ ~ Has(toServer[g], cmd)
    BY EmptyQueue DEF LinkMicInv, Settled
  <2>3. logged[g] = audioID[g] /\ logged[g] # None
    BY <2>2 DEF Good, Ids, Settled
  <2>4. openLocalUser[g] # None /\ (stale[g] <=> openLocalUser[g] \notin {None, audioID[g]})
    BY <2>2, <2>3 DEF Good, Senders, EndPending
  <2> QED
    BY <2>1, <2>3, <2>4
<1> QED
  BY <1>1, LinkMicInvariant, PTL

\* A manager is deleted with nothing open, but after CS_RESTARTED.
THEOREM NothingIsLeft == Spec => []NothingOutlivesManager
<1>1. LinkMicInv => NothingOutlivesManager
  BY DEF LinkMicInv, Good, Beginning, Fresh, Senders, NothingOutlivesManager
<1> QED
  BY <1>1, LinkMicInvariant, PTL

\* A login never finds a receiver of the user's last session: only the list does.
THEOREM LoginsLoseNothing == Spec => LostByListOnly
<1>1. ASSUME LinkMicInv, [Next]_vars, NEW c \in Client
      PROVE  lost'[c] \subseteq lost[c] \/ stranded[c] \/ Receives(c, "UPDATEUSERLIST")
  <2>0. lost \in [Client -> SUBSET (Client \X (AudioID \cup {None}))]
    BY <1>1 DEF LinkMicInv, LinkMicTypeOK
  <2>1. CASE UNCHANGED vars
    BY <2>1 DEF vars, mediaVars
  <2>2. ASSUME NEW d \in Client, Steps(d), lost' # lost
        PROVE  LoginLinkMicServer(d) \/ UpdateUserList(d) \/ (RemoteUserLogin(d) /\ d \in Anchor)
    BY <2>2 DEF Steps, Calls, LogoutServer, CloseRemoteUserVideo, Handle, LoginServered, LoginRefused, SessionOver,
         RemoteUserLogin, RemoteUserQuit, CloseMedia, ServerAnswers, ServerLogin, ServerUserList, ServerQuit,
         ServerIgnores, ServerKick, ClientVars, mediaVars, Connection, Connected, Reconnected, LoginServer,
         Disconnected, ServerDrop, Restarted, Busy
  <2>3. ASSUME NEW d \in Client, Steps(d)
        PROVE  lost'[c] \subseteq lost[c] \/ stranded[c] \/ Receives(c, "UPDATEUSERLIST")
    <3>1. CASE lost' = lost
      BY <3>1
    <3>2. CASE LoginLinkMicServer(d)
      BY <2>0, <3>2 DEF LoginLinkMicServer
    <3>3. CASE UpdateUserList(d)
      <4>1. d # c => lost'[c] = lost[c]
        BY <2>0, <3>3 DEF UpdateUserList, OpenReceivers
      <4> QED
        BY <3>3, <4>1 DEF UpdateUserList
    <3>4. CASE RemoteUserLogin(d) /\ d \in Anchor
      <4> DEFINE q == toClient[d]
                 ids == [Nobody EXCEPT ![Head(q).user] = Head(q).id]
                 found == {v \in {u \in Client : ids[u] # None} : openRemoteUser[d][v] # None}
      <4>1. OpenReceivers(d, ids)
        BY <3>4 DEF RemoteUserLogin
      <4>2. lost' = [lost EXCEPT ![d] = @ \cup {<<u, openRemoteUser[d][u]>> : u \in found}]
        BY <4>1 DEF OpenReceivers
      <4>3. d # c => lost'[c] = lost[c]
        BY <2>0, <4>2
      <4>4. ASSUME d = c, ~ stranded[c] PROVE lost'[c] = lost[c]
        <5>1. /\ q \in Seq(ToClient) /\ q # <<>> /\ q[1].cmd = "REMOTEUSERLOGIN" /\ Head(q) = q[1]
              /\ 1 \in 1 .. Len(q) /\ 1 .. 1 - 1 = {} /\ q[1] \in ToClient
          <6>1. q \in Seq(ToClient) /\ q # <<>> /\ Head(q).cmd = "REMOTEUSERLOGIN"
            BY <1>1, <3>4 DEF RemoteUserLogin, Receives, LinkMicInv, LinkMicTypeOK
          <6> HIDE DEF q
          <6> QED
            BY <6>1, TailIs
        <5>2. NeverTwice(q, openRemoteUser[d])
          BY <1>1, <3>4, <4>4 DEF LinkMicInv, Good, Hearing
        <5>3. openRemoteUser[d][q[1].user] = None
          BY <5>1, <5>2 DEF NeverTwice, Becomes
        <5>4. \A u \in Client : ids[u] = IF u = q[1].user THEN q[1].id ELSE None
          BY <5>1 DEF Nobody
        <5>5. found = {}
          BY <5>3, <5>4
        <5> HIDE DEF found
        <5> QED
          BY <2>0, <4>2, <4>4, <5>5
      <4> QED
        BY <4>3, <4>4
    <3> QED
      BY <2>2, <2>3, <3>1, <3>2, <3>3, <3>4
  <2> QED
    BY <1>1, <2>1, <2>3 DEF Next, Steps
<1>2. LinkMicInv /\ [Next]_vars =>
        [\A c \in Client : lost'[c] \subseteq lost[c] \/ stranded[c] \/ Receives(c, "UPDATEUSERLIST")]_vars
  BY <1>1
<1> QED
  BY <1>2, LinkMicInvariant, PTL DEF Spec, LostByListOnly

=============================================================================
