--------------------------- MODULE VideoChatProofs ---------------------------
(***************************************************************************)
(* A client hears its meeting, opens nobody twice, and, if it waits for    *)
(* its answers, talks where it is and nowhere else; and it hears as        *)
(* Hearing.tla says.  For any number of meetings and users, and however    *)
(* many packets are under way.                                             *)
(***************************************************************************)
EXTENDS VideoChatInv, TLAPS

-----------------------------------------------------------------------------
(* Queues.                                                                 *)

LEMMA AppendIs ==
  ASSUME NEW S, NEW q \in Seq(S), NEW p \in S
  PROVE  /\ Append(q, p) \in Seq(S) /\ Len(q) \in Nat /\ Len(Append(q, p)) = Len(q) + 1
         /\ \A i \in 1 .. Len(q) : Append(q, p)[i] = q[i]
         /\ Append(q, p)[Len(q) + 1] = p
OBVIOUS

LEMMA TailIs ==
  ASSUME NEW S, NEW q \in Seq(S), q # <<>>
  PROVE  /\ Tail(q) \in Seq(S) /\ Len(q) \in Nat /\ Len(Tail(q)) = Len(q) - 1 /\ Len(q) > 0
         /\ \A i \in 1 .. Len(q) - 1 : Tail(q)[i] = q[i + 1]
         /\ Head(q) = q[1] /\ Head(q) \in S
OBVIOUS

\* A packet at the end changes nothing before it.
LEMMA AfterAppend ==
  ASSUME NEW S, NEW q \in Seq(S), NEW p \in S, NEW set, NEW u, NEW k \in 0 .. Len(q)
  PROVE  /\ ClosedAfter(Append(q, p), set, k, u) <=> ClosedAfter(q, set, k, u)
         /\ KnownAfter(Append(q, p), set, k, u) <=> KnownAfter(q, set, k, u)
<1>1. \A i \in 1 .. k : Append(q, p)[i] = q[i]
  BY AppendIs
<1>2. \A i \in 1 .. k : \A j \in i + 1 .. k : j \in 1 .. k
  OBVIOUS
<1>3. ClosedAfter(Append(q, p), set, k, u) <=> ClosedAfter(q, set, k, u)
  BY <1>1, <1>2 DEF ClosedAfter
<1>4. KnownAfter(Append(q, p), set, k, u) <=> KnownAfter(q, set, k, u)
  BY <1>1, <1>2 DEF KnownAfter
<1> QED
  BY <1>3, <1>4

\* What it does is the last word.
LEMMA AppendDecides ==
  ASSUME NEW S, NEW q \in Seq(S), NEW p \in S, NEW open, NEW list, NEW u
  PROVE  /\ Closes(p, u) \/ (ClosedAfter(q, open, Len(q), u) /\ ~ Opens(p, u))
              => ClosedAfter(Append(q, p), open, Len(q) + 1, u)
         /\ Lists(p, u) \/ (KnownAfter(q, list, Len(q), u) /\ ~ Unlists(p, u))
              => KnownAfter(Append(q, p), list, Len(q) + 1, u)
         /\ EndsOpen(q, open, list, u) /\ ~ Closes(p, u) => EndsOpen(Append(q, p), open, list, u)
         /\ Opens(p, u) /\ (p.cmd = "PEER_JOIN" => KnownAfter(q, list, Len(q), u))
              => EndsOpen(Append(q, p), open, list, u)
<1> DEFINE n == Len(q)
           Q == Append(q, p)
<1>1. /\ n \in Nat /\ Len(Q) = n + 1 /\ Q[n + 1] = p
      /\ \A i \in 1 .. n : Q[i] = q[i]
  BY AppendIs
<1>2. /\ \A i \in 1 .. n + 1 : i \in 1 .. n \/ i = n + 1
      /\ \A i \in 1 .. n : i \in 1 .. n + 1 /\ \A j \in i + 1 .. n + 1 : j \in i + 1 .. n \/ j = n + 1
      /\ \A i \in 1 .. n : \A j \in i + 1 .. n : j \in 1 .. n
      /\ n + 1 \in 1 .. n + 1 /\ n + 1 + 1 .. n + 1 = {}
  BY <1>1
<1> HIDE DEF n, Q
<1>3. Closes(p, u) => ClosedAfter(Q, open, n + 1, u)
  BY <1>1, <1>2 DEF ClosedAfter
<1>4. ClosedAfter(q, open, n, u) /\ ~ Opens(p, u) => ClosedAfter(Q, open, n + 1, u)
  BY <1>1, <1>2 DEF ClosedAfter
<1>5. Lists(p, u) => KnownAfter(Q, list, n + 1, u)
  BY <1>1, <1>2 DEF KnownAfter
<1>6. KnownAfter(q, list, n, u) /\ ~ Unlists(p, u) => KnownAfter(Q, list, n + 1, u)
  BY <1>1, <1>2 DEF KnownAfter
<1>7. \A k \in 0 .. n : KnownAfter(Q, list, k, u) <=> KnownAfter(q, list, k, u)
  BY AfterAppend DEF n, Q
<1>8. (\A i \in 1 .. n : i - 1 \in 0 .. n) /\ n \in 0 .. n /\ n + 1 - 1 = n
  BY <1>1
<1>9. EndsOpen(q, open, list, u) /\ ~ Closes(p, u) => EndsOpen(Q, open, list, u)
  <2>1. u \in open /\ (\A j \in 1 .. n : ~ Closes(q[j], u)) /\ ~ Closes(p, u) => EndsOpen(Q, open, list, u)
    BY <1>1, <1>2 DEF EndsOpen
  <2>2. ASSUME NEW i \in 1 .. n, Opens(q[i], u), q[i].cmd = "PEER_JOIN" => KnownAfter(q, list, i - 1, u),
               \A j \in i + 1 .. n : ~ Closes(q[j], u), ~ Closes(p, u)
        PROVE  EndsOpen(Q, open, list, u)
    <3>1. \A j \in i + 1 .. n + 1 : ~ Closes(Q[j], u)
      BY <1>1, <1>2, <2>2
    <3>2. Opens(Q[i], u) /\ (Q[i].cmd = "PEER_JOIN" => KnownAfter(Q, list, i - 1, u))
      BY <1>1, <1>7, <1>8, <2>2
    <3> QED
      BY <1>1, <1>2, <3>1, <3>2 DEF EndsOpen
  <2> QED
    BY <2>1, <2>2 DEF EndsOpen, n
<1>10. Opens(p, u) /\ (p.cmd = "PEER_JOIN" => KnownAfter(q, list, n, u)) => EndsOpen(Q, open, list, u)
  <2> SUFFICES ASSUME Opens(p, u), p.cmd = "PEER_JOIN" => KnownAfter(q, list, n, u)
               PROVE  EndsOpen(Q, open, list, u)
    OBVIOUS
  <2>1. PICK i \in 1 .. Len(Q) : i = n + 1
    BY <1>1, <1>2
  <2>2. Opens(Q[i], u) /\ (Q[i].cmd = "PEER_JOIN" => KnownAfter(Q, list, i - 1, u))
    BY <1>1, <1>7, <1>8, <2>1
  <2>3. \A j \in i + 1 .. Len(Q) : ~ Closes(Q[j], u)
    BY <1>1, <1>2, <2>1
  <2> QED
    BY <2>2, <2>3 DEF EndsOpen
<1> QED
  BY <1>3, <1>4, <1>5, <1>6, <1>9, <1>10 DEF n, Q

\* The first packet does what it does; the rest comes after it.
LEMMA ClosedByTail ==
  ASSUME NEW S, NEW q \in Seq(S), q # <<>>, NEW k \in 0 .. Len(q) - 1, NEW set, NEW set1, NEW u,
         ClosedAfter(q, set, k + 1, u),
         Closes(q[1], u) \/ (u \notin set /\ ~ Opens(q[1], u)) => u \notin set1
  PROVE  ClosedAfter(Tail(q), set1, k, u)
<1> DEFINE Q == Tail(q)
<1>1. /\ Len(q) \in Nat /\ k \in Nat
      /\ \A i \in 1 .. k : Q[i] = q[i + 1]
  BY TailIs
<1>2. \A i \in 1 .. k + 1 : i = 1 \/ (i - 1 \in 1 .. k /\ i = (i - 1) + 1)
  BY <1>1
<1>3. \A i \in 1 .. k : i + 1 \in 1 .. k + 1 /\ i + 1 \in 1 + 1 .. k + 1
  BY <1>1
<1>4. \A i \in 1 .. k : \A j \in i + 1 .. k : j \in 1 .. k /\ j + 1 \in (i + 1) + 1 .. k + 1
  BY <1>1
<1>5. 1 \in 1 .. k + 1
  BY <1>1
<1> HIDE DEF Q
<1>6. ASSUME u \notin set, \A j \in 1 .. k + 1 : ~ Opens(q[j], u)
      PROVE  ClosedAfter(Q, set1, k, u)
  BY <1>1, <1>3, <1>5, <1>6 DEF ClosedAfter
<1>7. ASSUME Closes(q[1], u), \A j \in 1 + 1 .. k + 1 : ~ Opens(q[j], u)
      PROVE  ClosedAfter(Q, set1, k, u)
  BY <1>1, <1>3, <1>7 DEF ClosedAfter
<1>8. ASSUME NEW i \in 1 .. k, Closes(q[i + 1], u), \A j \in (i + 1) + 1 .. k + 1 : ~ Opens(q[j], u)
      PROVE  ClosedAfter(Q, set1, k, u)
  <2>1. \A j \in i + 1 .. k : ~ Opens(Q[j], u)
    BY <1>1, <1>4, <1>8
  <2> QED
    BY <1>1, <1>8, <2>1 DEF ClosedAfter
<1> QED
  BY <1>2, <1>6, <1>7, <1>8 DEF ClosedAfter, Q

\* The same of the list of users.
LEMMA KnownByTail ==
  ASSUME NEW S, NEW q \in Seq(S), q # <<>>, NEW k \in 0 .. Len(q) - 1, NEW set, NEW set1, NEW u,
         KnownAfter(q, set, k + 1, u),
         Lists(q[1], u) \/ (u \in set /\ ~ Unlists(q[1], u)) => u \in set1
  PROVE  KnownAfter(Tail(q), set1, k, u)
<1> DEFINE Q == Tail(q)
<1>1. /\ Len(q) \in Nat /\ k \in Nat
      /\ \A i \in 1 .. k : Q[i] = q[i + 1]
  BY TailIs
<1>2. \A i \in 1 .. k + 1 : i = 1 \/ (i - 1 \in 1 .. k /\ i = (i - 1) + 1)
  BY <1>1
<1>3. \A i \in 1 .. k : i + 1 \in 1 .. k + 1 /\ i + 1 \in 1 + 1 .. k + 1
  BY <1>1
<1>4. \A i \in 1 .. k : \A j \in i + 1 .. k : j \in 1 .. k /\ j + 1 \in (i + 1) + 1 .. k + 1
  BY <1>1
<1>5. 1 \in 1 .. k + 1
  BY <1>1
<1> HIDE DEF Q
<1>6. ASSUME u \in set, \A j \in 1 .. k + 1 : ~ Unlists(q[j], u)
      PROVE  KnownAfter(Q, set1, k, u)
  BY <1>1, <1>3, <1>5, <1>6 DEF KnownAfter
<1>7. ASSUME Lists(q[1], u), \A j \in 1 + 1 .. k + 1 : ~ Unlists(q[j], u)
      PROVE  KnownAfter(Q, set1, k, u)
  BY <1>1, <1>3, <1>7 DEF KnownAfter
<1>8. ASSUME NEW i \in 1 .. k, Lists(q[i + 1], u), \A j \in (i + 1) + 1 .. k + 1 : ~ Unlists(q[j], u)
      PROVE  KnownAfter(Q, set1, k, u)
  <2>1. \A j \in i + 1 .. k : ~ Unlists(Q[j], u)
    BY <1>1, <1>4, <1>8
  <2> QED
    BY <1>1, <1>8, <2>1 DEF KnownAfter
<1> QED
  BY <1>2, <1>6, <1>7, <1>8 DEF KnownAfter, Q

\* The same of a receiver that stays.
LEMMA OpenByTail ==
  ASSUME NEW S, NEW q \in Seq(S), q # <<>>, NEW open, NEW open1, NEW list, NEW list1, NEW u,
         EndsOpen(q, open, list, u),
         (u \in open /\ ~ Closes(q[1], u)) \/ (Opens(q[1], u) /\ (q[1].cmd = "PEER_JOIN" => u \in list))
           => u \in open1,
         Lists(q[1], u) \/ (u \in list /\ ~ Unlists(q[1], u)) => u \in list1
  PROVE  EndsOpen(Tail(q), open1, list1, u)
<1> DEFINE Q == Tail(q)
           n == Len(q)
<1>1. /\ n \in Nat /\ n > 0 /\ Len(Q) = n - 1
      /\ \A i \in 1 .. n - 1 : Q[i] = q[i + 1]
  BY TailIs
<1>2. \A i \in 1 .. n : i = 1 \/ (i - 1 \in 1 .. n - 1 /\ i = (i - 1) + 1)
  BY <1>1
<1>3. \A i \in 1 .. n - 1 : i + 1 \in 1 .. n /\ i + 1 \in 1 + 1 .. n
  BY <1>1
<1>4. \A i \in 1 .. n - 1 : \A j \in i + 1 .. n - 1 : j \in 1 .. n - 1 /\ j + 1 \in (i + 1) + 1 .. n
  BY <1>1
<1>5. 1 \in 1 .. n
  BY <1>1
<1>6. \A i \in 1 .. n - 1 : KnownAfter(q, list, (i + 1) - 1, u) => KnownAfter(Q, list1, i - 1, u)
  <2> SUFFICES ASSUME NEW i \in 1 .. n - 1, KnownAfter(q, list, (i + 1) - 1, u)
               PROVE  KnownAfter(Q, list1, i - 1, u)
    OBVIOUS
  <2>1. i - 1 \in 0 .. n - 1 /\ (i + 1) - 1 = (i - 1) + 1
    BY <1>1
  <2> QED
    BY <2>1, KnownByTail DEF Q, n
<1>7. KnownAfter(q, list, 1 - 1, u) <=> u \in list
  BY DEF KnownAfter
<1> HIDE DEF Q, n
<1>8. ASSUME u \in open, \A j \in 1 .. n : ~ Closes(q[j], u)
      PROVE  EndsOpen(Q, open1, list1, u)
  BY <1>1, <1>3, <1>5, <1>8 DEF EndsOpen
<1>9. ASSUME Opens(q[1], u), q[1].cmd = "PEER_JOIN" => KnownAfter(q, list, 1 - 1, u),
             \A j \in 1 + 1 .. n : ~ Closes(q[j], u)
      PROVE  EndsOpen(Q, open1, list1, u)
  BY <1>1, <1>3, <1>7, <1>9 DEF EndsOpen
<1>10. ASSUME NEW i \in 1 .. n - 1, Opens(q[i + 1], u),
              q[i + 1].cmd = "PEER_JOIN" => KnownAfter(q, list, (i + 1) - 1, u),
              \A j \in (i + 1) + 1 .. n : ~ Closes(q[j], u)
       PROVE  EndsOpen(Q, open1, list1, u)
  <2>1. \A j \in i + 1 .. n - 1 : ~ Closes(Q[j], u)
    BY <1>1, <1>4, <1>10
  <2>2. Opens(Q[i], u) /\ (Q[i].cmd = "PEER_JOIN" => KnownAfter(Q, list1, i - 1, u))
    BY <1>1, <1>6, <1>10
  <2> QED
    BY <1>1, <2>1, <2>2 DEF EndsOpen
<1> QED
  BY <1>2, <1>8, <1>9, <1>10 DEF EndsOpen, Q, n

\* What comes frames the news...
LEMMA FramedAppend ==
  ASSUME NEW S, NEW q \in Seq(S), NEW p \in S, NEW inside, NEW inside1, Framed(q, inside),
         inside1 => inside \/ p.cmd = "JOINED",
         inside1 => ~ Closing(p),
         p.cmd \in {"PEER_JOIN", "DESTROY"} => inside
  PROVE  Framed(Append(q, p), inside1)
<1> DEFINE Q == Append(q, p)
           n == Len(q)
<1>1. /\ n \in Nat /\ Len(Q) = n + 1 /\ Q[n + 1] = p
      /\ \A i \in 1 .. n : Q[i] = q[i]
  BY AppendIs
<1>2. /\ \A i \in 1 .. n + 1 : i \in 1 .. n \/ i = n + 1
      /\ \A i \in 1 .. n : n + 1 \in i + 1 .. n + 1 /\ \A k \in i + 1 .. n + 1 : k = n + 1 \/ k \in i + 1 .. n
      /\ \A i \in 1 .. n : \A k \in i + 1 .. n : k \in 1 .. n /\ k \in i + 1 .. n + 1 /\ k \in i + 1 .. (n + 1) - 1
      /\ \A i \in 1 .. n : \A k \in i + 1 .. n : \A j \in i + 1 .. k - 1 : j \in 1 .. n
      /\ n + 1 + 1 .. n + 1 = {}
  BY <1>1
<1> HIDE DEF Q, n
<1> SUFFICES ASSUME NEW i \in 1 .. n, Closing(q[i])
             PROVE  /\ \A k \in i + 1 .. n + 1 : Q[k].cmd \in {"PEER_JOIN", "DESTROY"} =>
                          \E j \in i + 1 .. k - 1 : Q[j].cmd = "JOINED"
                    /\ inside1 => \E j \in i + 1 .. n + 1 : Q[j].cmd = "JOINED"
  <2>1. Closing(Q[n + 1]) => ~ inside1
    BY <1>1
  <2> QED
    BY <1>1, <1>2, <2>1 DEF Framed
<1>3. inside => \E j \in i + 1 .. n : q[j].cmd = "JOINED"
  BY DEF Framed, n
<1>4. \A k \in i + 1 .. n : q[k].cmd \in {"PEER_JOIN", "DESTROY"} => \E j \in i + 1 .. k - 1 : q[j].cmd = "JOINED"
  BY DEF Framed, n
<1> QED
  BY <1>1, <1>2, <1>3, <1>4

\* ...and what is read, too.
LEMMA FramedTail ==
  ASSUME NEW S, NEW q \in Seq(S), q # <<>>, NEW inside, Framed(q, inside)
  PROVE  Framed(Tail(q), inside)
<1> DEFINE Q == Tail(q)
           n == Len(q)
<1>1. /\ n \in Nat /\ n > 0 /\ Len(Q) = n - 1
      /\ \A i \in 1 .. n - 1 : Q[i] = q[i + 1]
  BY TailIs
<1> HIDE DEF Q, n
<1> SUFFICES ASSUME NEW i \in 1 .. n - 1, Closing(Q[i])
             PROVE  /\ \A k \in i + 1 .. n - 1 : Q[k].cmd \in {"PEER_JOIN", "DESTROY"} =>
                          \E j \in i + 1 .. k - 1 : Q[j].cmd = "JOINED"
                    /\ inside => \E j \in i + 1 .. n - 1 : Q[j].cmd = "JOINED"
  BY <1>1 DEF Framed, Q
<1>2. Closing(q[i + 1]) /\ i + 1 \in 1 .. n
  BY <1>1
<1>3. inside => \E j \in (i + 1) + 1 .. n : q[j].cmd = "JOINED"
  BY <1>2 DEF Framed, n
<1>4. \A k \in (i + 1) + 1 .. n : q[k].cmd \in {"PEER_JOIN", "DESTROY"} => \E j \in (i + 1) + 1 .. k - 1 : q[j].cmd = "JOINED"
  BY <1>2 DEF Framed, n
<1>5. ASSUME inside PROVE \E j \in i + 1 .. n - 1 : Q[j].cmd = "JOINED"
  <2>1. PICK j \in (i + 1) + 1 .. n : q[j].cmd = "JOINED"
    BY <1>3, <1>5
  <2>2. j - 1 \in i + 1 .. n - 1 /\ j - 1 \in 1 .. n - 1 /\ (j - 1) + 1 = j
    BY <1>1
  <2> QED
    BY <1>1, <2>1, <2>2
<1>6. ASSUME NEW k \in i + 1 .. n - 1, Q[k].cmd \in {"PEER_JOIN", "DESTROY"}
      PROVE  \E j \in i + 1 .. k - 1 : Q[j].cmd = "JOINED"
  <2>1. k + 1 \in (i + 1) + 1 .. n /\ k \in 1 .. n - 1 /\ (k + 1) - 1 = k
    BY <1>1
  <2>2. PICK j \in (i + 1) + 1 .. (k + 1) - 1 : q[j].cmd = "JOINED"
    BY <1>1, <1>4, <1>6, <2>1
  <2>3. j - 1 \in i + 1 .. k - 1 /\ j - 1 \in 1 .. n - 1 /\ (j - 1) + 1 = j
    BY <1>1, <2>1
  <2> QED
    BY <1>1, <2>2, <2>3
<1> QED
  BY <1>5, <1>6

\* Commands in a queue.
LEMMA HasAppend ==
  ASSUME NEW S, NEW q \in Seq(S), NEW p \in S, NEW cmd
  PROVE  Has(Append(q, p), cmd) <=> Has(q, cmd) \/ p.cmd = cmd
<1>1. /\ Len(q) \in Nat /\ \A i \in 1 .. Len(q) + 1 : i \in 1 .. Len(q) \/ i = Len(q) + 1
      /\ Len(q) + 1 \in 1 .. Len(q) + 1 /\ \A i \in 1 .. Len(q) : i \in 1 .. Len(q) + 1
  OBVIOUS
<1> QED
  BY <1>1, AppendIs DEF Has

LEMMA HasTail ==
  ASSUME NEW S, NEW q \in Seq(S), q # <<>>, NEW cmd
  PROVE  Has(q, cmd) <=> Has(Tail(q), cmd) \/ Head(q).cmd = cmd
<1>1. /\ Len(q) \in Nat /\ Len(q) > 0 /\ Len(Tail(q)) = Len(q) - 1 /\ Head(q) = q[1]
      /\ \A i \in 1 .. Len(q) - 1 : Tail(q)[i] = q[i + 1]
  BY TailIs
<1>2. /\ \A i \in 1 .. Len(q) : i = 1 \/ (i - 1 \in 1 .. Len(q) - 1 /\ (i - 1) + 1 = i)
      /\ \A i \in 1 .. Len(q) - 1 : i + 1 \in 1 .. Len(q)
      /\ 1 \in 1 .. Len(q)
  BY <1>1
<1> QED
  BY <1>1, <1>2 DEF Has

\* The order of a login, the question for the users and a JOIN.
LEMMA OrderAppend ==
  ASSUME NEW S, NEW q \in Seq(S), NEW p \in S
  PROVE  /\ LoginFirst(q) /\ (p.cmd = "LOGINSERVER" => ~ Has(q, "JOIN")) => LoginFirst(Append(q, p))
         /\ AskedFirst(q) /\ (p.cmd = "JOIN" => Has(q, "GETUSERLIST")) => AskedFirst(Append(q, p))
<1>1. /\ Len(q) \in Nat /\ Len(Append(q, p)) = Len(q) + 1 /\ Append(q, p)[Len(q) + 1] = p
      /\ \A i \in 1 .. Len(q) : Append(q, p)[i] = q[i]
  BY AppendIs
<1>2. /\ \A i \in 1 .. Len(q) + 1 : i \in 1 .. Len(q) \/ i = Len(q) + 1
      /\ \A i \in 1 .. Len(q) : \A j \in 1 .. i - 1 : j \in 1 .. Len(q)
      /\ Len(q) + 1 - 1 = Len(q)
  BY <1>1
<1>3. LoginFirst(q) /\ (p.cmd = "LOGINSERVER" => ~ Has(q, "JOIN")) => LoginFirst(Append(q, p))
  BY <1>1, <1>2 DEF LoginFirst, Has
<1>4. AskedFirst(q) /\ (p.cmd = "JOIN" => Has(q, "GETUSERLIST")) => AskedFirst(Append(q, p))
  BY <1>1, <1>2 DEF AskedFirst, Has
<1> QED
  BY <1>3, <1>4

LEMMA OrderTail ==
  ASSUME NEW S, NEW q \in Seq(S), q # <<>>
  PROVE  /\ LoginFirst(q) => LoginFirst(Tail(q)) /\ (Head(q).cmd = "JOIN" => ~ Has(Tail(q), "LOGINSERVER"))
         /\ AskedFirst(q) => Head(q).cmd # "JOIN"
         /\ AskedFirst(q) /\ Head(q).cmd # "GETUSERLIST" => AskedFirst(Tail(q))
<1> DEFINE Q == Tail(q)
           n == Len(q)
<1>1. /\ n \in Nat /\ n > 0 /\ Len(Q) = n - 1 /\ Head(q) = q[1]
      /\ \A i \in 1 .. n - 1 : Q[i] = q[i + 1]
  BY TailIs
<1>2. /\ \A i \in 1 .. n - 1 : i + 1 \in 1 .. n /\ 1 \in 1 .. (i + 1) - 1
      /\ \A i \in 1 .. n - 1 : \A j \in 1 .. i - 1 : j + 1 \in 1 .. (i + 1) - 1 /\ j \in 1 .. n - 1
      /\ 1 \in 1 .. n /\ 1 .. 1 - 1 = {}
  BY <1>1
<1> HIDE DEF Q
<1>3. ASSUME LoginFirst(q) PROVE LoginFirst(Q) /\ (Head(q).cmd = "JOIN" => ~ Has(Q, "LOGINSERVER"))
  <2>1. ASSUME NEW i \in 1 .. n - 1, Q[i].cmd = "LOGINSERVER"
        PROVE  \A j \in 1 .. (i + 1) - 1 : q[j].cmd # "JOIN"
    BY <1>1, <1>2, <1>3, <2>1 DEF LoginFirst
  <2>2. LoginFirst(Q)
    BY <1>1, <1>2, <2>1 DEF LoginFirst
  <2>3. Head(q).cmd = "JOIN" => ~ Has(Q, "LOGINSERVER")
    BY <1>1, <1>2, <2>1 DEF Has
  <2> QED
    BY <2>2, <2>3
<1>4. AskedFirst(q) => Head(q).cmd # "JOIN"
  BY <1>1, <1>2 DEF AskedFirst
<1>5. ASSUME AskedFirst(q), Head(q).cmd # "GETUSERLIST" PROVE AskedFirst(Q)
  <2> SUFFICES ASSUME NEW i \in 1 .. n - 1, Q[i].cmd = "JOIN"
               PROVE  \E j \in 1 .. i - 1 : Q[j].cmd = "GETUSERLIST"
    BY <1>1 DEF AskedFirst
  <2>1. PICK j \in 1 .. (i + 1) - 1 : q[j].cmd = "GETUSERLIST"
    BY <1>1, <1>2, <1>5 DEF AskedFirst
  <2>2. j # 1
    BY <1>1, <1>5, <2>1
  <2>3. j - 1 \in 1 .. i - 1 /\ j - 1 \in 1 .. n - 1 /\ (j - 1) + 1 = j
    BY <1>1, <2>2
  <2> QED
    BY <1>1, <2>1, <2>3
<1> QED
  BY <1>3, <1>4, <1>5 DEF Q

\* The answers, the refusals of a login and the JOINs in a queue.
LEMMA FindsAppend ==
  ASSUME NEW S, NEW q \in Seq(S), NEW p \in S, NEW cmds, NEW closers, NEW open, NEW open1,
         Finds(q, cmds, closers, open), open => open1,
         p.cmd \in cmds =>
           \/ \E cmd \in Ends : Has(q, cmd)
           \/ open1 /\ \A cmd \in closers : ~ Has(q, cmd)
  PROVE  Finds(Append(q, p), cmds, closers, open1)
<1> DEFINE Q == Append(q, p)
           n == Len(q)
<1>1. /\ n \in Nat /\ Len(Q) = n + 1 /\ Q[n + 1] = p
      /\ \A i \in 1 .. n : Q[i] = q[i]
  BY AppendIs
<1>2. /\ \A k \in 1 .. n + 1 : k \in 1 .. n \/ k = n + 1
      /\ \A k \in 1 .. n : \A j \in 1 .. k - 1 : j \in 1 .. n
      /\ (n + 1) - 1 = n
  BY <1>1
<1>3. p.cmd \in cmds =>
        \/ \E j \in 1 .. n : q[j].cmd \in Ends
        \/ open1 /\ \A j \in 1 .. n : q[j].cmd \notin closers
  BY DEF Has
<1> HIDE DEF Q, n
<1>4. ASSUME NEW k \in 1 .. n, Q[k].cmd \in cmds
      PROVE  \/ \E j \in 1 .. k - 1 : Q[j].cmd \in Ends
             \/ open1 /\ \A j \in 1 .. k - 1 : Q[j].cmd \notin closers
  <2>1. \/ \E j \in 1 .. k - 1 : q[j].cmd \in Ends
        \/ open /\ \A j \in 1 .. k - 1 : q[j].cmd \notin closers
    BY <1>1, <1>4 DEF Finds, n
  <2> QED
    BY <1>1, <1>2, <2>1
<1>5. Q[n + 1].cmd \in cmds =>
        \/ \E j \in 1 .. (n + 1) - 1 : Q[j].cmd \in Ends
        \/ open1 /\ \A j \in 1 .. (n + 1) - 1 : Q[j].cmd \notin closers
  BY <1>1, <1>2, <1>3
<1> QED
  BY <1>1, <1>2, <1>4, <1>5 DEF Finds, Q

LEMMA FindsTail ==
  ASSUME NEW S, NEW q \in Seq(S), q # <<>>, NEW cmds, NEW closers, NEW open, NEW open1,
          Finds(q, cmds, closers, open),
         Head(q).cmd \notin Ends, Head(q).cmd \notin closers => (open => open1)
  PROVE  Finds(Tail(q), cmds, closers, open1)
<1> DEFINE Q == Tail(q)
           n == Len(q)
<1>1. /\ n \in Nat /\ n > 0 /\ Len(Q) = n - 1 /\ Head(q) = q[1]
      /\ \A i \in 1 .. n - 1 : Q[i] = q[i + 1]
  BY TailIs
<1> HIDE DEF Q, n
<1> SUFFICES ASSUME NEW k \in 1 .. n - 1, Q[k].cmd \in cmds
             PROVE  \/ \E j \in 1 .. k - 1 : Q[j].cmd \in Ends
                    \/ open1 /\ \A j \in 1 .. k - 1 : Q[j].cmd \notin closers
  BY <1>1 DEF Finds, Q
<1>2. /\ k + 1 \in 1 .. n /\ (k + 1) - 1 = k /\ 1 \in 1 .. k
      /\ \A j \in 1 .. k : j = 1 \/ (j - 1 \in 1 .. k - 1 /\ j - 1 \in 1 .. n - 1 /\ (j - 1) + 1 = j)
      /\ \A j \in 1 .. k - 1 : j + 1 \in 1 .. k /\ j \in 1 .. n - 1
  BY <1>1
<1>3. \/ \E j \in 1 .. k : q[j].cmd \in Ends
      \/ open /\ \A j \in 1 .. k : q[j].cmd \notin closers
  <2>1. q[k + 1].cmd \in cmds
    BY <1>1
  <2> QED
    BY <1>2, <2>1 DEF Finds, n
<1>4. CASE \E j \in 1 .. k : q[j].cmd \in Ends
  <2>1. PICK j \in 1 .. k : q[j].cmd \in Ends
    BY <1>4
  <2>2. j # 1
    BY <1>1, <2>1
  <2> QED
    BY <1>1, <1>2, <2>1, <2>2
<1>5. CASE open /\ \A j \in 1 .. k : q[j].cmd \notin closers
  BY <1>1, <1>2, <1>5
<1> QED
  BY <1>3, <1>4, <1>5

LEMMA RefusalsAppend ==
  ASSUME NEW S, NEW q \in Seq(S), NEW p \in S, NEW fresh, NEW fresh1, Refusals(q, fresh), fresh => fresh1,
         p.cmd = "LOGINREFUSED" => (\E cmd \in Ends : Has(q, cmd)) \/ (q = <<>> /\ fresh1)
  PROVE  Refusals(Append(q, p), fresh1)
<1> DEFINE Q == Append(q, p)
           n == Len(q)
<1>1. /\ n \in Nat /\ Len(Q) = n + 1 /\ Q[n + 1] = p
      /\ \A i \in 1 .. n : Q[i] = q[i]
      /\ q = <<>> => n = 0
  BY AppendIs
<1>2. /\ \A k \in 1 .. n + 1 : k \in 1 .. n \/ k = n + 1
      /\ \A k \in 1 .. n : 1 \in 1 .. n /\ \A j \in 1 .. k - 1 : j \in 1 .. n /\ j \in 1 .. (n + 1) - 1
      /\ (n + 1) - 1 = n /\ (n = 0 => n + 1 = 1)
  BY <1>1
<1>3. (\E cmd \in Ends : Has(q, cmd)) => \E j \in 1 .. n : q[j].cmd \in Ends
  BY DEF Has
<1>4. \A k \in 1 .. n : q[k].cmd = "LOGINREFUSED" =>
        \/ \E j \in 1 .. k - 1 : q[j].cmd \in {"USERQUIT", "RELOGIN"}
        \/ q[1].cmd = "LOGINREFUSED" /\ fresh
  BY DEF Refusals, n
<1> HIDE DEF Q, n
<1>5. ASSUME NEW k \in 1 .. n, Q[k].cmd = "LOGINREFUSED"
      PROVE  \/ \E j \in 1 .. k - 1 : Q[j].cmd \in {"USERQUIT", "RELOGIN"}
             \/ Q[1].cmd = "LOGINREFUSED" /\ fresh1
  BY <1>1, <1>2, <1>4, <1>5
<1>6. ASSUME p.cmd = "LOGINREFUSED"
      PROVE  \/ \E j \in 1 .. (n + 1) - 1 : Q[j].cmd \in {"USERQUIT", "RELOGIN"}
             \/ Q[1].cmd = "LOGINREFUSED" /\ fresh1
  <2>1. CASE q = <<>> /\ fresh1
    BY <1>1, <1>2, <1>6, <2>1
  <2>2. CASE \E j \in 1 .. n : q[j].cmd \in Ends
    <3>1. PICK j \in 1 .. n : q[j].cmd \in Ends
      BY <2>2
    <3>2. CASE q[j].cmd = "LOGINREFUSED"
      BY <1>1, <1>2, <1>4, <3>2
    <3>3. CASE q[j].cmd # "LOGINREFUSED"
      BY <1>1, <1>2, <3>1, <3>3 DEF Ends
    <3> QED
      BY <3>2, <3>3
  <2> QED
    BY <1>3, <1>6, <2>1, <2>2
<1> QED
  BY <1>1, <1>2, <1>5, <1>6 DEF Refusals, Q

LEMMA RefusalsTail ==
  ASSUME NEW S, NEW q \in Seq(S), q # <<>>, NEW fresh, NEW fresh1, Refusals(q, fresh), Head(q).cmd \notin Ends
  PROVE  Refusals(Tail(q), fresh1)
<1> DEFINE Q == Tail(q)
           n == Len(q)
<1>1. /\ n \in Nat /\ n > 0 /\ Len(Q) = n - 1 /\ Head(q) = q[1]
      /\ \A i \in 1 .. n - 1 : Q[i] = q[i + 1]
  BY TailIs
<1> HIDE DEF Q, n
<1> SUFFICES ASSUME NEW k \in 1 .. n - 1, Q[k].cmd = "LOGINREFUSED"
             PROVE  \E j \in 1 .. k - 1 : Q[j].cmd \in {"USERQUIT", "RELOGIN"}
  BY <1>1 DEF Refusals, Q
<1>2. /\ k + 1 \in 1 .. n /\ (k + 1) - 1 = k
      /\ \A j \in 1 .. k : j = 1 \/ (j - 1 \in 1 .. k - 1 /\ j - 1 \in 1 .. n - 1 /\ (j - 1) + 1 = j)
  BY <1>1
<1>3. q[k + 1].cmd = "LOGINREFUSED" /\ q[1].cmd \notin Ends
  BY <1>1
<1>4. PICK j \in 1 .. k : q[j].cmd \in {"USERQUIT", "RELOGIN"}
  BY <1>2, <1>3 DEF Refusals, Ends, n
<1>5. j # 1
  BY <1>3, <1>4 DEF Ends
<1> QED
  BY <1>1, <1>2, <1>4, <1>5

LEMMA AskedAppend ==
  ASSUME NEW S, NEW q \in Seq(S), NEW p \in S
  PROVE  /\ Asked(Append(q, p)) <=> Asked(q) \/ (p.cmd = "JOIN" /\ ~ Has(q, "QUITSERVER"))
         /\ AskedOnce(q) /\ (p.cmd = "JOIN" => ~ Has(q, "JOIN") \/ Has(q, "QUITSERVER")) => AskedOnce(Append(q, p))
         /\ ExitLast(q) /\ (p.cmd = "JOIN" => ~ Has(q, "EXIT")) => ExitLast(Append(q, p))
         /\ \A m : OnlyTo(q, m) /\ (p.cmd = "JOIN" => p.mtg = m) => OnlyTo(Append(q, p), m)
<1> DEFINE Q == Append(q, p)
           n == Len(q)
<1>1. /\ n \in Nat /\ Len(Q) = n + 1 /\ Q[n + 1] = p
      /\ \A i \in 1 .. n : Q[i] = q[i]
  BY AppendIs
<1>2. /\ \A k \in 1 .. n + 1 : k \in 1 .. n \/ k = n + 1
      /\ \A k \in 1 .. n : k \in 1 .. n + 1 /\ \A j \in 1 .. k - 1 : j \in 1 .. n
      /\ (n + 1) - 1 = n /\ n + 1 \in 1 .. n + 1
  BY <1>1
<1> HIDE DEF Q
<1>3. Asked(Q) <=> Asked(q) \/ (p.cmd = "JOIN" /\ ~ Has(q, "QUITSERVER"))
  <2>1. Asked(q) => Asked(Q)
    BY <1>1, <1>2 DEF Asked
  <2>2. p.cmd = "JOIN" /\ ~ Has(q, "QUITSERVER") => Asked(Q)
    BY <1>1, <1>2 DEF Asked, Has
  <2>3. ASSUME Asked(Q) PROVE Asked(q) \/ (p.cmd = "JOIN" /\ ~ Has(q, "QUITSERVER"))
    <3>1. PICK i \in 1 .. n + 1 : Q[i].cmd = "JOIN" /\ \A j \in 1 .. i - 1 : Q[j].cmd # "QUITSERVER"
      BY <1>1, <2>3 DEF Asked
    <3>2. CASE i \in 1 .. n
      BY <1>1, <1>2, <3>1, <3>2 DEF Asked
    <3>3. CASE i = n + 1
      BY <1>1, <1>2, <3>1, <3>3 DEF Has
    <3> QED
      BY <1>2, <3>2, <3>3
  <2> QED
    BY <2>1, <2>2, <2>3
<1>4. ASSUME AskedOnce(q), p.cmd = "JOIN" => ~ Has(q, "JOIN") \/ Has(q, "QUITSERVER") PROVE AskedOnce(Q)
  <2>1. ASSUME NEW k \in 1 .. n, NEW i \in 1 .. k - 1, Q[i].cmd = "JOIN", Q[k].cmd = "JOIN"
        PROVE  \E j \in 1 .. k - 1 : Q[j].cmd = "QUITSERVER"
    BY <1>1, <1>2, <1>4, <2>1 DEF AskedOnce
  <2>2. ASSUME NEW i \in 1 .. n, Q[i].cmd = "JOIN", p.cmd = "JOIN" PROVE \E j \in 1 .. n : Q[j].cmd = "QUITSERVER"
    BY <1>1, <1>2, <1>4, <2>2 DEF Has
  <2> QED
    BY <1>1, <1>2, <2>1, <2>2 DEF AskedOnce
<1>5. ExitLast(q) /\ (p.cmd = "JOIN" => ~ Has(q, "EXIT")) => ExitLast(Q)
  BY <1>1, <1>2 DEF ExitLast, Has
<1>6. \A m : OnlyTo(q, m) /\ (p.cmd = "JOIN" => p.mtg = m) => OnlyTo(Q, m)
  BY <1>1, <1>2 DEF OnlyTo
<1> QED
  BY <1>3, <1>4, <1>5, <1>6 DEF Q

LEMMA AskedTail ==
  ASSUME NEW S, NEW q \in Seq(S), q # <<>>
  PROVE  /\ Head(q).cmd # "QUITSERVER" /\ Asked(Tail(q)) => Asked(q)
         /\ Head(q).cmd = "JOIN" => Asked(q)
         /\ AskedOnce(q) /\ Head(q).cmd # "QUITSERVER" => AskedOnce(Tail(q))
         /\ AskedOnce(q) /\ Head(q).cmd = "JOIN" => ~ Asked(Tail(q))
         /\ ExitLast(q) => ExitLast(Tail(q)) /\ (Head(q).cmd = "EXIT" => ~ Has(Tail(q), "JOIN"))
         /\ \A m : OnlyTo(q, m) => OnlyTo(Tail(q), m) /\ (Head(q).cmd = "JOIN" => Head(q).mtg = m)
<1> DEFINE Q == Tail(q)
           n == Len(q)
<1>1. /\ n \in Nat /\ n > 0 /\ Len(Q) = n - 1 /\ Head(q) = q[1]
      /\ \A i \in 1 .. n - 1 : Q[i] = q[i + 1]
  BY TailIs
<1> HIDE DEF Q
<1>2. \A k \in 1 .. n - 1 : \A j \in 1 .. (k + 1) - 1 : q[j] = Head(q) \/ \E i \in 1 .. k - 1 : q[j] = Q[i]
  <2> SUFFICES ASSUME NEW k \in 1 .. n - 1, NEW j \in 1 .. (k + 1) - 1, j # 1
               PROVE  \E i \in 1 .. k - 1 : q[j] = Q[i]
    BY <1>1
  <2>1. j - 1 \in 1 .. k - 1 /\ j - 1 \in 1 .. n - 1 /\ (j - 1) + 1 = j
    BY <1>1
  <2> QED
    BY <1>1, <2>1
<1>3. \A k \in 1 .. n - 1 :
        /\ k + 1 \in 1 .. n /\ 1 \in 1 .. (k + 1) - 1
        /\ \A j \in 1 .. k - 1 : j + 1 \in 1 .. (k + 1) - 1 /\ Q[j] = q[j + 1]
  BY <1>1
<1>4. 1 \in 1 .. n /\ 1 .. 1 - 1 = {}
  BY <1>1
<1>5. ASSUME Head(q).cmd # "QUITSERVER", Asked(Q) PROVE Asked(q)
  <2>1. PICK i \in 1 .. n - 1 : Q[i].cmd = "JOIN" /\ \A j \in 1 .. i - 1 : Q[j].cmd # "QUITSERVER"
    BY <1>1, <1>5 DEF Asked
  <2>2. \A j \in 1 .. (i + 1) - 1 : q[j].cmd # "QUITSERVER"
    BY <1>2, <1>5, <2>1
  <2> QED
    BY <1>1, <1>3, <2>1, <2>2 DEF Asked
<1>6. Head(q).cmd = "JOIN" => Asked(q)
  BY <1>1, <1>4 DEF Asked
<1>7. ASSUME AskedOnce(q), Head(q).cmd # "QUITSERVER" PROVE AskedOnce(Q)
  <2> SUFFICES ASSUME NEW k \in 1 .. n - 1, NEW i \in 1 .. k - 1, Q[i].cmd = "JOIN", Q[k].cmd = "JOIN"
               PROVE  \E j \in 1 .. k - 1 : Q[j].cmd = "QUITSERVER"
    BY <1>1 DEF AskedOnce
  <2>1. q[i + 1].cmd = "JOIN" /\ q[k + 1].cmd = "JOIN" /\ k + 1 \in 1 .. n /\ i + 1 \in 1 .. (k + 1) - 1
    BY <1>1, <1>3
  <2>2. PICK j \in 1 .. (k + 1) - 1 : q[j].cmd = "QUITSERVER"
    BY <1>7, <2>1 DEF AskedOnce
  <2> QED
    BY <1>2, <1>7, <2>2
<1>8. ASSUME AskedOnce(q), Head(q).cmd = "JOIN", Asked(Q) PROVE FALSE
  <2>1. PICK k \in 1 .. n - 1 : Q[k].cmd = "JOIN" /\ \A j \in 1 .. k - 1 : Q[j].cmd # "QUITSERVER"
    BY <1>1, <1>8 DEF Asked
  <2>2. q[1].cmd = "JOIN" /\ q[k + 1].cmd = "JOIN" /\ k + 1 \in 1 .. n /\ 1 \in 1 .. (k + 1) - 1
    BY <1>1, <1>3, <1>8, <2>1
  <2>3. PICK j \in 1 .. (k + 1) - 1 : q[j].cmd = "QUITSERVER"
    BY <1>8, <2>2 DEF AskedOnce
  <2> QED
    BY <1>2, <1>8, <2>1, <2>3
<1>9. ASSUME ExitLast(q) PROVE ExitLast(Q) /\ (Head(q).cmd = "EXIT" => ~ Has(Q, "JOIN"))
  <2>1. ASSUME NEW i \in 1 .. n - 1, Q[i].cmd = "JOIN" PROVE \A j \in 1 .. (i + 1) - 1 : q[j].cmd # "EXIT"
    <3>1. q[i + 1].cmd = "JOIN" /\ i + 1 \in 1 .. n
      BY <1>1, <1>3, <2>1
    <3> QED
      BY <1>9, <3>1 DEF ExitLast
  <2>2. ExitLast(Q)
    BY <1>1, <1>3, <2>1 DEF ExitLast
  <2>3. Head(q).cmd = "EXIT" => ~ Has(Q, "JOIN")
    BY <1>1, <1>3, <2>1 DEF Has
  <2> QED
    BY <2>2, <2>3
<1>10. \A m : OnlyTo(q, m) => OnlyTo(Q, m) /\ (Head(q).cmd = "JOIN" => Head(q).mtg = m)
  BY <1>1, <1>3, <1>4 DEF OnlyTo
<1> QED
  BY <1>5, <1>6, <1>7, <1>8, <1>9, <1>10 DEF Q

\* Without a JOIN nothing is asked for; without a QUITSERVER any JOIN is.
LEMMA AskedIs ==
  ASSUME NEW S, NEW q \in Seq(S)
  PROVE  /\ Asked(q) => Has(q, "JOIN")
         /\ ~ Has(q, "QUITSERVER") => (Asked(q) <=> Has(q, "JOIN"))
         /\ ~ Has(q, "JOIN") => AskedOnce(q) /\ ExitLast(q) /\ \A m : OnlyTo(q, m)
<1>1. \A i \in 1 .. Len(q) : \A j \in 1 .. i - 1 : j \in 1 .. Len(q)
  OBVIOUS
<1> QED
  BY <1>1 DEF Asked, AskedOnce, ExitLast, OnlyTo, Has

-----------------------------------------------------------------------------
(* Types.                                                                  *)

LEMMA PacketTypes ==
  /\ \A p \in ToClient :
       /\ p.cmd \in {"REMOTEUSERLOGIN", "REMOTEUSERQUIT", "PEER_JOIN", "PEER_EXIT"} => p.user \in User
       /\ p.cmd \in {"UPDATEUSERLIST", "JOINED"} => p.users \subseteq User
  /\ \A p \in ToServer : p.cmd = "JOIN" => p.mtg \in Meeting
  /\ \A cmd \in {"LOGINSERVERED", "LOGINREFUSED", "RELOGIN", "USERQUIT", "REFUSED", "EXITED", "DESTROY"} :
       Packet(cmd) \in ToClient /\ Packet(cmd).cmd = cmd
  /\ \A cmd \in {"LOGINSERVER", "GETUSERLIST", "QUITSERVER", "EXIT"} :
       Packet(cmd) \in ToServer /\ Packet(cmd).cmd = cmd
  /\ \A u \in User : \A cmd \in {"REMOTEUSERLOGIN", "REMOTEUSERQUIT", "PEER_JOIN", "PEER_EXIT"} :
       About(cmd, u) \in ToClient /\ About(cmd, u).cmd = cmd /\ About(cmd, u).user = u
  /\ \A set \in SUBSET User : \A cmd \in {"UPDATEUSERLIST", "JOINED"} :
       Users(cmd, set) \in ToClient /\ Users(cmd, set).cmd = cmd /\ Users(cmd, set).users = set
  /\ \A m \in Meeting : Join(m) \in ToServer /\ Join(m).cmd = "JOIN"
BY DEF ToClient, ToServer, Packet, About, Users, Join

LEMMA InitType == Init => VideoChatTypeOK
<1> SUFFICES ASSUME Init PROVE VideoChatTypeOK
  OBVIOUS
<1>1. <<>> \in Seq(ToServer) /\ <<>> \in Seq(ToClient)
  OBVIOUS
<1> QED
  BY <1>1 DEF Init, VideoChatTypeOK, Link

\* What is sent.
LEMMA SentType ==
  ASSUME VideoChatTypeOK, NEW p \in ToServer
  PROVE  Sent(p) \in Seq(ToServer)
BY DEF VideoChatTypeOK, Sent

LEMMA CallsType == 
  ASSUME VideoChatTypeOK, Joins \/ (UNCHANGED hasty /\ (Calls \/ Microphone)) PROVE VideoChatTypeOK'
<1>1. CASE Joins
  BY <1>1, VideoChatAssumption DEF Joins, JoinMtg, VideoChatTypeOK, ExitPending, mediaVars, serverVars
<1>2. CASE UNCHANGED hasty /\ Login
  <2>1. <<>> \in Seq(ToServer) /\ <<>> \in Seq(ToClient)
    OBVIOUS
  <2> QED
    BY <1>2, <2>1 DEF Login, VideoChatTypeOK, Link, serverVars
<1>3. CASE UNCHANGED hasty /\ JoinAsks
  <2>1. toServer' \in Seq(ToServer)
    BY <1>3, SentType, PacketTypes DEF JoinAsks, VideoChatTypeOK
  <2> QED
    BY <1>3, <2>1 DEF JoinAsks, VideoChatTypeOK, serverVars
<1>4. CASE UNCHANGED hasty /\ ExitMtg
  <2>1. toServer' \in Seq(ToServer)
    BY <1>4, SentType, PacketTypes DEF ExitMtg
  <2> QED
    BY <1>4, <2>1 DEF ExitMtg, VideoChatTypeOK, serverVars
<1>5. CASE UNCHANGED hasty /\ LogoutServer
  <2>1. toServer' \in Seq(ToServer)
    BY <1>5, SentType, PacketTypes DEF LogoutServer
  <2> QED
    BY <1>5, <2>1 DEF LogoutServer, VideoChatTypeOK, serverVars
<1>6. CASE UNCHANGED hasty /\ Microphone
  BY <1>6 DEF Microphone, LocalAudio, VideoChatTypeOK, appVars, serverVars
<1> QED
  BY <1>1, <1>2, <1>3, <1>4, <1>5, <1>6 DEF Calls

LEMMA ConnectionType ==
  ASSUME VideoChatTypeOK, UNCHANGED hasty, Connection \/ Busy \/ Drop PROVE VideoChatTypeOK'
<1>1. CASE SendLoginServer
  <2>1. toServer' \in Seq(ToServer)
    BY <1>1, PacketTypes DEF SendLoginServer, VideoChatTypeOK
  <2>2. stranded' \in BOOLEAN
    BY <1>1 DEF SendLoginServer
  <2> QED
    BY <1>1, <2>1, <2>2 DEF SendLoginServer, VideoChatTypeOK, Link, serverVars
<1>2. CASE Disconnected
  BY <1>2 DEF Disconnected, CloseMedia, CloseMediaSender, VideoChatTypeOK, Link, serverVars
<1>3. CASE Busy
  BY <1>3 DEF Busy, VideoChatTypeOK, Link, appVars, mediaVars, serverVars
<1>4. CASE Drop
  <2>1. <<>> \in Seq(ToServer) /\ <<>> \in Seq(ToClient)
    OBVIOUS
  <2> QED
    BY <1>4, <2>1 DEF Drop, VideoChatTypeOK, Link, appVars, mediaVars
<1> QED
  BY <1>1, <1>2, <1>3, <1>4 DEF Connection, Connected, Reconnected, Restarted

LEMMA HandleType == ASSUME VideoChatTypeOK, UNCHANGED hasty, Handle PROVE VideoChatTypeOK'
<1> DEFINE h == Head(toClient)
<1>1. ASSUME NEW cmd, Receives(cmd) PROVE toClient' \in Seq(ToClient) /\ h \in ToClient /\ h.cmd = cmd
  BY <1>1 DEF Receives, VideoChatTypeOK
<1>2. CASE LoginServered
  <2>1. toServer' \in Seq(ToServer)
    BY <1>2, SentType, PacketTypes DEF LoginServered
  <2> QED
    BY <1>1, <1>2, <2>1 DEF LoginServered, VideoChatTypeOK, mediaVars, serverVars
<1>3. CASE LoginRefused \/ SessionOver
  <2>1. <<>> \in Seq(ToServer) /\ <<>> \in Seq(ToClient)
    OBVIOUS
  <2> QED
    BY <1>3, <2>1
    DEF LoginRefused, SessionOver, Teardown, CloseMedia, CloseMediaSender, VideoChatTypeOK, Link, mediaVars
<1>4. CASE RemoteUserLogin
  <2>1. h.user \in User
    BY <1>1, <1>4, PacketTypes DEF RemoteUserLogin
  <2> QED
    BY <1>1, <1>4, <2>1 DEF RemoteUserLogin, VideoChatTypeOK, appVars, mediaVars, serverVars
<1>5. CASE RemoteUserQuit
  BY <1>1, <1>5 DEF RemoteUserQuit, VideoChatTypeOK, appVars, serverVars
<1>6. CASE UpdateUserList
  <2>1. h.users \subseteq User
    BY <1>1, <1>6, PacketTypes DEF UpdateUserList
  <2> QED
    BY <1>1, <1>6, <2>1 DEF UpdateUserList, VideoChatTypeOK, appVars, mediaVars, serverVars
<1>7. CASE MtgJoined
  <2>1. h.users \subseteq User
    BY <1>1, <1>7, PacketTypes DEF MtgJoined
  <2> QED
    BY <1>1, <1>7, <2>1 DEF MtgJoined, OpenReceivers, VideoChatTypeOK, appVars, serverVars
<1>8. CASE MtgRefused
  BY <1>1, <1>8 DEF MtgRefused, CloseMediaSender, VideoChatTypeOK, appVars, serverVars
<1>9. CASE MtgExited
  BY <1>1, <1>9 DEF MtgExited, CloseMedia, CloseMediaSender, VideoChatTypeOK, serverVars
<1>10. CASE PeerJoin
  <2>1. h.user \in User
    BY <1>1, <1>10, PacketTypes DEF PeerJoin
  <2> QED
    BY <1>1, <1>10, <2>1 DEF PeerJoin, OpenReceivers, VideoChatTypeOK, appVars, serverVars
<1>11. CASE PeerExit
  BY <1>1, <1>11 DEF PeerExit, VideoChatTypeOK, appVars, serverVars
<1>12. CASE MtgDestroyed
  BY <1>1, <1>12 DEF MtgDestroyed, CloseMedia, CloseMediaSender, VideoChatTypeOK, appVars, serverVars
<1> QED
  BY <1>2, <1>3, <1>4, <1>5, <1>6, <1>7, <1>8, <1>9, <1>10, <1>11, <1>12 DEF Handle

LEMMA ServerAnswersType == ASSUME VideoChatTypeOK, UNCHANGED hasty, ServerAnswers PROVE VideoChatTypeOK'
<1>1. ASSUME NEW p \in ToClient, Tell(p) PROVE toClient' \in Seq(ToClient)
  BY <1>1 DEF Tell, VideoChatTypeOK
<1>2. ASSUME NEW cmd, ServerReads(cmd)
      PROVE  /\ toServer' \in Seq(ToServer) /\ Head(toServer) \in ToServer
             /\ toClient' \in Seq(ToClient) /\ session' \in BOOLEAN /\ attends' \in Meeting \cup {NoMeeting}
                 => VideoChatTypeOK'
  <2>1. toServer' \in Seq(ToServer) /\ Head(toServer) \in ToServer
    BY <1>2 DEF ServerReads, VideoChatTypeOK
  <2> QED
    BY <1>2, <2>1 DEF ServerReads, VideoChatTypeOK, ClientVars, appVars, mediaVars
<1>3. CASE ServerLogin
  BY <1>1, <1>2, <1>3, PacketTypes DEF ServerLogin
<1>4. CASE ServerUserList
  <2>1. Users("UPDATEUSERLIST", peers) \in ToClient
    BY PacketTypes DEF VideoChatTypeOK
  <2> QED
    BY <1>1, <1>2, <1>4, <2>1 DEF ServerUserList, VideoChatTypeOK
<1>5. CASE ServerJoin
  <2>1. Head(toServer).mtg \in Meeting
    BY <1>2, <1>5, PacketTypes DEF ServerJoin, ServerReads
  <2>2. Users("JOINED", members[Head(toServer).mtg]) \in ToClient
    BY <2>1, PacketTypes DEF VideoChatTypeOK
  <2> QED
    BY <1>1, <1>2, <1>5, <2>1, <2>2, PacketTypes DEF ServerJoin, VideoChatTypeOK
<1>6. CASE ServerExit
  BY <1>1, <1>2, <1>6, PacketTypes DEF ServerExit, VideoChatTypeOK
<1>7. CASE ServerQuit
  BY <1>1, <1>2, <1>7, PacketTypes DEF ServerQuit
<1>8. CASE ServerIgnores
  BY <1>2, <1>8 DEF ServerIgnores, VideoChatTypeOK
<1> QED
  BY <1>3, <1>4, <1>5, <1>6, <1>7, <1>8 DEF ServerAnswers

LEMMA NewsType ==
  ASSUME VideoChatTypeOK, UNCHANGED hasty, ServerRelogin \/ Peers \/ Destroy PROVE VideoChatTypeOK'
<1>1. ASSUME NEW p \in ToClient, Tell(p) \/ UNCHANGED toClient PROVE toClient' \in Seq(ToClient)
  BY <1>1 DEF Tell, VideoChatTypeOK
<1>2. CASE ServerRelogin
  <2>1. toClient' \in Seq(ToClient)
    BY <1>1, <1>2, PacketTypes DEF ServerRelogin
  <2> QED
    BY <1>2, <2>1 DEF ServerRelogin, VideoChatTypeOK, ClientVars, appVars, mediaVars
<1>3. ASSUME NEW u \in User, PeerLogsIn(u) PROVE VideoChatTypeOK'
  <2>1. toClient' \in Seq(ToClient)
    BY <1>1, <1>3, PacketTypes DEF PeerLogsIn, Hears
  <2> QED
    BY <1>3, <2>1 DEF PeerLogsIn, VideoChatTypeOK, ClientVars, appVars, mediaVars
<1>4. ASSUME NEW u \in User, PeerQuits(u) PROVE VideoChatTypeOK'
  <2>1. toClient' \in Seq(ToClient)
    BY <1>1, <1>4, PacketTypes DEF PeerQuits, Hears
  <2>2. members' \in [Meeting -> SUBSET User]
    BY <1>4 DEF PeerQuits, VideoChatTypeOK
  <2> QED
    BY <1>4, <2>1, <2>2 DEF PeerQuits, VideoChatTypeOK, ClientVars, appVars, mediaVars
<1>5. ASSUME NEW u \in User, NEW m \in Meeting, PeerJoins(u, m) \/ PeerExits(u, m) PROVE VideoChatTypeOK'
  <2>1. toClient' \in Seq(ToClient)
    BY <1>1, <1>5, PacketTypes DEF PeerJoins, PeerExits, Hears
  <2>2. members' \in [Meeting -> SUBSET User]
    BY <1>5 DEF PeerJoins, PeerExits, VideoChatTypeOK
  <2> QED
    BY <1>5, <2>1, <2>2 DEF PeerJoins, PeerExits, VideoChatTypeOK, ClientVars, appVars, mediaVars
<1>6. CASE Destroy
  <2>1. toClient' \in Seq(ToClient)
    BY <1>1, <1>6, PacketTypes DEF Destroy
  <2>2. members' \in [Meeting -> SUBSET User]
    BY <1>6 DEF Destroy, VideoChatTypeOK
  <2> QED
    BY <1>6, <2>1, <2>2 DEF Destroy, VideoChatTypeOK, ClientVars, appVars, mediaVars
<1> QED
  BY <1>2, <1>3, <1>4, <1>5, <1>6 DEF Peers

LEMMA NextType == VideoChatTypeOK /\ [Next]_vars => VideoChatTypeOK'
<1>1. CASE UNCHANGED vars
  BY <1>1 DEF vars, chatVars, appVars, mediaVars, serverVars, VideoChatTypeOK
<1>2. CASE Next
  BY <1>2, CallsType, ConnectionType, HandleType, ServerAnswersType, NewsType DEF Next, Other, Server
<1> QED
  BY <1>1, <1>2

-----------------------------------------------------------------------------
(* The client reads.                                                       *)

\* What a handler of h does to receivers and list, is what h says.
Obeys(h) ==
  \A u \in User :
    /\ Closes(h, u) \/ (u \notin receivers /\ ~ Opens(h, u)) => u \notin receivers'
    /\ (u \in receivers /\ ~ Closes(h, u)) \/ (Opens(h, u) /\ (h.cmd = "PEER_JOIN" => u \in userInfoList))
         => u \in receivers'
    /\ Lists(h, u) \/ (u \in userInfoList /\ ~ Unlists(h, u)) => u \in userInfoList'

\* What has to be seen of the queue.
LEMMA ReadQueue ==
  ASSUME MeetingInv, toClient # <<>>, toClient' = Tail(toClient), Obeys(Head(toClient)),
         UNCHANGED <<peers, members, attends>>
  PROVE  /\ EndsKnown => EndsKnown'
         /\ Framed(toClient', attends # NoMeeting)
         /\ ~ stranded => \A u \in User, i \in 1 .. Len(toClient') :
              Opens(toClient'[i], u) => ClosedAfter(toClient', receivers', i - 1, u)
         /\ \A u \in User : ClosedAfter(toClient, receivers, Len(toClient), u)
              => ClosedAfter(toClient', receivers', Len(toClient'), u)
         /\ \A u \in User : EndsOpen(toClient, receivers, userInfoList, u)
              => EndsOpen(toClient', receivers', userInfoList', u)
<1> DEFINE q == toClient
           n == Len(q)
<1>1. /\ q \in Seq(ToClient) /\ n \in Nat /\ n > 0 /\ Len(q') = n - 1 /\ Head(q) = q[1]
      /\ \A i \in 1 .. n - 1 : q'[i] = q[i + 1]
  <2>1. q \in Seq(ToClient)
    BY DEF MeetingInv, VideoChatTypeOK
  <2> QED
    BY <2>1, TailIs
<1>2. /\ n - 1 \in 0 .. n - 1 /\ (n - 1) + 1 = n
      /\ \A i \in 1 .. n - 1 : i - 1 \in 0 .. n - 1 /\ i + 1 \in 1 .. n /\ (i + 1) - 1 = (i - 1) + 1
  BY <1>1
<1>3. \A u \in User :
        /\ Closes(q[1], u) \/ (u \notin receivers /\ ~ Opens(q[1], u)) => u \notin receivers'
        /\ (u \in receivers /\ ~ Closes(q[1], u)) \/ (Opens(q[1], u) /\ (q[1].cmd = "PEER_JOIN" => u \in userInfoList))
             => u \in receivers'
        /\ Lists(q[1], u) \/ (u \in userInfoList /\ ~ Unlists(q[1], u)) => u \in userInfoList'
  BY <1>1 DEF Obeys
<1>4. \A u \in User : \A k \in 0 .. n - 1 :
        ClosedAfter(q, receivers, k + 1, u) => ClosedAfter(q', receivers', k, u)
  BY <1>1, <1>3, ClosedByTail
<1>5. \A u \in User : \A k \in 0 .. n - 1 :
        KnownAfter(q, userInfoList, k + 1, u) => KnownAfter(q', userInfoList', k, u)
  BY <1>1, <1>3, KnownByTail
<1>6. \A u \in User :
        EndsOpen(q, receivers, userInfoList, u) => EndsOpen(q', receivers', userInfoList', u)
  BY <1>1, <1>3, OpenByTail
<1>7. Framed(q', attends # NoMeeting)
  BY <1>1, FramedTail DEF MeetingInv
<1>8. EndsKnown => EndsKnown'
  <2>1. peers \subseteq User
    BY DEF MeetingInv, VideoChatTypeOK
  <2> QED
    BY <1>1, <1>2, <1>5, <2>1 DEF EndsKnown
<1>9. ASSUME ~ stranded, NEW u \in User, NEW i \in 1 .. n - 1, Opens(q'[i], u)
      PROVE  ClosedAfter(q', receivers', i - 1, u)
  <2>1. Opens(q[i + 1], u) /\ i + 1 \in 1 .. n
    BY <1>1, <1>2, <1>9
  <2>2. ClosedAfter(q, receivers, (i + 1) - 1, u)
    BY <1>9, <2>1 DEF MeetingInv, NeverTwice
  <2>3. i - 1 \in 0 .. n - 1 /\ ClosedAfter(q, receivers, (i - 1) + 1, u)
    BY <1>2, <2>2
  <2> QED
    BY <1>4, <2>3
<1> QED
  BY <1>1, <1>2, <1>4, <1>6, <1>7, <1>8, <1>9

\* A handler that obeys and only tells the server what it did not know keeps the invariant.
LEMMA ReadKeeps ==
  ASSUME MeetingInv, VideoChatTypeOK', link = "up", toClient # <<>>, toClient' = Tail(toClient),
         Obeys(Head(toClient)),
         Head(toClient).cmd \notin {"USERQUIT", "RELOGIN", "LOGINREFUSED"},
         UNCHANGED <<link, told, app, stranded, toServer, serverVars>>
  PROVE  MeetingInv'
<1>1. toClient \in Seq(ToClient)
  BY DEF MeetingInv, VideoChatTypeOK
<1>2. /\ EndPending' = EndPending /\ Leaving' = Leaving
      /\ Has(toClient', "LOGINSERVERED") => Has(toClient, "LOGINSERVERED")
  BY <1>1, HasTail DEF EndPending, Leaving
<1>3. Sessions'
  BY <1>2 DEF MeetingInv, Sessions, serverVars
<1>4. Logins'
  BY DEF MeetingInv, Logins, serverVars
<1>5. Listed'
  BY <1>2, ReadQueue DEF MeetingInv, Listed, serverVars
<1>6. Framed(toClient, attends # NoMeeting)' /\ NeverTwice'
  BY ReadQueue DEF NeverTwice, serverVars
<1>7. InStep'
  <2>1. \A u : Attends(u)' = Attends(u)
    BY DEF Attends, serverVars
  <2> QED
    BY <1>2, <2>1, ReadQueue DEF MeetingInv, InStep, serverVars
<1> QED
  BY <1>3, <1>4, <1>5, <1>6, <1>7 DEF MeetingInv

\* The first media to be closed after a stranded login: no meeting is under way, so no news of
\* one is.
LEMMA ResetKeeps ==
  ASSUME MeetingInv, VideoChatTypeOK', link = "up", toClient # <<>>, toClient' = Tail(toClient),
         Closing(Head(toClient)), Head(toClient).cmd \notin {"USERQUIT", "RELOGIN", "LOGINREFUSED"},
         ~ InMeeting, receivers' = {}, UNCHANGED <<link, told, app, userInfoList, toServer, serverVars>>
  PROVE  MeetingInv'
<1> DEFINE q == toClient
           n == Len(q)
<1>1. /\ q \in Seq(ToClient) /\ toServer \in Seq(ToServer) /\ n \in Nat /\ n > 0 /\ Len(q') = n - 1 /\ Head(q) = q[1]
      /\ \A i \in 1 .. n - 1 : q'[i] = q[i + 1]
  <2>1. q \in Seq(ToClient) /\ toServer \in Seq(ToServer)
    BY DEF MeetingInv, VideoChatTypeOK
  <2> QED
    BY <2>1, TailIs
<1>2. /\ EndPending' = EndPending /\ Leaving' = Leaving
      /\ Has(q', "LOGINSERVERED") => Has(q, "LOGINSERVERED")
  BY <1>1, HasTail DEF EndPending, Leaving
<1>3. app # "join" /\ attends = NoMeeting /\ ~ Has(toServer, "JOIN") /\ ~ Has(q, "JOINED")
  BY <1>1 DEF InMeeting, Has
<1>4. \A u : \A i \in 1 .. n - 1 : ~ Opens(q'[i], u)
  <2> SUFFICES ASSUME NEW u, NEW i \in 1 .. n - 1, Opens(q[i + 1], u) PROVE FALSE
    BY <1>1
  <2>1. i + 1 \in 1 + 1 .. n /\ i + 1 \in 1 .. n /\ 1 \in 1 .. n /\ \A j \in 1 + 1 .. (i + 1) - 1 : j \in 1 .. n
    BY <1>1
  <2>2. q[i + 1].cmd = "PEER_JOIN"
    BY <1>3, <2>1 DEF Opens, Has
  <2>3. \E j \in 1 + 1 .. (i + 1) - 1 : q[j].cmd = "JOINED"
    BY <1>1, <2>1, <2>2 DEF MeetingInv, Framed
  <2> QED
    BY <1>3, <2>1, <2>3 DEF Has
<1>5. \A u : \A k \in 0 .. n - 1 : ClosedAfter(q', receivers', k, u)
  <2>1. \A k \in 0 .. n - 1 : \A j \in 1 .. k : j \in 1 .. n - 1
    BY <1>1
  <2> QED
    BY <1>4, <2>1 DEF ClosedAfter
<1>6. Sessions'
  BY <1>2, <1>3 DEF MeetingInv, VideoChatTypeOK, Sessions, serverVars
<1>7. Logins'
  BY <1>3 DEF Logins, LoginFirst, Has, serverVars
<1>8. Listed'
  <2>1. AskedFirst(toServer)
    BY <1>3 DEF AskedFirst, Has
  <2>2. EndsKnown => EndsKnown'
    <3>1. \A u \in User : \A k \in 0 .. n - 1 :
            KnownAfter(q, userInfoList, k + 1, u) => KnownAfter(q', userInfoList', k, u)
      <4>1. \A u : ~ Lists(q[1], u)
        BY <1>1 DEF Closing, Lists
      <4> QED
        BY <1>1, <4>1, KnownByTail
    <3>2. n - 1 \in 0 .. n - 1 /\ (n - 1) + 1 = n /\ peers \subseteq User
      BY <1>1 DEF MeetingInv, VideoChatTypeOK
    <3> QED
      BY <1>1, <3>1, <3>2 DEF EndsKnown, serverVars
  <2> QED
    BY <1>2, <1>3, <2>1, <2>2 DEF MeetingInv, Listed, serverVars
<1>9. Framed(q, attends # NoMeeting)'
  BY <1>1, FramedTail DEF MeetingInv, serverVars
<1>10. NeverTwice' /\ InStep'
  <2>1. n - 1 \in 0 .. n - 1 /\ \A i \in 1 .. n - 1 : i - 1 \in 0 .. n - 1
    BY <1>1
  <2>2. \A u : ~ Attends(u)'
    BY <1>3 DEF Attends, serverVars
  <2> QED
    BY <1>1, <1>4, <1>5, <2>1, <2>2 DEF NeverTwice, InStep
<1> QED
  BY <1>6, <1>7, <1>8, <1>9, <1>10 DEF MeetingInv

\* The handlers of one user's news.
LEMMA UserHandlersKeep ==
  ASSUME MeetingInv, VideoChatTypeOK',
         RemoteUserLogin \/ RemoteUserQuit \/ UpdateUserList \/ PeerJoin \/ PeerExit
  PROVE  MeetingInv'
<1> DEFINE h == Head(toClient)
<1>1. CASE RemoteUserLogin
  <2>1. Obeys(h)
    BY <1>1 DEF RemoteUserLogin, Receives, Obeys, Closes, Closing, Opens, Lists, Unlists, mediaVars
  <2> QED
    BY <1>1, <2>1, ReadKeeps DEF RemoteUserLogin, Receives, appVars, mediaVars
<1>2. CASE RemoteUserQuit
  <2>1. Obeys(h)
    BY <1>2 DEF RemoteUserQuit, Receives, Obeys, Closes, Closing, Opens, Lists, Unlists
  <2> QED
    BY <1>2, <2>1, ReadKeeps DEF RemoteUserQuit, Receives, appVars
<1>3. CASE UpdateUserList
  <2>1. Obeys(h)
    BY <1>3 DEF UpdateUserList, Receives, Obeys, Closes, Closing, Opens, Lists, Unlists, mediaVars
  <2> QED
    BY <1>3, <2>1, ReadKeeps DEF UpdateUserList, Receives, appVars, mediaVars
<1>4. CASE PeerJoin
  <2>1. Obeys(h)
    BY <1>4 DEF PeerJoin, OpenReceivers, Receives, Obeys, Closes, Closing, Opens, Lists, Unlists
  <2> QED
    BY <1>4, <2>1, ReadKeeps DEF PeerJoin, Receives, appVars
<1>5. CASE PeerExit
  <2>1. Obeys(h)
    BY <1>5 DEF PeerExit, Receives, Obeys, Closes, Closing, Opens, Lists, Unlists
  <2> QED
    BY <1>5, <2>1, ReadKeeps DEF PeerExit, Receives, appVars
<1> QED
  BY <1>1, <1>2, <1>3, <1>4, <1>5

\* The handlers of the meeting.
LEMMA MeetingHandlersKeep ==
  ASSUME MeetingInv, VideoChatTypeOK', MtgJoined \/ MtgRefused \/ MtgExited \/ MtgDestroyed
  PROVE  MeetingInv'
<1> DEFINE h == Head(toClient)
<1>1. CASE MtgJoined
  <2>1. Obeys(h)
    BY <1>1 DEF MtgJoined, OpenReceivers, Receives, Obeys, Closes, Closing, Opens, Lists, Unlists
  <2> QED
    BY <1>1, <2>1, ReadKeeps DEF MtgJoined, Receives, appVars
<1>2. CASE MtgRefused
  <2>1. Obeys(h)
    BY <1>2 DEF MtgRefused, Receives, Obeys, Closes, Closing, Opens, Lists, Unlists
  <2> QED
    BY <1>2, <2>1, ReadKeeps DEF MtgRefused, Receives, appVars
<1>3. CASE MtgExited \/ MtgDestroyed
  <2>1. /\ link = "up" /\ toClient # <<>> /\ toClient' = Tail(toClient) /\ h.cmd \in {"EXITED", "DESTROY"}
        /\ CloseMedia /\ UNCHANGED <<link, told, app, userInfoList, toServer, serverVars>>
    BY <1>3 DEF MtgExited, MtgDestroyed, Receives, appVars
  <2>2. receivers' = {} /\ stranded' = (stranded /\ (InMeeting \/ mic'))
    BY <2>1 DEF CloseMedia
  <2>3. Obeys(h)
    BY <2>1, <2>2 DEF Obeys, Closes, Closing, Opens, Lists, Unlists
  <2>4. stranded \in BOOLEAN /\ stranded' \in BOOLEAN
    BY DEF MeetingInv, VideoChatTypeOK
  <2>5. CASE stranded' = stranded
    BY <2>1, <2>3, <2>5, ReadKeeps
  <2>6. CASE stranded' # stranded
    <3>1. ~ InMeeting
      BY <2>2, <2>4, <2>6
    <3> QED
      BY <2>1, <2>2, <3>1, ResetKeeps DEF Closing
  <2> QED
    BY <2>5, <2>6
<1> QED
  BY <1>1, <1>2, <1>3

LEMMA LoginServeredKeeps == ASSUME MeetingInv, VideoChatTypeOK', LoginServered PROVE MeetingInv'
<1> DEFINE p == Packet("GETUSERLIST")
<1>1. /\ link = "up" /\ toClient # <<>> /\ toClient' = Tail(toClient) /\ Head(toClient).cmd = "LOGINSERVERED"
      /\ toServer' = Append(toServer, p) /\ told' /\ p \in ToServer /\ p.cmd = "GETUSERLIST"
      /\ toClient \in Seq(ToClient) /\ toServer \in Seq(ToServer)
      /\ UNCHANGED <<link, app, stranded, userInfoList, receivers, serverVars>>
  BY PacketTypes DEF LoginServered, Receives, Sent, mediaVars, MeetingInv, VideoChatTypeOK
<1>2. Obeys(Head(toClient))
  BY <1>1 DEF Obeys, Closes, Closing, Opens, Lists, Unlists
<1>3. /\ EndPending' = EndPending /\ Leaving' = Leaving /\ Has(toClient, "LOGINSERVERED")
  BY <1>1, HasTail, HasAppend DEF EndPending, Leaving
<1>4. /\ Has(toServer', "GETUSERLIST") /\ (Has(toServer', "LOGINSERVER") => Has(toServer, "LOGINSERVER"))
      /\ LoginFirst(toServer) => LoginFirst(toServer')
      /\ AskedFirst(toServer) => AskedFirst(toServer')
  BY <1>1, HasAppend, OrderAppend
<1>5. Sessions'
  BY <1>1, <1>3 DEF MeetingInv, Sessions, serverVars
<1>6. Logins'
  BY <1>1, <1>4 DEF MeetingInv, Logins, serverVars
<1>7. Listed'
  BY <1>1, <1>2, <1>3, <1>4, ReadQueue DEF MeetingInv, Listed, serverVars
<1>8. Framed(toClient, attends # NoMeeting)' /\ NeverTwice'
  BY <1>1, <1>2, ReadQueue DEF NeverTwice, serverVars
<1>9. InStep'
  <2>1. \A u : Attends(u)' = Attends(u)
    BY <1>1 DEF Attends, serverVars
  <2> QED
    BY <1>1, <1>2, <1>3, <2>1, ReadQueue DEF MeetingInv, InStep, serverVars
<1> QED
  BY <1>5, <1>6, <1>7, <1>8, <1>9 DEF MeetingInv

\* Without a session, a connection and receivers there is nothing to keep.
LEMMA NothingUnderWay ==
  ASSUME VideoChatTypeOK', toServer' = <<>>, toClient' = <<>>, ~ session', attends' = NoMeeting,
         link' \notin {"up", "busy"}, link' \in {"none", "lost"} \/ receivers' = {}
  PROVE  MeetingInv'
<1>1. Sessions' /\ Logins' /\ Listed' /\ Framed(toClient, attends # NoMeeting)' /\ NeverTwice'
  BY DEF Sessions, Logins, LoginFirst, Has, Listed, Framed, NeverTwice
<1>2. InStep'
  BY DEF InStep, Attends, ClosedAfter
<1> QED
  BY <1>1, <1>2 DEF MeetingInv

LEMMA EndsKeep ==
  ASSUME MeetingInv, VideoChatTypeOK', Login \/ Disconnected \/ LoginRefused \/ SessionOver \/ Drop
  PROVE  MeetingInv'
<1>1. CASE Login
  BY <1>1, NothingUnderWay DEF Login, MeetingInv, VideoChatTypeOK, Sessions, serverVars
<1>2. CASE Disconnected
  BY <1>2, NothingUnderWay DEF Disconnected, CloseMedia, MeetingInv, VideoChatTypeOK, Sessions, serverVars
<1>3. CASE LoginRefused \/ SessionOver \/ Drop
  BY <1>3, NothingUnderWay DEF LoginRefused, SessionOver, Teardown, Drop
<1> QED
  BY <1>1, <1>2, <1>3

-----------------------------------------------------------------------------
(* Connection events and calls.                                            *)

\* While nothing is heard, the queue says what it said.
LEMMA SameNews ==
  ASSUME UNCHANGED <<toClient, receivers, userInfoList, peers, members, attends>>
  PROVE  /\ EndPending' = EndPending /\ EndsKnown' = EndsKnown
         /\ \A u : Attends(u)' = Attends(u)
BY DEF EndPending, EndsKnown, Attends

\* A login is the first of a session, or there was no meeting, or it strands what there was.
LEMMA SendLoginServerKeeps ==
  ASSUME MeetingInv, VideoChatTypeOK', SendLoginServer, link \in {"connecting", "busy", "lost", "down"}
  PROVE  MeetingInv'
<1> DEFINE p == Packet("LOGINSERVER")
<1>1. /\ toServer' = Append(toServer, p) /\ p \in ToServer /\ p.cmd = "LOGINSERVER" /\ toServer \in Seq(ToServer)
      /\ link' = "up" /\ told' = FALSE
      /\ UNCHANGED <<app, receivers, userInfoList, toClient, serverVars>>
  BY PacketTypes DEF SendLoginServer, MeetingInv, VideoChatTypeOK
<1>2. ~ stranded' => /\ ~ stranded /\ receivers = {} /\ app # "join" /\ attends = NoMeeting
                     /\ ~ Has(toServer, "JOIN")
  <2>1. app = "join" \/ attends # NoMeeting \/ Has(toServer, "JOIN") => InMeeting
    BY <1>1 DEF InMeeting, Has
  <2>2. stranded' = (stranded \/ InMeeting \/ sender # "none" \/ receivers # {})
    BY DEF SendLoginServer
  <2> QED
    BY <2>1, <2>2
<1>3. /\ Has(toServer', "JOIN") <=> Has(toServer, "JOIN")
      /\ Has(toServer', "QUITSERVER") <=> Has(toServer, "QUITSERVER")
  BY <1>1, HasAppend
<1>4. /\ EndPending' = EndPending /\ \A u : Attends(u)' = Attends(u)
  BY <1>1, SameNews DEF serverVars
<1>5. link # "busy" => toClient = <<>>
  BY DEF MeetingInv, Sessions
<1>6. Sessions'
  <2>1. ~ session /\ ~ EndPending => ~ Has(toClient, "LOGINSERVERED")
    BY <1>5 DEF MeetingInv, Sessions, Has
  <2> QED
    BY <1>1, <1>2, <1>3, <1>4, <2>1 DEF MeetingInv, VideoChatTypeOK, Sessions, serverVars
<1>7. Logins' /\ Listed'
  <2>1. ~ stranded' => LoginFirst(toServer') /\ AskedFirst(toServer')
    BY <1>2, <1>3 DEF LoginFirst, AskedFirst, Has
  <2> QED
    BY <1>1, <1>2, <2>1 DEF Logins, Listed, serverVars
<1>8. Framed(toClient, attends # NoMeeting)' /\ NeverTwice'
  BY <1>1, <1>2 DEF MeetingInv, NeverTwice, serverVars
<1>9. InStep'
  <2>1. ASSUME ~ stranded', NEW u \in User PROVE ClosedAfter(toClient, receivers, Len(toClient), u)
    <3>1. CASE link = "busy"
      BY <1>2, <2>1, <3>1 DEF MeetingInv, InStep, Attends
    <3>2. CASE link # "busy"
      BY <1>2, <1>5, <2>1, <3>2 DEF ClosedAfter
    <3> QED
      BY <3>1, <3>2
  <2>2. \A u : ~ stranded' => ~ Attends(u)'
    BY <1>2, <1>4 DEF Attends
  <2> QED
    BY <1>1, <2>1, <2>2 DEF InStep
<1> QED
  BY <1>6, <1>7, <1>8, <1>9 DEF MeetingInv

LEMMA BusyKeeps == ASSUME MeetingInv, VideoChatTypeOK', Busy PROVE MeetingInv'
<1>1. /\ link = "up" /\ link' = "busy"
      /\ UNCHANGED <<appVars, mediaVars, userInfoList, toServer, toClient, serverVars>>
  BY DEF Busy
<1>2. EndPending' = EndPending /\ \A u : Attends(u)' = Attends(u)
  BY <1>1, SameNews DEF serverVars, mediaVars
<1>3. Sessions' /\ Logins' /\ Listed'
  BY <1>1, <1>2 DEF MeetingInv, Sessions, Logins, Listed, serverVars, mediaVars, appVars
<1>4. Framed(toClient, attends # NoMeeting)' /\ NeverTwice' /\ InStep'
  BY <1>1, <1>2 DEF MeetingInv, NeverTwice, InStep, serverVars, mediaVars
<1> QED
  BY <1>3, <1>4 DEF MeetingInv

\* A call that sends p, or does not, in what the queue has to say.
LEMMA SentIs ==
  ASSUME MeetingInv, NEW p \in ToServer, toServer' \in {toServer, Append(toServer, p)},
         p.cmd \in {"EXIT", "JOIN"}
  PROVE  /\ \A cmd \in {"QUITSERVER", "GETUSERLIST", "LOGINSERVER"} : Has(toServer', cmd) <=> Has(toServer, cmd)
         /\ LoginFirst(toServer) => LoginFirst(toServer')
         /\ AskedFirst(toServer) /\ (p.cmd = "JOIN" => Has(toServer, "GETUSERLIST")) => AskedFirst(toServer')
         /\ p.cmd = "EXIT" => (Has(toServer', "JOIN") <=> Has(toServer, "JOIN"))
<1>1. toServer \in Seq(ToServer)
  BY DEF MeetingInv, VideoChatTypeOK
<1>2. CASE toServer' = toServer
  BY <1>2
<1>3. CASE toServer' = Append(toServer, p)
  BY <1>1, <1>3, HasAppend, OrderAppend
<1> QED
  BY <1>2, <1>3

LEMMA CallsKeep ==
  ASSUME MeetingInv, VideoChatTypeOK', Joins \/ JoinAsks \/ ExitMtg \/ LogoutServer \/ Microphone
  PROVE  MeetingInv'
<1>1. /\ UNCHANGED <<link, toClient, receivers, stranded, peers, members, attends, session>>
      /\ \A u : Attends(u)' = Attends(u)
  BY DEF Joins, JoinMtg, JoinAsks, ExitMtg, LogoutServer, Microphone, LocalAudio, appVars, mediaVars, serverVars, Attends
<1>2. EndPending' = EndPending
  BY <1>1 DEF EndPending
<1>3. Framed(toClient, attends # NoMeeting)' /\ NeverTwice'
  BY <1>1 DEF MeetingInv, NeverTwice
<1>4. CASE Joins \/ Microphone
  <2>1. /\ UNCHANGED <<toServer, told, userInfoList>>
        /\ app' = app \/ (app' = "join" /\ told)
    BY <1>4 DEF Joins, JoinMtg, Microphone, LocalAudio, appVars, mediaVars, serverVars
  <2>2. EndsKnown' = EndsKnown
    BY <1>1, <2>1, SameNews
  <2>3. Sessions' /\ Logins' /\ Listed'
    BY <1>1, <1>2, <2>1, <2>2 DEF MeetingInv, Sessions, Logins, Listed, Leaving
  <2>4. InStep'
    BY <1>1, <1>2, <2>1 DEF MeetingInv, InStep, Leaving
  <2> QED
    BY <1>3, <2>3, <2>4 DEF MeetingInv
<1>5. CASE JoinAsks \/ ExitMtg
  <2>1. PICK p \in ToServer :
          /\ p.cmd = IF JoinAsks THEN "JOIN" ELSE "EXIT"
          /\ toServer' = IF link = "up" THEN Append(toServer, p) ELSE toServer
    <3>1. JoinAsks => joining \in Meeting
      BY DEF JoinAsks, MeetingInv, VideoChatTypeOK
    <3> QED
      BY <1>5, <3>1, PacketTypes DEF JoinAsks, ExitMtg, Sent
  <2>2. UNCHANGED <<told, userInfoList>> /\ (JoinAsks => app = "join") /\ (app' = app \/ app' = "idle")
    BY <1>5 DEF JoinAsks, ExitMtg
  <2>3. EndsKnown' = EndsKnown
    BY <1>1, <2>2, SameNews
  <2>4. /\ \A cmd \in {"QUITSERVER", "GETUSERLIST", "LOGINSERVER"} : Has(toServer', cmd) <=> Has(toServer, cmd)
        /\ LoginFirst(toServer) => LoginFirst(toServer')
        /\ AskedFirst(toServer) /\ (p.cmd = "JOIN" => Has(toServer, "GETUSERLIST")) => AskedFirst(toServer')
        /\ p.cmd = "EXIT" => (Has(toServer', "JOIN") <=> Has(toServer, "JOIN"))
    BY <2>1, SentIs
  <2>5. Leaving' = Leaving
    BY <1>2, <2>4 DEF Leaving
  <2>6. Sessions'
    BY <1>1, <1>2, <2>1, <2>2, <2>4 DEF MeetingInv, Sessions
  <2>7. Logins'
    BY <1>1, <2>4 DEF MeetingInv, Logins
  <2>8. Listed'
    <3>1. JoinAsks /\ link = "up" => told \/ stranded
      BY <2>2 DEF MeetingInv, Sessions
    <3> QED
      BY <1>1, <2>1, <2>2, <2>3, <2>4, <2>5, <3>1 DEF MeetingInv, Listed
  <2>9. InStep'
    BY <1>1, <2>2, <2>5 DEF MeetingInv, InStep
  <2> QED
    BY <1>3, <2>6, <2>7, <2>8, <2>9 DEF MeetingInv
<1>6. CASE LogoutServer
  <2>1. /\ toServer' = IF link = "up" THEN Append(toServer, Packet("QUITSERVER")) ELSE toServer
        /\ ~ told' /\ app = "idle" /\ app' = app /\ toServer \in Seq(ToServer)
        /\ Packet("QUITSERVER") \in ToServer /\ Packet("QUITSERVER").cmd = "QUITSERVER"
    BY <1>6, PacketTypes DEF LogoutServer, Sent, MeetingInv, VideoChatTypeOK
  <2>2. /\ link = "up" => Has(toServer', "QUITSERVER")
        /\ Has(toServer', "JOIN") <=> Has(toServer, "JOIN")
        /\ Has(toServer', "LOGINSERVER") <=> Has(toServer, "LOGINSERVER")
        /\ LoginFirst(toServer) => LoginFirst(toServer')
    BY <2>1, HasAppend, OrderAppend
  <2>3. Sessions'
    <3>1. link \notin {"up", "busy"} => toServer' = <<>>
      BY <2>1 DEF MeetingInv, Sessions
    <3> QED
      BY <1>1, <1>2, <2>1, <2>2, <3>1 DEF MeetingInv, Sessions
  <2>4. Logins'
    BY <1>1, <2>2 DEF MeetingInv, Logins
  <2>5. link = "up" => Leaving'
    BY <2>2 DEF Leaving
  <2>6. Listed' /\ InStep'
    BY <1>1, <2>5 DEF MeetingInv, Listed, InStep
  <2> QED
    BY <1>3, <2>3, <2>4, <2>6 DEF MeetingInv
<1> QED
  BY <1>4, <1>5, <1>6

-----------------------------------------------------------------------------
(* The server and the others.                                              *)

EndsClosed(u) == ClosedAfter(toClient, receivers, Len(toClient), u)
EndsKnowing(u) == KnownAfter(toClient, userInfoList, Len(toClient), u)
EndsHearing(u) == EndsOpen(toClient, receivers, userInfoList, u)

\* What one more packet does to the queue.
LEMMA TellQueue ==
  ASSUME MeetingInv, NEW p \in ToClient, toClient' = Append(toClient, p),
         UNCHANGED <<receivers, userInfoList>>
  PROVE  /\ \A u : Closes(p, u) \/ (EndsClosed(u) /\ ~ Opens(p, u)) => EndsClosed(u)'
         /\ \A u : Lists(p, u) \/ (EndsKnowing(u) /\ ~ Unlists(p, u)) => EndsKnowing(u)'
         /\ \A u : EndsHearing(u) /\ ~ Closes(p, u) => EndsHearing(u)'
         /\ \A u : Opens(p, u) /\ (p.cmd = "PEER_JOIN" => EndsKnowing(u)) => EndsHearing(u)'
         /\ \A u : \A i \in 1 .. Len(toClient) :
              /\ toClient'[i] = toClient[i]
              /\ ClosedAfter(toClient', receivers', i - 1, u) <=> ClosedAfter(toClient, receivers, i - 1, u)
         /\ \A u : ClosedAfter(toClient', receivers', Len(toClient') - 1, u) <=> EndsClosed(u)
         /\ Len(toClient) \in Nat /\ Len(toClient') = Len(toClient) + 1 /\ toClient'[Len(toClient')] = p
         /\ \A cmd : Has(toClient', cmd) <=> Has(toClient, cmd) \/ p.cmd = cmd
<1> DEFINE q == toClient
           n == Len(q)
<1>1. q \in Seq(ToClient) /\ q' = Append(q, p)
  BY DEF MeetingInv, VideoChatTypeOK
<1>2. /\ n \in Nat /\ Len(q') = n + 1 /\ q'[n + 1] = p
      /\ \A i \in 1 .. n : q'[i] = q[i]
  BY <1>1, AppendIs
<1>3. \A u : /\ Closes(p, u) \/ (EndsClosed(u) /\ ~ Opens(p, u)) => EndsClosed(u)'
             /\ Lists(p, u) \/ (EndsKnowing(u) /\ ~ Unlists(p, u)) => EndsKnowing(u)'
             /\ EndsHearing(u) /\ ~ Closes(p, u) => EndsHearing(u)'
             /\ Opens(p, u) /\ (p.cmd = "PEER_JOIN" => EndsKnowing(u)) => EndsHearing(u)'
  BY <1>1, <1>2, AppendDecides DEF EndsClosed, EndsKnowing, EndsHearing
<1>4. \A u : \A k \in 0 .. n :
        ClosedAfter(q', receivers', k, u) <=> ClosedAfter(q, receivers, k, u)
  BY <1>1, AfterAppend
<1>5. (\A i \in 1 .. n : i - 1 \in 0 .. n) /\ n \in 0 .. n /\ (n + 1) - 1 = n
  BY <1>2
<1>6. \A cmd : Has(q', cmd) <=> Has(q, cmd) \/ p.cmd = cmd
  BY <1>1, HasAppend
<1>7. \A u : ClosedAfter(q', receivers', Len(q') - 1, u) <=> EndsClosed(u)
  BY <1>2, <1>4, <1>5 DEF EndsClosed
<1> QED
  BY <1>2, <1>3, <1>4, <1>5, <1>6, <1>7

\* What the server says keeps the client in step, when it opens those who came to its
\* meeting and closes those who left it.
LEMMA TellKeeps ==
  ASSUME MeetingInv, VideoChatTypeOK', NEW p \in ToClient, toClient' = Append(toClient, p),
         link \in {"up", "busy"}, UNCHANGED <<link, receivers, userInfoList, stranded>>,
         Sessions', Logins', Listed', Leaving => Leaving',
         ~ stranded => \A u \in User :
           /\ Opens(p, u) => ~ Attends(u)
           /\ ~ Attends(u)' => Closes(p, u) \/ (~ Attends(u) /\ ~ Opens(p, u))
           /\ Attends(u)' => \/ Attends(u) /\ ~ Closes(p, u)
                             \/ Opens(p, u) /\ (p.cmd = "PEER_JOIN" /\ link = "up" /\ ~ Leaving => EndsKnowing(u)),
         attends' # NoMeeting => (attends # NoMeeting \/ p.cmd = "JOINED") /\ ~ Closing(p),
         p.cmd \in {"PEER_JOIN", "DESTROY"} => attends # NoMeeting
  PROVE  MeetingInv'
<1>1. \A u \in User : ~ stranded /\ ~ Attends(u) => EndsClosed(u)
  BY DEF MeetingInv, InStep, EndsClosed
<1>2. \A u \in User : ~ stranded /\ link = "up" /\ ~ Leaving /\ Attends(u) => EndsHearing(u)
  BY DEF MeetingInv, InStep, EndsHearing
<1>3. Framed(toClient, attends # NoMeeting)'
  <2>1. toClient \in Seq(ToClient)
    BY DEF MeetingInv, VideoChatTypeOK
  <2> QED
    BY <2>1, FramedAppend DEF MeetingInv
<1>4. NeverTwice'
  <2> SUFFICES ASSUME ~ stranded, NEW u \in User, NEW i \in 1 .. Len(toClient'), Opens(toClient'[i], u)
               PROVE  ClosedAfter(toClient', receivers', i - 1, u)
    BY DEF NeverTwice
  <2>1. i \in 1 .. Len(toClient) \/ i = Len(toClient')
    BY TellQueue
  <2>2. CASE i \in 1 .. Len(toClient)
    BY <2>2, TellQueue DEF MeetingInv, NeverTwice
  <2>3. CASE i = Len(toClient')
    <3>1. Opens(p, u)
      BY <2>3, TellQueue
    <3> QED
      BY <1>1, <2>3, <3>1, TellQueue
  <2> QED
    BY <2>1, <2>2, <2>3
<1>5. InStep'
  <2>1. ASSUME ~ stranded, NEW u \in User, ~ Attends(u)' PROVE EndsClosed(u)'
    BY <1>1, <2>1, TellQueue
  <2>2. ASSUME ~ stranded, NEW u \in User, link = "up", ~ Leaving', Attends(u)' PROVE EndsHearing(u)'
    <3>1. CASE Attends(u) /\ ~ Closes(p, u)
      BY <1>2, <2>2, <3>1, TellQueue
    <3>2. CASE Opens(p, u) /\ (p.cmd = "PEER_JOIN" => EndsKnowing(u))
      BY <3>2, TellQueue
    <3> QED
      BY <2>2, <3>1, <3>2
  <2> QED
    BY <2>1, <2>2 DEF InStep, EndsClosed, EndsHearing
<1> QED
  BY <1>3, <1>4, <1>5 DEF MeetingInv

\* Who is listed by the news of his login is known.
LEMMA TellKnown ==
  ASSUME MeetingInv, NEW p \in ToClient, toClient' = Append(toClient, p), UNCHANGED <<receivers, userInfoList>>,
         \A u \in peers' : Lists(p, u) \/ (EndsKnown /\ u \in peers /\ ~ Unlists(p, u))
  PROVE  EndsKnown'
<1>1. \A u \in peers' : EndsKnowing(u)'
  BY TellQueue DEF EndsKnown, EndsKnowing
<1> QED
  BY <1>1 DEF EndsKnown, EndsKnowing

\* What is left when the server reads.
LEMMA ServerQueue ==
  ASSUME MeetingInv, NEW cmd, ServerReads(cmd)
  PROVE  /\ link = "up" /\ UNCHANGED <<link, told, app, receivers, userInfoList, stranded, peers, members>>
         /\ \A c : Has(toServer, c) <=> Has(toServer', c) \/ cmd = c
         /\ LoginFirst(toServer) => LoginFirst(toServer') /\ (cmd = "JOIN" => ~ Has(toServer', "LOGINSERVER"))
         /\ AskedFirst(toServer) => cmd # "JOIN"
         /\ AskedFirst(toServer) /\ cmd # "GETUSERLIST" => AskedFirst(toServer')
<1>1. /\ toServer \in Seq(ToServer) /\ toServer # <<>> /\ Head(toServer).cmd = cmd /\ toServer' = Tail(toServer)
      /\ link = "up" /\ UNCHANGED <<link, told, app, receivers, userInfoList, stranded, peers, members>>
  BY DEF ServerReads, ClientVars, appVars, mediaVars, MeetingInv, VideoChatTypeOK
<1>2. \A c : Has(toServer, c) <=> Has(toServer', c) \/ cmd = c
  BY <1>1, HasTail
<1> QED
  BY <1>1, <1>2, OrderTail

\* What a packet of the server says of the end of the session and of who is logged in.
LEMMA TellMore ==
  ASSUME MeetingInv, NEW p \in ToClient, toClient' = Append(toClient, p), UNCHANGED <<receivers, userInfoList>>
  PROVE  /\ EndPending' <=> EndPending \/ p.cmd \in {"USERQUIT", "RELOGIN", "LOGINREFUSED"}
         /\ Has(toClient', "LOGINSERVERED") <=> Has(toClient, "LOGINSERVERED") \/ p.cmd = "LOGINSERVERED"
         /\ peers' \subseteq peers /\ p.cmd # "REMOTEUSERQUIT" /\ EndsKnown => EndsKnown'
<1>1. \A cmd : Has(toClient', cmd) <=> Has(toClient, cmd) \/ p.cmd = cmd
  BY TellQueue
<1>2. ASSUME peers' \subseteq peers, p.cmd # "REMOTEUSERQUIT", EndsKnown PROVE EndsKnown'
  BY <1>2, TellKnown DEF Unlists
<1> QED
  BY <1>1, <1>2 DEF EndPending

LEMMA ServerLoginKeeps == ASSUME MeetingInv, VideoChatTypeOK', ServerLogin PROVE MeetingInv'
<1>1. PICK p \in ToClient :
        /\ toClient' = Append(toClient, p)
        /\ (p.cmd = "LOGINSERVERED" /\ session') \/ (p.cmd = "LOGINREFUSED" /\ ~ session /\ ~ session')
  BY PacketTypes DEF ServerLogin, Tell
<1>2. ServerReads("LOGINSERVER") /\ attends' = NoMeeting
  BY DEF ServerLogin
<1>3. /\ link = "up" /\ UNCHANGED <<link, told, app, receivers, userInfoList, stranded, peers, members>>
      /\ \A c : Has(toServer, c) <=> Has(toServer', c) \/ "LOGINSERVER" = c
      /\ LoginFirst(toServer) => LoginFirst(toServer')
      /\ AskedFirst(toServer) => AskedFirst(toServer')
  BY <1>2, ServerQueue
<1>4. /\ EndPending' <=> EndPending \/ p.cmd = "LOGINREFUSED"
      /\ EndsKnown => EndsKnown'
  BY <1>1, <1>3, TellMore
<1>5. Leaving => Leaving'
  BY <1>3, <1>4 DEF Leaving
<1>6. ~ stranded => attends = NoMeeting
  BY <1>3 DEF MeetingInv, Logins
<1>7. Sessions'
  BY <1>1, <1>2, <1>3, <1>4 DEF MeetingInv, Sessions
<1>8. Logins'
  BY <1>2, <1>3 DEF MeetingInv, Logins
<1>9. Listed'
  <2>1. CASE ~ session' \/ Leaving'
    BY <2>1 DEF Listed
  <2>2. CASE session /\ ~ Leaving'
    BY <1>2, <1>3, <1>4, <1>5, <2>2 DEF MeetingInv, Listed
  <2>3. CASE ~ session /\ ~ Leaving'
    <3>1. ~ told /\ (~ stranded => ~ Has(toServer', "JOIN"))
      BY <1>3, <1>5, <2>3 DEF MeetingInv, Sessions, Leaving
    <3> QED
      BY <1>2, <1>3, <3>1 DEF Listed, AskedFirst, Has
  <2> QED
    BY <2>1, <2>2, <2>3
<1>10. \A u : ~ Attends(u)' /\ ~ Opens(p, u) /\ (~ stranded => ~ Attends(u))
  BY <1>1, <1>2, <1>6 DEF Attends, Opens
<1> QED
  BY <1>1, <1>2, <1>3, <1>5, <1>7, <1>8, <1>9, <1>10, TellKeeps

LEMMA ServerUserListKeeps == ASSUME MeetingInv, VideoChatTypeOK', ServerUserList PROVE MeetingInv'
<1>1. PICK p \in ToClient :
        toClient' = Append(toClient, p) /\ p.cmd = "UPDATEUSERLIST" /\ p.users = peers
  BY PacketTypes DEF ServerUserList, Tell, MeetingInv, VideoChatTypeOK
<1>2. ServerReads("GETUSERLIST") /\ session /\ UNCHANGED <<session, attends>>
  BY DEF ServerUserList
<1>3. /\ link = "up" /\ UNCHANGED <<link, told, app, receivers, userInfoList, stranded, peers, members>>
      /\ \A c : Has(toServer, c) <=> Has(toServer', c) \/ "GETUSERLIST" = c
      /\ LoginFirst(toServer) => LoginFirst(toServer')
  BY <1>2, ServerQueue
<1>4. (EndPending' <=> EndPending) /\ EndsKnown'
  <2>1. \A u \in peers' : Lists(p, u)
    BY <1>1, <1>3 DEF Lists
  <2> QED
    BY <1>1, <1>3, <2>1, TellMore, TellKnown
<1>5. Leaving => Leaving'
  BY <1>3, <1>4 DEF Leaving
<1>6. Sessions' /\ Logins' /\ Listed'
  BY <1>2, <1>3, <1>4 DEF MeetingInv, Sessions, Logins, Listed
<1>7. \A u : Attends(u)' = Attends(u) /\ ~ Opens(p, u) /\ ~ Closes(p, u)
  BY <1>1, <1>2, <1>3 DEF Attends, Opens, Closes, Closing
<1>8. ~ Closing(p)
  BY <1>1 DEF Closing
<1> QED
  BY <1>1, <1>2, <1>3, <1>5, <1>6, <1>7, <1>8, TellKeeps

LEMMA ServerJoinKeeps == ASSUME MeetingInv, VideoChatTypeOK', ServerJoin PROVE MeetingInv'
<1>1. PICK p \in ToClient :
        /\ toClient' = Append(toClient, p)
        /\ \/ /\ p.cmd = "JOINED" /\ attends = NoMeeting /\ attends' \in Meeting /\ p.users = members[attends']
           \/ p.cmd = "REFUSED" /\ attends' = attends
  <2>1. Head(toServer).mtg \in Meeting
    <3>1. Head(toServer) \in ToServer /\ Head(toServer).cmd = "JOIN"
      BY DEF ServerJoin, ServerReads, MeetingInv, VideoChatTypeOK
    <3> QED
      BY <3>1, PacketTypes
  <2>2. members[Head(toServer).mtg] \in SUBSET User
    BY <2>1 DEF MeetingInv, VideoChatTypeOK
  <2> QED
    BY <2>1, <2>2, PacketTypes DEF ServerJoin, Tell
<1>2. ServerReads("JOIN") /\ session /\ session' = session
  BY DEF ServerJoin
<1>3. /\ link = "up" /\ UNCHANGED <<link, told, app, receivers, userInfoList, stranded, peers, members>>
      /\ \A c : Has(toServer, c) <=> Has(toServer', c) \/ "JOIN" = c
      /\ LoginFirst(toServer) => LoginFirst(toServer') /\ ~ Has(toServer', "LOGINSERVER")
      /\ ~ AskedFirst(toServer)
  BY <1>2, ServerQueue
<1>4. (EndPending' <=> EndPending) /\ (EndsKnown => EndsKnown')
  BY <1>1, <1>3, TellMore
<1>5. Leaving' <=> Leaving
  BY <1>3, <1>4 DEF Leaving
<1>6. Sessions' /\ Logins'
  BY <1>2, <1>3, <1>4 DEF MeetingInv, Sessions, Logins
<1>7. Listed'
  BY <1>2, <1>3, <1>4, <1>5 DEF MeetingInv, Listed
<1>8. NoMeeting \notin Meeting
  BY VideoChatAssumption
<1>9. \A u \in User :
        /\ Opens(p, u) => ~ Attends(u)
        /\ ~ Closes(p, u)
        /\ Attends(u)' <=> Attends(u) \/ Opens(p, u)
  BY <1>1, <1>3, <1>8 DEF Attends, Opens, Closes, Closing
<1>10. ~ Closing(p) /\ p.cmd \notin {"PEER_JOIN", "DESTROY"}
  BY <1>1 DEF Closing
<1> QED
  BY <1>1, <1>2, <1>3, <1>5, <1>6, <1>7, <1>9, <1>10, TellKeeps

LEMMA ServerExitKeeps == ASSUME MeetingInv, VideoChatTypeOK', ServerExit PROVE MeetingInv'
<1>1. PICK p \in ToClient : toClient' = Append(toClient, p) /\ p.cmd = "EXITED"
  BY PacketTypes DEF ServerExit, Tell
<1>2. ServerReads("EXIT") /\ session /\ session' = session /\ attends' = NoMeeting
  BY DEF ServerExit
<1>3. /\ link = "up" /\ UNCHANGED <<link, told, app, receivers, userInfoList, stranded, peers, members>>
      /\ \A c : Has(toServer, c) <=> Has(toServer', c) \/ "EXIT" = c
      /\ LoginFirst(toServer) => LoginFirst(toServer')
      /\ AskedFirst(toServer) => AskedFirst(toServer')
  BY <1>2, ServerQueue
<1>4. (EndPending' <=> EndPending) /\ (EndsKnown => EndsKnown')
  BY <1>1, <1>3, TellMore
<1>5. Leaving' <=> Leaving
  BY <1>3, <1>4 DEF Leaving
<1>6. Sessions' /\ Logins' /\ Listed'
  BY <1>2, <1>3, <1>4, <1>5 DEF MeetingInv, Sessions, Logins, Listed
<1>7. \A u : ~ Attends(u)' /\ ~ Opens(p, u) /\ Closes(p, u)
  BY <1>1, <1>2 DEF Attends, Opens, Closes, Closing
<1> QED
  BY <1>1, <1>2, <1>3, <1>5, <1>6, <1>7, TellKeeps

\* The session ends: QUITSERVER, or a login elsewhere.
LEMMA SessionEndKeeps == ASSUME MeetingInv, VideoChatTypeOK', ServerQuit \/ ServerRelogin PROVE MeetingInv'
<1>1. PICK p \in ToClient : toClient' = Append(toClient, p) /\ p.cmd \in {"USERQUIT", "RELOGIN"}
  BY PacketTypes DEF ServerQuit, ServerRelogin, Tell
<1>2. session /\ ~ session' /\ attends' = NoMeeting
  BY DEF ServerQuit, ServerRelogin
<1>3. /\ UNCHANGED <<link, told, app, receivers, userInfoList, stranded, peers, members>>
      /\ Has(toServer', "LOGINSERVER") => Has(toServer, "LOGINSERVER")
      /\ LoginFirst(toServer) => LoginFirst(toServer')
      /\ link \in {"up", "busy"}
  <2>1. CASE ServerQuit
    BY <2>1, ServerQueue DEF ServerQuit
  <2>2. CASE ServerRelogin
    BY <1>2, <2>2 DEF ServerRelogin, ClientVars, appVars, mediaVars, MeetingInv, Sessions
  <2> QED
    BY <2>1, <2>2
<1>4. EndPending' /\ Leaving'
  BY <1>1, <1>3, TellMore DEF Leaving
<1>5. Sessions' /\ Logins' /\ Listed'
  BY <1>2, <1>3, <1>4 DEF MeetingInv, Sessions, Logins, Listed
<1>6. \A u : ~ Attends(u)' /\ ~ Opens(p, u) /\ Closes(p, u)
  BY <1>1, <1>2 DEF Attends, Opens, Closes, Closing
<1> QED
  BY <1>1, <1>2, <1>3, <1>4, <1>5, <1>6, TellKeeps

\* What changes neither the queues nor the client's meeting.
LEMMA UntoldKeeps ==
  ASSUME MeetingInv, VideoChatTypeOK', UNCHANGED <<ClientVars, toServer, toClient, session, attends>>,
         session => peers' = peers, \A u : Attends(u)' <=> Attends(u)
  PROVE  MeetingInv'
<1>1. UNCHANGED <<link, told, app, receivers, userInfoList, stranded>>
  BY DEF ClientVars, appVars, mediaVars
<1>2. (EndPending' <=> EndPending) /\ (Leaving' <=> Leaving) /\ (session => (EndsKnown' <=> EndsKnown))
  BY <1>1 DEF EndPending, Leaving, EndsKnown
<1>3. Sessions' /\ Logins' /\ Listed'
  BY <1>1, <1>2 DEF MeetingInv, Sessions, Logins, Listed
<1>4. Framed(toClient, attends # NoMeeting)' /\ NeverTwice' /\ InStep'
  BY <1>1, <1>2 DEF MeetingInv, NeverTwice, InStep
<1> QED
  BY <1>3, <1>4 DEF MeetingInv

LEMMA ServerIgnoresKeeps == ASSUME MeetingInv, VideoChatTypeOK', ServerIgnores PROVE MeetingInv'
<1>1. /\ ~ session /\ UNCHANGED <<link, told, app, receivers, userInfoList, stranded, toClient, session, attends, members>>
      /\ \A c : Has(toServer', c) => Has(toServer, c)
      /\ LoginFirst(toServer) => LoginFirst(toServer')
      /\ link = "up"
  BY ServerQueue DEF ServerIgnores
<1>2. attends = NoMeeting /\ (EndPending' <=> EndPending)
  BY <1>1 DEF MeetingInv, Sessions, EndPending
<1>3. Sessions' /\ Logins' /\ Listed'
  BY <1>1, <1>2 DEF MeetingInv, Sessions, Logins, Listed
<1>4. Framed(toClient, attends # NoMeeting)' /\ NeverTwice'
  BY <1>1 DEF MeetingInv, NeverTwice
<1>5. InStep'
  BY <1>1, <1>2 DEF MeetingInv, InStep, Attends
<1> QED
  BY <1>3, <1>4, <1>5 DEF MeetingInv

\* Another user logs in or out.
LEMMA PeerLogsKeeps ==
  ASSUME MeetingInv, VideoChatTypeOK', NEW u \in User, PeerLogsIn(u) \/ PeerQuits(u)
  PROVE  MeetingInv'
<1>1. UNCHANGED <<link, told, app, receivers, userInfoList, stranded, toServer, session, attends>>
  BY DEF PeerLogsIn, PeerQuits, ClientVars, appVars, mediaVars
<1>2. attends # NoMeeting => attends \in Meeting
  BY DEF MeetingInv, VideoChatTypeOK
<1>3. \A v : Attends(v)' <=> Attends(v) /\ (PeerLogsIn(u) \/ v # u)
  <2>1. CASE PeerLogsIn(u)
    BY <1>1, <2>1 DEF PeerLogsIn, Attends
  <2>2. CASE PeerQuits(u) /\ ~ PeerLogsIn(u)
    BY <1>1, <1>2, <2>2 DEF PeerQuits, Attends
  <2> QED
    BY <2>1, <2>2
<1>4. CASE ~ session
  <2>1. attends = NoMeeting /\ UNCHANGED <<ClientVars, toClient>>
    BY <1>4 DEF PeerLogsIn, PeerQuits, Hears, MeetingInv, Sessions
  <2>2. \A v : Attends(v)' <=> Attends(v)
    BY <1>1, <2>1 DEF Attends
  <2> QED
    BY <1>1, <1>4, <2>1, <2>2, UntoldKeeps
<1>5. CASE session
  <2>1. PICK p \in ToClient :
          /\ toClient' = Append(toClient, p) /\ p.user = u
          /\ p.cmd = IF PeerLogsIn(u) THEN "REMOTEUSERLOGIN" ELSE "REMOTEUSERQUIT"
    <3>1. CASE PeerLogsIn(u)
      <4>1. toClient' = Append(toClient, About("REMOTEUSERLOGIN", u))
        BY <1>5, <3>1 DEF PeerLogsIn, Hears, Tell
      <4> QED
        BY <3>1, <4>1, PacketTypes
    <3>2. CASE ~ PeerLogsIn(u)
      <4>1. toClient' = Append(toClient, About("REMOTEUSERQUIT", u))
        BY <1>5, <3>2 DEF PeerQuits, Hears, Tell
      <4> QED
        BY <3>2, <4>1, PacketTypes
    <3> QED
      BY <3>1, <3>2
  <2>2. peers' = IF PeerLogsIn(u) THEN peers \cup {u} ELSE peers \ {u}
    BY DEF PeerLogsIn, PeerQuits
  <2>3. (EndPending' <=> EndPending) /\ (EndsKnown => EndsKnown')
    <3>1. ASSUME EndsKnown, NEW v \in peers' PROVE Lists(p, v) \/ (EndsKnown /\ v \in peers /\ ~ Unlists(p, v))
      BY <2>1, <2>2, <3>1 DEF Lists, Unlists
    <3> QED
      BY <1>1, <2>1, <3>1, TellMore, TellKnown
  <2>4. (Leaving' <=> Leaving) /\ link \in {"up", "busy"}
    BY <1>1, <1>5, <2>3 DEF Leaving, MeetingInv, Sessions
  <2>5. Sessions' /\ Logins' /\ Listed'
    BY <1>1, <1>5, <2>3, <2>4 DEF MeetingInv, Sessions, Logins, Listed
  <2>6. \A v : ~ Opens(p, v) /\ (Closes(p, v) <=> ~ PeerLogsIn(u) /\ v = u)
    BY <2>1 DEF Opens, Closes, Closing
  <2>7. ~ Closing(p) /\ p.cmd \notin {"PEER_JOIN", "DESTROY"}
    BY <2>1 DEF Closing
  <2> QED
    BY <1>1, <1>3, <2>1, <2>4, <2>5, <2>6, <2>7, TellKeeps
<1> QED
  BY <1>4, <1>5

\* Another user joins or leaves a meeting.
LEMMA PeerMovesKeeps ==
  ASSUME MeetingInv, VideoChatTypeOK', NEW u \in User, NEW m \in Meeting, PeerJoins(u, m) \/ PeerExits(u, m)
  PROVE  MeetingInv'
<1>1. UNCHANGED <<link, told, app, receivers, userInfoList, stranded, toServer, session, attends, peers>>
  BY DEF PeerJoins, PeerExits, ClientVars, appVars, mediaVars
<1>2. /\ members' = [members EXCEPT ![m] = IF PeerJoins(u, m) THEN @ \cup {u} ELSE @ \ {u}]
      /\ members \in [Meeting -> SUBSET User] /\ NoMeeting \notin Meeting
  BY VideoChatAssumption DEF PeerJoins, PeerExits, MeetingInv, VideoChatTypeOK
<1>3. CASE attends # m
  <2>1. UNCHANGED <<ClientVars, toClient>>
    BY <1>3 DEF PeerJoins, PeerExits, Hears
  <2>2. \A v : Attends(v)' <=> Attends(v)
    <3>1. attends # NoMeeting => members'[attends] = members[attends]
      BY <1>2, <1>3 DEF MeetingInv, VideoChatTypeOK
    <3> QED
      BY <1>1, <3>1 DEF Attends
  <2> QED
    BY <1>1, <2>1, <2>2, UntoldKeeps
<1>4. CASE attends = m
  <2>1. PICK p \in ToClient :
          /\ toClient' = Append(toClient, p) /\ p.user = u
          /\ p.cmd = IF PeerJoins(u, m) THEN "PEER_JOIN" ELSE "PEER_EXIT"
    BY <1>4, PacketTypes DEF PeerJoins, PeerExits, Hears, Tell
  <2>2. attends # NoMeeting /\ session /\ link \in {"up", "busy"}
    BY <1>2, <1>4 DEF MeetingInv, Sessions
  <2>3. (EndPending' <=> EndPending) /\ (EndsKnown => EndsKnown')
    BY <1>1, <2>1, TellMore
  <2>4. Leaving' <=> Leaving
    BY <1>1, <2>3 DEF Leaving
  <2>5. Sessions' /\ Logins' /\ Listed'
    BY <1>1, <2>2, <2>3, <2>4 DEF MeetingInv, Sessions, Logins, Listed
  <2>6. \A v : Attends(v)' <=> IF PeerJoins(u, m) THEN Attends(v) \/ v = u ELSE Attends(v) /\ v # u
    BY <1>1, <1>2, <1>4, <2>2 DEF Attends
  <2>7. PeerJoins(u, m) => ~ Attends(u) /\ u \in peers
    BY <1>4 DEF PeerJoins, Attends
  <2>8. /\ \A v : /\ Opens(p, v) <=> PeerJoins(u, m) /\ v = u
                  /\ Closes(p, v) <=> ~ PeerJoins(u, m) /\ v = u
        /\ ~ Closing(p)
    BY <2>1 DEF Opens, Closes, Closing
  <2>9. PeerJoins(u, m) /\ ~ stranded /\ link = "up" /\ ~ Leaving => EndsKnowing(u)
    BY <2>2, <2>7 DEF MeetingInv, Listed, EndsKnown, EndsKnowing
  <2> QED
    BY <1>1, <2>1, <2>2, <2>4, <2>5, <2>6, <2>7, <2>8, <2>9, TellKeeps
<1> QED
  BY <1>3, <1>4

LEMMA DestroyKeeps == ASSUME MeetingInv, VideoChatTypeOK', Destroy PROVE MeetingInv'
<1>1. /\ UNCHANGED <<link, told, app, receivers, userInfoList, stranded, toServer, session, peers>>
      /\ attends # NoMeeting /\ attends' = NoMeeting
  BY DEF Destroy, ClientVars, appVars, mediaVars
<1>2. PICK p \in ToClient : toClient' = Append(toClient, p) /\ p.cmd = "DESTROY"
  BY PacketTypes DEF Destroy, Tell
<1>3. session /\ link \in {"up", "busy"}
  BY <1>1 DEF MeetingInv, Sessions
<1>4. (EndPending' <=> EndPending) /\ (EndsKnown => EndsKnown')
  BY <1>1, <1>2, TellMore
<1>5. Leaving' <=> Leaving
  BY <1>1, <1>4 DEF Leaving
<1>6. Sessions' /\ Logins' /\ Listed'
  BY <1>1, <1>3, <1>4, <1>5 DEF MeetingInv, Sessions, Logins, Listed
<1>7. \A u : ~ Attends(u)' /\ ~ Opens(p, u) /\ Closes(p, u)
  BY <1>1, <1>2 DEF Attends, Opens, Closes, Closing
<1> QED
  BY <1>1, <1>2, <1>3, <1>5, <1>6, <1>7, TellKeeps

-----------------------------------------------------------------------------
(* The client talks where it is.                                           *)

LEMMA TalkQueues ==
  ASSUME MeetingInv
  PROVE  /\ toClient \in Seq(ToClient) /\ toServer \in Seq(ToServer)
         /\ EndPending <=> \E cmd \in Ends : Has(toClient, cmd)
         /\ ~ InMeeting => /\ app # "join" /\ attends = NoMeeting /\ ~ Has(toServer, "JOIN")
                           /\ ~ Has(toClient, "JOINED") /\ ~ Has(toClient, "REFUSED")
<1>1. toClient \in Seq(ToClient) /\ toServer \in Seq(ToServer)
  BY DEF MeetingInv, VideoChatTypeOK
<1> QED
  BY <1>1 DEF EndPending, Ends, ExitPending, InMeeting, Has

\* What is sent and is no JOIN.
LEMMA SendsOther ==
  ASSUME MeetingInv, NEW p \in ToServer, p.cmd # "JOIN", toServer' \in {toServer, Append(toServer, p)}
  PROVE  /\ \A cmd : cmd # p.cmd => (Has(toServer', cmd) <=> Has(toServer, cmd))
         /\ \A cmd : Has(toServer, cmd) => Has(toServer', cmd)
         /\ Asked(toServer') <=> Asked(toServer)
         /\ AskedOnce(toServer) => AskedOnce(toServer')
         /\ ExitLast(toServer) => ExitLast(toServer')
         /\ \A m : OnlyTo(toServer, m) => OnlyTo(toServer', m)
<1>1. toServer \in Seq(ToServer)
  BY TalkQueues
<1>2. CASE toServer' = toServer
  BY <1>2
<1>3. CASE toServer' = Append(toServer, p)
  BY <1>1, <1>3, HasAppend, AskedAppend
<1> QED
  BY <1>2, <1>3

\* Without a session and a connection there is nothing to say.
LEMMA NothingToTalk ==
  ASSUME toServer' = <<>>, toClient' = <<>>, attends' = NoMeeting, link' \notin {"up", "busy"},
         link' = "none" => app' = "idle" /\ (stranded' \/ Closed'),
         ~ stranded' => sender' # "old" /\ (mic' => sender' = "new") /\ (app' = "join" => mtgID' = joining')
  PROVE  TalkInv'
<1>1. Beginning'
  BY DEF Beginning, Refusals
<1>2. ~ stranded' => Media'
  BY DEF Media, Has
<1>3. Unread(toClient, sender = "new")' /\ Unanswered' /\ InTouch'
  BY DEF Unread, Finds, Unanswered, ExitLast, AskedOnce, Asked, InTouch
<1> QED
  BY <1>1, <1>2, <1>3 DEF TalkInv

\* closeMediaSender and StopAllRemoteMedia leave nothing, unless a stranded login is under way.
LEMMA CloseMediaCloses ==
  ASSUME VideoInv, ~ hasty, CloseMedia
  PROVE  /\ sender' = "none" /\ receivers' = {} /\ (stranded' \/ ~ mic')
         /\ stranded' \/ ~ stranded \/ ~ InMeeting
<1>1. sender' = "none" /\ receivers' = {} /\ mic' = (mic /\ sender = "none")
      /\ stranded' = (stranded /\ (InMeeting \/ mic'))
  BY DEF CloseMedia, CloseMediaSender
<1>2. ~ stranded => (mic => sender = "new")
  BY DEF VideoInv, TalkInv, Media
<1> QED
  BY <1>1, <1>2

LEMMA EndsTalk ==
  ASSUME VideoInv, ~ hasty, Login \/ Disconnected \/ LoginRefused \/ SessionOver \/ Drop
  PROVE  TalkInv'
<1>1. ~ stranded => Media
  BY DEF VideoInv, TalkInv
<1>2. link \notin {"up", "busy"} => toServer = <<>> /\ toClient = <<>> /\ attends = NoMeeting
  BY DEF VideoInv, MeetingInv, Sessions
<1>3. CASE Login
  BY <1>2, <1>3, NothingToTalk DEF Login, serverVars
<1>4. CASE Disconnected
  <2>1. toServer' = <<>> /\ toClient' = <<>> /\ attends' = NoMeeting /\ link' = "down"
        /\ UNCHANGED <<app, joining, mtgID>> /\ CloseMedia
    BY <1>2, <1>4 DEF Disconnected, serverVars
  <2>2. sender' = "none" /\ (stranded' \/ ~ mic') /\ (stranded' \/ ~ stranded \/ ~ InMeeting)
    BY <2>1, CloseMediaCloses
  <2>3. ~ stranded' /\ app = "join" => mtgID = joining
    BY <1>1, <2>2 DEF InMeeting, Media
  <2> QED
    BY <2>1, <2>2, <2>3, NothingToTalk
<1>5. CASE LoginRefused
  <2>1. toServer' = <<>> /\ toClient' = <<>> /\ attends' = NoMeeting /\ link' = "none" /\ app' = "idle"
        /\ toClient # <<>> /\ Head(toClient).cmd = "LOGINREFUSED" /\ UNCHANGED mediaVars /\ app = "idle"
    BY <1>5 DEF LoginRefused, Teardown
  <2>2. stranded \/ Closed
    <3>1. Head(toClient) = toClient[1] /\ 1 \in 1 .. Len(toClient) /\ 1 .. 1 - 1 = {}
      BY <2>1, TalkQueues, TailIs DEF VideoInv
    <3> QED
      BY <2>1, <3>1 DEF VideoInv, TalkInv, Beginning, Refusals
  <2>3. ~ stranded' => sender' # "old" /\ (mic' => sender' = "new")
    BY <1>1, <2>1 DEF Media, mediaVars
  <2> QED
    BY <2>1, <2>2, <2>3, NothingToTalk DEF Closed, mediaVars
<1>6. CASE SessionOver
  <2>1. toServer' = <<>> /\ toClient' = <<>> /\ attends' = NoMeeting /\ link' = "none" /\ app' = "idle" /\ CloseMedia
    BY <1>6 DEF SessionOver, Teardown
  <2>2. sender' = "none" /\ receivers' = {} /\ (stranded' \/ ~ mic')
    BY <2>1, CloseMediaCloses
  <2> QED
    BY <2>1, <2>2, NothingToTalk DEF Closed
<1>7. CASE Drop
  <2>1. toServer' = <<>> /\ toClient' = <<>> /\ attends' = NoMeeting /\ link' = "lost"
        /\ UNCHANGED <<app, joining, mtgID, stranded, mic, sender>>
    BY <1>7 DEF Drop, appVars, mediaVars
  <2> QED
    BY <1>1, <2>1, NothingToTalk DEF Media
<1> QED
  BY <1>3, <1>4, <1>5, <1>6, <1>7

\* What the handlers do that close nothing: the answer to a JOIN finds the sender.
LEMMA ReadTalks ==
  ASSUME VideoInv, ~ hasty, link = "up", toClient # <<>>, toClient' = Tail(toClient),
         Head(toClient).cmd \notin Ends, Head(toClient).cmd \notin ClosesSender,
         UNCHANGED <<link, app, joining, mtgID, sender, stranded, session, attends>>,
         mic' => mic \/ Head(toClient).cmd = "JOINED",
         toServer' \in {toServer, Append(toServer, Packet("GETUSERLIST"))}
  PROVE  TalkInv'
<1> DEFINE h == Head(toClient)
           q == toServer
<1>1. /\ toClient \in Seq(ToClient) /\ toServer \in Seq(ToServer) /\ h = toClient[1] /\ 1 \in 1 .. Len(toClient)
      /\ \A cmd : Has(toClient, cmd) <=> Has(toClient', cmd) \/ h.cmd = cmd
  BY TalkQueues, TailIs, HasTail DEF VideoInv
<1>2. /\ \A cmd : cmd # "GETUSERLIST" => (Has(q', cmd) <=> Has(q, cmd))
      /\ (Asked(q') <=> Asked(q)) /\ (AskedOnce(q) => AskedOnce(q')) /\ (ExitLast(q) => ExitLast(q'))
      /\ \A m : OnlyTo(q, m) => OnlyTo(q', m)
  BY PacketTypes, SendsOther DEF VideoInv
<1>3. (EndPending' <=> EndPending) /\ (Leaving' <=> Leaving) /\ (EndPending <=> \E cmd \in Ends : Has(toClient, cmd))
  BY <1>1, <1>2, TalkQueues DEF EndPending, Leaving, Ends, VideoInv
<1>4. ExitPending' <=> ExitPending
  BY <1>1, <1>2 DEF ExitPending, Has, ClosesSender
<1>5. Beginning /\ (~ stranded => Media /\ Unread(toClient, sender = "new") /\ Unanswered /\ InTouch)
  BY DEF VideoInv, TalkInv
<1>6. Beginning'
  <2>1. Refusals(toClient', (~ told /\ (stranded \/ (Closed /\ app = "idle")))')
    BY <1>1, <1>5, RefusalsTail DEF Beginning
  <2> QED
    BY <1>3, <1>5, <2>1 DEF Beginning
<1>7. ASSUME ~ stranded PROVE Media' /\ Unread(toClient, sender = "new")' /\ Unanswered' /\ InTouch'
  <2>1. h.cmd = "JOINED" => sender = "new"
    <3>1. \A j \in 1 .. 1 - 1 : FALSE
      OBVIOUS
    <3> QED
      BY <1>1, <1>5, <1>7, <3>1 DEF Unread, Finds, FindsSender
  <2>2. Media'
    BY <1>1, <1>2, <1>5, <1>7, <2>1 DEF Media
  <2>3. Unread(toClient, sender = "new")'
    BY <1>1, <1>5, <1>7, FindsTail DEF Unread
  <2>4. Unanswered'
    BY <1>1, <1>2, <1>3, <1>5, <1>7 DEF Unanswered
  <2>5. InTouch'
    BY <1>1, <1>2, <1>3, <1>4, <1>5, <1>7 DEF InTouch, ClosesSender
  <2> QED
    BY <2>2, <2>3, <2>4, <2>5
<1> QED
  BY <1>6, <1>7 DEF TalkInv

LEMMA HandlersTalk ==
  ASSUME VideoInv, ~ hasty,
         LoginServered \/ RemoteUserLogin \/ RemoteUserQuit \/ UpdateUserList \/ MtgJoined \/ PeerJoin \/ PeerExit
  PROVE  TalkInv'
<1>1. /\ link = "up" /\ toClient # <<>> /\ toClient' = Tail(toClient)
      /\ UNCHANGED <<link, app, joining, mtgID, sender, stranded, session, attends>>
  BY DEF LoginServered, RemoteUserLogin, RemoteUserQuit, UpdateUserList, MtgJoined, PeerJoin, PeerExit,
     Receives, appVars, mediaVars, serverVars
<1>2. Head(toClient).cmd \notin Ends /\ Head(toClient).cmd \notin ClosesSender
  BY DEF LoginServered, RemoteUserLogin, RemoteUserQuit, UpdateUserList, MtgJoined, PeerJoin, PeerExit,
     Receives, Ends, ClosesSender
<1>3. mic' => mic \/ Head(toClient).cmd = "JOINED"
  BY DEF LoginServered, RemoteUserLogin, RemoteUserQuit, UpdateUserList, MtgJoined, PeerJoin, PeerExit,
     Receives, mediaVars
<1>4. toServer' \in {toServer, Append(toServer, Packet("GETUSERLIST"))}
  BY DEF LoginServered, RemoteUserLogin, RemoteUserQuit, UpdateUserList, MtgJoined, PeerJoin, PeerExit, Sent
<1> QED
  BY <1>1, <1>2, <1>3, <1>4, ReadTalks

\* What a handler leaves that closes the sender: nothing is asked for, and nothing finds it.
LEMMA ClosesTalk == ASSUME VideoInv, ~ hasty, MtgRefused \/ MtgExited \/ MtgDestroyed PROVE TalkInv'
<1> DEFINE q == toClient
           n == Len(q)
<1>1. /\ link = "up" /\ q # <<>> /\ q' = Tail(q) /\ Head(q).cmd \in ClosesSender
      /\ UNCHANGED <<link, app, joining, session, attends, toServer>>
      /\ mtgID' = mtgID \/ Head(q).cmd = "EXITED"
  BY DEF MtgRefused, MtgExited, MtgDestroyed, Receives, ClosesSender, appVars, serverVars
<1>2. Beginning /\ (~ stranded => Media /\ Unread(q, sender = "new") /\ Unanswered /\ InTouch)
  BY DEF VideoInv, TalkInv
<1>3. sender' = "none" /\ (stranded' \/ ~ mic') /\ (stranded' \/ ~ stranded \/ (~ InMeeting /\ Closing(Head(q))))
  <2>1. CASE MtgRefused
    <3>1. sender' = "none" /\ mic' = (mic /\ sender = "none") /\ stranded' = stranded
      BY <2>1 DEF MtgRefused, CloseMediaSender
    <3>2. ~ stranded => (mic => sender = "new")
      BY <1>2 DEF Media
    <3> QED
      BY <3>1, <3>2
  <2>2. CASE MtgExited \/ MtgDestroyed
    <3>1. CloseMedia /\ Closing(Head(q))
      BY <2>2 DEF MtgExited, MtgDestroyed, Receives, Closing
    <3> QED
      BY <3>1, CloseMediaCloses
  <2> QED
    BY <2>1, <2>2
<1>4. /\ q \in Seq(ToClient) /\ Head(q) = q[1] /\ n \in Nat /\ n > 0 /\ Len(q') = n - 1
      /\ \A i \in 1 .. n - 1 : q'[i] = q[i + 1]
      /\ \A cmd : Has(q, cmd) <=> Has(q', cmd) \/ Head(q).cmd = cmd
  <2>1. q \in Seq(ToClient)
    BY TalkQueues DEF VideoInv
  <2> QED
    BY <1>1, <2>1, TailIs, HasTail
<1>5. (EndPending' <=> EndPending) /\ (Leaving' <=> Leaving) /\ (EndPending <=> \E cmd \in Ends : Has(q, cmd))
  BY <1>1, <1>4, TalkQueues DEF EndPending, Leaving, Ends, ClosesSender, VideoInv
<1>6. Head(q).cmd \notin Ends
  BY <1>1 DEF Ends, ClosesSender
<1>7. Beginning'
  <2>1. Refusals(q', (~ told /\ (stranded \/ (Closed /\ app = "idle")))')
    BY <1>1, <1>2, <1>4, <1>6, RefusalsTail DEF Beginning
  <2> QED
    BY <1>1, <1>2, <1>5, <2>1 DEF Beginning
<1>8. ~ stranded' /\ ~ EndPending => attends = NoMeeting /\ ~ Asked(toServer)
  <2>1. ~ stranded /\ ~ EndPending => attends = NoMeeting /\ ~ Asked(toServer)
    BY <1>1, <1>2, <1>4 DEF Unanswered
  <2>2. ~ InMeeting => attends = NoMeeting /\ ~ Asked(toServer)
    BY TalkQueues, AskedIs DEF VideoInv
  <2> QED
    BY <1>3, <2>1, <2>2
<1>9. \A k \in 1 .. n - 1 : k + 1 \in 1 .. n /\ 1 \in 1 .. (k + 1) - 1 /\ \A j \in 1 .. (k + 1) - 1 : j \in 1 .. n
  BY <1>4
<1>10. ASSUME ~ InMeeting, Closing(Head(q)), NEW k \in 1 .. n - 1 PROVE q'[k].cmd \notin FindsSender
  <2>1. ~ Has(q, "JOINED") /\ ~ Has(q, "REFUSED")
    BY <1>10, TalkQueues DEF VideoInv
  <2>2. 1 \in 1 .. n /\ k + 1 \in 1 + 1 .. n /\ \A j \in 1 + 1 .. (k + 1) - 1 : j \in 1 .. n
    BY <1>4
  <2>3. q[k + 1].cmd \notin {"DESTROY", "PEER_JOIN"}
    BY <1>4, <1>10, <2>1, <2>2 DEF VideoInv, MeetingInv, Framed, Has
  <2> QED
    BY <1>4, <1>9, <2>1, <2>3 DEF FindsSender, Has
<1>11. ASSUME ~ stranded', ~ EndPending, NEW k \in 1 .. n - 1 PROVE q'[k].cmd \notin FindsSender
  <2>1. CASE ~ stranded
    <3>1. \A j \in 1 .. (k + 1) - 1 : q[j].cmd \notin Ends
      BY <1>5, <1>9, <1>11 DEF Has
    <3> QED
      BY <1>1, <1>2, <1>4, <1>9, <2>1, <3>1 DEF Unread, Finds
  <2> QED
    BY <1>3, <1>10, <1>11, <2>1
<1>12. ASSUME ~ stranded' PROVE Media' /\ Unread(q, sender = "new")' /\ Unanswered' /\ InTouch'
  <2>1. Media'
    <3>1. ~ stranded /\ app = "join" => Head(q).cmd # "EXITED"
      BY <1>2, <1>4 DEF Media
    <3>2. ~ InMeeting => app # "join"
      BY TalkQueues DEF VideoInv
    <3> QED
      BY <1>1, <1>2, <1>3, <1>4, <1>12, <3>1, <3>2 DEF Media
  <2>2. Unread(q, sender = "new")'
    <3>1. CASE ~ stranded
      BY <1>1, <1>2, <1>4, <1>6, <3>1, FindsTail DEF Unread
    <3>2. CASE ~ InMeeting /\ Closing(Head(q))
      BY <1>4, <1>10, <3>2 DEF Unread, Finds
    <3> QED
      BY <1>3, <1>12, <3>1, <3>2
  <2>3. Unanswered'
    <3>1. ExitLast(toServer) /\ (~ EndPending => AskedOnce(toServer))
      <4>1. ~ InMeeting => ~ Has(toServer, "JOIN") /\ toServer \in Seq(ToServer)
        BY TalkQueues DEF VideoInv
      <4> QED
        BY <1>2, <1>3, <1>12, <4>1, AskedIs DEF Unanswered
    <3> QED
      BY <1>1, <1>5, <1>8, <1>12, <3>1 DEF Unanswered
  <2>4. InTouch'
    <3> SUFFICES ASSUME ~ Leaving PROVE InTouch'
      BY <1>5 DEF InTouch
    <3>1. attends = NoMeeting /\ ~ Has(toServer, "JOIN") /\ OnlyTo(toServer, mtgID')
      <4>1. toServer \in Seq(ToServer) /\ ~ Has(toServer, "QUITSERVER") /\ ~ EndPending
        BY TalkQueues DEF VideoInv, Leaving
      <4> QED
        BY <1>8, <1>12, <4>1, AskedIs
    <3>2. ~ Has(q', "REFUSED") /\ ~ Has(q', "DESTROY")
      BY <1>4, <1>11, <1>12 DEF Has, FindsSender, Leaving
    <3> QED
      BY <1>1, <1>3, <3>1, <3>2 DEF InTouch
  <2> QED
    BY <2>1, <2>2, <2>3, <2>4
<1> QED
  BY <1>7, <1>12 DEF TalkInv

\* A login that strands nothing: nothing is open, asked for or unread.
LEMMA SendLoginServerTalks ==
  ASSUME VideoInv, ~ hasty, SendLoginServer, link \in {"connecting", "busy", "lost", "down"}
  PROVE  TalkInv'
<1>1. /\ toServer' = Append(toServer, Packet("LOGINSERVER"))
      /\ link' = "up" /\ told' = FALSE /\ mtgID' = NoMeeting
      /\ sender' = (IF sender = "none" THEN "none" ELSE "old")
      /\ stranded' = (stranded \/ InMeeting \/ sender # "none" \/ receivers # {})
      /\ UNCHANGED <<app, joining, mic, receivers, toClient, session, attends>>
  BY DEF SendLoginServer, serverVars
<1>2. Beginning /\ (~ stranded => Media /\ Unread(toClient, sender = "new"))
  BY DEF VideoInv, TalkInv
<1>3. ~ stranded' => ~ stranded /\ ~ InMeeting /\ sender = "none" /\ ~ mic /\ receivers = {}
  <2>1. ~ stranded => (mic => sender = "new")
    BY <1>2 DEF Media
  <2> QED
    BY <1>1, <2>1
<1>4. (EndPending' <=> EndPending) /\ (EndPending <=> \E cmd \in Ends : Has(toClient, cmd))
  BY <1>1, TalkQueues DEF EndPending, VideoInv
<1>5. link # "busy" => toClient = <<>>
  BY DEF VideoInv, MeetingInv, Sessions
<1>6. Beginning'
  <2>1. ~ session /\ ~ EndPending => toClient = <<>>
    BY <1>2, <1>5 DEF Beginning
  <2>2. Refusals(toClient, (~ told /\ (stranded \/ (Closed /\ app = "idle")))')
    <3>1. ~ told /\ (stranded \/ (Closed /\ app = "idle")) => (~ told /\ (stranded \/ (Closed /\ app = "idle")))'
      BY <1>1 DEF Closed
    <3> QED
      BY <1>2, <3>1 DEF Beginning, Refusals
  <2>3. stranded' \/ Closed'
    BY <1>1, <1>3 DEF Closed
  <2> QED
    BY <1>1, <1>4, <2>1, <2>2, <2>3 DEF Beginning
<1>7. ASSUME ~ stranded' PROVE Media' /\ Unread(toClient, sender = "new")' /\ Unanswered' /\ InTouch'
  <2>1. attends = NoMeeting /\ app # "join" /\ ~ Has(toServer, "JOIN") /\ ~ Has(toClient, "REFUSED")
    BY <1>3, <1>7, TalkQueues DEF VideoInv
  <2>2. ~ Has(toServer', "JOIN") /\ toServer' \in Seq(ToServer)
    <3>1. toServer \in Seq(ToServer) /\ Packet("LOGINSERVER") \in ToServer /\ Packet("LOGINSERVER").cmd = "LOGINSERVER"
      BY PacketTypes, TalkQueues DEF VideoInv
    <3> QED
      BY <1>1, <2>1, <3>1, HasAppend, AppendIs
  <2>3. Media'
    BY <1>1, <1>3, <1>7, <2>1 DEF Media
  <2>4. Unread(toClient, sender = "new")'
    BY <1>1, <1>2, <1>3, <1>7 DEF Unread, Finds
  <2>5. Unanswered'
    BY <1>1, <2>1, <2>2, AskedIs DEF Unanswered
  <2>6. ~ EndPending => ~ Has(toClient, "DESTROY")
    <3>1. \A k \in 1 .. Len(toClient) : \A j \in 1 .. k - 1 : j \in 1 .. Len(toClient)
      <4>1. Len(toClient) \in Nat
        BY TalkQueues DEF VideoInv
      <4> QED
        BY <4>1
    <3> QED
      BY <1>2, <1>3, <1>4, <1>7, <3>1 DEF Unread, Finds, FindsSender, Has
  <2>7. InTouch'
    BY <1>1, <1>3, <1>4, <1>7, <2>1, <2>2, <2>6, AskedIs DEF InTouch, Leaving
  <2> QED
    BY <2>3, <2>4, <2>5, <2>7
<1> QED
  BY <1>6, <1>7 DEF TalkInv

\* The calls, but for those that join.
LEMMA OtherCallsTalk ==
  ASSUME VideoInv, ~ hasty, ExitMtg \/ LogoutServer \/ Microphone \/ Busy
  PROVE  TalkInv'
<1>1. /\ UNCHANGED <<app, joining, sender, receivers, stranded, toClient, session, attends>>
      /\ told' => told
      /\ link' = link \/ (link' = "busy" /\ link = "up")
      /\ mic' => mic \/ sender # "none"
      /\ app = "join" => UNCHANGED <<mtgID, toServer>>
  BY DEF ExitMtg, LogoutServer, Microphone, LocalAudio, Busy, appVars, mediaVars, serverVars
<1>2. PICK p \in ToServer :
        /\ p.cmd = (IF ExitMtg THEN "EXIT" ELSE "QUITSERVER") /\ toServer' \in {toServer, Append(toServer, p)}
        /\ link = "up" /\ (ExitMtg \/ LogoutServer) => toServer' = Append(toServer, p)
  <2>1. CASE ExitMtg
    BY <2>1, PacketTypes DEF ExitMtg, Sent
  <2>2. CASE LogoutServer /\ ~ ExitMtg
    BY <2>2, PacketTypes DEF LogoutServer, Sent
  <2>3. CASE ~ ExitMtg /\ ~ LogoutServer
    BY <2>3, PacketTypes DEF Microphone, LocalAudio, Busy
  <2> QED
    BY <2>1, <2>2, <2>3
<1>3. /\ \A cmd : cmd # p.cmd => (Has(toServer', cmd) <=> Has(toServer, cmd))
      /\ \A cmd : Has(toServer, cmd) => Has(toServer', cmd)
      /\ Asked(toServer') <=> Asked(toServer)
      /\ AskedOnce(toServer) => AskedOnce(toServer')
      /\ ExitLast(toServer) => ExitLast(toServer')
      /\ toServer \in Seq(ToServer)
  BY <1>2, SendsOther, TalkQueues DEF VideoInv
<1>4. Beginning /\ (~ stranded => Media /\ Unread(toClient, sender = "new") /\ Unanswered /\ InTouch)
  BY DEF VideoInv, TalkInv
<1>5. EndPending' <=> EndPending
  BY <1>1 DEF EndPending
<1>6. Beginning'
  <2>1. Closed => Closed'
    BY <1>1 DEF Closed
  <2>2. Refusals(toClient, ~ told /\ (stranded \/ (Closed /\ app = "idle")))'
    BY <1>1, <1>4, <2>1 DEF Beginning, Refusals
  <2> QED
    BY <1>1, <1>4, <1>5, <2>1, <2>2 DEF Beginning
<1>7. ASSUME ~ stranded PROVE Media' /\ Unread(toClient, sender = "new")' /\ Unanswered' /\ InTouch'
  <2>1. Media'
    <3>1. sender \in {"none", "new", "old"}
      BY DEF VideoInv, MeetingInv, VideoChatTypeOK
    <3> QED
      BY <1>1, <1>4, <1>7, <3>1 DEF Media
  <2>2. Unread(toClient, sender = "new")'
    BY <1>1, <1>4, <1>7
  <2>3. Unanswered'
    BY <1>1, <1>3, <1>4, <1>5, <1>7 DEF Unanswered
  <2>4. InTouch'
    <3>1. CASE ExitMtg
      <4> SUFFICES ASSUME link = "up", ~ Leaving PROVE InTouch'
        BY <1>1, <1>2, <1>3, <1>5, <3>1 DEF InTouch, Leaving, ExitMtg
      <4>1. Has(toServer', "EXIT") /\ app = "idle"
        BY <1>2, <1>3, <3>1, HasAppend DEF ExitMtg
      <4>2. (Has(toServer', "JOIN") <=> Has(toServer, "JOIN")) /\ ExitPending'
        BY <1>2, <1>3, <4>1 DEF ExitPending, Has
      <4> QED
        BY <1>1, <1>4, <1>7, <4>1, <4>2 DEF InTouch
    <3>2. CASE LogoutServer /\ ~ ExitMtg
      <4>1. link = "up" => Has(toServer', "QUITSERVER")
        BY <1>2, <1>3, <3>2, HasAppend
      <4> QED
        BY <1>1, <4>1 DEF InTouch, Leaving
    <3>3. CASE Microphone
      BY <1>1, <1>4, <1>7, <3>3 DEF Microphone, LocalAudio, InTouch, Leaving, EndPending, ExitPending, appVars
    <3>4. CASE Busy
      BY <3>4 DEF Busy, InTouch
    <3> QED
      BY <3>1, <3>2, <3>3, <3>4
  <2> QED
    BY <2>1, <2>2, <2>3, <2>4
<1> QED
  BY <1>1, <1>6, <1>7 DEF TalkInv

\* joinMtg.
LEMMA JoinsTalk == ASSUME VideoInv, ~ hasty', Joins PROVE TalkInv'
<1>1. /\ UNCHANGED <<link, told, mediaVars, toServer, toClient, session, attends>>
      /\ told /\ link # "none" /\ mtgID = NoMeeting /\ app' = "join" /\ mtgID' = joining' /\ ~ hasty /\ ~ ExitPending
  BY DEF Joins, JoinMtg, serverVars
<1>2. Beginning /\ (~ stranded => Media /\ Unread(toClient, sender = "new") /\ Unanswered /\ InTouch)
  BY <1>1 DEF VideoInv, TalkInv
<1>3. (EndPending' <=> EndPending) /\ (Leaving' <=> Leaving) /\ (Closed' <=> Closed)
  BY <1>1 DEF EndPending, Leaving, Closed, mediaVars
<1>4. Beginning'
  BY <1>1, <1>2, <1>3 DEF Beginning, Refusals, mediaVars
<1>5. ~ stranded => Media' /\ Unread(toClient, sender = "new")' /\ Unanswered'
  BY <1>1, <1>2, <1>3 DEF Media, Unanswered, ExitPending, Has, mediaVars
<1>6. ~ stranded => InTouch'
  <2>1. toServer \in Seq(ToServer)
    BY TalkQueues DEF VideoInv
  <2> QED
    BY <1>1, <1>2, <1>3, <2>1, AskedIs DEF InTouch, mediaVars
<1> QED
  BY <1>1, <1>4, <1>5, <1>6 DEF TalkInv, mediaVars

LEMMA JoinAsksTalks == ASSUME VideoInv, ~ hasty, JoinAsks PROVE TalkInv'
<1>1. /\ UNCHANGED <<link, told, mtgID, mic, receivers, stranded, toClient, session, attends>>
      /\ app = "join" /\ app' = "idle" /\ sender' = (IF sender = "none" THEN "new" ELSE sender)
      /\ toServer' = (IF link = "up" THEN Append(toServer, Join(joining)) ELSE toServer)
  BY DEF JoinAsks, Sent, serverVars
<1>2. /\ toServer \in Seq(ToServer) /\ joining \in Meeting /\ joining # NoMeeting
      /\ Join(joining) \in ToServer /\ Join(joining).cmd = "JOIN" /\ Join(joining).mtg = joining
      /\ sender \in {"none", "new", "old"}
  <2>1. joining \in Meeting /\ sender \in {"none", "new", "old"}
    BY <1>1 DEF VideoInv, MeetingInv, VideoChatTypeOK
  <2> QED
    BY <2>1, PacketTypes, TalkQueues, VideoChatAssumption DEF VideoInv, Join
<1>3. Beginning /\ (~ stranded => Media /\ Unread(toClient, sender = "new") /\ Unanswered /\ InTouch)
  BY DEF VideoInv, TalkInv
<1>4. (EndPending' <=> EndPending) /\ (EndPending <=> \E cmd \in Ends : Has(toClient, cmd))
  BY <1>1, TalkQueues DEF EndPending, VideoInv
<1>5. Beginning'
  <2>1. link \in {"up", "busy"} /\ ~ session /\ ~ EndPending => toClient = <<>> /\ stranded
    BY <1>1, <1>3 DEF VideoInv, MeetingInv, Sessions, Beginning
  <2>2. Refusals(toClient, ~ told /\ (stranded \/ (Closed /\ app = "idle")))'
    BY <1>1, <1>3 DEF Beginning, Refusals
  <2> QED
    BY <1>1, <1>3, <1>4, <2>1, <2>2 DEF Beginning
<1>6. ASSUME ~ stranded PROVE Media' /\ Unread(toClient, sender = "new")' /\ Unanswered' /\ InTouch'
  <2>1. sender' = "new" /\ Media'
    BY <1>1, <1>2, <1>3, <1>6 DEF Media
  <2>2. Unread(toClient, sender = "new")'
    BY <1>1, <1>3, <1>6, <2>1 DEF Unread, Finds
  <2>3. link = "up" /\ ~ Leaving =>
          /\ attends = NoMeeting /\ ~ Has(toServer, "JOIN") /\ \A cmd \in ClosesSender : ~ Has(toClient, cmd)
    BY <1>1, <1>3, <1>6 DEF InTouch, Media, ClosesSender
  <2>4. Unanswered'
    <3>1. CASE link # "up"
      BY <1>1, <1>3, <1>4, <1>6, <2>1, <3>1 DEF Unanswered
    <3>2. CASE link = "up"
      <4>1. ExitLast(toServer')
        BY <1>1, <1>2, <1>3, <1>6, <3>2, AskedAppend DEF Unanswered, Media
      <4>2. CASE Leaving
        BY <1>1, <1>2, <1>3, <1>4, <1>6, <2>1, <3>2, <4>1, <4>2, AskedAppend DEF Unanswered, Leaving
      <4>3. CASE ~ Leaving
        BY <1>1, <1>2, <1>3, <1>4, <1>6, <2>1, <2>3, <3>2, <4>1, <4>3, AskedAppend DEF Unanswered
      <4> QED
        BY <4>2, <4>3
    <3> QED
      BY <3>1, <3>2
  <2>5. InTouch'
    <3> SUFFICES ASSUME link = "up", ~ Leaving' PROVE InTouch'
      BY <1>1 DEF InTouch
    <3>1. /\ Has(toServer', "JOIN") /\ ~ Leaving
      BY <1>1, <1>2, <1>4, HasAppend DEF Leaving
    <3>2. OnlyTo(toServer', mtgID)
      BY <1>1, <1>2, <1>3, <1>6, <2>3, <3>1, AskedIs, AskedAppend DEF Media
    <3> QED
      BY <1>1, <1>2, <1>3, <1>6, <2>3, <3>1, <3>2 DEF InTouch, Media
  <2> QED
    BY <2>1, <2>2, <2>4, <2>5
<1> QED
  BY <1>1, <1>5, <1>6 DEF TalkInv

\* What one more packet leaves of what the client has and what it will find.
LEMMA TellTalks ==
  ASSUME VideoInv, ~ hasty, UNCHANGED ClientVars, NEW p \in ToClient, toClient' = Append(toClient, p),
         link \in {"up", "busy"}, \A cmd : Has(toServer', cmd) => Has(toServer, cmd),
         session' \/ p.cmd \in Ends, p.cmd = "LOGINREFUSED" => ~ session,
         p.cmd = "EXITED" => Has(toServer, "EXIT"),
         p.cmd \in FindsSender /\ ~ stranded /\ ~ EndPending => Asked(toServer) \/ attends # NoMeeting
  PROVE  /\ Beginning' /\ (~ stranded => Media' /\ Unread(toClient, sender = "new")')
         /\ \A cmd : Has(toClient', cmd) <=> Has(toClient, cmd) \/ p.cmd = cmd
         /\ EndPending' <=> EndPending \/ p.cmd \in Ends
<1>1. Beginning /\ (~ stranded => Media /\ Unread(toClient, sender = "new") /\ Unanswered)
  BY DEF VideoInv, TalkInv
<1>2. UNCHANGED <<link, told, app, joining, mtgID, sender, mic, receivers, stranded>>
  BY DEF ClientVars, appVars, mediaVars
<1>3. toClient \in Seq(ToClient) /\ \A cmd : Has(toClient', cmd) <=> Has(toClient, cmd) \/ p.cmd = cmd
  BY HasAppend, TalkQueues DEF VideoInv
<1>4. /\ EndPending' <=> EndPending \/ p.cmd \in Ends
      /\ EndPending <=> \E cmd \in Ends : Has(toClient, cmd)
  BY <1>3 DEF EndPending, Ends
<1>5. Beginning'
  <2>1. p.cmd = "LOGINREFUSED" /\ ~ EndPending =>
          toClient = <<>> /\ ~ told /\ (stranded \/ (Closed /\ app = "idle"))
    BY <1>1 DEF Beginning, VideoInv, MeetingInv, Sessions
  <2>2. Refusals(toClient', ~ told /\ (stranded \/ (Closed /\ app = "idle")))
    BY <1>1, <1>3, <1>4, <2>1, RefusalsAppend DEF Beginning
  <2>3. (Closed' <=> Closed) /\ (stranded' <=> stranded) /\ app' = app /\ (told' <=> told)
    BY <1>2 DEF Closed
  <2>4. Refusals(toClient', (~ told /\ (stranded \/ (Closed /\ app = "idle")))')
    BY <2>2, <2>3 DEF Refusals
  <2> QED
    BY <1>2, <1>4, <2>4 DEF Beginning
<1>6. ASSUME ~ stranded PROVE Media' /\ Unread(toClient, sender = "new")'
  <2>1. Media'
    BY <1>1, <1>2, <1>3, <1>6 DEF Media
  <2>2. p.cmd \in FindsSender /\ ~ EndPending => sender = "new" /\ \A cmd \in ClosesSender : ~ Has(toClient, cmd)
    BY <1>1, <1>6 DEF Unanswered
  <2>3. Unread(toClient', sender = "new")
    BY <1>1, <1>3, <1>4, <1>6, <2>2, FindsAppend DEF Unread
  <2> QED
    BY <1>2, <2>1, <2>3
<1> QED
  BY <1>3, <1>4, <1>5, <1>6

\* What is left of the requests when the server has read one.
LEMMA ServerAsked ==
  ASSUME VideoInv, NEW cmd, ServerReads(cmd)
  PROVE  /\ link = "up" /\ UNCHANGED <<ClientVars, peers, members>> /\ Has(toServer, cmd)
         /\ \A c : Has(toServer, c) <=> Has(toServer', c) \/ cmd = c
         /\ cmd # "QUITSERVER" => /\ Asked(toServer') => Asked(toServer)
                                  /\ AskedOnce(toServer) => AskedOnce(toServer')
         /\ cmd = "JOIN" => Asked(toServer) /\ (AskedOnce(toServer) => ~ Asked(toServer'))
         /\ ExitLast(toServer) => ExitLast(toServer') /\ (cmd = "EXIT" => ~ Has(toServer', "JOIN"))
         /\ \A m : OnlyTo(toServer, m) => OnlyTo(toServer', m) /\ (cmd = "JOIN" => Head(toServer).mtg = m)
<1>1. /\ toServer \in Seq(ToServer) /\ toServer # <<>> /\ Head(toServer).cmd = cmd /\ toServer' = Tail(toServer)
      /\ link = "up" /\ UNCHANGED <<ClientVars, peers, members>>
  BY TalkQueues DEF ServerReads, VideoInv
<1>2. \A c : Has(toServer, c) <=> Has(toServer', c) \/ cmd = c
  BY <1>1, HasTail
<1> QED
  BY <1>1, <1>2, AskedTail

\* What is news to no sender: of logins, of the list of users and of the other users.
LEMMA NewsTalks ==
  ASSUME VideoInv, ~ hasty, UNCHANGED ClientVars, NEW p \in ToClient, toClient' = Append(toClient, p),
         link \in {"up", "busy"}, session' \/ p.cmd \in Ends, p.cmd = "LOGINREFUSED" => ~ session,
         p.cmd \in FindsSender => attends # NoMeeting, p.cmd \notin ClosesSender, ~ stranded => attends' = attends,
         toServer' = toServer \/ ServerReads("LOGINSERVER") \/ ServerReads("GETUSERLIST")
  PROVE  TalkInv'
<1>1. UNCHANGED <<link, app, mtgID, sender, stranded>>
  BY DEF ClientVars, appVars, mediaVars
<1>2. /\ \A cmd : Has(toServer', cmd) => Has(toServer, cmd)
      /\ \A cmd \in {"EXIT", "JOIN", "QUITSERVER"} : Has(toServer', cmd) <=> Has(toServer, cmd)
      /\ Asked(toServer') => Asked(toServer)
      /\ AskedOnce(toServer) => AskedOnce(toServer')
      /\ ExitLast(toServer) => ExitLast(toServer')
      /\ \A m : OnlyTo(toServer, m) => OnlyTo(toServer', m)
  <2>1. CASE toServer' = toServer
    BY <2>1
  <2>2. CASE ServerReads("LOGINSERVER")
    BY <2>2, ServerAsked
  <2>3. CASE ServerReads("GETUSERLIST")
    BY <2>3, ServerAsked
  <2> QED
    BY <2>1, <2>2, <2>3
<1>3. /\ Beginning' /\ (~ stranded => Media' /\ Unread(toClient, sender = "new")')
      /\ \A cmd : Has(toClient', cmd) <=> Has(toClient, cmd) \/ p.cmd = cmd
      /\ EndPending' <=> EndPending \/ p.cmd \in Ends
  BY <1>2, TellTalks DEF ClosesSender
<1>4. /\ Leaving => Leaving'
      /\ ExitPending' <=> ExitPending
      /\ \A cmd \in ClosesSender : Has(toClient', cmd) <=> Has(toClient, cmd)
  BY <1>2, <1>3 DEF Leaving, ExitPending, Has, ClosesSender
<1>5. ASSUME ~ stranded PROVE Unanswered' /\ InTouch'
  <2>1. Unanswered /\ InTouch
    BY <1>5 DEF VideoInv, TalkInv
  <2>2. Unanswered'
    BY <1>1, <1>2, <1>3, <1>4, <1>5, <2>1 DEF Unanswered
  <2>3. InTouch'
    BY <1>1, <1>2, <1>4, <1>5, <2>1 DEF InTouch, ClosesSender
  <2> QED
    BY <2>2, <2>3
<1> QED
  BY <1>1, <1>3, <1>5 DEF TalkInv

LEMMA LoginNewsTalks == ASSUME VideoInv, ~ hasty, ServerLogin \/ ServerUserList PROVE TalkInv'
<1>1. CASE ServerLogin
  <2>1. PICK p \in ToClient :
          /\ toClient' = Append(toClient, p)
          /\ (p.cmd = "LOGINSERVERED" /\ session') \/ (p.cmd = "LOGINREFUSED" /\ ~ session)
    BY <1>1, PacketTypes DEF ServerLogin, Tell
  <2>2. ServerReads("LOGINSERVER") /\ attends' = NoMeeting
    BY <1>1 DEF ServerLogin
  <2>3. link = "up" /\ UNCHANGED ClientVars /\ (~ stranded => attends = NoMeeting)
    BY <2>2, ServerAsked DEF VideoInv, MeetingInv, Logins
  <2>4. /\ p.cmd \notin FindsSender /\ p.cmd \notin ClosesSender
        /\ (session' \/ p.cmd \in Ends) /\ (p.cmd = "LOGINREFUSED" => ~ session)
    BY <2>1 DEF FindsSender, ClosesSender, Ends
  <2> QED
    BY <2>1, <2>2, <2>3, <2>4, NewsTalks
<1>2. CASE ServerUserList
  <2>1. PICK p \in ToClient : toClient' = Append(toClient, p) /\ p.cmd = "UPDATEUSERLIST"
    BY <1>2, PacketTypes DEF ServerUserList, Tell, VideoInv, MeetingInv, VideoChatTypeOK
  <2>2. ServerReads("GETUSERLIST") /\ session' /\ attends' = attends
    BY <1>2 DEF ServerUserList
  <2>3. link = "up" /\ UNCHANGED ClientVars
    BY <2>2, ServerAsked
  <2>4. p.cmd \notin FindsSender /\ p.cmd \notin ClosesSender /\ p.cmd # "LOGINREFUSED"
    BY <2>1 DEF FindsSender, ClosesSender
  <2> QED
    BY <2>1, <2>2, <2>3, <2>4, NewsTalks
<1> QED
  BY <1>1, <1>2

\* The answers to JOIN and EXIT, and the end of a meeting for everybody.
LEMMA ServerJoinTalks == ASSUME VideoInv, ~ hasty, ServerJoin PROVE TalkInv'
<1>1. PICK p \in ToClient :
        /\ toClient' = Append(toClient, p)
        /\ \/ p.cmd = "JOINED" /\ attends = NoMeeting /\ attends' = Head(toServer).mtg
           \/ p.cmd = "REFUSED" /\ attends' = attends
  <2>1. Head(toServer).mtg \in Meeting
    <3>1. Head(toServer) \in ToServer /\ Head(toServer).cmd = "JOIN"
      BY DEF ServerJoin, ServerReads, VideoInv, MeetingInv, VideoChatTypeOK
    <3> QED
      BY <3>1, PacketTypes
  <2>2. members[Head(toServer).mtg] \in SUBSET User
    BY <2>1 DEF VideoInv, MeetingInv, VideoChatTypeOK
  <2> QED
    BY <2>1, <2>2, PacketTypes DEF ServerJoin, Tell
<1>2. ServerReads("JOIN") /\ session' /\ session
  BY DEF ServerJoin
<1>3. /\ link = "up" /\ UNCHANGED ClientVars /\ UNCHANGED <<link, app, mtgID, sender, stranded>> /\ Has(toServer, "JOIN")
      /\ \A cmd : Has(toServer, cmd) <=> Has(toServer', cmd) \/ "JOIN" = cmd
      /\ Asked(toServer) /\ (AskedOnce(toServer) => AskedOnce(toServer') /\ ~ Asked(toServer'))
      /\ ExitLast(toServer) => ExitLast(toServer')
      /\ \A m : OnlyTo(toServer, m) => OnlyTo(toServer', m) /\ Head(toServer).mtg = m
  BY <1>2, ServerAsked DEF ClientVars, appVars, mediaVars
<1>4. p.cmd \in FindsSender /\ p.cmd \notin Ends /\ p.cmd # "EXITED" /\ p.cmd # "LOGINREFUSED"
  BY <1>1 DEF FindsSender, Ends
<1>5. /\ Beginning' /\ (~ stranded => Media' /\ Unread(toClient, sender = "new")')
      /\ \A cmd : Has(toClient', cmd) <=> Has(toClient, cmd) \/ p.cmd = cmd
      /\ EndPending' <=> EndPending
  BY <1>1, <1>2, <1>3, <1>4, TellTalks
<1>6. ASSUME ~ stranded PROVE Unanswered' /\ InTouch'
  <2>1. Unanswered /\ InTouch
    BY <1>6 DEF VideoInv, TalkInv
  <2>2. Unanswered'
    BY <1>1, <1>3, <1>5, <2>1 DEF Unanswered, ClosesSender
  <2>3. InTouch'
    <3> SUFFICES ASSUME ~ Leaving PROVE InTouch'
      BY <1>3, <1>5 DEF InTouch, Leaving
    <3>1. ~ ((mtgID = NoMeeting /\ ~ ExitPending) \/ app = "join")
      BY <1>3, <2>1 DEF InTouch
    <3>2. ExitPending' <=> ExitPending
      BY <1>3, <1>4, <1>5 DEF ExitPending, Has
    <3>3. Head(toServer).mtg # NoMeeting
      <4>1. Head(toServer) \in ToServer /\ Head(toServer).cmd = "JOIN"
        BY <1>2 DEF ServerReads, VideoInv, MeetingInv, VideoChatTypeOK
      <4> QED
        BY <4>1, PacketTypes, VideoChatAssumption
    <3>4. p.cmd = "REFUSED" => \E cmd \in ClosesSender : Has(toClient', cmd)
      BY <1>5 DEF ClosesSender
    <3>5. ~ Has(toServer', "EXIT") => ~ Has(toServer, "EXIT")
      BY <1>3
    <3> QED
      BY <1>1, <1>3, <2>1, <3>1, <3>2, <3>3, <3>4, <3>5 DEF InTouch
  <2> QED
    BY <2>2, <2>3
<1> QED
  BY <1>3, <1>5, <1>6 DEF TalkInv

LEMMA ServerExitTalks == ASSUME VideoInv, ~ hasty, ServerExit PROVE TalkInv'
<1>1. PICK p \in ToClient : toClient' = Append(toClient, p) /\ p.cmd = "EXITED"
  BY PacketTypes DEF ServerExit, Tell
<1>2. ServerReads("EXIT") /\ session' /\ attends' = NoMeeting
  BY DEF ServerExit
<1>3. /\ link = "up" /\ UNCHANGED ClientVars /\ UNCHANGED <<link, app, mtgID, sender, stranded>> /\ Has(toServer, "EXIT")
      /\ \A cmd : Has(toServer, cmd) <=> Has(toServer', cmd) \/ "EXIT" = cmd
      /\ AskedOnce(toServer) => AskedOnce(toServer')
      /\ ExitLast(toServer) => ExitLast(toServer') /\ ~ Has(toServer', "JOIN")
      /\ toServer' \in Seq(ToServer)
  <2>1. toServer' \in Seq(ToServer)
    BY <1>2, TalkQueues DEF VideoInv, ServerReads
  <2> QED
    BY <1>2, <2>1, ServerAsked DEF ClientVars, appVars, mediaVars
<1>4. p.cmd \notin FindsSender /\ p.cmd \in ClosesSender /\ p.cmd \notin Ends
  BY <1>1 DEF FindsSender, ClosesSender, Ends
<1>5. /\ Beginning' /\ (~ stranded => Media' /\ Unread(toClient, sender = "new")')
      /\ \A cmd : Has(toClient', cmd) <=> Has(toClient, cmd) \/ p.cmd = cmd
      /\ EndPending' <=> EndPending
  BY <1>1, <1>2, <1>3, <1>4, TellTalks
<1>6. ASSUME ~ stranded PROVE Unanswered' /\ InTouch'
  <2>1. Unanswered /\ Media /\ InTouch
    BY <1>6 DEF VideoInv, TalkInv
  <2>2. ~ Asked(toServer') /\ Unanswered'
    BY <1>2, <1>3, <1>5, <2>1, AskedIs DEF Unanswered
  <2>3. ExitPending' /\ app # "join"
    BY <1>1, <1>3, <1>5, <2>1 DEF ExitPending, Has, Media
  <2>4. \E cmd \in ClosesSender : Has(toClient', cmd)
    BY <1>4, <1>5
  <2>5. OnlyTo(toServer', mtgID)
    BY <1>3, <2>1, AskedIs DEF Unanswered
  <2>6. InTouch'
    BY <1>2, <1>3, <2>3, <2>4, <2>5 DEF InTouch
  <2> QED
    BY <2>2, <2>6
<1> QED
  BY <1>3, <1>5, <1>6 DEF TalkInv

LEMMA DestroyTalks == ASSUME VideoInv, ~ hasty, Destroy PROVE TalkInv'
<1>1. PICK p \in ToClient : toClient' = Append(toClient, p) /\ p.cmd = "DESTROY"
  BY PacketTypes DEF Destroy, Tell
<1>2. /\ UNCHANGED ClientVars /\ UNCHANGED <<link, app, mtgID, sender, stranded, toServer, session>>
      /\ attends # NoMeeting /\ attends' = NoMeeting
  BY DEF Destroy, ClientVars, appVars, mediaVars
<1>3. session /\ link \in {"up", "busy"}
  BY <1>2 DEF VideoInv, MeetingInv, Sessions
<1>4. p.cmd \in FindsSender /\ p.cmd \in ClosesSender /\ p.cmd \notin Ends /\ p.cmd # "EXITED" /\ p.cmd # "LOGINREFUSED"
  BY <1>1 DEF FindsSender, ClosesSender, Ends
<1>5. /\ Beginning' /\ (~ stranded => Media' /\ Unread(toClient, sender = "new")')
      /\ \A cmd : Has(toClient', cmd) <=> Has(toClient, cmd) \/ p.cmd = cmd
      /\ EndPending' <=> EndPending
  BY <1>1, <1>2, <1>3, <1>4, TellTalks
<1>6. ASSUME ~ stranded PROVE Unanswered' /\ InTouch'
  <2>1. Unanswered /\ InTouch
    BY <1>6 DEF VideoInv, TalkInv
  <2>2. Unanswered'
    BY <1>2, <1>5, <2>1 DEF Unanswered
  <2>3. InTouch'
    <3> SUFFICES ASSUME link = "up", ~ Leaving PROVE InTouch'
      BY <1>2, <1>5 DEF InTouch, Leaving
    <3>1. ~ ((mtgID = NoMeeting /\ ~ ExitPending) \/ app = "join") /\ (~ Has(toServer, "EXIT") => OnlyTo(toServer, mtgID))
      BY <1>2, <2>1 DEF InTouch
    <3>2. ExitPending' <=> ExitPending
      BY <1>2, <1>4, <1>5 DEF ExitPending, Has
    <3>3. \E cmd \in ClosesSender : Has(toClient', cmd)
      BY <1>4, <1>5
    <3> QED
      BY <1>2, <3>1, <3>2, <3>3 DEF InTouch
  <2> QED
    BY <2>2, <2>3
<1> QED
  BY <1>2, <1>5, <1>6 DEF TalkInv

LEMMA SessionEndTalks == ASSUME VideoInv, ~ hasty, ServerQuit \/ ServerRelogin PROVE TalkInv'
<1>1. PICK p \in ToClient : toClient' = Append(toClient, p) /\ p.cmd \in {"USERQUIT", "RELOGIN"}
  BY PacketTypes DEF ServerQuit, ServerRelogin, Tell
<1>2. /\ UNCHANGED ClientVars /\ link \in {"up", "busy"}
      /\ \A cmd : Has(toServer', cmd) => Has(toServer, cmd)
      /\ ExitLast(toServer) => ExitLast(toServer')
  <2>1. CASE ServerQuit
    BY <2>1, ServerAsked DEF ServerQuit
  <2>2. CASE ServerRelogin
    BY <2>2 DEF ServerRelogin, VideoInv, MeetingInv, Sessions
  <2> QED
    BY <2>1, <2>2
<1>3. /\ p.cmd \notin FindsSender /\ p.cmd \in Ends /\ p.cmd # "EXITED" /\ p.cmd # "LOGINREFUSED"
  BY <1>1 DEF FindsSender, Ends
<1>4. Beginning' /\ (~ stranded => Media' /\ Unread(toClient, sender = "new")') /\ EndPending'
  BY <1>1, <1>2, <1>3, TellTalks
<1>5. ~ stranded => Unanswered' /\ InTouch'
  BY <1>2, <1>4 DEF VideoInv, TalkInv, Unanswered, InTouch, Leaving
<1> QED
  BY <1>2, <1>4, <1>5 DEF TalkInv, ClientVars, mediaVars

\* Whoever has no session has nothing open, or a login was stranded.
LEMMA ServerIgnoresTalks == ASSUME VideoInv, ~ hasty, ServerIgnores PROVE TalkInv'
<1>1. PICK cmd \in {"GETUSERLIST", "JOIN", "EXIT", "QUITSERVER"} : ServerReads(cmd)
  BY DEF ServerIgnores
<1>2. ~ session /\ UNCHANGED <<toClient, session, attends>> /\ attends = NoMeeting
  BY DEF ServerIgnores, VideoInv, MeetingInv, Sessions
<1>3. /\ link = "up" /\ UNCHANGED ClientVars
      /\ UNCHANGED <<link, told, app, joining, mtgID, sender, mic, receivers, stranded>>
      /\ \A c : Has(toServer', c) => Has(toServer, c)
      /\ ExitLast(toServer) => ExitLast(toServer')
      /\ toServer' \in Seq(ToServer)
  <2>1. toServer' \in Seq(ToServer)
    BY <1>1, TalkQueues DEF VideoInv, ServerReads
  <2> QED
    BY <1>1, <2>1, ServerAsked DEF ClientVars, appVars, mediaVars
<1>4. (EndPending' <=> EndPending) /\ (Closed' <=> Closed)
  BY <1>2, <1>3 DEF EndPending, Closed
<1>5. Beginning /\ (~ stranded => Media /\ Unread(toClient, sender = "new") /\ Unanswered)
  BY DEF VideoInv, TalkInv
<1>6. Beginning'
  BY <1>2, <1>3, <1>4, <1>5 DEF Beginning
<1>7. ASSUME ~ stranded PROVE Media' /\ Unread(toClient, sender = "new")' /\ Unanswered' /\ InTouch'
  <2>1. ~ EndPending => toClient = <<>> /\ sender = "none" /\ app = "idle" /\ ~ Has(toServer', "JOIN")
    BY <1>2, <1>3, <1>5, <1>7 DEF Beginning, Closed, VideoInv, MeetingInv, Sessions
  <2>2. Media' /\ Unread(toClient, sender = "new")'
    BY <1>2, <1>3, <1>5, <1>7 DEF Media
  <2>3. Unanswered'
    BY <1>2, <1>3, <1>4, <1>5, <1>7, <2>1, AskedIs DEF Unanswered
  <2>4. ~ EndPending => OnlyTo(toServer', mtgID)
    BY <1>3, <2>1, AskedIs
  <2>5. ~ EndPending => ~ Has(toClient, "REFUSED") /\ ~ Has(toClient, "DESTROY")
    BY <2>1 DEF Has
  <2>6. InTouch'
    BY <1>2, <1>3, <1>4, <2>1, <2>4, <2>5 DEF InTouch, Leaving
  <2> QED
    BY <2>2, <2>3, <2>6
<1> QED
  BY <1>3, <1>6, <1>7 DEF TalkInv

\* The other users.
LEMMA PeersTalk == ASSUME VideoInv, ~ hasty, Peers PROVE TalkInv'
<1>1. /\ UNCHANGED ClientVars /\ UNCHANGED <<toServer, session, attends>>
      /\ \/ toClient' = toClient
         \/ /\ session \/ attends # NoMeeting
            /\ \E p \in ToClient :
                 /\ toClient' = Append(toClient, p)
                 /\ p.cmd \in {"REMOTEUSERLOGIN", "REMOTEUSERQUIT", "PEER_JOIN", "PEER_EXIT"}
                 /\ p.cmd = "PEER_JOIN" => attends # NoMeeting
  <2>1. ASSUME NEW u \in User, PeerLogsIn(u) \/ PeerQuits(u)
        PROVE  \/ toClient' = toClient
               \/ session /\ \E p \in ToClient : /\ toClient' = Append(toClient, p)
                                                 /\ p.cmd \in {"REMOTEUSERLOGIN", "REMOTEUSERQUIT"}
    BY <2>1, PacketTypes DEF PeerLogsIn, PeerQuits, Hears, Tell
  <2>2. ASSUME NEW u \in User, NEW m \in Meeting, PeerJoins(u, m) \/ PeerExits(u, m)
        PROVE  \/ toClient' = toClient
               \/ attends # NoMeeting /\ \E p \in ToClient : /\ toClient' = Append(toClient, p)
                                                            /\ p.cmd \in {"PEER_JOIN", "PEER_EXIT"}
    BY <2>2, PacketTypes, VideoChatAssumption DEF PeerJoins, PeerExits, Hears, Tell
  <2>3. UNCHANGED ClientVars /\ UNCHANGED <<toServer, session, attends>>
    BY DEF Peers, PeerLogsIn, PeerQuits, PeerJoins, PeerExits
  <2> QED
    BY <2>1, <2>2, <2>3 DEF Peers
<1>2. CASE toClient' = toClient
  BY <1>1, <1>2 DEF VideoInv, TalkInv, Beginning, Media, Unanswered, InTouch, Closed, EndPending, Leaving, ExitPending,
     ClientVars, appVars, mediaVars
<1>3. CASE toClient' # toClient
  <2>1. PICK p \in ToClient :
          /\ toClient' = Append(toClient, p)
          /\ p.cmd \in {"REMOTEUSERLOGIN", "REMOTEUSERQUIT", "PEER_JOIN", "PEER_EXIT"}
          /\ p.cmd = "PEER_JOIN" => attends # NoMeeting
    BY <1>1, <1>3
  <2>2. session /\ link \in {"up", "busy"}
    BY <1>1, <1>3 DEF VideoInv, MeetingInv, Sessions
  <2>3. /\ p.cmd \in FindsSender => attends # NoMeeting
        /\ p.cmd \notin ClosesSender /\ p.cmd # "LOGINREFUSED"
    BY <2>1 DEF FindsSender, ClosesSender
  <2> QED
    BY <1>1, <2>1, <2>2, <2>3, NewsTalks
<1> QED
  BY <1>2, <1>3


-----------------------------------------------------------------------------
(* Whom the client hears.                                                  *)

LEMMA EarsQueues ==
  ASSUME VideoInv
  PROVE  /\ toClient \in Seq(ToClient) /\ toServer \in Seq(ToServer)
         /\ EndPending <=> \E cmd \in Ends : Has(toClient, cmd)
         /\ ~ hasty /\ ~ stranded => Media /\ Unread(toClient, sender = "new") /\ Unanswered /\ InTouch
BY TalkQueues DEF VideoInv, TalkInv

\* Without packets and a connection there is nothing to hear.
LEMMA NothingToHear ==
  ASSUME toClient' = <<>>, link' \notin {"up", "busy"}, ~ stranded' /\ receivers' # {} => sender' = "new"
  PROVE  EarsInv'
BY DEF EarsInv, Finds

LEMMA EndsEars ==
  ASSUME VideoInv, ~ hasty, Login \/ Disconnected \/ LoginRefused \/ SessionOver \/ Drop
  PROVE  EarsInv'
<1>1. ~ stranded /\ receivers # {} => sender = "new"
  BY DEF VideoInv, EarsInv
<1>2. link \notin {"up", "busy"} => toClient = <<>>
  BY DEF VideoInv, MeetingInv, Sessions
<1>3. CASE Login \/ Disconnected
  BY <1>2, <1>3, NothingToHear DEF Login, Disconnected, CloseMedia
<1>4. CASE LoginRefused \/ Drop
  BY <1>1, <1>4, NothingToHear DEF LoginRefused, Teardown, Drop, mediaVars
<1>5. CASE SessionOver
  BY <1>5, NothingToHear DEF SessionOver, Teardown, CloseMedia
<1> QED
  BY <1>3, <1>4, <1>5

\* What is read and closes nothing: who is opened then finds the sender.
LEMMA ReadEars ==
  ASSUME VideoInv, ~ hasty, link = "up", toClient # <<>>, toClient' = Tail(toClient),
         Head(toClient).cmd \notin Ends, Head(toClient).cmd \notin ClosesSender,
         UNCHANGED <<link, sender, stranded, attends>>,
         Head(toClient).cmd \in MeetingNews \/ receivers' \subseteq receivers
  PROVE  EarsInv'
<1> SUFFICES ASSUME ~ stranded PROVE EarsInv'
  BY DEF EarsInv
<1> DEFINE h == Head(toClient)
<1>1. /\ toClient \in Seq(ToClient) /\ h = toClient[1] /\ 1 \in 1 .. Len(toClient) /\ 1 .. 1 - 1 = {}
      /\ \A cmd : Has(toClient, cmd) <=> Has(toClient', cmd) \/ h.cmd = cmd
      /\ EndPending <=> \E cmd \in Ends : Has(toClient, cmd)
  BY EarsQueues, TailIs, HasTail
<1>2. EndPending' <=> EndPending
  BY <1>1 DEF EndPending, Ends
<1>3. /\ receivers # {} => sender = "new"
      /\ Finds(toClient, Answers, MeetingNews, receivers = {})
      /\ ~ EndPending /\ attends = NoMeeting =>
           \/ receivers = {} /\ \A cmd \in MeetingNews : ~ Has(toClient, cmd)
           \/ \E cmd \in ClosesSender : Has(toClient, cmd)
  BY DEF VideoInv, EarsInv
<1>4. receivers' # {} => sender = "new"
  <2>1. h.cmd \in MeetingNews => sender = "new"
    BY <1>1, EarsQueues DEF Unread, Finds, FindsSender, MeetingNews
  <2> QED
    BY <1>3, <2>1
<1>5. Finds(toClient', Answers, MeetingNews, receivers' = {})
  BY <1>1, <1>3, FindsTail
<1>6. ~ EndPending /\ attends = NoMeeting =>
        \/ receivers' = {} /\ \A cmd \in MeetingNews : ~ Has(toClient', cmd)
        \/ \E cmd \in ClosesSender : Has(toClient', cmd)
  BY <1>1, <1>3 DEF MeetingNews
<1> QED
  BY <1>2, <1>4, <1>5, <1>6 DEF EarsInv

LEMMA HandlersEars ==
  ASSUME VideoInv, ~ hasty,
         LoginServered \/ RemoteUserLogin \/ RemoteUserQuit \/ UpdateUserList \/ MtgJoined \/ PeerJoin \/ PeerExit
  PROVE  EarsInv'
<1>1. /\ link = "up" /\ toClient # <<>> /\ toClient' = Tail(toClient)
      /\ UNCHANGED <<link, sender, stranded, attends>>
  BY DEF LoginServered, RemoteUserLogin, RemoteUserQuit, UpdateUserList, MtgJoined, PeerJoin, PeerExit,
     Receives, appVars, mediaVars, serverVars
<1>2. Head(toClient).cmd \notin Ends /\ Head(toClient).cmd \notin ClosesSender
  BY DEF LoginServered, RemoteUserLogin, RemoteUserQuit, UpdateUserList, MtgJoined, PeerJoin, PeerExit,
     Receives, Ends, ClosesSender
<1>3. Head(toClient).cmd \in MeetingNews \/ receivers' \subseteq receivers
  BY DEF LoginServered, RemoteUserLogin, RemoteUserQuit, UpdateUserList, MtgJoined, PeerJoin, PeerExit,
     Receives, mediaVars, MeetingNews
<1> QED
  BY <1>1, <1>2, <1>3, ReadEars

\* What closes the sender leaves nobody in the ears, and no news for them.
LEMMA ClosesEars == ASSUME VideoInv, ~ hasty, MtgRefused \/ MtgExited \/ MtgDestroyed PROVE EarsInv'
<1> SUFFICES ASSUME ~ stranded' PROVE EarsInv'
  BY DEF EarsInv
<1> DEFINE q == toClient
           n == Len(q)
<1>1. /\ link = "up" /\ q # <<>> /\ q' = Tail(q) /\ Head(q).cmd \in ClosesSender
      /\ UNCHANGED <<link, attends>>
  BY DEF MtgRefused, MtgExited, MtgDestroyed, Receives, ClosesSender, serverVars
<1>2. /\ q \in Seq(ToClient) /\ n \in Nat /\ n > 0 /\ Len(q') = n - 1 /\ Head(q) = q[1]
      /\ \A i \in 1 .. n - 1 : q'[i] = q[i + 1]
      /\ \A cmd : Has(q, cmd) <=> Has(q', cmd) \/ Head(q).cmd = cmd
      /\ EndPending <=> \E cmd \in Ends : Has(q, cmd)
  BY <1>1, EarsQueues, TailIs, HasTail
<1>3. (EndPending' <=> EndPending) /\ Head(q).cmd \notin Ends
  BY <1>1, <1>2 DEF EndPending, Ends, ClosesSender
<1>4. receivers' = {} /\ (~ stranded \/ (~ InMeeting /\ Closing(Head(q))))
  <2>1. CASE MtgRefused
    <3>1. stranded' = stranded /\ receivers' = receivers /\ Head(q).cmd \in Answers /\ 1 \in 1 .. n /\ 1 .. 1 - 1 = {}
      BY <1>2, <2>1 DEF MtgRefused, Receives, Answers
    <3> QED
      BY <1>2, <3>1 DEF VideoInv, EarsInv, Finds
  <2>2. CASE MtgExited \/ MtgDestroyed
    <3>1. CloseMedia /\ Closing(Head(q))
      BY <2>2 DEF MtgExited, MtgDestroyed, Receives, Closing
    <3> QED
      BY <3>1, CloseMediaCloses
  <2> QED
    BY <2>1, <2>2
<1>5. Finds(q', Answers, MeetingNews, receivers' = {})
  <2>1. CASE ~ stranded
    <3>1. Finds(q, Answers, MeetingNews, receivers = {})
      BY <2>1 DEF VideoInv, EarsInv
    <3> QED
      BY <1>1, <1>2, <1>3, <1>4, <3>1, FindsTail
  <2>2. CASE ~ InMeeting
    <3>1. \A cmd \in Answers : ~ Has(q', cmd)
      BY <1>2, <2>2, TalkQueues DEF VideoInv, Answers
    <3> QED
      BY <3>1 DEF Finds, Has
  <2> QED
    BY <1>4, <2>1, <2>2
<1>6. ASSUME ~ EndPending, NEW k \in 1 .. n - 1 PROVE q'[k].cmd \notin MeetingNews
  <2>1. k + 1 \in 1 .. n /\ 1 \in 1 .. (k + 1) - 1 /\ \A j \in 1 .. (k + 1) - 1 : j \in 1 .. n
    BY <1>2
  <2>2. CASE ~ stranded
    <3>1. \A j \in 1 .. (k + 1) - 1 : q[j].cmd \notin Ends
      BY <1>2, <1>6, <2>1 DEF Has
    <3>2. q[k + 1].cmd \notin FindsSender
      BY <1>1, <1>2, <2>1, <2>2, <3>1, EarsQueues DEF Unread, Finds
    <3> QED
      BY <1>2, <3>2 DEF FindsSender, MeetingNews
  <2>3. CASE ~ InMeeting /\ Closing(Head(q))
    <3>1. ~ Has(q, "JOINED")
      BY <2>3, TalkQueues DEF VideoInv
    <3>2. 1 \in 1 .. n /\ k + 1 \in 1 + 1 .. n /\ \A j \in 1 + 1 .. (k + 1) - 1 : j \in 1 .. n
      BY <1>2
    <3>3. q[k + 1].cmd # "PEER_JOIN"
      BY <1>2, <2>3, <3>1, <3>2 DEF VideoInv, MeetingInv, Framed, Has
    <3> QED
      BY <1>2, <2>1, <3>1, <3>3 DEF MeetingNews, Has
  <2> QED
    BY <1>4, <2>2, <2>3
<1>7. ~ EndPending => \A cmd \in MeetingNews : ~ Has(q', cmd)
  BY <1>2, <1>6 DEF Has
<1> QED
  BY <1>3, <1>4, <1>5, <1>7 DEF EarsInv

\* A login that strands nothing.
LEMMA SendLoginServerEars ==
  ASSUME VideoInv, ~ hasty, SendLoginServer, link \in {"connecting", "busy", "lost", "down"}
  PROVE  EarsInv'
<1> SUFFICES ASSUME ~ stranded' PROVE EarsInv'
  BY DEF EarsInv
<1>1. /\ link' = "up" /\ UNCHANGED <<receivers, toClient, attends>>
      /\ ~ stranded /\ receivers = {}
  BY DEF SendLoginServer, serverVars
<1>2. link # "busy" => toClient = <<>>
  BY DEF VideoInv, MeetingInv, Sessions
<1>3. EarsInv /\ (EndPending' <=> EndPending)
  BY <1>1 DEF VideoInv, EndPending
<1> QED
  BY <1>1, <1>2, <1>3 DEF EarsInv, Has

\* The calls change nothing of it.
LEMMA CallsEars ==
  ASSUME VideoInv, ~ hasty, Joins \/ JoinAsks \/ ExitMtg \/ LogoutServer \/ Microphone \/ Busy
  PROVE  EarsInv'
<1>1. /\ UNCHANGED <<receivers, stranded, toClient, attends>>
      /\ sender = "new" => sender' = "new"
      /\ link' \in {"up", "busy"} => link \in {"up", "busy"}
  BY DEF Joins, JoinMtg, JoinAsks, ExitMtg, LogoutServer, Microphone, LocalAudio, Busy, mediaVars, serverVars
<1>2. EarsInv /\ (EndPending' <=> EndPending)
  BY <1>1 DEF VideoInv, EndPending
<1> QED
  BY <1>1, <1>2 DEF EarsInv

\* What the server says: an answer is for who hears nobody, and who comes, comes to the meeting.
LEMMA TellEars ==
  ASSUME VideoInv, ~ hasty, UNCHANGED ClientVars, NEW p \in ToClient, toClient' = Append(toClient, p),
         link \in {"up", "busy"}, p.cmd \in Answers => Asked(toServer),
         \/ attends' # NoMeeting \/ p.cmd \in ClosesSender \/ p.cmd \in Ends
         \/ p.cmd \notin MeetingNews /\ (~ stranded => attends = NoMeeting)
  PROVE  EarsInv'
<1>1. UNCHANGED <<link, sender, receivers, stranded>>
  BY DEF ClientVars, mediaVars
<1> SUFFICES ASSUME ~ stranded PROVE EarsInv'
  BY <1>1 DEF EarsInv
<1>2. /\ toClient \in Seq(ToClient)
      /\ \A cmd : Has(toClient', cmd) <=> Has(toClient, cmd) \/ p.cmd = cmd
      /\ EndPending <=> \E cmd \in Ends : Has(toClient, cmd)
  BY EarsQueues, HasAppend
<1>3. EndPending' <=> EndPending \/ p.cmd \in Ends
  BY <1>2 DEF EndPending, Ends
<1>4. /\ receivers # {} => sender = "new"
      /\ Finds(toClient, Answers, MeetingNews, receivers = {})
      /\ ~ EndPending /\ attends = NoMeeting =>
           \/ receivers = {} /\ \A cmd \in MeetingNews : ~ Has(toClient, cmd)
           \/ \E cmd \in ClosesSender : Has(toClient, cmd)
  BY DEF VideoInv, EarsInv
<1>5. p.cmd \in Answers /\ ~ EndPending => receivers = {} /\ \A cmd \in MeetingNews : ~ Has(toClient, cmd)
  BY <1>4, EarsQueues DEF Unanswered
<1>6. Finds(toClient', Answers, MeetingNews, receivers = {})
  BY <1>2, <1>4, <1>5, FindsAppend
<1>7. ~ EndPending' /\ attends' = NoMeeting =>
        \/ receivers = {} /\ \A cmd \in MeetingNews : ~ Has(toClient', cmd)
        \/ \E cmd \in ClosesSender : Has(toClient', cmd)
  BY <1>2, <1>3, <1>4
<1> QED
  BY <1>1, <1>4, <1>6, <1>7 DEF EarsInv

\* What nobody is told of.
LEMMA UntoldEars ==
  ASSUME VideoInv, UNCHANGED <<hasty, link, sender, receivers, stranded, toClient, attends>>
  PROVE  EarsInv'
BY DEF VideoInv, EarsInv, EndPending

LEMMA ServerEars ==
  ASSUME VideoInv, ~ hasty, UNCHANGED hasty, ServerAnswers \/ ServerRelogin \/ Destroy
  PROVE  EarsInv'
<1>1. \A cmd : ServerReads(cmd) => link = "up" /\ UNCHANGED ClientVars /\ Has(toServer, cmd)
                                   /\ (cmd = "JOIN" => Asked(toServer))
  BY ServerAsked
<1>2. session \/ attends # NoMeeting => link \in {"up", "busy"}
  BY DEF VideoInv, MeetingInv, Sessions
<1>3. CASE ServerLogin
  <2>1. /\ \E p \in ToClient : toClient' = Append(toClient, p) /\ p.cmd \in {"LOGINSERVERED", "LOGINREFUSED"}
        /\ ServerReads("LOGINSERVER")
    BY <1>3, PacketTypes DEF ServerLogin, Tell
  <2>2. ~ stranded => attends = NoMeeting
    BY <1>1, <2>1 DEF VideoInv, MeetingInv, Logins
  <2> QED
    BY <1>1, <2>1, <2>2, TellEars DEF Answers, MeetingNews
<1>4. CASE ServerUserList
  <2>1. /\ \E p \in ToClient : toClient' = Append(toClient, p) /\ p.cmd = "UPDATEUSERLIST"
        /\ ServerReads("GETUSERLIST") /\ attends' = attends
    <3>1. peers \subseteq User
      BY DEF VideoInv, MeetingInv, VideoChatTypeOK
    <3> QED
      BY <1>4, <3>1, PacketTypes DEF ServerUserList, Tell
  <2> QED
    BY <1>1, <2>1, TellEars DEF Answers, MeetingNews
<1>5. CASE ServerJoin
  <2>1. /\ ServerReads("JOIN") /\ toServer \in Seq(ToServer) /\ toServer # <<>> /\ Head(toServer).cmd = "JOIN"
    BY <1>5, EarsQueues DEF ServerJoin, ServerReads
  <2>2. Head(toServer).mtg \in Meeting
    BY <2>1, TailIs, PacketTypes
  <2>3. CASE attends' = Head(toServer).mtg /\ Tell(Users("JOINED", members[attends']))
    <3>1. members[attends'] \in SUBSET User
      BY <2>2, <2>3 DEF VideoInv, MeetingInv, VideoChatTypeOK
    <3>2. \E p \in ToClient : toClient' = Append(toClient, p) /\ p.cmd = "JOINED"
      BY <2>3, <3>1, PacketTypes DEF Tell
    <3> QED
      BY <1>1, <2>1, <2>2, <2>3, <3>2, TellEars, VideoChatAssumption
  <2>4. CASE Tell(Packet("REFUSED"))
    <3>1. \E p \in ToClient : toClient' = Append(toClient, p) /\ p.cmd = "REFUSED"
      BY <2>4, PacketTypes DEF Tell
    <3> QED
      BY <1>1, <2>1, <3>1, TellEars DEF ClosesSender
  <2> QED
    BY <1>5, <2>3, <2>4 DEF ServerJoin
<1>6. CASE ServerExit
  <2>1. ServerReads("EXIT") /\ \E p \in ToClient : toClient' = Append(toClient, p) /\ p.cmd = "EXITED"
    BY <1>6, PacketTypes DEF ServerExit, Tell
  <2> QED
    BY <1>1, <2>1, TellEars DEF Answers, ClosesSender
<1>7. CASE ServerQuit \/ ServerRelogin
  <2>1. /\ \E p \in ToClient : toClient' = Append(toClient, p) /\ p.cmd \in {"USERQUIT", "RELOGIN"}
        /\ session /\ (ServerReads("QUITSERVER") \/ UNCHANGED ClientVars)
    BY <1>7, PacketTypes DEF ServerQuit, ServerRelogin, Tell
  <2> QED
    BY <1>1, <1>2, <2>1, TellEars DEF Answers, Ends
<1>8. CASE ServerIgnores
  <2>1. /\ toClient' = toClient /\ attends' = attends
        /\ \E cmd \in {"GETUSERLIST", "JOIN", "EXIT", "QUITSERVER"} : ServerReads(cmd)
    BY <1>8 DEF ServerIgnores
  <2> QED
    BY <1>1, <2>1, UntoldEars DEF ClientVars, mediaVars
<1>9. CASE Destroy
  <2>1. /\ \E p \in ToClient : toClient' = Append(toClient, p) /\ p.cmd = "DESTROY"
        /\ attends # NoMeeting /\ UNCHANGED ClientVars
    BY <1>9, PacketTypes DEF Destroy, Tell
  <2> QED
    BY <1>2, <2>1, TellEars DEF Answers, ClosesSender
<1> QED
  BY <1>3, <1>4, <1>5, <1>6, <1>7, <1>8, <1>9 DEF ServerAnswers

LEMMA PeersEars == ASSUME VideoInv, ~ hasty, UNCHANGED hasty, Peers PROVE EarsInv'
<1>1. /\ UNCHANGED ClientVars /\ attends' = attends
      /\ \/ toClient' = toClient
         \/ /\ session \/ attends # NoMeeting
            /\ \E p \in ToClient :
                 /\ toClient' = Append(toClient, p)
                 /\ p.cmd \in {"REMOTEUSERLOGIN", "REMOTEUSERQUIT", "PEER_JOIN", "PEER_EXIT"}
                 /\ p.cmd = "PEER_JOIN" => attends # NoMeeting
  <2>1. ASSUME NEW u \in User, PeerLogsIn(u) \/ PeerQuits(u)
        PROVE  \/ toClient' = toClient
               \/ session /\ \E p \in ToClient : /\ toClient' = Append(toClient, p)
                                                 /\ p.cmd \in {"REMOTEUSERLOGIN", "REMOTEUSERQUIT"}
    BY <2>1, PacketTypes DEF PeerLogsIn, PeerQuits, Hears, Tell
  <2>2. ASSUME NEW u \in User, NEW m \in Meeting, PeerJoins(u, m) \/ PeerExits(u, m)
        PROVE  \/ toClient' = toClient
               \/ attends # NoMeeting /\ \E p \in ToClient : /\ toClient' = Append(toClient, p)
                                                            /\ p.cmd \in {"PEER_JOIN", "PEER_EXIT"}
    BY <2>2, PacketTypes, VideoChatAssumption DEF PeerJoins, PeerExits, Hears, Tell
  <2>3. UNCHANGED ClientVars /\ attends' = attends
    BY DEF Peers, PeerLogsIn, PeerQuits, PeerJoins, PeerExits
  <2> QED
    BY <2>1, <2>2, <2>3 DEF Peers
<1>2. CASE toClient' = toClient
  BY <1>1, <1>2, UntoldEars DEF ClientVars, mediaVars
<1>3. CASE toClient' # toClient
  <2>1. PICK p \in ToClient :
          /\ toClient' = Append(toClient, p)
          /\ p.cmd \in {"REMOTEUSERLOGIN", "REMOTEUSERQUIT", "PEER_JOIN", "PEER_EXIT"}
          /\ p.cmd = "PEER_JOIN" => attends # NoMeeting
    BY <1>1, <1>3
  <2>2. link \in {"up", "busy"}
    BY <1>1, <1>3 DEF VideoInv, MeetingInv, Sessions
  <2>3. p.cmd \notin Answers /\ (p.cmd = "PEER_JOIN" \/ p.cmd \notin MeetingNews)
    BY <2>1 DEF Answers, MeetingNews
  <2> QED
    BY <1>1, <2>1, <2>2, <2>3, TellEars
<1> QED
  BY <1>2, <1>3

LEMMA EarsNext == ASSUME VideoInv, [Next]_vars PROVE EarsInv'
<1> SUFFICES ASSUME ~ hasty' PROVE EarsInv'
  BY DEF EarsInv
<1>1. CASE UNCHANGED vars
  BY <1>1, UntoldEars DEF vars, chatVars, mediaVars, serverVars
<1>2. CASE Joins
  BY <1>2, CallsEars DEF Joins
<1>3. CASE Other /\ UNCHANGED hasty
  <2>1. ~ hasty
    BY <1>3
  <2>2. CASE Connection
    BY <2>1, <2>2, EndsEars, SendLoginServerEars DEF Connection, Connected, Reconnected, Restarted
  <2>3. CASE Handle
    BY <2>1, <2>3, HandlersEars, ClosesEars, EndsEars DEF Handle
  <2>4. CASE ServerAnswers \/ ServerRelogin \/ Destroy
    BY <1>3, <2>1, <2>4, ServerEars
  <2>5. CASE Peers
    BY <1>3, <2>1, <2>5, PeersEars
  <2>6. CASE Busy \/ Drop \/ Calls \/ Microphone
    BY <2>1, <2>6, EndsEars, CallsEars DEF Calls
  <2> QED
    BY <1>3, <2>2, <2>3, <2>4, <2>5, <2>6 DEF Other, Server
<1> QED
  BY <1>1, <1>2, <1>3 DEF Next

-----------------------------------------------------------------------------
(* The specification.                                                      *)

LEMMA MeetingInit == Init => MeetingInv
<1> SUFFICES ASSUME Init PROVE MeetingInv
  OBVIOUS
<1>1. /\ ~ session /\ attends = NoMeeting /\ app = "idle" /\ link = "none"
      /\ toServer = <<>> /\ toClient = <<>>
  BY DEF Init
<1>2. Sessions /\ Logins /\ Listed /\ Framed(toClient, attends # NoMeeting) /\ NeverTwice
  BY <1>1 DEF Sessions, Logins, LoginFirst, Has, Listed, Framed, NeverTwice
<1>3. InStep
  BY <1>1 DEF InStep, Attends
<1> QED
  BY <1>2, <1>3, InitType DEF MeetingInv

LEMMA MeetingNext == ASSUME MeetingInv, [Next]_vars PROVE MeetingInv'
<1>1. VideoChatTypeOK'
  BY NextType DEF MeetingInv
<1>2. CASE UNCHANGED vars
  <2>1. UNCHANGED <<ClientVars, toServer, toClient, session, attends, peers, members>>
    BY <1>2 DEF vars, chatVars, ClientVars, serverVars
  <2> QED
    BY <1>1, <2>1, UntoldKeeps DEF Attends
<1>3. CASE Connection
  <2>1. CASE Disconnected
    BY <1>1, <2>1, EndsKeep
  <2>2. CASE Connected \/ Reconnected \/ Restarted
    BY <1>1, <2>2, SendLoginServerKeeps DEF Connected, Reconnected, Restarted
  <2> QED
    BY <1>3, <2>1, <2>2 DEF Connection
<1>4. CASE Handle
  BY <1>1, <1>4, LoginServeredKeeps, EndsKeep, UserHandlersKeep, MeetingHandlersKeep DEF Handle
<1>5. CASE ServerAnswers
  BY <1>1, <1>5, ServerLoginKeeps, ServerUserListKeeps, ServerJoinKeeps, ServerExitKeeps, SessionEndKeeps,
     ServerIgnoresKeeps DEF ServerAnswers
<1>6. CASE ServerRelogin \/ Peers \/ Destroy \/ Busy \/ Drop
  BY <1>1, <1>6, SessionEndKeeps, PeerLogsKeeps, PeerMovesKeeps, DestroyKeeps, BusyKeeps, EndsKeep DEF Peers
<1>7. CASE Calls \/ Joins \/ Microphone
  BY <1>1, <1>7, CallsKeep, EndsKeep DEF Calls
<1> QED
  BY <1>2, <1>3, <1>4, <1>5, <1>6, <1>7 DEF Next, Other, Server

LEMMA TalkInit == Init => TalkInv
<1> SUFFICES ASSUME Init PROVE TalkInv
  OBVIOUS
<1>1. Beginning
  BY DEF Init, Beginning, Refusals, Closed
<1>2. Media /\ Unread(toClient, sender = "new") /\ Unanswered /\ InTouch
  BY DEF Init, Media, Unread, Finds, Unanswered, ExitLast, AskedOnce, Asked, InTouch, Has
<1> QED
  BY <1>1, <1>2 DEF TalkInv

LEMMA TalkNext == ASSUME VideoInv, [Next]_vars PROVE TalkInv'
<1> SUFFICES ASSUME ~ hasty' PROVE TalkInv'
  BY DEF TalkInv
<1>1. CASE UNCHANGED vars
  BY <1>1 DEF VideoInv, TalkInv, Beginning, Media, Unanswered, InTouch, Closed, EndPending, Leaving, ExitPending,
     vars, chatVars, appVars, mediaVars, serverVars
<1>2. CASE Joins
  BY <1>2, JoinsTalk
<1>3. CASE Other /\ UNCHANGED hasty
  <2>1. ~ hasty
    BY <1>3
  <2>2. CASE Connection
    BY <2>1, <2>2, EndsTalk, SendLoginServerTalks DEF Connection, Connected, Reconnected, Restarted
  <2>3. CASE Handle
    BY <2>1, <2>3, HandlersTalk, ClosesTalk, EndsTalk DEF Handle
  <2>4. CASE ServerAnswers \/ ServerRelogin
    BY <2>1, <2>4, LoginNewsTalks, ServerJoinTalks, ServerExitTalks, SessionEndTalks, ServerIgnoresTalks DEF ServerAnswers
  <2>5. CASE Peers \/ Destroy \/ Busy \/ Drop
    BY <2>1, <2>5, PeersTalk, DestroyTalks, OtherCallsTalk, EndsTalk
  <2>6. CASE Calls \/ Microphone
    BY <2>1, <2>6, EndsTalk, JoinAsksTalks, OtherCallsTalk DEF Calls
  <2> QED
    BY <1>3, <2>2, <2>3, <2>4, <2>5, <2>6 DEF Other, Server
<1> QED
  BY <1>1, <1>2, <1>3 DEF Next

\* What the client has open, and takes for its meeting, is what the packets it has not read
\* will find (joinMtg, exitMtg, OnDispatchMtgCmdReg).
THEOREM VideoInvariant == Spec => []VideoInv
<1>1. Init => VideoInv
  <2>1. Init => EarsInv
    BY DEF Init, EarsInv, Finds
  <2> QED
    BY <2>1, MeetingInit, TalkInit DEF VideoInv
<1>2. VideoInv /\ [Next]_vars => VideoInv'
  BY MeetingNext, TalkNext, EarsNext DEF VideoInv
<1> QED
  BY <1>1, <1>2, PTL DEF Spec

LEMMA InStepHears == MeetingInv => HearsTheMeeting
<1> SUFFICES ASSUME MeetingInv, Quiet, ~ stranded
             PROVE  receivers = IF attends = NoMeeting THEN {} ELSE members[attends]
  BY DEF HearsTheMeeting
<1>1. /\ link = "up" /\ toServer = <<>> /\ toClient = <<>> /\ receivers \subseteq User
      /\ attends # NoMeeting => attends \in Meeting /\ members[attends] \subseteq User
  BY DEF Quiet, MeetingInv, VideoChatTypeOK
<1>2. ~ Leaving
  BY <1>1 DEF Leaving, EndPending, Has
<1>3. \A u \in User : ~ Attends(u) => u \notin receivers
  BY <1>1 DEF MeetingInv, InStep, ClosedAfter
<1>4. \A u \in User : Attends(u) => u \in receivers
  BY <1>1, <1>2 DEF MeetingInv, InStep, EndsOpen
<1> QED
  BY <1>1, <1>3, <1>4 DEF Attends

\* Once all news is read, whoever is in the client's meeting is heard and nobody else is
\* (OnDispatchMtgCmd, OnDispatchMtgCmdReg).
THEOREM MeetingIsHeard == Spec => []HearsTheMeeting
<1> QED
  BY VideoInvariant, InStepHears, PTL DEF VideoInv

\* Whoever is opened was not open.
LEMMA OpensTheClosed ==
  ASSUME MeetingInv, ~ stranded, MtgJoined \/ PeerJoin, NEW u \in User, Opens(Head(toClient), u)
  PROVE  u \notin receivers
<1>1. toClient \in Seq(ToClient) /\ toClient # <<>>
  BY DEF MtgJoined, PeerJoin, Receives, MeetingInv, VideoChatTypeOK
<1>2. Head(toClient) = toClient[1] /\ 1 \in 1 .. Len(toClient) /\ 1 .. 1 - 1 = {}
  BY <1>1, TailIs
<1>3. ClosedAfter(toClient, receivers, 1 - 1, u)
  BY <1>2 DEF MeetingInv, NeverTwice
<1> QED
  BY <1>2, <1>3 DEF ClosedAfter

LEMMA OpensOnce == ASSUME MeetingInv, [Next]_vars PROVE [lost' \subseteq lost \/ stranded]_vars
<1>1. CASE MtgJoined \/ PeerJoin
  <2>1. ASSUME ~ stranded, NEW u \in User, Opens(Head(toClient), u) PROVE u \notin receivers
    BY <1>1, <2>1, OpensTheClosed
  <2>2. lost' \subseteq lost \cup {u \in receivers : Opens(Head(toClient), u)}
    BY <1>1 DEF MtgJoined, PeerJoin, OpenReceivers, Receives, Opens
  <2>3. receivers \subseteq User
    BY DEF MeetingInv, VideoChatTypeOK
  <2> QED
    BY <2>1, <2>2, <2>3
<1>2. CASE UNCHANGED vars
  BY <1>2
<1>3. CASE Connection \/ Calls \/ Joins \/ Microphone
  BY <1>3 DEF Connection, Connected, Reconnected, Restarted, SendLoginServer, Disconnected, CloseMedia,
     Calls, Login, JoinAsks, ExitMtg, LogoutServer, Joins, JoinMtg, Microphone, LocalAudio, mediaVars
<1>4. CASE Handle
  <2>1. CASE LoginServered \/ LoginRefused \/ SessionOver \/ RemoteUserLogin \/ RemoteUserQuit \/ UpdateUserList
    BY <2>1 DEF LoginServered, LoginRefused, SessionOver, CloseMedia, RemoteUserLogin, RemoteUserQuit, UpdateUserList, mediaVars
  <2>2. CASE MtgRefused \/ MtgExited \/ PeerExit \/ MtgDestroyed
    BY <2>2 DEF MtgRefused, MtgExited, PeerExit, MtgDestroyed, CloseMedia
  <2> QED
    BY <1>1, <1>4, <2>1, <2>2 DEF Handle
<1>5. CASE Server
  <2>1. UNCHANGED mediaVars
    BY <1>5 DEF Server, ServerAnswers, ServerLogin, ServerUserList, ServerJoin, ServerExit, ServerQuit, ServerIgnores,
       ServerReads, ServerRelogin, Peers, PeerLogsIn, PeerQuits, PeerJoins, PeerExits, Destroy, Busy, Drop, ClientVars
  <2> QED
    BY <2>1 DEF mediaVars
<1> QED
  BY <1>1, <1>2, <1>3, <1>4, <1>5 DEF Next, Other

\* A receiver is never overwritten in m_pOpenRemoteUser_map (OnDispatchMtgCmd,
\* OnDispatchMtgCmdReg).
THEOREM NobodyOverwritten == Spec => NeverOverwritten
<1> QED
  BY VideoInvariant, OpensOnce, PTL DEF Spec, NeverOverwritten, VideoInv

LEMMA QuietTalks == VideoInv => TalksInTheMeeting /\ ClosedOutside
<1> SUFFICES ASSUME VideoInv, ~ stranded, ~ hasty PROVE TalksInTheMeeting /\ ClosedOutside
  BY DEF TalksInTheMeeting, ClosedOutside
<1>1. Beginning /\ Media /\ Unanswered /\ InTouch
  BY DEF VideoInv, TalkInv
<1>2. Quiet => /\ link = "up" /\ app = "idle" /\ \A cmd : ~ Has(toServer, cmd) /\ ~ Has(toClient, cmd)
               /\ ~ EndPending /\ ~ Leaving
  BY DEF Quiet, Has, EndPending, Leaving
<1>3. TalksInTheMeeting
  BY <1>1, <1>2 DEF TalksInTheMeeting, Unanswered, InTouch
<1>4. Quiet /\ attends = NoMeeting => Closed
  <2>1. receivers = {} \/ ~ (Quiet /\ attends = NoMeeting)
    BY InStepHears DEF VideoInv, HearsTheMeeting
  <2> QED
    BY <1>1, <1>2, <2>1 DEF Media, InTouch, Closed
<1>5. link = "none" => Closed
  BY <1>1 DEF Beginning
<1> QED
  BY <1>3, <1>4, <1>5 DEF ClosedOutside

\* In a meeting the client knows which and talks: no late answer has closed the sender of a
\* newer meeting (OnDispatchMtgCmdReg).
THEOREM MeetingIsTalkedTo == Spec => []TalksInTheMeeting
<1> QED
  BY VideoInvariant, QuietTalks, PTL

\* Outside of a meeting, and when the manager is deleted, nothing is open (closeMediaSender,
\* StopAllRemoteMedia, OnDispatchCmd).
THEOREM NothingOpenOutside == Spec => []ClosedOutside
<1> QED
  BY VideoInvariant, QuietTalks, PTL

-----------------------------------------------------------------------------
(* The client hears as Hearing.tla says.                                   *)

hearingVars == <<phase, receivers, lost>>

Offline == link # "up" \/ Leaving
Idle == sender = "none" /\ app = "idle"

\* An application that waits for its answers, and no media of an earlier login.
Calm == ~ hasty /\ ~ stranded

LEMMA PhaseIs ==
  ASSUME Calm
  PROVE  phase = IF Offline THEN "offline" ELSE IF Idle THEN "outside" ELSE IF Asking THEN "entering" ELSE "inside"
BY DEF phase, Calm, Offline, Idle

LEMMA PhaseBecomes ==
  ASSUME Calm'
  PROVE  phase' = IF Offline' THEN "offline" ELSE IF Idle' THEN "outside" ELSE IF Asking' THEN "entering" ELSE "inside"
BY DEF phase, Calm, Offline, Idle

\* While these stay, the phase does.
LEMMA PhaseStays ==
  ASSUME Calm, Calm', Offline' <=> Offline, ~ Offline => (Idle' <=> Idle) /\ (Asking' <=> Asking)
  PROVE  phase' = phase
BY PhaseIs, PhaseBecomes

\* No receiver is forgotten but with its manager, unless a login was stranded.
LEMMA LostStays == ASSUME VideoInv, [Next]_vars, ~ stranded, ~ Login PROVE lost' = lost
<1>1. lost \subseteq lost'
  <2>1. CASE UNCHANGED vars
    BY <2>1 DEF vars, chatVars, mediaVars
  <2>2. CASE Connection \/ Calls \/ Joins \/ Microphone
    BY <2>2 DEF Connection, Connected, Reconnected, Restarted, SendLoginServer, Disconnected, CloseMedia,
       Calls, JoinAsks, ExitMtg, LogoutServer, Joins, JoinMtg, Microphone, LocalAudio, mediaVars
  <2>3. CASE Handle
    BY <2>3 DEF Handle, LoginServered, LoginRefused, SessionOver, CloseMedia, RemoteUserLogin, RemoteUserQuit,
       UpdateUserList, MtgJoined, MtgRefused, MtgExited, PeerJoin, PeerExit, MtgDestroyed, OpenReceivers, mediaVars
  <2>4. CASE Server
    BY <2>4 DEF Server, ServerAnswers, ServerLogin, ServerUserList, ServerJoin, ServerExit, ServerQuit, ServerIgnores,
       ServerReads, ServerRelogin, Peers, PeerLogsIn, PeerQuits, PeerJoins, PeerExits, Destroy, Busy, Drop, ClientVars, mediaVars
  <2> QED
    BY <2>1, <2>2, <2>3, <2>4 DEF Next, Other
<1>2. lost' \subseteq lost
  <2>1. UNCHANGED vars => lost' = lost
    BY DEF vars, chatVars, mediaVars
  <2> QED
    BY <2>1, OpensOnce DEF VideoInv
<1> QED
  BY <1>1, <1>2

\* Who hears somebody, or is about to, has asked for nothing that is not answered.
LEMMA NobodyAsks ==
  ASSUME VideoInv, Calm, ~ Offline, receivers # {} \/ (toClient # <<>> /\ Head(toClient).cmd \in MeetingNews)
  PROVE  /\ sender = "new" /\ app = "idle" /\ ~ Has(toServer, "JOIN")
         /\ \A k \in 1 .. Len(toClient) : toClient[k].cmd \in Answers => k = 1 /\ receivers = {}
<1>1. /\ toClient \in Seq(ToClient) /\ toServer \in Seq(ToServer)
      /\ EndPending <=> \E cmd \in Ends : Has(toClient, cmd)
      /\ Media /\ Unread(toClient, sender = "new") /\ Unanswered /\ InTouch
  BY EarsQueues DEF Calm
<1>2. link = "up" /\ ~ Leaving /\ ~ EndPending /\ ~ Has(toServer, "QUITSERVER")
  BY DEF Offline, Leaving
<1>3. \A k \in 1 .. Len(toClient) : k \in Nat /\ \A j \in 1 .. k - 1 : j \in 1 .. Len(toClient)
  <2>1. Len(toClient) \in Nat
    BY <1>1
  <2> QED
    BY <2>1
<1>4. \A k \in 1 .. Len(toClient) : toClient[k].cmd \notin Ends
  BY <1>1, <1>2 DEF Has
<1>5. toClient # <<>> => Head(toClient) = toClient[1] /\ 1 \in 1 .. Len(toClient) /\ 1 .. 1 - 1 = {}
  BY <1>1, TailIs
<1>6. sender = "new"
  <2>1. receivers # {} => sender = "new"
    BY DEF VideoInv, EarsInv, Calm
  <2>2. toClient # <<>> /\ Head(toClient).cmd \in MeetingNews => sender = "new"
    BY <1>1, <1>5 DEF Unread, Finds, FindsSender, MeetingNews
  <2> QED
    BY <2>1, <2>2
<1>7. attends = NoMeeting => \E cmd \in ClosesSender : Has(toClient, cmd)
  <2>1. toClient # <<>> /\ Head(toClient).cmd \in MeetingNews => \E cmd \in MeetingNews : Has(toClient, cmd)
    BY <1>5 DEF Has
  <2> QED
    BY <1>2, <2>1 DEF VideoInv, EarsInv, Calm
<1>8. app = "idle"
  <2>1. app = "join" => attends = NoMeeting /\ \A cmd \in ClosesSender : ~ Has(toClient, cmd)
    BY <1>1, <1>2 DEF InTouch, Media, ClosesSender
  <2>2. app \in {"idle", "join"}
    BY DEF VideoInv, MeetingInv, VideoChatTypeOK
  <2> QED
    BY <1>7, <2>1, <2>2
<1>9. ~ Has(toServer, "JOIN")
  BY <1>1, <1>2, <1>7, AskedIs DEF Unanswered
<1>10. ASSUME NEW k \in 1 .. Len(toClient), toClient[k].cmd \in Answers PROVE k = 1 /\ receivers = {}
  <2>1. receivers = {} /\ \A j \in 1 .. k - 1 : toClient[j].cmd \notin MeetingNews
    BY <1>3, <1>4, <1>10 DEF VideoInv, EarsInv, Calm, Finds
  <2>2. 1 \in 1 .. k - 1 \/ k = 1
    BY <1>3
  <2> QED
    BY <1>3, <1>5, <2>1, <2>2
<1> QED
  BY <1>6, <1>8, <1>9, <1>10

\* What a handler leaves of the phase, when nothing ends.
LEMMA ReadPhase ==
  ASSUME VideoInv, toClient # <<>>, toClient' = Tail(toClient), UNCHANGED <<link, app>>,
         toServer' \in {toServer, Append(toServer, Packet("GETUSERLIST"))}, Head(toClient).cmd \notin Ends
  PROVE  /\ Offline' <=> Offline
         /\ Asking <=> Asking' \/ Head(toClient).cmd \in Answers
<1>1. /\ toClient \in Seq(ToClient)
      /\ \A cmd : Has(toClient, cmd) <=> Has(toClient', cmd) \/ Head(toClient).cmd = cmd
  BY EarsQueues, HasTail
<1>2. \A cmd : cmd # "GETUSERLIST" => (Has(toServer', cmd) <=> Has(toServer, cmd))
  BY PacketTypes, SendsOther DEF VideoInv
<1>3. EndPending' <=> EndPending
  BY <1>1 DEF EndPending, Ends
<1> QED
  BY <1>1, <1>2, <1>3 DEF Offline, Leaving, Asking

\* A client adrift, and one whose application does not wait.
LEMMA AdriftHears ==
  ASSUME VideoInv, VideoInv', [Next]_vars, ~ Calm \/ ~ Calm'
  PROVE  [H!Next]_hearingVars
<1>1. receivers' \in SUBSET User /\ lost' \in SUBSET User
  BY DEF VideoInv, MeetingInv, VideoChatTypeOK
<1>2. hasty => hasty'
  BY DEF Next, Joins, vars
<1>3. /\ stranded <=> phase = "adrift"
      /\ ~ stranded /\ hasty => phase = "hasty"
      /\ ~ stranded /\ ~ hasty => phase \notin {"hasty", "adrift"}
      /\ stranded' <=> phase' = "adrift"
      /\ ~ stranded' /\ hasty' => phase' = "hasty"
  BY DEF phase
<1>4. CASE stranded /\ stranded'
  <2>1. H!Adrift
    BY <1>1, <1>3, <1>4 DEF H!Adrift
  <2> QED
    BY <2>1 DEF H!Next
<1>5. CASE stranded /\ ~ stranded'
  <2>1. CASE Login
    <3>1. receivers' = {} /\ lost' = {} /\ link' = "connecting"
      BY <2>1 DEF Login
    <3>2. phase' \in {"offline", "hasty"}
      BY <1>5, <3>1 DEF phase
    <3>3. H!Anew
      BY <1>3, <1>5, <3>1, <3>2 DEF H!Anew
    <3> QED
      BY <3>3 DEF H!Next
  <2>2. CASE Disconnected \/ SessionOver \/ MtgExited \/ MtgDestroyed
    <3>1. /\ receivers' = {} /\ lost' = lost /\ sender' = "none" /\ ~ InMeeting
          /\ app' = app /\ (app = "join" \/ app = "idle")
      BY <1>5, <2>2 DEF Disconnected, SessionOver, Teardown, MtgExited, MtgDestroyed, CloseMedia, CloseMediaSender, appVars,
         VideoInv, MeetingInv, VideoChatTypeOK
    <3>2. app' = "idle"
      BY <3>1 DEF InMeeting
    <3>3. phase' \in {"offline", "outside", "hasty"}
      BY <1>5, <3>1, <3>2 DEF phase
    <3>4. H!Ashore
      BY <1>3, <1>5, <3>1, <3>3 DEF H!Ashore
    <3> QED
      BY <3>4 DEF H!Next
  <2>3. CASE ~ (Login \/ Disconnected \/ SessionOver \/ MtgExited \/ MtgDestroyed)
    <3>1. CASE UNCHANGED vars \/ Connection \/ Calls \/ Joins \/ Microphone
      BY <1>5, <2>3, <3>1 DEF vars, chatVars, Connection, Connected, Reconnected, Restarted, SendLoginServer,
         Calls, JoinAsks, ExitMtg, LogoutServer, Joins, JoinMtg, Microphone, LocalAudio, mediaVars
    <3>2. CASE Handle
      BY <1>5, <2>3, <3>2 DEF Handle, LoginServered, LoginRefused, RemoteUserLogin, RemoteUserQuit,
         UpdateUserList, MtgJoined, MtgRefused, PeerJoin, PeerExit, mediaVars
    <3>3. CASE Server
      BY <1>5, <3>3 DEF Server, ServerAnswers, ServerLogin, ServerUserList, ServerJoin, ServerExit, ServerQuit, ServerIgnores,
         ServerReads, ServerRelogin, Peers, PeerLogsIn, PeerQuits, PeerJoins, PeerExits, Destroy, Busy, Drop, ClientVars, mediaVars
    <3> QED
      BY <3>1, <3>2, <3>3 DEF Next, Other
  <2> QED
    BY <2>1, <2>2, <2>3
<1>6. CASE ~ stranded /\ stranded'
  <2>1. SendLoginServer
    <3>1. CASE UNCHANGED vars \/ Connection \/ Calls \/ Joins \/ Microphone
      BY <1>6, <3>1 DEF vars, chatVars, Connection, Connected, Reconnected, Restarted, Disconnected, CloseMedia,
         Calls, Login, JoinAsks, ExitMtg, LogoutServer, Joins, JoinMtg, Microphone, LocalAudio, mediaVars
    <3>2. CASE Handle
      BY <1>6, <3>2 DEF Handle, LoginServered, LoginRefused, SessionOver, CloseMedia, RemoteUserLogin, RemoteUserQuit,
         UpdateUserList, MtgJoined, MtgRefused, MtgExited, PeerJoin, PeerExit, MtgDestroyed, mediaVars
    <3>3. CASE Server
      BY <1>6, <3>3 DEF Server, ServerAnswers, ServerLogin, ServerUserList, ServerJoin, ServerExit, ServerQuit, ServerIgnores,
         ServerReads, ServerRelogin, Peers, PeerLogsIn, PeerQuits, PeerJoins, PeerExits, Destroy, Busy, Drop, ClientVars, mediaVars
    <3> QED
      BY <3>1, <3>2, <3>3 DEF Next, Other
  <2>2. H!Drift
    BY <1>3, <1>6, <2>1 DEF H!Drift, SendLoginServer
  <2> QED
    BY <2>2 DEF H!Next
<1>7. CASE ~ stranded /\ ~ stranded' /\ hasty
  <2>1. phase = "hasty" /\ phase' = "hasty"
    BY <1>2, <1>3, <1>7
  <2>2. CASE Login
    <3>1. H!Anew
      BY <2>1, <2>2 DEF H!Anew, Login
    <3> QED
      BY <3>1 DEF H!Next
  <2>3. CASE ~ Login
    <3>1. H!Hasty
      BY <1>1, <1>7, <2>1, <2>3, LostStays DEF H!Hasty
    <3> QED
      BY <3>1 DEF H!Next
  <2> QED
    BY <2>2, <2>3
<1>8. CASE ~ stranded /\ ~ stranded' /\ ~ hasty /\ hasty'
  <2>1. Joins
    BY <1>8 DEF Next, vars
  <2>2. UNCHANGED <<receivers, lost>>
    BY <2>1 DEF Joins, JoinMtg, mediaVars
  <2>3. H!Drift
    BY <1>3, <1>8, <2>2 DEF H!Drift, H!Waits
  <2> QED
    BY <2>3 DEF H!Next
<1> QED
  BY <1>2, <1>4, <1>5, <1>6, <1>7, <1>8 DEF Calm

\* The calls of a calm client, and its login.
LEMMA CallsHear ==
  ASSUME VideoInv, [Next]_vars, Calm, Calm', Login \/ Joins \/ JoinAsks \/ ExitMtg \/ LogoutServer \/ Microphone
  PROVE  [H!Next]_hearingVars
<1>1. CASE Login
  <2>1. Offline /\ Offline' /\ receivers' = {} /\ lost' = {}
    BY <1>1 DEF Login, Offline
  <2>2. H!Anew
    BY <2>1, PhaseIs, PhaseBecomes DEF H!Anew
  <2> QED
    BY <2>2 DEF H!Next
<1> SUFFICES ASSUME ~ Login PROVE [H!Next]_hearingVars
  BY <1>1
<1>2. lost' = lost
  BY LostStays DEF Calm
<1>3. /\ UNCHANGED <<link, receivers, toClient>>
      /\ EndPending' <=> EndPending
  BY DEF Joins, JoinMtg, JoinAsks, ExitMtg, LogoutServer, Microphone, LocalAudio, mediaVars, EndPending
<1>4. toServer \in Seq(ToServer) /\ InTouch /\ sender \in {"none", "new", "old"} /\ app \in {"idle", "join"}
  BY EarsQueues DEF Calm, VideoInv, MeetingInv, VideoChatTypeOK
<1>5. CASE Joins
  <2>1. /\ UNCHANGED <<sender, toServer>> /\ app = "idle" /\ app' = "join"
        /\ mtgID = NoMeeting /\ ~ ExitPending
    BY <1>5 DEF Joins, JoinMtg, Calm, mediaVars
  <2>2. Offline' <=> Offline
    BY <1>3, <2>1 DEF Offline, Leaving
  <2>3. CASE Offline
    BY <1>2, <1>3, <2>2, <2>3, PhaseIs, PhaseBecomes DEF hearingVars
  <2>4. CASE ~ Offline
    <3>1. sender = "none"
      BY <1>4, <2>1, <2>4 DEF InTouch, Offline, ClosesSender, ExitPending, Has
    <3>2. phase = "outside" /\ phase' = "entering"
      BY <2>1, <2>2, <2>4, <3>1, PhaseIs, PhaseBecomes DEF Idle, Asking
    <3>3. H!Ask
      BY <1>2, <1>3, <3>2 DEF H!Ask
    <3> QED
      BY <3>3 DEF H!Next
  <2> QED
    BY <2>3, <2>4
<1>6. CASE JoinAsks
  <2>1. /\ app = "join" /\ sender' # "none" /\ joining \in Meeting
        /\ toServer' = (IF link = "up" THEN Append(toServer, Join(joining)) ELSE toServer)
    BY <1>4, <1>6 DEF JoinAsks, Sent, VideoInv, MeetingInv, VideoChatTypeOK
  <2>2. \A cmd : Has(toServer', cmd) <=> Has(toServer, cmd) \/ (link = "up" /\ cmd = "JOIN")
    BY <1>4, <2>1, HasAppend, PacketTypes
  <2>3. Offline' <=> Offline
    BY <1>3, <2>2 DEF Offline, Leaving
  <2>4. ~ Offline => ~ Idle /\ ~ Idle' /\ Asking /\ Asking'
    BY <2>1, <2>2 DEF Idle, Asking, Offline
  <2> QED
    BY <1>2, <1>3, <2>3, <2>4, PhaseStays DEF hearingVars
<1>7. CASE ExitMtg
  <2>1. UNCHANGED <<app, sender>> /\ toServer' \in {toServer, Append(toServer, Packet("EXIT"))}
    BY <1>7 DEF ExitMtg, Sent
  <2>2. \A cmd : cmd # "EXIT" => (Has(toServer', cmd) <=> Has(toServer, cmd))
    <3>1. Packet("EXIT") \in ToServer /\ Packet("EXIT").cmd = "EXIT"
      BY PacketTypes
    <3> QED
      BY <2>1, <3>1, SendsOther DEF VideoInv
  <2>3. /\ Offline' <=> Offline
        /\ (Idle' <=> Idle) /\ (Asking' <=> Asking)
    BY <1>3, <2>1, <2>2 DEF Offline, Leaving, Idle, Asking
  <2> QED
    BY <1>2, <1>3, <2>3, PhaseStays DEF hearingVars
<1>8. CASE LogoutServer
  <2>1. toServer' = (IF link = "up" THEN Append(toServer, Packet("QUITSERVER")) ELSE toServer)
    BY <1>8 DEF LogoutServer, Sent
  <2>2. Offline'
    BY <1>3, <1>4, <2>1, HasAppend, PacketTypes DEF Offline, Leaving
  <2>3. H!LogOut
    BY <1>2, <1>3, <2>2, PhaseIs, PhaseBecomes DEF H!LogOut, H!Waits
  <2> QED
    BY <2>3 DEF H!Next
<1>9. CASE Microphone
  <2>1. UNCHANGED <<app, sender, toServer>>
    BY <1>9 DEF Microphone, LocalAudio, appVars
  <2>2. /\ Offline' <=> Offline
        /\ (Idle' <=> Idle) /\ (Asking' <=> Asking)
    BY <1>3, <2>1 DEF Offline, Leaving, Idle, Asking
  <2> QED
    BY <1>2, <1>3, <2>2, PhaseStays DEF hearingVars
<1> QED
  BY <1>5, <1>6, <1>7, <1>8, <1>9

\* The connection of a calm client.
LEMMA ConnectionHears ==
  ASSUME VideoInv, [Next]_vars, Calm, Calm', Connection \/ Busy \/ Drop
  PROVE  [H!Next]_hearingVars
<1>1. ~ Login
  BY DEF Connection, Connected, Reconnected, Restarted, SendLoginServer, Disconnected, Busy, Drop, Login
<1>2. lost' = lost
  BY <1>1, LostStays DEF Calm
<1>3. CASE Connected \/ Reconnected \/ Restarted
  <2>1. Offline /\ sender = "none" /\ sender' = "none" /\ receivers = {} /\ receivers' = {} /\ ~ InMeeting /\ app' = app
    BY <1>3 DEF Connected, Reconnected, Restarted, SendLoginServer, Calm, Offline
  <2>2. Idle'
    BY <2>1 DEF Idle, InMeeting, VideoInv, MeetingInv, VideoChatTypeOK
  <2>3. phase = "offline" /\ phase' \in {"offline", "outside"}
    BY <2>1, <2>2, PhaseIs, PhaseBecomes
  <2>4. phase' = "outside" => H!LogIn
    BY <1>2, <2>1, <2>3 DEF H!LogIn
  <2> QED
    BY <1>2, <2>1, <2>3, <2>4 DEF H!Next, hearingVars
<1>4. CASE Disconnected
  <2>1. Offline /\ Offline' /\ receivers' = {} /\ receivers \in SUBSET User
    BY <1>4 DEF Disconnected, CloseMedia, Offline, VideoInv, MeetingInv, VideoChatTypeOK
  <2>2. receivers' = receivers \ receivers
    BY <2>1
  <2>3. H!Late
    BY <1>2, <2>1, <2>2, PhaseIs, PhaseBecomes DEF H!Late
  <2> QED
    BY <2>3 DEF H!Next
<1>5. CASE Busy \/ Drop
  <2>1. Offline' /\ UNCHANGED receivers
    BY <1>5 DEF Busy, Drop, Offline, mediaVars
  <2>2. H!LogOut
    BY <1>2, <2>1, PhaseIs, PhaseBecomes DEF H!LogOut, H!Waits
  <2> QED
    BY <2>2 DEF H!Next
<1> QED
  BY <1>3, <1>4, <1>5 DEF Connection

\* The end of a manager.
LEMMA TeardownHears ==
  ASSUME VideoInv, [Next]_vars, Calm, Calm', LoginRefused \/ SessionOver
  PROVE  [H!Next]_hearingVars
<1>1. /\ toClient \in Seq(ToClient) /\ toClient # <<>> /\ Head(toClient).cmd \in Ends
      /\ link' = "none" /\ link = "up" /\ (receivers' = {} \/ receivers' = receivers)
  BY EarsQueues DEF LoginRefused, SessionOver, Teardown, CloseMedia, Ends, mediaVars
<1>2. Offline /\ Offline'
  <2>1. Head(toClient) = toClient[1] /\ 1 \in 1 .. Len(toClient)
    BY <1>1, TailIs
  <2> QED
    BY <1>1, <2>1 DEF Offline, Leaving, EndPending, Ends, Has
<1>3. lost' = lost
  <2>1. ~ Login
    BY <1>1 DEF Login
  <2> QED
    BY <2>1, LostStays DEF Calm
<1>4. \E S \in SUBSET User : receivers' = receivers \ S
  <2>1. receivers \in SUBSET User /\ receivers \ receivers = {} /\ receivers \ {} = receivers
    BY DEF VideoInv, MeetingInv, VideoChatTypeOK
  <2> QED
    BY <1>1, <2>1
<1>5. H!Late
  BY <1>2, <1>3, <1>4, PhaseIs, PhaseBecomes DEF H!Late
<1> QED
  BY <1>5 DEF H!Next

\* What the handlers read that opens and closes nothing, or the receiver of one user.
LEMMA UserNewsHears ==
  ASSUME VideoInv, [Next]_vars, Calm, Calm',
         LoginServered \/ RemoteUserLogin \/ UpdateUserList \/ RemoteUserQuit \/ PeerExit
  PROVE  [H!Next]_hearingVars
<1> DEFINE h == Head(toClient)
<1>1. /\ toClient # <<>> /\ toClient' = Tail(toClient) /\ UNCHANGED <<link, app, sender>>
      /\ toServer' \in {toServer, Append(toServer, Packet("GETUSERLIST"))}
      /\ h.cmd \in {"LOGINSERVERED", "REMOTEUSERLOGIN", "UPDATEUSERLIST", "REMOTEUSERQUIT", "PEER_EXIT"}
      /\ receivers' = receivers \/ (h.cmd \in {"REMOTEUSERQUIT", "PEER_EXIT"} /\ receivers' = receivers \ {h.user})
  BY DEF LoginServered, RemoteUserLogin, UpdateUserList, RemoteUserQuit, PeerExit, Receives, Sent, appVars, mediaVars
<1>2. h.cmd \notin Ends /\ h.cmd \notin Answers
  BY <1>1 DEF Ends, Answers
<1>3. (Offline' <=> Offline) /\ (Asking' <=> Asking) /\ (Idle' <=> Idle)
  BY <1>1, <1>2, ReadPhase DEF Idle
<1>4. phase' = phase
  BY <1>3, PhaseStays
<1>5. lost' = lost
  <2>1. ~ Login
    BY DEF LoginServered, RemoteUserLogin, UpdateUserList, RemoteUserQuit, PeerExit, Receives, Login
  <2> QED
    BY <2>1, LostStays DEF Calm
<1>6. CASE receivers' = receivers
  BY <1>4, <1>5, <1>6 DEF hearingVars
<1>7. CASE receivers' # receivers
  <2>1. h \in ToClient
    <3>1. toClient \in Seq(ToClient)
      BY EarsQueues
    <3> QED
      BY <1>1, <3>1, TailIs
  <2>2. h.user \in User /\ h.user \in receivers /\ receivers' = receivers \ {h.user}
    <3>1. h.cmd \in {"REMOTEUSERQUIT", "PEER_EXIT"} /\ receivers' = receivers \ {h.user}
      BY <1>1, <1>7
    <3>2. h.user \in User
      BY <2>1, <3>1, PacketTypes
    <3> QED
      BY <1>7, <3>1, <3>2
  <2>3. CASE Offline
    <3>1. {h.user} \in SUBSET User
      BY <2>2
    <3>2. H!Late
      BY <1>4, <1>5, <2>2, <2>3, <3>1, PhaseIs DEF H!Late
    <3> QED
      BY <3>2 DEF H!Next
  <2>4. CASE ~ Offline
    <3>1. sender = "new" /\ ~ Asking
      BY <2>2, <2>4, NobodyAsks DEF Asking, Has
    <3>2. phase = "inside"
      BY <2>4, <3>1, PhaseIs DEF Idle
    <3>3. H!Goes(h.user)
      BY <1>4, <1>5, <2>2, <3>2 DEF H!Goes
    <3> QED
      BY <2>2, <3>3 DEF H!Next
  <2> QED
    BY <2>3, <2>4
<1> QED
  BY <1>6, <1>7

\* A user comes.
LEMMA PeerJoinHears ==
  ASSUME VideoInv, [Next]_vars, Calm, Calm', PeerJoin
  PROVE  [H!Next]_hearingVars
<1> DEFINE h == Head(toClient)
           u == h.user
<1>1. /\ toClient # <<>> /\ toClient' = Tail(toClient) /\ UNCHANGED <<link, app, sender, toServer>>
      /\ h.cmd = "PEER_JOIN"
      /\ receivers' = receivers \/ receivers' = receivers \cup {u}
  BY DEF PeerJoin, Receives, OpenReceivers, appVars
<1>2. u \in User /\ u \notin receivers
  <2>1. h \in ToClient
    BY <1>1, EarsQueues, TailIs
  <2>2. u \in User /\ Opens(h, u)
    BY <1>1, <2>1, PacketTypes DEF Opens
  <2> QED
    BY <2>2, OpensTheClosed DEF VideoInv, Calm
<1>3. h.cmd \notin Ends /\ h.cmd \notin Answers /\ h.cmd \in MeetingNews
  BY <1>1 DEF Ends, Answers, MeetingNews
<1>4. (Offline' <=> Offline) /\ (Asking' <=> Asking) /\ (Idle' <=> Idle)
  BY <1>1, <1>3, ReadPhase DEF Idle
<1>5. phase' = phase
  BY <1>4, PhaseStays
<1>6. lost' = lost
  <2>1. ~ Login
    BY DEF PeerJoin, Receives, Login
  <2> QED
    BY <2>1, LostStays DEF Calm
<1>7. CASE receivers' = receivers
  BY <1>5, <1>6, <1>7 DEF hearingVars
<1>8. CASE receivers' = receivers \cup {u} /\ Offline
  <2>1. {u} \in SUBSET User /\ receivers \cap {u} = {}
    BY <1>2
  <2>2. H!Late
    BY <1>5, <1>6, <1>8, <2>1, PhaseIs DEF H!Late
  <2> QED
    BY <2>2 DEF H!Next
<1>9. CASE receivers' = receivers \cup {u} /\ ~ Offline
  <2>1. sender = "new" /\ app = "idle" /\ ~ Has(toServer, "JOIN")
        /\ \A k \in 1 .. Len(toClient) : toClient[k].cmd \in Answers => k = 1
    BY <1>1, <1>3, <1>9, NobodyAsks
  <2>2. h = toClient[1]
    BY <1>1, EarsQueues, TailIs
  <2>3. ~ Asking
    BY <1>3, <2>1, <2>2 DEF Asking, Has
  <2>4. phase = "inside"
    BY <1>9, <2>1, <2>3, PhaseIs DEF Idle
  <2>5. H!Comes(u)
    BY <1>2, <1>5, <1>6, <1>9, <2>4 DEF H!Comes
  <2> QED
    BY <1>2, <2>5 DEF H!Next
<1> QED
  BY <1>1, <1>7, <1>8, <1>9

\* The client is let in.
LEMMA MtgJoinedHears ==
  ASSUME VideoInv, [Next]_vars, Calm, Calm', MtgJoined
  PROVE  [H!Next]_hearingVars
<1> DEFINE h == Head(toClient)
<1>1. /\ toClient # <<>> /\ toClient' = Tail(toClient) /\ UNCHANGED <<link, app, sender, toServer>>
      /\ h.cmd = "JOINED" /\ receivers' = receivers \cup h.users
  BY DEF MtgJoined, Receives, OpenReceivers, appVars
<1>2. h \in ToClient /\ h = toClient[1] /\ toClient \in Seq(ToClient)
  BY <1>1, EarsQueues, TailIs
<1>3. h.users \in SUBSET User /\ receivers \cap h.users = {}
  <2>1. h.users \subseteq User
    BY <1>1, <1>2, PacketTypes
  <2>2. \A u \in h.users : u \notin receivers
    BY <1>1, <2>1, OpensTheClosed DEF VideoInv, Calm, Opens
  <2> QED
    BY <2>1, <2>2
<1>4. h.cmd \notin Ends /\ h.cmd \in Answers /\ h.cmd \in MeetingNews
  BY <1>1 DEF Ends, Answers, MeetingNews
<1>5. (Offline' <=> Offline) /\ Asking
  BY <1>1, <1>4, ReadPhase
<1>6. lost' = lost
  <2>1. ~ Login
    BY DEF MtgJoined, Receives, Login
  <2> QED
    BY <2>1, LostStays DEF Calm
<1>7. CASE Offline
  <2>1. H!Late
    BY <1>1, <1>3, <1>5, <1>6, <1>7, PhaseIs, PhaseBecomes DEF H!Late
  <2> QED
    BY <2>1 DEF H!Next
<1>8. CASE ~ Offline
  <2>1. /\ sender = "new" /\ app = "idle" /\ ~ Has(toServer, "JOIN")
        /\ \A k \in 1 .. Len(toClient) : toClient[k].cmd \in Answers => k = 1 /\ receivers = {}
    BY <1>1, <1>4, <1>8, NobodyAsks
  <2>2. receivers = {} /\ 1 \in 1 .. Len(toClient)
    BY <1>1, <1>2, <1>4, <2>1, TailIs
  <2>3. \A k \in 1 .. Len(toClient') : toClient'[k].cmd \notin Answers
    <3>1. /\ Len(toClient) \in Nat /\ Len(toClient') = Len(toClient) - 1
          /\ \A i \in 1 .. Len(toClient) - 1 : toClient'[i] = toClient[i + 1]
      BY <1>1, <1>2, TailIs
    <3>2. \A k \in 1 .. Len(toClient') : k + 1 \in 1 .. Len(toClient) /\ k + 1 # 1
      BY <3>1
    <3> QED
      BY <2>1, <3>1, <3>2
  <2>4. ~ Asking'
    BY <1>1, <2>1, <2>3 DEF Asking, Has
  <2>5. phase = "entering" /\ phase' = "inside"
    BY <1>1, <1>5, <1>8, <2>1, <2>4, PhaseIs, PhaseBecomes DEF Idle
  <2>6. H!Admitted(h.users)
    BY <1>1, <1>6, <2>2, <2>5 DEF H!Admitted
  <2> QED
    BY <1>3, <2>6 DEF H!Next
<1> QED
  BY <1>7, <1>8

\* The client is refused, or its meeting ends.
LEMMA EndHears ==
  ASSUME VideoInv, [Next]_vars, Calm, Calm', MtgRefused \/ MtgExited \/ MtgDestroyed
  PROVE  [H!Next]_hearingVars
<1> DEFINE h == Head(toClient)
<1>1. /\ toClient # <<>> /\ toClient' = Tail(toClient) /\ UNCHANGED <<link, app, toServer>>
      /\ h.cmd \in {"REFUSED", "EXITED", "DESTROY"} /\ sender' = "none"
      /\ receivers' = {} \/ (h.cmd = "REFUSED" /\ receivers' = receivers)
  BY DEF MtgRefused, MtgExited, MtgDestroyed, Receives, CloseMedia, CloseMediaSender, appVars
<1>2. h \in ToClient /\ h = toClient[1] /\ 1 \in 1 .. Len(toClient) /\ 1 .. 1 - 1 = {}
      /\ receivers \in SUBSET User /\ app \in {"idle", "join"}
  BY <1>1, EarsQueues, TailIs DEF VideoInv, MeetingInv, VideoChatTypeOK
<1>3. receivers' = {}
  <2>1. h.cmd = "REFUSED" => receivers = {}
    BY <1>2 DEF VideoInv, EarsInv, Calm, Finds, Answers
  <2> QED
    BY <1>1, <2>1
<1>4. Offline' <=> Offline
  <2>1. h.cmd \notin Ends
    BY <1>1 DEF Ends
  <2> QED
    BY <1>1, <2>1, ReadPhase
<1>5. lost' = lost
  <2>1. ~ Login
    BY DEF MtgRefused, MtgExited, MtgDestroyed, Receives, Login
  <2> QED
    BY <2>1, LostStays DEF Calm
<1>6. CASE Offline
  <2>1. receivers' = receivers \ receivers
    BY <1>3
  <2>2. H!Late
    BY <1>2, <1>4, <1>5, <1>6, <2>1, PhaseIs, PhaseBecomes DEF H!Late
  <2> QED
    BY <2>2 DEF H!Next
<1>7. CASE ~ Offline
  <2>1. Media /\ InTouch /\ Has(toClient, h.cmd)
    BY <1>2, EarsQueues DEF Calm, Has
  <2>2. app = "idle"
    BY <1>1, <1>2, <1>7, <2>1 DEF Media, InTouch, Offline
  <2>3. phase' = "outside"
    BY <1>1, <1>4, <1>7, <2>2, PhaseBecomes DEF Idle
  <2>4. CASE Idle
    <3>1. phase = "outside" /\ receivers = {}
      BY <1>7, <2>4, PhaseIs DEF VideoInv, EarsInv, Calm, Idle
    <3> QED
      BY <1>3, <1>5, <2>3, <3>1 DEF hearingVars
  <2>5. CASE ~ Idle
    <3>1. H!Ended
      BY <1>3, <1>5, <1>7, <2>3, <2>5, PhaseIs DEF H!Ended
    <3> QED
      BY <3>1 DEF H!Next
  <2> QED
    BY <2>4, <2>5
<1> QED
  BY <1>6, <1>7

\* What the server says changes the phase when it ends the session, or does not answer the end of one.
LEMMA TellHears ==
  ASSUME VideoInv, Calm, Calm', UNCHANGED ClientVars, NEW p \in ToClient, toClient' = Append(toClient, p),
         p.cmd \in Ends \/ (\A cmd \in {"QUITSERVER", "JOIN"} : Has(toServer', cmd) <=> Has(toServer, cmd)),
         p.cmd \notin Answers
  PROVE  [H!Next]_hearingVars
<1>1. UNCHANGED <<link, app, sender, receivers, lost>>
  BY DEF ClientVars, appVars, mediaVars
<1>2. \A cmd : Has(toClient', cmd) <=> Has(toClient, cmd) \/ p.cmd = cmd
  BY EarsQueues, HasAppend
<1>3. CASE p.cmd \in Ends
  <2>1. Offline'
    BY <1>2, <1>3 DEF Offline, Leaving, EndPending, Ends
  <2>2. H!LogOut
    BY <1>1, <2>1, PhaseIs, PhaseBecomes DEF H!LogOut, H!Waits
  <2> QED
    BY <2>2 DEF H!Next
<1>4. CASE p.cmd \notin Ends
  <2>1. (Offline' <=> Offline) /\ (Idle' <=> Idle) /\ (Asking' <=> Asking)
    BY <1>1, <1>2, <1>4 DEF Offline, Leaving, EndPending, Ends, Idle, Asking
  <2> QED
    BY <1>1, <2>1, PhaseStays DEF hearingVars
<1> QED
  BY <1>3, <1>4

LEMMA ServerJoinHears ==
  ASSUME VideoInv, Calm, Calm', ServerJoin
  PROVE  [H!Next]_hearingVars
<1>1. ServerReads("JOIN") /\ \E cmd \in Answers : Has(toClient', cmd)
  <2>1. toServer \in Seq(ToServer) /\ toServer # <<>> /\ Head(toServer).cmd = "JOIN" /\ ServerReads("JOIN")
    BY EarsQueues DEF ServerJoin, ServerReads
  <2>2. Head(toServer).mtg \in Meeting
    BY <2>1, TailIs, PacketTypes
  <2>3. attends' = Head(toServer).mtg => members[attends'] \in SUBSET User
    BY <2>2 DEF VideoInv, MeetingInv, VideoChatTypeOK
  <2>4. \E p \in ToClient : toClient' = Append(toClient, p) /\ p.cmd \in Answers
    BY <2>3, PacketTypes DEF ServerJoin, Tell, Answers
  <2> QED
    BY <2>1, <2>4, EarsQueues, HasAppend
<1>2. /\ link = "up" /\ UNCHANGED <<link, app, sender, receivers, lost>> /\ Asked(toServer) /\ Has(toServer, "JOIN")
      /\ Has(toServer', "QUITSERVER") <=> Has(toServer, "QUITSERVER")
  BY <1>1, ServerAsked DEF ClientVars, appVars, mediaVars
<1>3. EndPending' <=> EndPending
  <2>1. \E p \in ToClient : toClient' = Append(toClient, p) /\ p.cmd \in Answers
    <3>1. toServer \in Seq(ToServer) /\ toServer # <<>> /\ Head(toServer).cmd = "JOIN"
      BY EarsQueues DEF ServerJoin, ServerReads
    <3>2. attends' = Head(toServer).mtg => members[attends'] \in SUBSET User
      BY <3>1, TailIs, PacketTypes DEF VideoInv, MeetingInv, VideoChatTypeOK
    <3> QED
      BY <3>2, PacketTypes DEF ServerJoin, Tell, Answers
  <2> QED
    BY <2>1, EarsQueues, HasAppend DEF EndPending, Answers
<1>4. Offline' <=> Offline
  BY <1>2, <1>3 DEF Offline, Leaving
<1>5. ~ Offline => ~ Idle /\ ~ Idle' /\ Asking /\ Asking'
  <2>1. ~ Offline => sender = "new"
    BY <1>2, EarsQueues DEF Offline, Leaving, Calm, Unanswered
  <2> QED
    BY <1>1, <1>2, <2>1 DEF Idle, Asking
<1> QED
  BY <1>2, <1>4, <1>5, PhaseStays DEF hearingVars

\* A session that is over: what the server does not answer was asked by nobody who is heard.
LEMMA ServerIgnoresHears ==
  ASSUME VideoInv, VideoInv', Calm, Calm', ServerIgnores
  PROVE  [H!Next]_hearingVars
<1>1. PICK cmd \in {"GETUSERLIST", "JOIN", "EXIT", "QUITSERVER"} : ServerReads(cmd)
  BY DEF ServerIgnores
<1>2. /\ link = "up" /\ UNCHANGED <<link, app, sender, mic, receivers, lost>>
      /\ \A c : Has(toServer', c) => Has(toServer, c)
      /\ ~ session /\ toClient' = toClient /\ (EndPending' <=> EndPending)
  BY <1>1, ServerAsked DEF ServerIgnores, ClientVars, appVars, mediaVars, EndPending
<1>3. CASE EndPending
  <2>1. Offline /\ Offline'
    BY <1>2, <1>3 DEF Offline, Leaving
  <2> QED
    BY <1>2, <2>1, PhaseIs, PhaseBecomes DEF hearingVars
<1>4. CASE ~ EndPending
  <2>1. Idle /\ receivers = {} /\ Idle'
    BY <1>2, <1>4 DEF VideoInv, TalkInv, Beginning, Closed, MeetingInv, Sessions, Calm, Idle
  <2>2. phase \in {"offline", "outside"} /\ phase' \in {"offline", "outside"} /\ (phase = "outside" => phase' = "outside")
    BY <1>2, <2>1, PhaseIs, PhaseBecomes DEF Offline, Leaving
  <2>3. phase = "offline" /\ phase' = "outside" => H!LogIn
    BY <1>2, <2>1 DEF H!LogIn
  <2> QED
    BY <1>2, <2>2, <2>3 DEF H!Next, hearingVars
<1> QED
  BY <1>3, <1>4

LEMMA ServerHears ==
  ASSUME VideoInv, VideoInv', Calm, Calm', ServerAnswers \/ ServerRelogin \/ Destroy
  PROVE  [H!Next]_hearingVars
<1>1. \A cmd : ServerReads(cmd) => /\ UNCHANGED ClientVars
                                   /\ \A c : c # cmd => (Has(toServer', c) <=> Has(toServer, c))
  BY ServerAsked
<1>2. CASE ServerLogin
  <2>1. /\ \E p \in ToClient : toClient' = Append(toClient, p) /\ p.cmd \in {"LOGINSERVERED", "LOGINREFUSED"}
        /\ ServerReads("LOGINSERVER")
    BY <1>2, PacketTypes DEF ServerLogin, Tell
  <2> QED
    BY <1>1, <2>1, TellHears DEF Answers
<1>3. CASE ServerUserList
  <2>1. /\ \E p \in ToClient : toClient' = Append(toClient, p) /\ p.cmd = "UPDATEUSERLIST"
        /\ ServerReads("GETUSERLIST")
    <3>1. peers \subseteq User
      BY DEF VideoInv, MeetingInv, VideoChatTypeOK
    <3> QED
      BY <1>3, <3>1, PacketTypes DEF ServerUserList, Tell
  <2> QED
    BY <1>1, <2>1, TellHears DEF Answers
<1>4. CASE ServerExit
  <2>1. /\ \E p \in ToClient : toClient' = Append(toClient, p) /\ p.cmd = "EXITED"
        /\ ServerReads("EXIT")
    BY <1>4, PacketTypes DEF ServerExit, Tell
  <2> QED
    BY <1>1, <2>1, TellHears DEF Answers
<1>5. CASE ServerQuit \/ ServerRelogin
  <2>1. /\ \E p \in ToClient : toClient' = Append(toClient, p) /\ p.cmd \in {"USERQUIT", "RELOGIN"}
        /\ ServerReads("QUITSERVER") \/ UNCHANGED ClientVars
    BY <1>5, PacketTypes DEF ServerQuit, ServerRelogin, Tell
  <2> QED
    BY <1>1, <2>1, TellHears DEF Answers, Ends
<1>6. CASE Destroy
  <2>1. /\ \E p \in ToClient : toClient' = Append(toClient, p) /\ p.cmd = "DESTROY"
        /\ UNCHANGED ClientVars /\ toServer' = toServer
    BY <1>6, PacketTypes DEF Destroy, Tell
  <2> QED
    BY <2>1, TellHears DEF Answers
<1> QED
  BY <1>2, <1>3, <1>4, <1>5, <1>6, ServerJoinHears, ServerIgnoresHears DEF ServerAnswers

LEMMA PeersHear ==
  ASSUME VideoInv, Calm, Calm', Peers
  PROVE  [H!Next]_hearingVars
<1>1. /\ UNCHANGED ClientVars /\ toServer' = toServer
      /\ \/ toClient' = toClient
         \/ \E p \in ToClient : /\ toClient' = Append(toClient, p)
                                /\ p.cmd \in {"REMOTEUSERLOGIN", "REMOTEUSERQUIT", "PEER_JOIN", "PEER_EXIT"}
  <2>1. ASSUME NEW u \in User, PeerLogsIn(u) \/ PeerQuits(u)
        PROVE  \/ toClient' = toClient
               \/ \E p \in ToClient : toClient' = Append(toClient, p) /\ p.cmd \in {"REMOTEUSERLOGIN", "REMOTEUSERQUIT"}
    BY <2>1, PacketTypes DEF PeerLogsIn, PeerQuits, Hears, Tell
  <2>2. ASSUME NEW u \in User, NEW m \in Meeting, PeerJoins(u, m) \/ PeerExits(u, m)
        PROVE  \/ toClient' = toClient
               \/ \E p \in ToClient : toClient' = Append(toClient, p) /\ p.cmd \in {"PEER_JOIN", "PEER_EXIT"}
    BY <2>2, PacketTypes DEF PeerJoins, PeerExits, Hears, Tell
  <2>3. UNCHANGED ClientVars /\ toServer' = toServer
    BY DEF Peers, PeerLogsIn, PeerQuits, PeerJoins, PeerExits
  <2> QED
    BY <2>1, <2>2, <2>3 DEF Peers
<1>2. CASE toClient' = toClient
  <2>1. /\ UNCHANGED <<link, app, sender, receivers, lost, toServer>>
        /\ (Offline' <=> Offline) /\ (Idle' <=> Idle) /\ (Asking' <=> Asking)
    BY <1>1, <1>2 DEF ClientVars, appVars, mediaVars, Offline, Leaving, EndPending, Idle, Asking
  <2> QED
    BY <2>1, PhaseStays DEF hearingVars
<1>3. CASE toClient' # toClient
  BY <1>1, <1>3, TellHears DEF Answers
<1> QED
  BY <1>2, <1>3

LEMMA HearingStep == ASSUME VideoInv, VideoInv', [Next]_vars PROVE [H!Next]_hearingVars
<1> SUFFICES ASSUME Calm, Calm' PROVE [H!Next]_hearingVars
  BY AdriftHears
<1>1. CASE UNCHANGED vars
  BY <1>1, PhaseStays DEF vars, chatVars, appVars, mediaVars, hearingVars, Offline, Leaving, EndPending, Idle, Asking
<1>2. CASE Connection \/ Busy \/ Drop
  BY <1>2, ConnectionHears
<1>3. CASE Handle
  BY <1>3, TeardownHears, UserNewsHears, PeerJoinHears, MtgJoinedHears, EndHears DEF Handle
<1>4. CASE ServerAnswers \/ ServerRelogin \/ Destroy \/ Peers
  BY <1>4, ServerHears, PeersHear
<1>5. CASE Calls \/ Joins \/ Microphone
  BY <1>5, CallsHear DEF Calls
<1> QED
  BY <1>1, <1>2, <1>3, <1>4, <1>5 DEF Next, Other, Server

\* A client hears nobody outside of a meeting and enters it with nobody in its ears, hears who was
\* there and who comes, once, until he goes, and forgets no receiver, for any number of users and
\* meetings (OnDispatchMtgCmd, OnDispatchMtgCmdReg, StopAllRemoteMedia).
THEOREM HearsAsPromised == Spec => ImplementsHearing
<1>1. Init => H!Init
  BY DEF Init, H!Init, phase
<1>2. VideoInv /\ VideoInv' /\ [Next]_vars => [H!Next]_H!vars
  BY HearingStep DEF hearingVars, H!vars
<1> QED
  BY <1>1, <1>2, VideoInvariant, PTL DEF Spec, ImplementsHearing, H!Spec

=============================================================================
