-------------------------- MODULE EventsFeedProofs --------------------------
(* Theorems about EventsFeed, for every size of pages, buffer and lists and *)
(* every bound.                                                             *)
EXTENDS EventsFeed, SequenceTheorems, WellFoundedInduction, TLAPS

-----------------------------------------------------------------------------
(* The inductive invariant.                                                 *)

\* Without a gap, numbers up to next and ids up to last.
CountsTo(b, next, last) ==
  \A i \in 1..Len(b) : b[i].seq = next - Len(b) + i /\ b[i].id = last - Len(b) + i

\* The newest event of a buffer.
LastId(b) == b[Len(b)].id

\* No more than fit, and none left out.
IsAWindow(b, next) == Len(b) <= Capacity /\ CountsTo(b, next, LastId(b))

\* The buffer holds all that follows the event the follower asks from, and at most a
\* page of it: what a page that is repeated brings again is among what extend looks at.
Reaches(b, from) ==
  b # <<>> => /\ LastId(b) - from \in 0..Page /\ LastId(b) - from <= Len(b)
              /\ LastId(b) <= happened

\* The follower has a cursor from its first event on, and asks from where the buffer
\* reaches.
FollowerInv ==
  /\ IsAWindow(buffer, nextSeq)
  /\ cursor = Null => buffer = <<>>
  /\ buffer = <<>> => cursor \in {Null, 0}
  /\ Reaches(buffer, cursor)

\* No event twice.
OnlyOnce(s) == \A i, j \in 1..Len(s) : s[i].id = s[j].id => i = j

\* An answer on its way has no event twice.
AnswersInv ==
  \A s \in 1..Slots : polls[s].at \in {"read", "answered"} => OnlyOnce(polls[s].batch)

ListsInv ==
  /\ OnlyOnce(events) /\ Len(events) <= Keep
  /\ OnlyOnce(published.events) /\ Len(published.events) <= Keep

\* A list on the page is the last message's, and, unless the page has started over, the
\* page's own.
NewsInv ==
  /\ feed.heard => feed.mounted /\ published.held /\ feed.events = published.events
  /\ ~feed.heard => feed.events = <<>>
  /\ published.held /\ latest # Null => published.events = events

IInv == TypeOK /\ FollowerInv /\ AnswersInv /\ ListsInv /\ NewsInv

-----------------------------------------------------------------------------
(* Loops: the recursive functions of the model have the values they are     *)
(* given, and what a step keeps the whole loop keeps.                       *)

\* A set of numbers has a least.
LEMMA LeastNatural ==
  ASSUME NEW S \in SUBSET Nat, S # {}
  PROVE  \E m \in S : \A n \in S : m <= n
<1>1. PICK m \in S : \A n \in S : ~ (<<n, m>> \in OpToRel(<, Nat))
  BY NatLessThanWellFounded, WFMin
<1>2. \A n \in S : ~ (n < m)
  BY <1>1 DEF OpToRel
<1> QED BY <1>2

\* Induction, over a set of positions instead of a predicate.
LEMMA UpTo ==
  ASSUME NEW n \in Nat, NEW P, 0 \in P, \A i \in 1..n : i - 1 \in P => i \in P
  PROVE  n \in P
<1> SUFFICES ASSUME n \notin P PROVE FALSE
  OBVIOUS
<1> DEFINE bad == {i \in 0..n : i \notin P}
<1>1. PICK m \in bad : \A i \in bad : m <= i
  <2>1. bad \in SUBSET Nat /\ bad # {}
    OBVIOUS
  <2> HIDE DEF bad
  <2> QED BY <2>1, LeastNatural
<1>2. m \in 1..n /\ m - 1 \in 0..n /\ m - 1 \notin bad
  BY <1>1
<1> QED BY <1>1, <1>2

\* F has the values of a loop that starts with base and does g[i] i-th.
Loops(F, S, base, g, n) ==
  F \in [0..n -> S] /\ F[0] = base /\ \A i \in 1..n : F[i] = g[i][F[i - 1]]

\* A loop has values, whatever it does.
LEMMA LoopExists ==
  ASSUME NEW S, NEW base \in S, NEW n \in Nat, NEW g \in [1..n -> [S -> S]]
  PROVE  \E F : Loops(F, S, base, g, n)
<1> DEFINE P == {k \in 0..n : \E F : Loops(F, S, base, g, k)}
<1>1. 0 \in P
  <2>1. Loops([i \in 0..0 |-> base], S, base, g, 0)
    BY DEF Loops
  <2> QED BY <2>1
<1>2. ASSUME NEW k \in 1..n, k - 1 \in P PROVE k \in P
  <2>1. PICK F : Loops(F, S, base, g, k - 1)
    BY <1>2
  <2> DEFINE G == [i \in 0..k |-> IF i = k THEN g[k][F[k - 1]] ELSE F[i]]
  <2>2. F[k - 1] \in S /\ g[k][F[k - 1]] \in S
    BY <2>1 DEF Loops
  <2>3. G \in [0..k -> S]
    BY <2>1, <2>2 DEF Loops
  <2>4. G[0] = base
    BY <2>1 DEF Loops
  <2>5. ASSUME NEW i \in 1..k PROVE G[i] = g[i][G[i - 1]]
    <3>1. i - 1 \in 0..k - 1 /\ G[i - 1] = F[i - 1]
      OBVIOUS
    <3>2. CASE i = k
      BY <3>1, <3>2
    <3>3. CASE i # k
      BY <2>1, <3>1, <3>3 DEF Loops
    <3> QED BY <3>2, <3>3
  <2> HIDE DEF G
  <2>6. Loops(G, S, base, g, k)
    BY <2>3, <2>4, <2>5 DEF Loops
  <2> QED BY <2>6
<1> HIDE DEF P
<1>3. n \in P
  BY <1>1, <1>2, UpTo
<1> QED BY <1>3 DEF P

-----------------------------------------------------------------------------
(* Sequences of events.                                                     *)

\* The first of a sequence, as many as there are.
LEMMA FirstOfIs ==
  ASSUME NEW S, NEW s \in Seq(S), NEW n \in Nat
  PROVE  /\ FirstOf(s, n) \in Seq(S)
         /\ Len(FirstOf(s, n)) \in Nat /\ Len(FirstOf(s, n)) <= n /\ Len(FirstOf(s, n)) <= Len(s)
         /\ (Len(s) >= n => Len(FirstOf(s, n)) = n) /\ (Len(s) < n => Len(FirstOf(s, n)) = Len(s))
         /\ \A i \in 1..Len(FirstOf(s, n)) : FirstOf(s, n)[i] = s[i]
<1> DEFINE k == IF Len(s) < n THEN Len(s) ELSE n
<1>1. k \in 0..Len(s) /\ Len(s) \in Nat /\ FirstOf(s, n) = SubSeq(s, 1, k)
  BY DEF FirstOf
<1> HIDE DEF k
<1>2. \A i \in 1..k : s[i] \in S
  BY <1>1
<1>3. SubSeq(s, 1, k) \in Seq(S) /\ Len(SubSeq(s, 1, k)) = k
  BY <1>1, <1>2, SubSeqProperties
<1>4. \A i \in 1..k : SubSeq(s, 1, k)[i] = s[i]
  BY <1>1, <1>2, SubSeqProperties
<1> QED BY <1>1, <1>3, <1>4 DEF k

\* t is what is left of the first i of a sequence: some of them, each once if they are.
IsLeft(s, ids, t, i) ==
  /\ t \in Seq(Buffered)
  /\ \A a \in 1..Len(t) : \E j \in 1..i : t[a] = s[j] /\ s[j].id \notin ids
  /\ OnlyOnce(s) => OnlyOnce(t)

\* One step of it.
LeaveOut(s, ids, t, i) == IF s[i].id \in ids THEN t ELSE Append(t, s[i])

\* The step of the loop that leaves events out.
LEMMA OneMoreIsLeft ==
  ASSUME NEW s \in Seq(Buffered), NEW ids, NEW i \in 1..Len(s), NEW t \in Seq(Buffered),
         IsLeft(s, ids, t, i - 1)
  PROVE  IsLeft(s, ids, LeaveOut(s, ids, t, i), i)
<1>1. i \in Nat /\ s[i] \in Buffered /\ \A j \in 1..i - 1 : j \in 1..i /\ j \in 1..Len(s) /\ j # i
  OBVIOUS
<1>2. CASE s[i].id \in ids
  <2>1. IsLeft(s, ids, t, i)
    BY <1>1 DEF IsLeft
  <2> QED BY <1>2, <2>1 DEF LeaveOut
<1>3. CASE s[i].id \notin ids
  <2> DEFINE u == Append(t, s[i])
  <2>1. u \in Seq(Buffered) /\ Len(u) = Len(t) + 1 /\ Len(t) \in Nat
        /\ u[Len(t) + 1] = s[i] /\ \A a \in 1..Len(t) : u[a] = t[a]
    BY <1>1
  <2> HIDE DEF u
  <2>2. ASSUME NEW a \in 1..Len(u) PROVE \E j \in 1..i : u[a] = s[j] /\ s[j].id \notin ids
    <3>1. CASE a = Len(t) + 1
      BY <1>1, <1>3, <2>1, <3>1
    <3>2. CASE a # Len(t) + 1
      <4>1. a \in 1..Len(t) /\ u[a] = t[a]
        BY <2>1, <3>2
      <4>2. PICK j \in 1..i - 1 : t[a] = s[j] /\ s[j].id \notin ids
        BY <4>1 DEF IsLeft
      <4> QED BY <1>1, <4>1, <4>2
    <3> QED BY <3>1, <3>2
  <2>3. ASSUME OnlyOnce(s), NEW a \in 1..Len(t) PROVE t[a].id # s[i].id
    BY <1>1, <2>3 DEF OnlyOnce, IsLeft
  <2>4. ASSUME OnlyOnce(s) PROVE OnlyOnce(u)
    <3> SUFFICES ASSUME NEW a \in 1..Len(u), NEW b \in 1..Len(u), u[a].id = u[b].id PROVE a = b
      BY DEF OnlyOnce
    <3>1. OnlyOnce(t)
      BY <2>4 DEF IsLeft
    <3>2. ASSUME NEW c \in 1..Len(u), c # Len(t) + 1 PROVE c \in 1..Len(t) /\ u[c].id # s[i].id
      <4>1. c \in 1..Len(t)
        BY <2>1, <3>2
      <4> QED BY <2>1, <2>3, <2>4, <4>1
    <3>3. CASE a = Len(t) + 1 /\ b # Len(t) + 1
      BY <2>1, <3>3, <3>2
    <3>4. CASE a # Len(t) + 1 /\ b = Len(t) + 1
      BY <2>1, <3>4, <3>2
    <3>5. CASE a # Len(t) + 1 /\ b # Len(t) + 1
      <4>1. a \in 1..Len(t) /\ b \in 1..Len(t) /\ t[a].id = t[b].id
        BY <2>1, <3>5
      <4> QED BY <3>1, <4>1 DEF OnlyOnce
    <3> QED BY <3>3, <3>4, <3>5
  <2> QED BY <1>3, <2>1, <2>2, <2>4 DEF LeaveOut, IsLeft, u
<1> QED BY <1>2, <1>3

\* What is left of a sequence is of it, and none of those that are left out.
LEMMA WithoutIs ==
  ASSUME NEW s \in Seq(Buffered), NEW ids
  PROVE  IsLeft(s, ids, Without(s, ids), Len(s))
<1> DEFINE S == Seq(Buffered)
           Is(f) == f = [i \in 0..Len(s) |-> IF i = 0 THEN <<>>
                          ELSE IF s[i].id \in ids THEN f[i - 1] ELSE Append(f[i - 1], s[i])]
           F == CHOOSE f : Is(f)
<1>1. PICK n \in Nat : n = Len(s) /\ \A i \in 1..n : s[i] \in Buffered
  OBVIOUS
<1> DEFINE Step(i, t) == LeaveOut(s, ids, t, i)
           g == [i \in 1..n |-> [t \in S |-> Step(i, t)]]
<1>2. ASSUME NEW i \in 1..n, NEW t \in S PROVE Step(i, t) \in S
  BY <1>1 DEF LeaveOut
<1>3. F[0] = <<>> /\ \A i \in 1..n : F[i] = Step(i, F[i - 1])
  <2>1. g \in [1..n -> [S -> S]] /\ \A i \in 1..n, t \in S : g[i][t] = Step(i, t)
    <3> HIDE DEF S, Step
    <3> QED BY <1>2
  <2>2. <<>> \in S
    OBVIOUS
  <2> HIDE DEF g, S, Step
  <2>3. PICK G : Loops(G, S, <<>>, g, n)
    BY <2>1, <2>2, LoopExists
  <2>4. \A i \in 1..n : G[i - 1] \in S /\ G[i] = Step(i, G[i - 1])
    BY <2>1, <2>3 DEF Loops
  <2>5. \A i \in 0..n : G[i] = IF i = 0 THEN <<>> ELSE Step(i, G[i - 1])
    BY <2>3, <2>4 DEF Loops
  <2>6. Is(G)
    BY <1>1, <2>3, <2>5 DEF Step, LeaveOut, Loops
  <2> HIDE DEF Is
  <2>7. Is(F)
    BY <2>6
  <2> HIDE DEF F
  <2>8. \A i \in 0..n : F[i] = IF i = 0 THEN <<>> ELSE Step(i, F[i - 1])
    BY <1>1, <2>7 DEF Is, Step, LeaveOut
  <2> QED BY <2>8
<1>4. Without(s, ids) = F[n]
  BY <1>1 DEF Without
<1> HIDE DEF F
<1> DEFINE P == {i \in 0..n : IsLeft(s, ids, F[i], i)}
<1>5. 0 \in P
  <2>1. IsLeft(s, ids, <<>>, 0)
    BY DEF OnlyOnce, IsLeft
  <2> QED BY <1>3, <2>1
<1>6. ASSUME NEW i \in 1..n, i - 1 \in P PROVE i \in P
  <2>1. IsLeft(s, ids, F[i - 1], i - 1) /\ F[i - 1] \in Seq(Buffered)
    BY <1>6 DEF IsLeft
  <2>2. IsLeft(s, ids, F[i], i)
    BY <1>1, <1>3, <2>1, OneMoreIsLeft
  <2> QED BY <2>2
<1> HIDE DEF P
<1>7. n \in P
  BY <1>1, <1>5, <1>6, UpTo
<1> QED BY <1>1, <1>4, <1>7 DEF P

\* The numbers and ids of a sequence of events.
LEMMA SeqsAreNaturals ==
  ASSUME NEW s \in Seq(Buffered)
  PROVE  Len(s) \in Nat /\ \A i \in 1..Len(s) : s[i].seq \in Nat /\ s[i].id \in Ids
<1>1. \A e \in Buffered : e.seq \in Nat /\ e.id \in Ids
  BY DEF Buffered
<1> QED BY <1>1

\* The highest number is a number.
LEMMA NewestIs ==
  ASSUME NEW s \in Seq(Buffered)
  PROVE  Newest(s) \in Nat
<1> DEFINE Is(f) == f = [i \in 0..Len(s) |-> IF i = 0 THEN 0 ELSE Larger(f[i - 1], s[i].seq)]
           F == CHOOSE f : Is(f)
<1>1. PICK n \in Nat : n = Len(s) /\ \A i \in 1..n : s[i].seq \in Nat
  BY SeqsAreNaturals
<1> DEFINE g == [i \in 1..n |-> [m \in Nat |-> Larger(m, s[i].seq)]]
<1>2. g \in [1..n -> [Nat -> Nat]] /\ \A i \in 1..n, m \in Nat : g[i][m] = Larger(m, s[i].seq)
  BY <1>1 DEF Larger
<1> HIDE DEF g
<1>3. PICK G : Loops(G, Nat, 0, g, n)
  BY <1>2, LoopExists
<1>4. \A i \in 0..n : G[i] = IF i = 0 THEN 0 ELSE Larger(G[i - 1], s[i].seq)
  <2>1. G[0] = 0 /\ \A i \in 1..n : i - 1 \in 0..n /\ G[i - 1] \in Nat /\ G[i] = g[i][G[i - 1]]
    BY <1>3 DEF Loops
  <2>2. \A i \in 1..n : G[i] = Larger(G[i - 1], s[i].seq)
    BY <1>2, <2>1
  <2>3. \A i \in 0..n : i = 0 \/ i \in 1..n
    BY <1>1
  <2> QED BY <2>1, <2>2, <2>3
<1>5. Is(G)
  BY <1>1, <1>3, <1>4 DEF Loops
<1>6. Newest(s) = F[n]
  BY <1>1 DEF Newest
<1> HIDE DEF Is
<1>7. Is(F)
  BY <1>5
<1> HIDE DEF F
<1>8. \A i \in 0..n : F[i] = IF i = 0 THEN 0 ELSE Larger(F[i - 1], s[i].seq)
  BY <1>1, <1>7 DEF Is
<1> DEFINE P == {i \in 0..n : F[i] \in Nat}
<1>9. 0 \in P
  BY <1>8
<1>10. ASSUME NEW i \in 1..n, i - 1 \in P PROVE i \in P
  BY <1>1, <1>8, <1>10 DEF Larger
<1> HIDE DEF P
<1>11. n \in P
  BY <1>9, <1>10, UpTo
<1> QED BY <1>6, <1>11 DEF P

\* take_while takes the first, up to some position.
LEMMA NewerIs ==
  ASSUME NEW s \in Seq(Buffered), NEW after \in Int
  PROVE  Newer(s, after) \in 0..Len(s)
<1> DEFINE Ends(n) == /\ \A i \in 1..n : s[i].seq > after
                      /\ n < Len(s) => s[n + 1].seq <= after
           older == {i \in 1..Len(s) : s[i].seq <= after}
<1>1. Len(s) \in Nat /\ \A i \in 1..Len(s) : s[i].seq \in Nat
  BY SeqsAreNaturals
<1>2. \E n \in 0..Len(s) : Ends(n)
  <2>1. CASE older = {}
    <3>1. \A i \in 1..Len(s) : s[i].seq > after
      BY <1>1, <2>1
    <3> QED BY <1>1, <3>1
  <2>2. CASE older # {}
    <3>1. PICK m \in older : \A n \in older : m <= n
      <4>1. older \in SUBSET Nat
        BY <1>1
      <4> HIDE DEF older
      <4> QED BY <2>2, <4>1, LeastNatural
    <3>2. m - 1 \in 0..Len(s) /\ Ends(m - 1)
      BY <1>1, <3>1
    <3> QED BY <3>2
  <2> QED BY <2>1, <2>2
<1>3. Newer(s, after) = CHOOSE n \in 0..Len(s) : Ends(n)
  BY DEF Newer
<1> HIDE DEF Ends
<1> QED BY <1>2, <1>3

\* An answer's events are of the buffer, the newest first.
LEMMA QueryIs ==
  ASSUME buffer \in Seq(Buffered), NEW after \in Int, NEW limit \in Nat
  PROVE  /\ Query(after, limit) \in Seq(Buffered)
         /\ Len(Query(after, limit)) <= Len(buffer)
         /\ \A i \in 1..Len(Query(after, limit)) :
              Query(after, limit)[i] = buffer[Len(buffer) - i + 1]
<1> DEFINE list == Reverse(buffer)
           first == FirstOf(list, Newer(list, after))
<1>1. /\ list \in Seq(Buffered) /\ Len(list) = Len(buffer) /\ Len(buffer) \in Nat
      /\ \A i \in 1..Len(buffer) : list[i] = buffer[(Len(buffer) - i) + 1]
  <2>1. Len(buffer) \in Nat /\ \A i \in 1..Len(buffer) : (Len(buffer) - i) + 1 \in 1..Len(buffer)
    OBVIOUS
  <2>2. list \in [1..Len(buffer) -> Buffered]
    BY <2>1 DEF Reverse
  <2> QED BY <2>1, <2>2 DEF Reverse
<1> HIDE DEF list
<1>2. Newer(list, after) \in Nat
  <2>1. Newer(list, after) \in 0..Len(list)
    BY <1>1, NewerIs
  <2> QED BY <1>1, <2>1
<1>3. /\ first \in Seq(Buffered) /\ Len(first) \in Nat /\ Len(first) <= Len(list)
      /\ \A i \in 1..Len(first) : first[i] = list[i]
  BY <1>1, <1>2, FirstOfIs
<1>4. Query(after, limit) = FirstOf(first, limit)
  BY DEF Query, list
<1> HIDE DEF first
<1>5. /\ FirstOf(first, limit) \in Seq(Buffered) /\ Len(FirstOf(first, limit)) \in Nat
      /\ Len(FirstOf(first, limit)) <= Len(first)
      /\ \A i \in 1..Len(FirstOf(first, limit)) : FirstOf(first, limit)[i] = first[i]
  BY <1>3, FirstOfIs
<1> QED BY <1>1, <1>3, <1>4, <1>5

-----------------------------------------------------------------------------
(* The follower.                                                            *)

\* What a page follows.
From == IF cursor # Null THEN cursor ELSE IF happened > Page THEN happened - Page ELSE 0

\* The hub's page counts on from there, and holds no more than a page.
LEMMA HubPageIs ==
  ASSUME happened \in 0..MaxEvents, cursor \in 0..happened \cup {Null}
  PROVE  /\ From \in 0..happened /\ Len(HubPage) \in 0..Page /\ From + Len(HubPage) <= happened
         /\ HubPage \in Seq(Ids) /\ \A i \in 1..Len(HubPage) : HubPage[i] = From + i
<1> DEFINE log == [i \in 1..happened |-> i]
           rest == SubSeq(log, From + 1, happened)
<1>1. Page \in Nat /\ MaxEvents \in Nat /\ happened \in Nat
  BY FeedSizes
<1>2. From \in 0..happened
  BY <1>1 DEF From, Null
<1>3. log \in Seq(Ids) /\ Len(log) = happened /\ \A i \in 1..happened : log[i] = i
  <2>1. log \in [1..happened -> Ids]
    BY <1>1 DEF Ids
  <2> QED BY <1>1, <2>1
<1>4. HubPage = FirstOf(rest, Page)
  BY DEF HubPage, From
<1> HIDE DEF log, From
<1>5. rest \in Seq(Ids) /\ Len(rest) = happened - From /\ \A i \in 1..happened - From : rest[i] = From + i
  <2>1. \A i \in From + 1..happened : log[i] \in Ids
    BY <1>2, <1>3
  <2>2. rest \in Seq(Ids)
    BY <1>1, <1>2, <1>3, <2>1, SubSeqProperties
  <2>3. Len(rest) = happened - From
    BY <1>1, <1>2, <1>3, <2>1, SubSeqProperties
  <2>4. \A i \in 1..happened - From : rest[i] = log[From + 1 + i - 1]
    BY <1>1, <1>2, <1>3, <2>1, SubSeqProperties
  <2>5. \A i \in 1..happened - From : From + 1 + i - 1 = From + i /\ From + i \in 1..happened
    BY <1>1, <1>2
  <2> QED BY <1>3, <2>2, <2>3, <2>4, <2>5
<1> HIDE DEF rest
<1>6. /\ HubPage \in Seq(Ids) /\ Len(HubPage) \in Nat /\ Len(HubPage) <= Page
      /\ Len(HubPage) <= Len(rest) /\ \A i \in 1..Len(HubPage) : HubPage[i] = rest[i]
  BY <1>1, <1>4, <1>5, FirstOfIs
<1> QED BY <1>1, <1>2, <1>5, <1>6

\* The end of a sequence.
LEMMA SuffixIs ==
  ASSUME NEW s \in Seq(Buffered), NEW low \in 1..Len(s) + 1
  PROVE  /\ SubSeq(s, low, Len(s)) \in Seq(Buffered)
         /\ Len(SubSeq(s, low, Len(s))) = Len(s) - low + 1
         /\ \A i \in 1..Len(s) - low + 1 : SubSeq(s, low, Len(s))[i] = s[low + i - 1]
<1>1. Len(s) \in Nat /\ low \in Nat /\ \A i \in low..Len(s) : s[i] \in Buffered
  OBVIOUS
<1>2. SubSeq(s, low, Len(s)) \in Seq(Buffered)
  BY <1>1, SubSeqProperties
<1>3. Len(SubSeq(s, low, Len(s))) = Len(s) - low + 1
  BY <1>1, SubSeqProperties
<1>4. \A i \in 1..Len(s) - low + 1 : SubSeq(s, low, Len(s))[i] = s[low + i - 1]
  BY <1>1, SubSeqProperties
<1> QED BY <1>2, <1>3, <1>4

\* The ids of the end of a sequence.
LEMMA IdsOfSuffix ==
  ASSUME NEW s \in Seq(Buffered), NEW low \in 1..Len(s) + 1, NEW id
  PROVE  id \in IdsOf(SubSeq(s, low, Len(s))) <=> \E i \in low..Len(s) : s[i].id = id
<1>1. PICK n \in Nat : n = Len(s)
  OBVIOUS
<1>2. PICK t \in Seq(Buffered) : t = SubSeq(s, low, Len(s)) /\ Len(t) = n - low + 1
                                 /\ \A i \in 1..n - low + 1 : t[i] = s[low + i - 1]
  BY <1>1, SuffixIs
<1>3. id \in IdsOf(t) <=> \E i \in 1..Len(t) : t[i].id = id
  <2>1. DOMAIN t = 1..Len(t)
    OBVIOUS
  <2> QED BY <2>1 DEF IdsOf, Range
<1>4. ASSUME NEW i \in low..n PROVE i - low + 1 \in 1..Len(t) /\ t[i - low + 1] = s[i]
  <2>1. i - low + 1 \in 1..n - low + 1 /\ low + (i - low + 1) - 1 = i
    BY <1>1
  <2> QED BY <1>2, <2>1
<1>5. ASSUME NEW i \in 1..Len(t) PROVE low + i - 1 \in low..n /\ t[i] = s[low + i - 1]
  BY <1>1, <1>2
<1>6. ASSUME id \in IdsOf(t) PROVE \E i \in low..n : s[i].id = id
  <2>1. PICK i \in 1..Len(t) : t[i].id = id
    BY <1>3, <1>6
  <2> QED BY <1>5, <2>1
<1>7. ASSUME NEW i \in low..n, s[i].id = id PROVE id \in IdsOf(t)
  BY <1>3, <1>4, <1>7
<1> QED BY <1>1, <1>2, <1>6, <1>7

\* A sequence that counts to the event before counts to the event.
LEMMA AppendCounts ==
  ASSUME NEW b \in Seq(Buffered), NEW next \in Nat, NEW id \in Ids,
         CountsTo(b, next, id - 1)
  PROVE  /\ Append(b, [seq |-> next + 1, id |-> id]) \in Seq(Buffered)
         /\ Len(Append(b, [seq |-> next + 1, id |-> id])) = Len(b) + 1
         /\ CountsTo(Append(b, [seq |-> next + 1, id |-> id]), next + 1, id)
<1> DEFINE e == [seq |-> next + 1, id |-> id]
<1>0. e \in Buffered /\ e.seq = next + 1 /\ e.id = id
  BY DEF Buffered
<1> HIDE DEF e
<1>1. PICK new \in Buffered : new = e /\ new.seq = next + 1 /\ new.id = id
  BY <1>0
<1>2. PICK n \in Nat : n = Len(b)
  OBVIOUS
<1>3. PICK c \in Seq(Buffered) : /\ c = Append(b, new) /\ Len(c) = n + 1 /\ c[n + 1] = new
                                 /\ \A i \in 1..n : c[i] = b[i]
  <2>1. /\ Append(b, new) \in Seq(Buffered) /\ Len(Append(b, new)) = n + 1
        /\ Append(b, new)[n + 1] = new /\ \A i \in 1..n : Append(b, new)[i] = b[i]
    BY <1>2, AppendProperties
  <2> QED BY <2>1
<1>4. id \in Nat
  BY FeedSizes DEF Ids
<1>5. ASSUME NEW i \in 1..n + 1
      PROVE  c[i].seq = (next + 1) - (n + 1) + i /\ c[i].id = id - (n + 1) + i
  <2>1. CASE i = n + 1
    BY <1>1, <1>2, <1>3, <1>4, <2>1
  <2>2. CASE i # n + 1
    <3>1. i \in 1..n /\ c[i] = b[i]
      BY <1>2, <1>3, <2>2
    <3>2. b[i].seq = next - n + i /\ b[i].id = id - 1 - n + i
      BY <1>2, <3>1 DEF CountsTo
    <3>3. id - 1 - n + i = id - (n + 1) + i /\ next - n + i = (next + 1) - (n + 1) + i
      BY <1>2, <1>4, <3>1
    <3> QED BY <3>1, <3>2, <3>3
  <2> QED BY <2>1, <2>2
<1> QED BY <1>1, <1>2, <1>3, <1>5 DEF CountsTo, e

\* The end of a sequence counts as the sequence does.
LEMMA SuffixCounts ==
  ASSUME NEW s \in Seq(Buffered), NEW next \in Nat, NEW last \in Nat, CountsTo(s, next, last),
         NEW low \in 1..Len(s) + 1
  PROVE  CountsTo(SubSeq(s, low, Len(s)), next, last)
<1>1. PICK n \in Nat : n = Len(s)
  OBVIOUS
<1>2. PICK c : c = SubSeq(s, low, n) /\ Len(c) = n - low + 1
               /\ \A i \in 1..n - low + 1 : c[i] = s[low + i - 1]
  <2>1. /\ Len(SubSeq(s, low, Len(s))) = Len(s) - low + 1
        /\ \A i \in 1..Len(s) - low + 1 : SubSeq(s, low, Len(s))[i] = s[low + i - 1]
    BY SuffixIs
  <2> QED BY <1>1, <2>1
<1>3. low \in Nat /\ n - low + 1 \in Nat
  BY <1>1
<1>4. ASSUME NEW i \in 1..n - low + 1
      PROVE  c[i].seq = next - (n - low + 1) + i /\ c[i].id = last - (n - low + 1) + i
  <2>1. low + i - 1 \in 1..n /\ c[i] = s[low + i - 1]
    BY <1>1, <1>2, <1>3
  <2>2. s[low + i - 1].seq = next - n + (low + i - 1) /\ s[low + i - 1].id = last - n + (low + i - 1)
    BY <1>1, <2>1 DEF CountsTo
  <2>3. /\ next - n + (low + i - 1) = next - (n - low + 1) + i
        /\ last - n + (low + i - 1) = last - (n - low + 1) + i
    BY <1>1, <1>3
  <2> QED BY <2>1, <2>2, <2>3
<1> QED BY <1>1, <1>2, <1>4 DEF CountsTo

\* What a new event leaves of the buffer.
Slid(b, next, id) ==
  LET longer == Append(b, [seq |-> next + 1, id |-> id])
  IN SubSeq(longer, Larger(1, Len(longer) - Capacity + 1), Len(longer))

\* An event of the next id goes to the end, and the window slides if it must.
LEMMA WindowSlides ==
  ASSUME NEW b \in Seq(Buffered), NEW next \in Nat, NEW id \in Ids,
         Len(b) <= Capacity, CountsTo(b, next, id - 1)
  PROVE  /\ Slid(b, next, id) \in Seq(Buffered) /\ IsAWindow(Slid(b, next, id), next + 1)
         /\ Slid(b, next, id) # <<>> /\ LastId(Slid(b, next, id)) = id
         /\ Len(Slid(b, next, id)) = IF Len(b) < Capacity THEN Len(b) + 1 ELSE Capacity
<1>1. PICK n \in Nat : n = Len(b)
  OBVIOUS
<1>2. Capacity \in Nat \ {0} /\ n <= Capacity /\ id \in Nat
  BY <1>1, FeedSizes DEF Ids
<1>3. PICK longer \in Seq(Buffered) : /\ longer = Append(b, [seq |-> next + 1, id |-> id])
                                      /\ Len(longer) = n + 1 /\ CountsTo(longer, next + 1, id)
  BY <1>1, AppendCounts
<1>4. PICK low \in 1..n + 2 : low = Larger(1, n + 1 - Capacity + 1)
                              /\ n + 1 - low + 1 = IF n < Capacity THEN n + 1 ELSE Capacity
  BY <1>1, <1>2 DEF Larger
<1>5. PICK m \in Nat : m = n + 1 - low + 1 /\ m # 0 /\ m <= Capacity
  <2>1. CASE n < Capacity
    <3>1. n + 1 - low + 1 = n + 1 /\ n + 1 <= Capacity /\ n + 1 # 0
      BY <1>2, <1>4, <2>1
    <3> QED BY <3>1
  <2>2. CASE ~(n < Capacity)
    <3>1. n + 1 - low + 1 = Capacity
      BY <1>4, <2>2
    <3> QED BY <1>2, <3>1
  <2> QED BY <2>1, <2>2
<1>6. PICK cut \in Seq(Buffered) : cut = SubSeq(longer, low, Len(longer)) /\ Len(cut) = m
                                   /\ CountsTo(cut, next + 1, id)
  <2>1. low \in 1..Len(longer) + 1 /\ next + 1 \in Nat
    BY <1>1, <1>3, <1>4
  <2>2. SubSeq(longer, low, Len(longer)) \in Seq(Buffered)
        /\ Len(SubSeq(longer, low, Len(longer))) = Len(longer) - low + 1
    BY <2>1, SuffixIs
  <2>3. CountsTo(SubSeq(longer, low, Len(longer)), next + 1, id)
    BY <1>2, <1>3, <2>1, SuffixCounts
  <2>4. Len(longer) - low + 1 = m
    BY <1>3, <1>5
  <2> DEFINE d == SubSeq(longer, low, Len(longer))
  <2>5. d \in Seq(Buffered) /\ Len(d) = m /\ CountsTo(d, next + 1, id)
    BY <2>2, <2>3, <2>4
  <2>6. d = SubSeq(longer, low, Len(longer))
    OBVIOUS
  <2> HIDE DEF d
  <2> QED BY <2>5, <2>6
<1>7. LastId(cut) = id
  <2>1. m \in 1..m /\ id - m + m = id
    BY <1>2, <1>5
  <2> QED BY <1>6, <2>1 DEF LastId, CountsTo
<1>8. cut # <<>> /\ IsAWindow(cut, next + 1)
  BY <1>5, <1>6, <1>7 DEF IsAWindow
<1>9. Slid(b, next, id) = cut
  <2>1. Slid(b, next, id) = SubSeq(longer, Larger(1, Len(longer) - Capacity + 1), Len(longer))
    <3> DEFINE w == Append(b, [seq |-> next + 1, id |-> id])
    <3>1. Slid(b, next, id) = SubSeq(w, Larger(1, Len(w) - Capacity + 1), Len(w))
      BY DEF Slid
    <3>2. longer = w
      BY <1>3
    <3> HIDE DEF w
    <3> QED BY <3>1, <3>2
  <2>2. Larger(1, Len(longer) - Capacity + 1) = low
    BY <1>2, <1>3, <1>4 DEF Larger
  <2> QED BY <1>6, <2>1, <2>2, Zenon
<1>10. Len(cut) = IF Len(b) < Capacity THEN Len(b) + 1 ELSE Capacity
  BY <1>1, <1>4, <1>5, <1>6
<1> QED BY <1>6, <1>7, <1>8, <1>9, <1>10

\* c, numbered up to n, is what there is once the event is in.
Puts(b, id, c, n) ==
  /\ IsAWindow(c, n) /\ c # <<>>
  /\ LastId(c) = IF b # <<>> /\ id <= LastId(b) THEN LastId(b) ELSE id
  /\ Len(c) = IF b # <<>> /\ id <= LastId(b) THEN Len(b)
              ELSE IF Len(b) < Capacity THEN Len(b) + 1 ELSE Capacity

\* The place of an event that is in the buffer.
LEMMA BehindBy ==
  ASSUME NEW k \in Nat, NEW l \in Nat, NEW id \in Nat, NEW page \in Nat,
         id <= l, id > l - page, id > l - k
  PROVE  k - (l - id) \in 1..k /\ k - (l - id) >= k - page + 1
OBVIOUS

\* An event that is no more than one behind the last, and among the page extend looks
\* at, keeps the buffer a window.
LEMMA PutIs ==
  ASSUME NEW b \in Seq(Buffered), NEW next \in Nat, IsAWindow(b, next), NEW id \in Ids,
         b # <<>> => id <= LastId(b) + 1 /\ id > LastId(b) - Page /\ id > LastId(b) - Len(b)
  PROVE  \E c \in Seq(Buffered), n \in Nat :
           /\ Put([buffer |-> b, next |-> next], id) = [buffer |-> c, next |-> n]
           /\ Puts(b, id, c, n)
<1> DEFINE low == Larger(1, Len(b) - Page + 1)
           cut == Slid(b, next, id)
           seen == IdsOf(SubSeq(b, low, Len(b)))
           put == Put([buffer |-> b, next |-> next], id)
<1>1. put = IF id \in seen THEN [buffer |-> b, next |-> next]
            ELSE [buffer |-> cut, next |-> next + 1]
  BY DEF Put, Slid
<1>2. PICK k \in Nat : k = Len(b) /\ (b # <<>> <=> k # 0)
  OBVIOUS
<1>3. Page \in Nat \ {0} /\ id \in Nat /\ low \in 1..k + 1 /\ low >= k - Page + 1
      /\ (low = 1 \/ low = k - Page + 1)
  <2>1. Page \in Nat \ {0} /\ id \in Nat
    BY FeedSizes DEF Ids
  <2>2. CASE k - Page + 1 >= 1
    BY <1>2, <2>1, <2>2 DEF Larger
  <2>3. CASE ~(k - Page + 1 >= 1)
    BY <1>2, <2>1, <2>3 DEF Larger
  <2> QED BY <2>1, <2>2, <2>3
<1>4. id \in seen <=> \E i \in low..k : b[i].id = id
  BY <1>2, <1>3, IdsOfSuffix
<1> HIDE DEF low, seen, put, cut
<1>5. ASSUME k # 0 PROVE LastId(b) \in Nat
  <2>1. LastId(b) \in Ids
    BY <1>2, <1>5, SeqsAreNaturals DEF LastId
  <2> QED BY <2>1, FeedSizes DEF Ids
<1>6. CASE b # <<>> /\ id <= LastId(b)
  <2>1. PICK l \in Nat : l = LastId(b)
    BY <1>2, <1>5, <1>6
  <2>2. id <= l /\ id > l - Page /\ id > l - k
    <3>1. id <= LastId(b) /\ id > LastId(b) - Page /\ id > LastId(b) - Len(b)
      BY <1>6
    <3> QED BY <1>2, <2>1, <3>1
  <2>3. PICK i \in 1..k : i = k - (l - id) /\ i >= k - Page + 1
    BY <1>3, <2>2, BehindBy
  <2>4. i \in low..k
    <3>1. low \in Nat /\ low <= i
      BY <1>3, <2>3
    <3> QED BY <2>3, <3>1
  <2>5. b[i].id = id
    <3>1. b[i].id = l - k + i
      BY <1>2, <2>1, <2>3 DEF IsAWindow, CountsTo
    <3> QED BY <1>2, <1>3, <2>1, <2>3, <3>1
  <2>6. put = [buffer |-> b, next |-> next]
    BY <1>1, <1>4, <2>4, <2>5
  <2> QED BY <1>6, <2>6 DEF put, Puts
<1>7. CASE b = <<>> \/ ~(id <= LastId(b))
  <2>1. CountsTo(b, next, id - 1)
    <3>1. CASE b = <<>>
      BY <3>1 DEF CountsTo
    <3>2. CASE b # <<>>
      <4>1. LastId(b) \in Nat /\ LastId(b) = id - 1
        BY <1>2, <1>3, <1>5, <1>7, <3>2
      <4> QED BY <4>1 DEF IsAWindow
    <3> QED BY <3>1, <3>2
  <2>2. ASSUME NEW i \in low..k PROVE b[i].id # id
    <3>1. i \in 1..k /\ b[i].id = id - 1 - k + i
      BY <1>2, <1>3, <2>1 DEF CountsTo
    <3> QED BY <1>2, <1>3, <3>1
  <2>3. put = [buffer |-> cut, next |-> next + 1]
    BY <1>1, <1>4, <2>2
  <2>4. /\ cut \in Seq(Buffered) /\ IsAWindow(cut, next + 1)
        /\ cut # <<>> /\ LastId(cut) = id
        /\ Len(cut) = IF Len(b) < Capacity THEN Len(b) + 1 ELSE Capacity
    <3>1. Len(b) <= Capacity
      BY DEF IsAWindow
    <3> QED BY <2>1, <3>1, WindowSlides DEF cut
  <2>5. next + 1 \in Nat /\ ~(b # <<>> /\ id <= LastId(b))
    BY <1>7
  <2> QED BY <2>3, <2>4, <2>5 DEF put, Puts
<1> QED BY <1>6, <1>7

\* What extend works on: the buffer and the number it gave last.
Buffers == [buffer : Seq(Buffered), next : Nat]

\* Whatever is put in, there is a buffer and a number.
LEMMA PutType ==
  ASSUME NEW a \in Buffers, NEW id \in Ids
  PROVE  Put(a, id) \in Buffers
<1>1. PICK b \in Seq(Buffered), next \in Nat : a = [buffer |-> b, next |-> next]
  BY DEF Buffers
<1>2. a.buffer = b /\ a.next = next
  BY <1>1
<1>3. Put(a, id) = a \/ Put(a, id) = [next |-> next + 1, buffer |-> Slid(b, next, id)]
  <2>1. Put(a, id) = IF id \in IdsOf(SubSeq(b, Larger(1, Len(b) - Page + 1), Len(b))) THEN a
                     ELSE [next |-> next + 1, buffer |-> Slid(b, next, id)]
    BY <1>2 DEF Put, Slid
  <2> QED BY <2>1
<1>4. Slid(b, next, id) \in Seq(Buffered)
  <2> DEFINE w == Append(b, [seq |-> next + 1, id |-> id])
  <2>1. Slid(b, next, id) = SubSeq(w, Larger(1, Len(w) - Capacity + 1), Len(w))
    BY DEF Slid
  <2>2. [seq |-> next + 1, id |-> id] \in Buffered
    BY DEF Buffered
  <2>3. w \in Seq(Buffered) /\ Len(w) \in Nat
    BY <2>2
  <2> HIDE DEF w
  <2>4. Larger(1, Len(w) - Capacity + 1) \in 1..Len(w) + 1
    BY <2>3, FeedSizes DEF Larger
  <2> QED BY <2>1, <2>3, <2>4, SuffixIs
<1> QED BY <1>3, <1>4 DEF Buffers

\* What holds once i events of the page are in: the buffer is a window that reaches to
\* the i-th event or beyond it.
Follows(a, i) ==
  /\ a \in Buffers /\ IsAWindow(a.buffer, a.next)
  /\ (a.buffer = <<>> => i = 0) /\ (i = 0 => a.buffer = buffer)
  /\ a.buffer # <<>> => LastId(a.buffer) >= From + i
  /\ Reaches(a.buffer, From)

\* The last event of a buffer that has one.
LEMMA LastIsNatural ==
  ASSUME NEW b \in Seq(Buffered), b # <<>>
  PROVE  LastId(b) \in Nat /\ Len(b) \in Nat \ {0}
<1>1. Len(b) \in Nat \ {0} /\ Len(b) \in 1..Len(b)
  OBVIOUS
<1>2. LastId(b) \in Ids
  BY <1>1, SeqsAreNaturals DEF LastId
<1> QED BY <1>1, <1>2, FeedSizes DEF Ids

\* The next event of the page, seen from the last event of the buffer.
LEMMA NextIs ==
  ASSUME NEW from \in Nat, NEW i \in Nat, NEW last \in Nat, NEW n \in Nat, NEW page \in Nat,
         i >= 1, last >= from + (i - 1), last - from <= page, last - from <= n
  PROVE  /\ from + i <= last + 1 /\ from + i > last - page /\ from + i > last - n
         /\ from + i > last => last - from = i - 1 /\ i - 1 <= n
OBVIOUS

\* The page's next event goes in, or is in already.
LEMMA PutFollows ==
  ASSUME happened \in 0..MaxEvents, cursor \in 0..happened \cup {Null},
         NEW i \in 1..Len(HubPage), NEW a \in Buffers, Follows(a, i - 1)
  PROVE  Follows(Put(a, HubPage[i]), i)
<1>1. PICK b \in Seq(Buffered), next \in Nat : a = [buffer |-> b, next |-> next]
  BY DEF Buffers
<1>2. /\ IsAWindow(b, next) /\ (b = <<>> => i - 1 = 0)
      /\ (b # <<>> => LastId(b) >= From + (i - 1)) /\ Reaches(b, From)
  BY <1>1 DEF Follows
<1>3. PICK id \in Ids : id = HubPage[i] /\ id = From + i
  BY HubPageIs
<1>4. PICK from \in Nat, k \in Nat :
        from = From /\ k = Len(HubPage) /\ k <= Page /\ from + k <= happened /\ i \in 1..k
  BY HubPageIs
<1>5. id = from + i /\ id \in Nat /\ i \in Nat /\ i >= 1
  BY <1>3, <1>4
<1>6. Page \in Nat /\ happened \in Nat /\ Capacity \in Nat /\ Page <= Capacity /\ i \in Nat
  BY <1>4, FeedSizes
<1>7. PICK n \in Nat : n = Len(b)
  OBVIOUS
<1>8. CASE b = <<>>
  <2>1. PICK c \in Seq(Buffered), m \in Nat :
          /\ Put(a, id) = [buffer |-> c, next |-> m]
          /\ IsAWindow(c, m) /\ c # <<>> /\ LastId(c) = id
          /\ Len(c) = IF n < Capacity THEN n + 1 ELSE Capacity
    <3>1. PICK c \in Seq(Buffered), m \in Nat :
            Put([buffer |-> b, next |-> next], id) = [buffer |-> c, next |-> m] /\ Puts(b, id, c, m)
      BY <1>2, <1>8, PutIs
    <3> QED BY <1>1, <1>7, <1>8, <3>1 DEF Puts
  <2>2. i = 1 /\ n = 0 /\ id = from + 1
    BY <1>2, <1>3, <1>4, <1>6, <1>7, <1>8
  <2>3. Capacity # 0 /\ Page # 0
    BY FeedSizes
  <2>4. LastId(c) - from = 1 /\ 1 \in 0..Page /\ 1 <= Len(c) /\ LastId(c) <= happened
    BY <1>4, <1>6, <2>1, <2>2, <2>3
  <2>5. Reaches(c, From)
    BY <1>4, <2>4 DEF Reaches
  <2>6. LastId(c) >= From + i
    BY <1>4, <2>1, <2>2
  <2>7. [buffer |-> c, next |-> m] \in Buffers
    BY DEF Buffers
  <2> QED BY <1>3, <1>5, <2>1, <2>5, <2>6, <2>7 DEF Follows
<1>9. CASE b # <<>>
  <2>1. PICK last \in Nat :
          /\ last = LastId(b) /\ last >= from + (i - 1) /\ last - from \in 0..Page
          /\ last - from <= n /\ last <= happened
    BY <1>2, <1>4, <1>7, <1>9, LastIsNatural DEF Reaches
  <2>2. id <= last + 1 /\ id > last - Page /\ id > last - n
    <3>1. last - from <= Page
      BY <1>4, <1>6, <2>1
    <3> QED BY <1>4, <1>6, <1>7, <1>5, <2>1, <3>1, NextIs
  <2>3. PICK c \in Seq(Buffered), m \in Nat :
          Put(a, id) = [buffer |-> c, next |-> m] /\ Puts(b, id, c, m)
    <3>1. b # <<>> => id <= LastId(b) + 1 /\ id > LastId(b) - Page /\ id > LastId(b) - Len(b)
      BY <1>7, <2>1, <2>2
    <3>2. \E c \in Seq(Buffered), m \in Nat :
            Put([buffer |-> b, next |-> next], id) = [buffer |-> c, next |-> m] /\ Puts(b, id, c, m)
      BY <1>2, <3>1, PutIs
    <3> QED BY <1>1, <3>2
  <2>4. /\ LastId(c) = IF id <= last THEN last ELSE id
        /\ Len(c) = IF id <= last THEN n ELSE IF n < Capacity THEN n + 1 ELSE Capacity
        /\ IsAWindow(c, m) /\ c # <<>>
    BY <1>7, <1>9, <2>1, <2>3 DEF Puts
  <2>5. /\ LastId(c) - from \in 0..Page /\ LastId(c) - from <= Len(c)
        /\ LastId(c) <= happened /\ LastId(c) >= from + i
    <3>1. id = from + i
      BY <1>3, <1>4
    <3>2. CASE id <= last
      BY <1>4, <1>6, <2>1, <2>4, <3>1, <3>2
    <3>3. CASE ~(id <= last)
      <4>1. LastId(c) = id /\ id - from = i /\ last - from = i - 1
        <5>1. LastId(c) = id
          BY <2>4, <3>3
        <5>2. from + i > last
          <6>1. ~(from + i <= last)
            BY <3>1, <3>3
          <6> QED BY <1>5, <6>1
        <5>3. last - from = i - 1
          <6>1. last - from <= Page
            BY <1>4, <1>6, <2>1
          <6> QED BY <1>6, <1>7, <1>5, <2>1, <5>2, <6>1, NextIs
        <5>4. from + i - from = i
          BY <1>5
        <5> QED BY <1>5, <5>1, <5>3, <5>4
      <4>2. i <= Len(c)
        <5>1. i - 1 <= n /\ i <= Capacity
          BY <1>4, <1>6, <2>1, <4>1
        <5>2. Len(c) = IF n < Capacity THEN n + 1 ELSE Capacity
          BY <2>4, <3>3
        <5> QED BY <1>6, <1>7, <5>1, <5>2
      <4>3. id <= happened /\ i \in 0..Page
        BY <1>4, <1>6, <3>1
      <4> QED BY <3>1, <4>1, <4>2, <4>3
    <3> QED BY <3>2, <3>3
  <2>6. Reaches(c, From)
    BY <1>4, <2>5 DEF Reaches
  <2>7. LastId(c) >= From + i
    BY <1>4, <2>5
  <2>8. [buffer |-> c, next |-> m] \in Buffers
    BY DEF Buffers
  <2> QED BY <1>3, <1>5, <2>3, <2>4, <2>6, <2>7, <2>8 DEF Follows
<1> QED BY <1>8, <1>9

\* A page, whether it is new or brings again what the last one brought, leaves the
\* buffer a window that reaches to its end.
LEMMA ExtendIs ==
  ASSUME happened \in 0..MaxEvents, cursor \in 0..happened \cup {Null},
         buffer \in Seq(Buffered), nextSeq \in Nat, FollowerInv
  PROVE  Follows(Extend(HubPage), Len(HubPage))
<1> DEFINE base == [buffer |-> buffer, next |-> nextSeq]
           Is(f) == f = [i \in 0..Len(HubPage) |->
                          IF i = 0 THEN base ELSE Put(f[i - 1], HubPage[i])]
           F == CHOOSE f : Is(f)
<1>1. PICK n \in Nat : n = Len(HubPage) /\ \A i \in 1..n : HubPage[i] \in Ids
  BY HubPageIs
<1> DEFINE g == [i \in 1..n |-> [a \in Buffers |-> Put(a, HubPage[i])]]
<1>2. /\ g \in [1..n -> [Buffers -> Buffers]]
      /\ \A i \in 1..n, a \in Buffers : g[i][a] = Put(a, HubPage[i])
  <2>1. \A i \in 1..n, a \in Buffers : Put(a, HubPage[i]) \in Buffers
    BY <1>1, PutType
  <2> QED BY <2>1
<1> HIDE DEF g
<1>3. base \in Buffers
  BY DEF Buffers
<1>4. Extend(HubPage) = F[n]
  BY <1>1 DEF Extend
<1> HIDE DEF base
<1>5. PICK G : Loops(G, Buffers, base, g, n)
  BY <1>2, <1>3, LoopExists
<1>6. \A i \in 0..n : G[i] = IF i = 0 THEN base ELSE Put(G[i - 1], HubPage[i])
  <2>1. G[0] = base /\ \A i \in 1..n : i - 1 \in 0..n /\ G[i - 1] \in Buffers /\ G[i] = g[i][G[i - 1]]
    BY <1>5 DEF Loops
  <2>2. \A i \in 1..n : G[i] = Put(G[i - 1], HubPage[i])
    BY <1>2, <2>1
  <2>3. \A i \in 0..n : i = 0 \/ i \in 1..n
    BY <1>1
  <2> QED BY <2>1, <2>2, <2>3
<1>7. Is(G)
  BY <1>1, <1>5, <1>6 DEF Loops
<1> HIDE DEF Is
<1>8. Is(F)
  BY <1>7
<1> HIDE DEF F
<1>9. \A i \in 0..n : F[i] = IF i = 0 THEN base ELSE Put(F[i - 1], HubPage[i])
  BY <1>1, <1>8 DEF Is
<1> DEFINE P == {i \in 0..n : Follows(F[i], i)}
<1>10. 0 \in P
  <2>1. F[0] = base /\ base.buffer = buffer /\ base.next = nextSeq
    BY <1>9 DEF base
  <2>2. buffer # <<>> => cursor = From
    BY DEF FollowerInv, From
  <2>3. From \in Nat
    BY HubPageIs
  <2>4. ASSUME buffer # <<>> PROVE LastId(buffer) >= From + 0
    <3>1. LastId(buffer) - From \in 0..Page
      BY <2>2, <2>4 DEF FollowerInv, Reaches
    <3>2. LastId(buffer) \in Nat
      BY <2>4, LastIsNatural
    <3> QED BY <2>3, <3>1, <3>2, FeedSizes
  <2>5. Reaches(buffer, From)
    BY <2>2 DEF FollowerInv, Reaches
  <2>6. Follows(F[0], 0)
    BY <1>3, <2>1, <2>4, <2>5 DEF Follows, FollowerInv
  <2> QED BY <2>6
<1>11. ASSUME NEW i \in 1..n, i - 1 \in P PROVE i \in P
  <2>1. Follows(F[i - 1], i - 1) /\ F[i - 1] \in Buffers
    BY <1>11 DEF Follows
  <2>2. Follows(Put(F[i - 1], HubPage[i]), i)
    BY <1>1, <2>1, PutFollows
  <2> QED BY <1>9, <2>2
<1> HIDE DEF P
<1>12. n \in P
  BY <1>10, <1>11, UpTo
<1> QED BY <1>1, <1>4, <1>12 DEF P

\* The follower's poll, whether its page names a next cursor or not.
LEMMA FollowKeeps ==
  ASSUME TypeOK, FollowerInv, NEW named \in BOOLEAN, Follow(named)
  PROVE  /\ cursor' \in 0..happened' \cup {Null} /\ buffer' \in Seq(Buffered) /\ nextSeq' \in Nat
         /\ FollowerInv'
<1>1. /\ happened \in 0..MaxEvents /\ cursor \in 0..happened \cup {Null}
      /\ buffer \in Seq(Buffered) /\ nextSeq \in Nat
  BY DEF TypeOK
<1>2. PICK c \in Seq(Buffered), n \in Nat :
        /\ c = Extend(HubPage).buffer /\ n = Extend(HubPage).next
        /\ IsAWindow(c, n) /\ (c = <<>> => Len(HubPage) = 0) /\ (Len(HubPage) = 0 => c = buffer)
        /\ (c # <<>> => LastId(c) >= From + Len(HubPage)) /\ Reaches(c, From)
  <2>1. Follows(Extend(HubPage), Len(HubPage))
    BY <1>1, ExtendIs
  <2> QED BY <2>1 DEF Follows, Buffers
<1>3. PICK from \in Nat, k \in Nat :
        from = From /\ k = Len(HubPage) /\ from + k <= happened
  BY <1>1, HubPageIs
<1>4. /\ buffer' = c /\ nextSeq' = n /\ happened' = happened
      /\ cursor' = IF named THEN NextCursor(HubPage) ELSE cursor
      /\ named \/ cursor # Null
  BY <1>2 DEF Follow
<1>5. happened \in Nat /\ MaxEvents \in Nat /\ Page \in Nat
  BY <1>1, FeedSizes
<1>6. PICK to \in Nat : /\ to = cursor' /\ to <= happened /\ to # Null
                        /\ (to = from + k \/ to = from \/ c = <<>>)
                        /\ (c = <<>> => to = 0)
  <2>1. CASE named /\ k # 0
    <3>1. Last(HubPage) = from + k
      <4>1. k \in 1..Len(HubPage) /\ HubPage \in Seq(Ids)
        BY <1>1, <1>3, <2>1, HubPageIs
      <4> QED BY <1>1, <1>3, <4>1, HubPageIs DEF Last
    <3>2. HubPage # <<>>
      BY <1>3, <2>1
    <3>3. cursor' = from + k /\ c # <<>>
      BY <1>2, <1>3, <1>4, <2>1, <3>1, <3>2 DEF NextCursor
    <3> QED BY <1>3, <3>3 DEF Null
  <2>2. CASE named /\ k = 0
    <3>1. HubPage = <<>>
      <4>1. PICK page \in Seq(Ids) : page = HubPage
        BY <1>1, HubPageIs
      <4>2. Len(page) = 0
        BY <1>3, <2>2, <4>1
      <4> QED BY <4>1, <4>2
    <3>2. cursor' = Larger(cursor, 0)
      BY <1>4, <2>2, <3>1 DEF NextCursor
    <3>3. c = buffer
      BY <1>2, <1>3, <2>2
    <3>4. CASE cursor = Null
      <4>1. cursor' = 0
        BY <3>2, <3>4 DEF Larger, Null
      <4>2. c = <<>>
        BY <3>3, <3>4 DEF FollowerInv
      <4> QED BY <1>5, <4>1, <4>2 DEF Null
    <3>5. CASE cursor # Null
      <4>1. from = cursor /\ cursor \in Nat /\ cursor <= happened /\ cursor' = cursor
        BY <1>1, <1>3, <1>5, <3>2, <3>5 DEF From, Larger
      <4>2. c = <<>> => cursor = 0
        BY <3>3, <3>5 DEF FollowerInv
      <4>3. cursor = from + k
        BY <1>3, <2>2, <4>1
      <4> QED BY <4>1, <4>2, <4>3 DEF Null
    <3> QED BY <3>4, <3>5
  <2>3. CASE ~named
    <3>1. cursor # Null /\ cursor' = cursor /\ from = cursor /\ cursor \in Nat /\ cursor <= happened
      BY <1>1, <1>3, <1>4, <1>5, <2>3 DEF From
    <3>2. c = <<>> => cursor = 0
      <4> SUFFICES ASSUME c = <<>> PROVE cursor = 0
        OBVIOUS
      <4>3. buffer = <<>>
        BY <1>2
      <4> QED BY <3>1, <4>3 DEF FollowerInv
    <3> QED BY <2>3, <3>1, <3>2
  <2> QED BY <2>1, <2>2, <2>3
<1>7. Reaches(c, to)
  <2> SUFFICES ASSUME c # <<>>
               PROVE  /\ LastId(c) - to \in 0..Page /\ LastId(c) - to <= Len(c)
                      /\ LastId(c) <= happened
    BY DEF Reaches
  <2>1. PICK last \in Nat, m \in Nat :
          /\ last = LastId(c) /\ m = Len(c) /\ last >= from + k
          /\ last - from \in 0..Page /\ last - from <= m /\ last <= happened
    BY <1>2, <1>3, LastIsNatural DEF Reaches
  <2>2. CASE to = from + k
    BY <1>3, <1>5, <2>1, <2>2
  <2>3. CASE to = from
    BY <1>3, <1>5, <2>1, <2>3
  <2> QED BY <1>6, <2>1, <2>2, <2>3
<1>8. cursor' \in 0..happened' \cup {Null} /\ buffer' \in Seq(Buffered) /\ nextSeq' \in Nat
  BY <1>4, <1>5, <1>6
<1>9. IsAWindow(buffer', nextSeq') /\ cursor' # Null /\ (buffer' = <<>> => cursor' = 0)
  BY <1>2, <1>4, <1>6
<1>10. Reaches(buffer, cursor)'
  BY <1>4, <1>6, <1>7 DEF Reaches
<1> QED BY <1>8, <1>9, <1>10 DEF FollowerInv, IsAWindow, CountsTo, LastId

-----------------------------------------------------------------------------
(* Polls.                                                                   *)

\* A place for a poll: free, or with a poll that was sent or answered.
Poll == {Idle} \cup Sent \cup Answer

\* One poll changes, into one that is well-formed and has no event twice.
LEMMA OnePoll ==
  ASSUME polls \in [1..Slots -> Poll], AnswersInv, NEW s \in 1..Slots, NEW p \in Poll,
         p.at \in {"read", "answered"} => OnlyOnce(p.batch),
         polls' = [polls EXCEPT ![s] = p]
  PROVE  polls' \in [1..Slots -> Poll] /\ AnswersInv'
<1>1. polls' \in [1..Slots -> Poll]
  OBVIOUS
<1>2. ASSUME NEW o \in 1..Slots, polls'[o].at \in {"read", "answered"}
      PROVE  OnlyOnce(polls'[o].batch)
  BY <1>2 DEF AnswersInv
<1> QED BY <1>1, <1>2 DEF AnswersInv, OnlyOnce

\* A request is a poll on its way.
LEMMA RequestIs ==
  ASSUME NEW by \in {"first", "interval", "stopped"}, NEW after \in Nat \cup {Null}
  PROVE  Request(by, after) \in Poll /\ Request(by, after).at = "sent"
<1>1. Request(by, after) = [at |-> "sent", by |-> by, after |-> after,
                            limit |-> IF after = Null THEN Keep ELSE Limit]
  BY DEF Request
<1>2. (IF after = Null THEN Keep ELSE Limit) \in {Limit, Keep}
  OBVIOUS
<1> QED BY <1>1, <1>2 DEF Sent, Poll

\* What a poll that was sent holds.
LEMMA SentIs ==
  ASSUME NEW p \in Poll, p.at = "sent"
  PROVE  /\ p.by \in {"first", "interval", "stopped"} /\ p.after \in Nat \cup {Null}
         /\ p.limit \in {Limit, Keep}
<1>1. p # Idle /\ p \notin Answer
  BY DEF Idle, Answer
<1> QED BY <1>1 DEF Poll, Sent

\* What an answer holds.
LEMMA AnswerIs ==
  ASSUME NEW p \in Poll, p.at \in {"read", "answered"}
  PROVE  /\ p \in Answer /\ p.by \in {"first", "interval", "stopped"}
         /\ p.batch \in Seq(Buffered) /\ p.latest \in Nat \cup {Null}
<1>1. p # Idle /\ p \notin Sent
  BY DEF Idle, Sent
<1>2. p \in Answer
  BY <1>1 DEF Poll
<1> QED BY <1>2 DEF Answer

\* What a poll is answered has no event twice, as the buffer is a window.
LEMMA ReadKeeps ==
  ASSUME TypeOK, FollowerInv, AnswersInv, NEW s \in 1..Slots, ReadEvents(s)
  PROVE  polls' \in [1..Slots -> Poll] /\ AnswersInv'
<1>1. polls \in [1..Slots -> Poll] /\ buffer \in Seq(Buffered) /\ nextSeq \in Nat
  BY DEF TypeOK, Poll
<1>2. PICK p \in Poll : p = polls[s] /\ p.at = "sent"
  BY <1>1 DEF ReadEvents
<1>3. /\ p.by \in {"first", "interval", "stopped"} /\ p.after \in Int /\ p.limit \in Nat
  BY <1>2, SentIs, FeedSizes DEF Null
<1>4. PICK q \in Seq(Buffered) :
        /\ q = Query(p.after, p.limit) /\ Len(q) <= Len(buffer)
        /\ \A i \in 1..Len(q) : q[i] = buffer[Len(buffer) - i + 1]
  BY <1>1, <1>3, QueryIs
<1>5. OnlyOnce(q)
  <2>1. PICK n \in Nat, m \in Nat : n = Len(buffer) /\ m = Len(q)
    OBVIOUS
  <2>2. CASE n = 0
    BY <1>4, <2>1, <2>2 DEF OnlyOnce
  <2>3. CASE n # 0
    <3>1. PICK last \in Nat : last = LastId(buffer)
      <4>1. buffer # <<>>
        BY <2>1, <2>3
      <4> QED BY <1>1, <4>1, LastIsNatural
    <3>2. ASSUME NEW i \in 1..m PROVE q[i].id = last - i + 1
      <4>1. n - i + 1 \in 1..n /\ q[i] = buffer[n - i + 1]
        BY <1>4, <2>1
      <4>2. buffer[n - i + 1].id = last - n + (n - i + 1)
        BY <2>1, <3>1, <4>1 DEF FollowerInv, IsAWindow, CountsTo
      <4> QED BY <2>1, <3>1, <4>1, <4>2
    <3>3. ASSUME NEW i \in 1..m, NEW j \in 1..m, q[i].id = q[j].id PROVE i = j
      <4>1. last - i + 1 = last - j + 1
        BY <3>2, <3>3
      <4> QED BY <2>1, <3>1, <4>1
    <3> QED BY <2>1, <3>3 DEF OnlyOnce
  <2> QED BY <2>2, <2>3
<1>6. PICK batch \in Seq(Buffered) : batch = Without(q, Hidden) /\ OnlyOnce(batch)
  BY <1>5, WithoutIs DEF IsLeft
<1>7. PICK r : r = [at |-> "read", by |-> p.by, latest |-> Null, batch |-> batch]
  OBVIOUS
<1>8. r \in Poll /\ r.batch = batch
  BY <1>3, <1>7 DEF Poll, Answer
<1>9. polls' = [polls EXCEPT ![s] = r]
  BY <1>2, <1>4, <1>6, <1>7 DEF ReadEvents
<1> QED BY <1>1, <1>6, <1>8, <1>9, OnePoll

\* The newest number goes into an answer.
LEMMA LatestKeeps ==
  ASSUME TypeOK, AnswersInv, NEW s \in 1..Slots, ReadLatest(s)
  PROVE  polls' \in [1..Slots -> Poll] /\ AnswersInv'
<1>1. polls \in [1..Slots -> Poll] /\ nextSeq \in Nat
  BY DEF TypeOK, Poll
<1>2. PICK p \in Poll : p = polls[s] /\ p.at = "read"
  BY <1>1 DEF ReadLatest
<1>3. p \in Answer /\ OnlyOnce(p.batch)
  BY <1>2, AnswerIs DEF AnswersInv
<1>4. PICK r : r = [p EXCEPT !.at = "answered", !.latest = nextSeq]
  OBVIOUS
<1>5. r \in Poll /\ r.batch = p.batch
  BY <1>1, <1>3, <1>4 DEF Poll, Answer
<1>6. polls' = [polls EXCEPT ![s] = r]
  BY <1>2, <1>4 DEF ReadLatest
<1> QED BY <1>1, <1>3, <1>5, <1>6, OnePoll

\* A poll ends.
LEMMA FailKeeps ==
  ASSUME TypeOK, AnswersInv, NEW s \in 1..Slots, polls' = [polls EXCEPT ![s] = Idle]
  PROVE  polls' \in [1..Slots -> Poll] /\ AnswersInv'
<1>1. polls \in [1..Slots -> Poll]
  BY DEF TypeOK, Poll
<1>2. Idle \in Poll /\ Idle.at \notin {"read", "answered"}
  BY DEF Idle, Poll
<1> QED BY <1>1, <1>2, OnePoll

\* A poll is sent.
LEMMA AskKeeps ==
  ASSUME TypeOK, AnswersInv, NEW s \in 1..Slots, NEW by \in {"first", "interval", "stopped"},
         NEW after \in Nat \cup {Null}, polls' = [polls EXCEPT ![s] = Request(by, after)]
  PROVE  polls' \in [1..Slots -> Poll] /\ AnswersInv'
<1>1. polls \in [1..Slots -> Poll]
  BY DEF TypeOK, Poll
<1>2. Request(by, after) \in Poll /\ Request(by, after).at \notin {"read", "answered"}
  BY RequestIs
<1> QED BY <1>1, <1>2, OnePoll

\* A backend that starts again answers nothing it was asked.
LEMMA DropKeeps ==
  ASSUME TypeOK, AnswersInv,
         polls' = [s \in 1..Slots |-> IF polls[s].at \in {"sent", "read"} THEN Idle ELSE polls[s]]
  PROVE  polls' \in [1..Slots -> Poll] /\ AnswersInv'
<1>1. polls \in [1..Slots -> Poll]
  BY DEF TypeOK, Poll
<1>2. Idle \in Poll /\ Idle.at \notin {"read", "answered"}
  BY DEF Idle, Poll
<1>3. polls' \in [1..Slots -> Poll]
  BY <1>1, <1>2
<1>4. ASSUME NEW o \in 1..Slots, polls'[o].at \in {"read", "answered"}
      PROVE  OnlyOnce(polls'[o].batch)
  BY <1>2, <1>4 DEF AnswersInv
<1> QED BY <1>3, <1>4 DEF AnswersInv, OnlyOnce

\* A page that stops marks the polls under way.
LEMMA StopKeeps ==
  ASSUME TypeOK, AnswersInv,
         polls' = [s \in 1..Slots |-> IF polls[s] = Idle THEN Idle ELSE [polls[s] EXCEPT !.by = "stopped"]]
  PROVE  polls' \in [1..Slots -> Poll] /\ AnswersInv'
<1>1. polls \in [1..Slots -> Poll]
  BY DEF TypeOK, Poll
<1>2. Idle \in Poll /\ Idle.at \notin {"read", "answered"}
  BY DEF Idle, Poll
<1>3. ASSUME NEW p \in Poll, p # Idle
      PROVE  /\ [p EXCEPT !.by = "stopped"] \in Poll /\ [p EXCEPT !.by = "stopped"].at = p.at
             /\ p.at \in {"read", "answered"} => [p EXCEPT !.by = "stopped"].batch = p.batch
  <2>1. CASE p \in Sent
    BY <2>1 DEF Sent, Poll
  <2>2. CASE p \in Answer
    BY <2>2 DEF Answer, Poll
  <2> QED BY <1>3, <2>1, <2>2 DEF Poll
<1>4. polls' \in [1..Slots -> Poll]
  BY <1>1, <1>2, <1>3
<1>5. ASSUME NEW o \in 1..Slots, polls'[o].at \in {"read", "answered"}
      PROVE  OnlyOnce(polls'[o].batch)
  <2>1. PICK p \in Poll : p = polls[o]
    BY <1>1
  <2>2. p # Idle /\ polls'[o] = [p EXCEPT !.by = "stopped"]
    BY <1>2, <1>5, <2>1
  <2>3. p.at \in {"read", "answered"} /\ polls'[o].batch = p.batch
    BY <1>3, <1>5, <2>2
  <2> QED BY <2>1, <2>3 DEF AnswersInv
<1> QED BY <1>4, <1>5 DEF AnswersInv, OnlyOnce

-----------------------------------------------------------------------------
(* The page.                                                                *)

\* The ids of a sequence are those of its places.
LEMMA IdsOfIs ==
  ASSUME NEW s \in Seq(Buffered)
  PROVE  IdsOf(s) \subseteq Ids /\ \A n : n \in IdsOf(s) <=> \E i \in 1..Len(s) : s[i].id = n
<1>1. DOMAIN s = 1..Len(s) /\ \A i \in 1..Len(s) : s[i].id \in Ids
  BY SeqsAreNaturals
<1>2. \A n : n \in IdsOf(s) <=> \E i \in 1..Len(s) : s[i].id = n
  BY <1>1 DEF IdsOf, Range
<1> QED BY <1>1, <1>2

\* What is fresh is none of the list's, and in front of the list it makes a list again.
LEMMA FreshIs ==
  ASSUME events \in Seq(Buffered), OnlyOnce(events), NEW batch \in Seq(Buffered), OnlyOnce(batch)
  PROVE  /\ Fresh(batch) \in Seq(Buffered)
         /\ \A n \in IdsOf(Fresh(batch)) : n \notin IdsOf(events)
         /\ FirstOf(Fresh(batch) \o events, Keep) \in Seq(Buffered)
         /\ OnlyOnce(FirstOf(Fresh(batch) \o events, Keep))
         /\ Len(FirstOf(Fresh(batch) \o events, Keep)) <= Keep
<1>1. PICK fresh \in Seq(Buffered) :
        /\ fresh = Fresh(batch) /\ OnlyOnce(fresh)
        /\ \A i \in 1..Len(fresh) : fresh[i].id \notin IdsOf(events)
  <2>1. IsLeft(batch, IdsOf(events), Fresh(batch), Len(batch))
    BY WithoutIs DEF Fresh
  <2> QED BY <2>1 DEF IsLeft
<1>2. \A n \in IdsOf(fresh) : n \notin IdsOf(events)
  BY <1>1, IdsOfIs
<1>3. PICK m \in Nat, n \in Nat : m = Len(fresh) /\ n = Len(events)
  OBVIOUS
<1>4. PICK all \in Seq(Buffered) :
        /\ all = fresh \o events /\ Len(all) = m + n
        /\ \A i \in 1..m : all[i] = fresh[i]
        /\ \A j \in m + 1..m + n : all[j] = events[j - m]
  <2>1. /\ fresh \o events \in Seq(Buffered) /\ Len(fresh \o events) = m + n
        /\ \A i \in 1..m + n : (fresh \o events)[i] = IF i <= m THEN fresh[i] ELSE events[i - m]
    BY <1>3, ConcatProperties
  <2> DEFINE joined == fresh \o events
  <2>2. \A i \in 1..m : joined[i] = fresh[i]
    BY <1>3, <2>1
  <2>3. \A j \in m + 1..m + n : joined[j] = events[j - m]
    <3> SUFFICES ASSUME NEW j \in m + 1..m + n PROVE joined[j] = events[j - m]
      OBVIOUS
    <3>1. j \in 1..m + n /\ ~(j <= m)
      BY <1>3
    <3> QED BY <2>1, <3>1
  <2> QED BY <2>1, <2>2, <2>3
<1>5. ASSUME NEW i \in 1..m + n, NEW j \in 1..m + n, all[i].id = all[j].id PROVE i = j
  <2>1. ASSUME NEW a \in 1..m, NEW b \in m + 1..m + n PROVE all[a].id # all[b].id
    <3>1. b - m \in 1..n /\ all[b] = events[b - m] /\ all[a] = fresh[a]
      BY <1>3, <1>4
    <3>2. events[b - m].id \in IdsOf(events)
      BY <1>3, <3>1, IdsOfIs
    <3> QED BY <1>1, <1>3, <3>1, <3>2
  <2>2. CASE i \in 1..m /\ j \in 1..m
    <3>1. fresh[i].id = fresh[j].id
      BY <1>4, <1>5, <2>2
    <3> QED BY <1>1, <1>3, <2>2, <3>1 DEF OnlyOnce
  <2>3. CASE i \in m + 1..m + n /\ j \in m + 1..m + n
    <3>1. /\ i - m \in 1..n /\ j - m \in 1..n /\ all[i] = events[i - m] /\ all[j] = events[j - m]
      <4>1. i - m \in 1..n /\ j - m \in 1..n
        BY <1>3, <2>3
      <4> QED BY <1>4, <2>3, <4>1
    <3>2. i - m = j - m
      BY <1>3, <1>5, <3>1 DEF OnlyOnce
    <3> QED BY <1>3, <3>2
  <2> QED BY <1>3, <1>5, <2>1, <2>2, <2>3
<1>6. PICK k \in Nat, list \in Seq(Buffered) :
        /\ list = FirstOf(all, Keep) /\ k = Len(list) /\ k <= Keep /\ k <= m + n
        /\ \A i \in 1..k : list[i] = all[i]
  <2>1. Keep \in Nat
    BY FeedSizes
  <2>2. /\ FirstOf(all, Keep) \in Seq(Buffered) /\ Len(FirstOf(all, Keep)) \in Nat
        /\ Len(FirstOf(all, Keep)) <= Keep /\ Len(FirstOf(all, Keep)) <= Len(all)
        /\ \A i \in 1..Len(FirstOf(all, Keep)) : FirstOf(all, Keep)[i] = all[i]
    BY <2>1, FirstOfIs
  <2> QED BY <1>4, <2>2
<1>7. OnlyOnce(list)
  <2>1. \A i \in 1..k : i \in 1..m + n /\ list[i] = all[i]
    BY <1>3, <1>6
  <2> QED BY <1>5, <1>6, <2>1 DEF OnlyOnce
<1> QED BY <1>1, <1>2, <1>4, <1>6, <1>7

\* The types of what the page and its lists hold.
PageTypes ==
  /\ latest \in Nat \cup {Null} /\ events \in Seq(Buffered)
  /\ published \in Message \cup {NoMessage} /\ feed \in Feeds

\* What the last message holds, also when there is none.
LEMMA MessageIs ==
  ASSUME published \in Message \cup {NoMessage}
  PROVE  /\ published.events \in Seq(Buffered) /\ published.added \in Seq(Buffered)
         /\ published.initial \in BOOLEAN /\ published.held \in BOOLEAN
<1>1. <<>> \in Seq(Buffered)
  OBVIOUS
<1>2. CASE published = NoMessage
  <2>1. /\ published.events = <<>> /\ published.added = <<>> /\ published.initial = TRUE
        /\ published.held = FALSE
    BY <1>2 DEF NoMessage
  <2> QED BY <1>1, <2>1
<1>3. CASE published \in Message
  BY <1>3 DEF Message
<1> QED BY <1>2, <1>3

\* What a list is once it heard a message.
LEMMA HearIs ==
  ASSUME NEW f \in Feeds, NEW message, message.events \in Seq(Buffered),
         message.added \in Seq(Buffered)
  PROVE  /\ Hear(f, message) \in Feeds /\ Hear(f, message).mounted = f.mounted
         /\ Hear(f, message).heard = TRUE /\ Hear(f, message).events = message.events
         /\ Hear(f, message).newIds = IF BringsNews(f, message) THEN IdsOf(message.added) ELSE {}
<1>1. (IF BringsNews(f, message) THEN IdsOf(message.added) ELSE {}) \in SUBSET Ids
  BY IdsOfIs
<1> QED BY <1>1 DEF Hear, Feeds

\* An answer, and the message it is the reason of.
LEMMA ReceiveKeeps ==
  ASSUME IInv, NEW s \in 1..Slots, Receive(s)
  PROVE  /\ PageTypes' /\ ListsInv' /\ NewsInv'
         /\ \A n \in feed'.newIds \ feed.newIds : feed.heard /\ n \notin IdsOf(feed.events)
<1>1. /\ polls \in [1..Slots -> Poll] /\ latest \in Nat \cup {Null} /\ events \in Seq(Buffered)
      /\ published \in Message \cup {NoMessage} /\ feed \in Feeds
  BY DEF IInv, TypeOK, Poll
<1>2. PICK batch \in Seq(Buffered), newest \in Nat \cup {Null} :
        batch = polls[s].batch /\ newest = polls[s].latest /\ OnlyOnce(batch)
  <2>1. PICK p \in Poll : p = polls[s] /\ p.at = "answered"
    BY <1>1 DEF Receive, Upto
  <2> QED BY <2>1, AnswerIs DEF IInv, AnswersInv
<1>3. PICK list \in Seq(Buffered), fresh \in Seq(Buffered) :
        /\ list = FirstOf(Fresh(batch) \o events, Keep) /\ fresh = Fresh(batch)
        /\ OnlyOnce(list) /\ Len(list) <= Keep
        /\ \A n \in IdsOf(fresh) : n \notin IdsOf(events)
  BY <1>1, <1>2, FreshIs DEF IInv, ListsInv
<1>4. latest' \in Nat
  <2>1. latest' = Larger(Larger(latest, Newest(batch)), IF latest = Null THEN newest ELSE 0)
    BY <1>2 DEF Receive, Upto
  <2>2. PICK n \in Nat : n = Newest(batch)
    BY NewestIs
  <2>3. PICK m \in Nat : m = Larger(latest, n)
    BY <1>1 DEF Larger, Null
  <2>4. latest' = Larger(m, IF latest = Null THEN newest ELSE 0)
    BY <2>1, <2>2, <2>3
  <2> QED BY <1>2, <2>3, <2>4 DEF Larger, Null
<1>5. latest' # Null
  BY <1>4 DEF Null
<1>6. CASE latest # Null /\ batch = <<>>
  <2>1. events' = events /\ published' = published /\ feed' = feed
    BY <1>2, <1>6 DEF Receive, Upto
  <2>2. PageTypes'
    BY <1>1, <1>4, <2>1 DEF PageTypes, Message, NoMessage, Feeds
  <2>3. ListsInv' /\ NewsInv'
    BY <1>6, <2>1 DEF IInv, ListsInv, NewsInv, OnlyOnce
  <2> QED BY <2>1, <2>2, <2>3
<1>7. CASE ~(latest # Null /\ batch = <<>>)
  <2>1. PICK message : message = [events |-> list, added |-> IF latest = Null THEN <<>> ELSE fresh,
                                  initial |-> latest = Null, held |-> TRUE]
    OBVIOUS
  <2>2. events' = list /\ Publish(message)
    BY <1>2, <1>3, <1>7, <2>1 DEF Receive, Upto
  <2>3. /\ message \in Message /\ message.events = list /\ message.held = TRUE
        /\ message.initial = (latest = Null) /\ message.added \in Seq(Buffered)
        /\ message.added = IF latest = Null THEN <<>> ELSE fresh
    <3>1. (IF latest = Null THEN <<>> ELSE fresh) \in Seq(Buffered) /\ (latest = Null) \in BOOLEAN
      OBVIOUS
    <3> QED BY <2>1, <3>1 DEF Message
  <2>4. published' = message /\ feed' = IF feed.mounted THEN Hear(feed, message) ELSE feed
    BY <2>2 DEF Publish
  <2>5. /\ Hear(feed, message) \in Feeds /\ Hear(feed, message).mounted = feed.mounted
        /\ Hear(feed, message).heard = TRUE /\ Hear(feed, message).events = list
        /\ Hear(feed, message).newIds = IF BringsNews(feed, message) THEN IdsOf(message.added) ELSE {}
    BY <1>1, <2>3, HearIs
  <2>6. PageTypes'
    BY <1>1, <1>4, <2>2, <2>3, <2>4, <2>5 DEF PageTypes, Message, NoMessage, Feeds
  <2>7. ListsInv'
    BY <1>3, <2>2, <2>3, <2>4 DEF ListsInv, OnlyOnce
  <2>8. CASE feed.mounted
    <3>1. NewsInv'
      BY <2>2, <2>3, <2>4, <2>5, <2>8 DEF NewsInv
    <3>2. ASSUME NEW n \in feed'.newIds PROVE feed.heard /\ n \notin IdsOf(feed.events)
      <4>1. BringsNews(feed, message) /\ n \in IdsOf(message.added)
        BY <2>4, <2>5, <2>8, <3>2
      <4>2. feed.heard /\ latest # Null
        BY <2>3, <4>1 DEF BringsNews
      <4>3. feed.events = events
        BY <4>2 DEF IInv, NewsInv
      <4> QED BY <1>3, <2>3, <4>1, <4>2, <4>3
    <3> QED BY <2>6, <2>7, <3>1, <3>2
  <2>9. CASE ~feed.mounted
    <3>1. feed' = feed /\ ~feed.heard
      BY <2>4, <2>9 DEF IInv, NewsInv
    <3>2. NewsInv'
      BY <2>2, <2>3, <2>4, <3>1 DEF IInv, NewsInv
    <3> QED BY <2>6, <2>7, <3>1, <3>2
  <2> QED BY <2>8, <2>9
<1> QED BY <1>6, <1>7

\* A new list on the page hears the last message, which is no news to it.
LEMMA MountKeeps ==
  ASSUME PageTypes, NewsInv, Mount
  PROVE  feed' \in Feeds /\ NewsInv' /\ feed'.newIds = {}
<1> DEFINE new == [EmptyFeed EXCEPT !.mounted = TRUE]
<1>1. /\ new \in Feeds /\ new.mounted = TRUE /\ new.heard = FALSE /\ new.events = <<>>
      /\ new.newIds = {}
  <2>1. <<>> \in Seq(Buffered) /\ {} \in SUBSET Ids
    OBVIOUS
  <2>2. /\ EmptyFeed \in Feeds /\ EmptyFeed.heard = FALSE /\ EmptyFeed.events = <<>>
        /\ EmptyFeed.newIds = {}
    BY <2>1 DEF EmptyFeed, Feeds
  <2> QED BY <2>2 DEF Feeds
<1>2. feed' = IF published.held THEN Hear(new, published) ELSE new
  BY DEF Mount
<1> HIDE DEF new
<1>3. UNCHANGED <<published, latest, events>>
  BY DEF Mount
<1>4. published.events \in Seq(Buffered) /\ published.added \in Seq(Buffered)
  BY MessageIs DEF PageTypes
<1>5. CASE published.held
  <2>1. /\ feed' \in Feeds /\ feed'.mounted = TRUE /\ feed'.heard = TRUE
        /\ feed'.events = published.events
        /\ feed'.newIds = IF BringsNews(new, published) THEN IdsOf(published.added) ELSE {}
    BY <1>1, <1>2, <1>4, <1>5, HearIs
  <2>2. ~BringsNews(new, published)
    BY <1>1 DEF BringsNews
  <2> QED BY <1>3, <1>5, <2>1, <2>2 DEF NewsInv
<1>6. CASE ~published.held
  BY <1>1, <1>2, <1>3, <1>6 DEF NewsInv
<1> QED BY <1>5, <1>6

-----------------------------------------------------------------------------
(* The invariant, and what follows from it.                                 *)

\* The invariant holds when the backend has just started.
LEMMA InitHolds ==
  ASSUME Init
  PROVE  IInv
<1>1. <<>> \in Seq(Buffered) /\ Earlier \in Nat /\ Earlier <= MaxEvents /\ MaxEvents \in Nat
      /\ MaxRestarts \in Nat /\ MaxStarts \in Nat /\ Keep \in Nat /\ Capacity \in Nat
  BY FeedSizes
<1>2. polls \in [1..Slots -> {Idle} \cup Sent \cup Answer]
      /\ \A s \in 1..Slots : polls[s].at = "idle"
  BY DEF Init, Idle
<1>3. EmptyFeed \in Feeds /\ ~EmptyFeed.heard /\ EmptyFeed.events = <<>>
  <2>1. {} \in SUBSET Ids
    OBVIOUS
  <2> QED BY <1>1, <2>1 DEF EmptyFeed, Feeds
<1>4. NoMessage.held = FALSE /\ NoMessage.events = <<>>
  BY DEF NoMessage
<1>5. TypeOK
  <2>1. /\ happened \in 0..MaxEvents /\ restarts \in 0..MaxRestarts /\ starts \in 0..MaxStarts
        /\ nextSeq \in Nat /\ running \in BOOLEAN
    <3>1. happened = Earlier /\ restarts = 0 /\ starts = 0 /\ nextSeq = 0 /\ running = FALSE
      BY DEF Init
    <3>2. Earlier \in 0..MaxEvents /\ 0 \in 0..MaxRestarts /\ 0 \in 0..MaxStarts
      BY <1>1
    <3> QED BY <3>1, <3>2
  <2>2. cursor \in 0..happened \cup {Null} /\ latest \in Nat \cup {Null}
    BY DEF Init
  <2>3. buffer \in Seq(Buffered) /\ events \in Seq(Buffered)
    BY <1>1 DEF Init
  <2>4. published \in Message \cup {NoMessage} /\ feed \in Feeds
    BY <1>3 DEF Init
  <2> QED BY <1>2, <2>1, <2>2, <2>3, <2>4 DEF TypeOK
<1>6. FollowerInv
  BY <1>1 DEF Init, FollowerInv, IsAWindow, CountsTo, Reaches
<1>7. AnswersInv
  BY <1>2 DEF AnswersInv
<1>8. ListsInv
  BY <1>1, <1>4 DEF Init, ListsInv, OnlyOnce
<1>9. NewsInv
  BY <1>3, <1>4 DEF Init, NewsInv
<1> QED BY <1>5, <1>6, <1>7, <1>8, <1>9 DEF IInv

\* What a step does to a part of the state that only its own actions touch.
LEMMA ServerStays ==
  ASSUME TypeOK, FollowerInv, UNCHANGED <<happened, serverVars>>
  PROVE  /\ happened' \in 0..MaxEvents /\ cursor' \in 0..happened' \cup {Null}
         /\ buffer' \in Seq(Buffered) /\ nextSeq' \in Nat /\ restarts' \in 0..MaxRestarts
         /\ FollowerInv'
BY DEF serverVars, TypeOK, FollowerInv, IsAWindow, CountsTo, LastId, Reaches

\* What it does to the lists of the page.
LEMMA ListsStay ==
  ASSUME TypeOK, ListsInv, NewsInv, UNCHANGED <<events, latest, published, feed>>
  PROVE  PageTypes' /\ ListsInv' /\ NewsInv'
<1>1. PageTypes'
  BY DEF TypeOK, PageTypes, Message, NoMessage, Feeds
<1>2. ListsInv' /\ NewsInv'
  BY DEF ListsInv, OnlyOnce, NewsInv
<1> QED BY <1>1, <1>2

\* The types, part by part.
LEMMA TypesMeet ==
  ASSUME happened' \in 0..MaxEvents, cursor' \in 0..happened' \cup {Null},
         buffer' \in Seq(Buffered), nextSeq' \in Nat, restarts' \in 0..MaxRestarts,
         running' \in BOOLEAN, starts' \in 0..MaxStarts,
         polls' \in [1..Slots -> Poll], PageTypes'
  PROVE  TypeOK'
<1>1. polls' \in [1..Slots -> {Idle} \cup Sent \cup Answer]
  BY DEF Poll
<1>2. /\ latest' \in Nat \cup {Null} /\ events' \in Seq(Buffered)
      /\ published' \in Message \cup {NoMessage} /\ feed' \in Feeds
  BY DEF PageTypes, Message, NoMessage, Feeds
<1> QED BY <1>1, <1>2 DEF TypeOK

\* Every step keeps the invariant.
LEMMA StepHolds ==
  ASSUME IInv, [Next]_vars
  PROVE  IInv'
<1> USE DEF IInv
<1>1. /\ happened \in 0..MaxEvents /\ cursor \in 0..happened \cup {Null}
      /\ buffer \in Seq(Buffered) /\ nextSeq \in Nat /\ restarts \in 0..MaxRestarts
      /\ running \in BOOLEAN /\ starts \in 0..MaxStarts /\ polls \in [1..Slots -> Poll]
      /\ latest \in Nat \cup {Null}
  BY DEF TypeOK, Poll
<1>2. ASSUME UNCHANGED polls PROVE polls' \in [1..Slots -> Poll] /\ AnswersInv'
  BY <1>1, <1>2 DEF AnswersInv, OnlyOnce
<1>3. CASE Happen
  <2>1. /\ happened' = happened + 1 /\ happened < MaxEvents
        /\ UNCHANGED <<serverVars, pageVars>>
    BY <1>3 DEF Happen
  <2>2. happened \in Nat /\ happened' \in 0..MaxEvents /\ happened <= happened'
    BY <1>1, <2>1, FeedSizes
  <2>3. cursor' \in 0..happened' \cup {Null}
    BY <1>1, <2>1, <2>2 DEF serverVars
  <2>4. FollowerInv'
    <3>1. Reaches(buffer, cursor)'
      <4> SUFFICES ASSUME buffer # <<>> PROVE LastId(buffer) <= happened'
        BY <2>1 DEF serverVars, FollowerInv, Reaches, LastId
      <4>1. LastId(buffer) \in Nat /\ LastId(buffer) <= happened
        BY <1>1, LastIsNatural DEF FollowerInv, Reaches
      <4> QED BY <2>2, <4>1
    <3> QED BY <2>1, <3>1 DEF serverVars, FollowerInv, IsAWindow, CountsTo, LastId
  <2>5. PageTypes' /\ ListsInv' /\ NewsInv'
    BY <2>1, ListsStay DEF pageVars
  <2>6. polls' \in [1..Slots -> Poll] /\ AnswersInv'
    BY <1>2, <2>1 DEF pageVars
  <2> QED BY <1>1, <2>1, <2>2, <2>3, <2>4, <2>5, <2>6, TypesMeet DEF serverVars, pageVars
<1>4. CASE Follower
  <2>1. PICK named \in BOOLEAN : Follow(named)
    BY <1>4 DEF Follower
  <2>2. UNCHANGED <<happened, restarts, pageVars>>
    BY <2>1 DEF Follow
  <2>3. /\ cursor' \in 0..happened' \cup {Null} /\ buffer' \in Seq(Buffered) /\ nextSeq' \in Nat
        /\ FollowerInv'
    BY <2>1, FollowKeeps
  <2>4. PageTypes' /\ ListsInv' /\ NewsInv'
    BY <2>2, ListsStay DEF pageVars
  <2>5. polls' \in [1..Slots -> Poll] /\ AnswersInv'
    BY <1>2, <2>2 DEF pageVars
  <2> QED BY <1>1, <2>2, <2>3, <2>4, <2>5, TypesMeet DEF pageVars
<1>5. CASE Restart
  <2>1. /\ restarts < MaxRestarts /\ restarts' = restarts + 1
        /\ cursor' = Null /\ buffer' = <<>> /\ nextSeq' = 0
        /\ UNCHANGED <<happened, running, events, latest, published, feed, starts>>
    BY <1>5 DEF Restart
  <2>2. restarts' \in 0..MaxRestarts
    BY <1>1, <2>1, FeedSizes
  <2>3. FollowerInv'
    <3>1. Capacity \in Nat
      BY FeedSizes
    <3> QED BY <2>1, <3>1 DEF FollowerInv, IsAWindow, CountsTo, Reaches
  <2>4. polls' \in [1..Slots -> Poll] /\ AnswersInv'
    BY <1>5, DropKeeps DEF Restart
  <2>5. PageTypes' /\ ListsInv' /\ NewsInv'
    BY <2>1, ListsStay
  <2>6. buffer' \in Seq(Buffered) /\ nextSeq' \in Nat /\ cursor' \in 0..happened' \cup {Null}
    BY <2>1
  <2> QED BY <1>1, <2>1, <2>2, <2>3, <2>4, <2>5, <2>6, TypesMeet
<1>6. ASSUME NEW s \in 1..Slots, ReadEvents(s) \/ ReadLatest(s) \/ Fail(s) \/ IntervalPoll(s)
      PROVE  IInv'
  <2>1. UNCHANGED <<happened, serverVars, running, events, latest, published, feed, starts>>
    BY <1>6 DEF ReadEvents, ReadLatest, Fail, IntervalPoll
  <2>2. polls' \in [1..Slots -> Poll] /\ AnswersInv'
    <3>1. CASE ReadEvents(s)
      BY <3>1, ReadKeeps
    <3>2. CASE ReadLatest(s)
      BY <3>2, LatestKeeps
    <3>3. CASE Fail(s)
      BY <3>3, FailKeeps DEF Fail
    <3>4. CASE IntervalPoll(s)
      BY <1>1, <3>4, AskKeeps DEF IntervalPoll
    <3> QED BY <1>6, <3>1, <3>2, <3>3, <3>4
  <2>3. PageTypes' /\ ListsInv' /\ NewsInv'
    BY <2>1, ListsStay
  <2> QED BY <1>1, <2>1, <2>2, <2>3, ServerStays, TypesMeet
<1>7. ASSUME NEW s \in 1..Slots, Start(s) PROVE IInv'
  <2>1. /\ running' = TRUE /\ starts < MaxStarts /\ starts' = starts + 1
        /\ events' = <<>> /\ latest' = Null
        /\ UNCHANGED <<happened, serverVars, published, feed>>
    BY <1>7 DEF Start
  <2>2. polls' \in [1..Slots -> Poll] /\ AnswersInv'
    BY <1>7, AskKeeps DEF Start
  <2>3. starts' \in 0..MaxStarts
    BY <1>1, <2>1, FeedSizes
  <2>4. PageTypes'
    <3>1. published \in Message \cup {NoMessage} /\ feed \in Feeds
      BY DEF TypeOK
    <3>2. events' \in Seq(Buffered) /\ latest' \in Nat \cup {Null}
      BY <2>1
    <3> QED BY <2>1, <3>1, <3>2 DEF PageTypes, Message, NoMessage, Feeds
  <2>5. ListsInv' /\ NewsInv'
    BY <2>1, FeedSizes DEF ListsInv, OnlyOnce, NewsInv
  <2> QED BY <2>1, <2>2, <2>3, <2>4, <2>5, ServerStays, TypesMeet
<1>8. ASSUME NEW s \in 1..Slots, ReceiveRestarted(s) PROVE IInv'
  <2>1. /\ events' = <<>> /\ latest' = Null
        /\ UNCHANGED <<happened, serverVars, running, published, feed, starts>>
    BY <1>8 DEF ReceiveRestarted
  <2>2. polls' \in [1..Slots -> Poll] /\ AnswersInv'
    <3>1. PICK p \in Poll : p = polls[s] /\ p.at = "answered"
      BY <1>1, <1>8 DEF ReceiveRestarted
    <3>2. PICK by \in {"first", "interval", "stopped"} : by = polls[s].by
      BY <3>1, AnswerIs
    <3>3. polls' = [polls EXCEPT ![s] = Request(by, Null)]
      BY <1>8, <3>2 DEF ReceiveRestarted
    <3> QED BY <3>3, AskKeeps
  <2>3. PageTypes'
    <3>1. published \in Message \cup {NoMessage} /\ feed \in Feeds
      BY DEF TypeOK
    <3>2. events' \in Seq(Buffered) /\ latest' \in Nat \cup {Null}
      BY <2>1
    <3> QED BY <2>1, <3>1, <3>2 DEF PageTypes, Message, NoMessage, Feeds
  <2>4. ListsInv' /\ NewsInv'
    BY <2>1, FeedSizes DEF ListsInv, OnlyOnce, NewsInv
  <2> QED BY <1>1, <2>1, <2>2, <2>3, <2>4, ServerStays, TypesMeet
<1>9. ASSUME NEW s \in 1..Slots, Receive(s) PROVE IInv'
  <2>1. UNCHANGED <<happened, serverVars, running, starts>>
    BY <1>9 DEF Receive, Upto
  <2>2. polls' \in [1..Slots -> Poll] /\ AnswersInv'
    BY <1>9, FailKeeps DEF Receive, Upto
  <2>3. PageTypes' /\ ListsInv' /\ NewsInv'
    BY <1>9, ReceiveKeeps
  <2> QED BY <1>1, <2>1, <2>2, <2>3, ServerStays, TypesMeet
<1>10. CASE Stop
  <2>1. /\ running' = FALSE /\ events' = <<>> /\ latest' = Null
        /\ published' = NoMessage /\ feed' = EmptyFeed
        /\ UNCHANGED <<happened, serverVars, starts>>
    BY <1>10 DEF Stop
  <2>2. polls' \in [1..Slots -> Poll] /\ AnswersInv'
    BY <1>10, StopKeeps DEF Stop
  <2>3. EmptyFeed \in Feeds /\ EmptyFeed.heard = FALSE /\ EmptyFeed.events = <<>>
    <3>1. {} \in SUBSET Ids /\ <<>> \in Seq(Buffered)
      OBVIOUS
    <3> QED BY <3>1 DEF EmptyFeed, Feeds
  <2>4. NoMessage.held = FALSE /\ NoMessage.events = <<>>
    BY DEF NoMessage
  <2>5. PageTypes'
    BY <2>1, <2>3 DEF PageTypes, Message, NoMessage, Feeds
  <2>6. ListsInv' /\ NewsInv'
    BY <2>1, <2>3, <2>4, FeedSizes DEF ListsInv, OnlyOnce, NewsInv
  <2> QED BY <1>1, <2>1, <2>2, <2>5, <2>6, ServerStays, TypesMeet
<1>11. CASE Mount
  <2>1. UNCHANGED <<happened, serverVars, running, events, latest, polls, published, starts>>
    BY <1>11 DEF Mount
  <2>2. polls' \in [1..Slots -> Poll] /\ AnswersInv'
    BY <1>2, <2>1
  <2>3. PageTypes
    BY DEF TypeOK, PageTypes
  <2>4. feed' \in Feeds /\ NewsInv'
    BY <1>11, <2>3, MountKeeps
  <2>5. PageTypes' /\ ListsInv'
    BY <2>1, <2>3, <2>4 DEF PageTypes, Message, NoMessage, Feeds, ListsInv, OnlyOnce
  <2> QED BY <1>1, <2>1, <2>2, <2>4, <2>5, ServerStays, TypesMeet
<1>12. CASE UNCHANGED vars
  <2>1. UNCHANGED <<happened, serverVars, pageVars>>
    BY <1>12 DEF vars
  <2>2. PageTypes' /\ ListsInv' /\ NewsInv'
    BY <2>1, ListsStay DEF pageVars
  <2>3. polls' \in [1..Slots -> Poll] /\ AnswersInv'
    BY <1>2, <2>1 DEF pageVars
  <2> QED BY <1>1, <2>1, <2>2, <2>3, ServerStays, TypesMeet DEF pageVars
<1> HIDE DEF IInv
<1> QED BY <1>3, <1>4, <1>5, <1>6, <1>7, <1>8, <1>9, <1>10, <1>11, <1>12 DEF Next

\* The invariant holds at every moment.
LEMMA InvHolds == Spec => []IInv
BY InitHolds, StepHolds, PTL DEF Spec

\* What the invariant says of the buffer and of the lists.
LEMMA FeedHoldsThen ==
  ASSUME IInv
  PROVE  FeedHolds
<1>1. TypeOK
  BY DEF IInv
<1>2. BufferIsAWindow
  <2>1. PICK n \in Nat : n = Len(buffer) /\ n <= Capacity
    BY <1>1 DEF IInv, TypeOK, FollowerInv, IsAWindow
  <2>2. ASSUME NEW i \in 1..n
        PROVE  buffer[i].seq = nextSeq - n + i /\ (i > 1 => buffer[i].id = buffer[i - 1].id + 1)
    <3>1. PICK last \in Nat : last = LastId(buffer)
      <4>1. buffer \in Seq(Buffered) /\ buffer # <<>>
        BY <1>1, <2>1 DEF TypeOK
      <4> QED BY <4>1, LastIsNatural
    <3>2. \A j \in 1..n : buffer[j].seq = nextSeq - n + j /\ buffer[j].id = last - n + j
      BY <2>1, <3>1 DEF IInv, FollowerInv, IsAWindow, CountsTo
    <3>3. i > 1 => i - 1 \in 1..n /\ last - n + i = last - n + (i - 1) + 1
      BY <2>1, <3>1
    <3> QED BY <3>2, <3>3
  <2> QED BY <2>1, <2>2 DEF BufferIsAWindow
<1>3. NoEventTwice
  <2>1. feed.events = published.events \/ feed.events = <<>>
    BY DEF IInv, NewsInv
  <2>2. OnlyOnce(feed.events) /\ Len(feed.events) <= Keep
    <3>1. CASE feed.events = published.events
      BY <3>1 DEF IInv, ListsInv
    <3>2. CASE feed.events = <<>>
      <4>1. Len(<<>>) = 0 /\ 0 <= Keep
        BY FeedSizes
      <4> QED BY <3>2, <4>1 DEF OnlyOnce
    <3> QED BY <2>1, <3>1, <3>2
  <2>3. DOMAIN events = 1..Len(events) /\ DOMAIN feed.events = 1..Len(feed.events)
    <3>1. events \in Seq(Buffered) /\ feed.events \in Seq(Buffered)
      BY <1>1 DEF TypeOK, Feeds
    <3> QED BY <3>1
  <2>4. OnlyOnce(events) /\ Len(events) <= Keep
    BY DEF IInv, ListsInv
  <2> QED BY <2>2, <2>3, <2>4 DEF NoEventTwice, OnlyOnce
<1> QED BY <1>1, <1>2, <1>3 DEF FeedHolds

\* What holds of the feed holds at every moment, for every size of pages, buffer and
\* list, as long as a page fits in the buffer: the buffer is a window of the hub's log
\* whichever pages the hub repeats, and no list has an event twice (events.rs,
\* live-events.js, event-feed.js).
THEOREM FeedIsWhole == Spec => []FeedHolds
BY InvHolds, FeedHoldsThen, PTL

\* What a list on the page marks as new it did not show before, whichever answers come
\* late, twice or from a backend that started again (newsTracker, event-feed.js).
THEOREM OnlyNewsIsNew == Spec => NewsIsNew
<1> DEFINE New == feed' # feed =>
                    \A n \in feed'.newIds \ feed.newIds : feed.heard /\ n \notin IdsOf(feed.events)
<1>1. ASSUME IInv, [Next]_vars PROVE [New]_vars
  <2>1. CASE feed' = feed
    BY <2>1
  <2>2. CASE feed' # feed
    <3>1. CASE Mount
      <4>1. PageTypes /\ NewsInv
        BY <1>1 DEF IInv, TypeOK, PageTypes
      <4>2. feed'.newIds = {}
        BY <3>1, <4>1, MountKeeps
      <4> QED BY <4>2
    <3>2. CASE Stop
      <4>1. feed'.newIds = {}
        BY <3>2 DEF Stop, EmptyFeed
      <4> QED BY <4>1
    <3>3. ASSUME NEW s \in 1..Slots, Receive(s) PROVE New
      BY <1>1, <3>3, ReceiveKeeps
    <3>4. ASSUME Happen \/ Follower \/ Restart \/ UNCHANGED vars PROVE feed' = feed
      BY <3>4 DEF Happen, Follower, Follow, Restart, pageVars, vars
    <3>5. ASSUME NEW s \in 1..Slots,
                 \/ ReadEvents(s) \/ ReadLatest(s) \/ Fail(s)
                 \/ Start(s) \/ IntervalPoll(s) \/ ReceiveRestarted(s)
          PROVE  feed' = feed
      BY <3>5 DEF ReadEvents, ReadLatest, Fail, Start, IntervalPoll, ReceiveRestarted
    <3> HIDE DEF New
    <3> QED BY <1>1, <2>2, <3>1, <3>2, <3>3, <3>4, <3>5 DEF Next
  <2> QED BY <2>1, <2>2
<1>2. NewsIsNew <=> [][New]_vars
  BY DEF NewsIsNew
<1> HIDE DEF New
<1> QED BY <1>1, <1>2, InvHolds, PTL DEF Spec
=============================================================================
