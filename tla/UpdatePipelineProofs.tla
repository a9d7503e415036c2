------------------------ MODULE UpdatePipelineProofs ------------------------
(* That no column goes back and that what the sync believes it sent is     *)
(* stored: for all members, sections, sizes and bounds.                     *)
EXTENDS UpdatePipeline, FiniteSetTheorems, SequenceTheorems, WellFoundedInduction, TLAPS

\* The last of some positions of a sequence.
LEMMA LastPosition ==
  ASSUME NEW n \in Nat, NEW S \in SUBSET (1..n), S # {}
  PROVE  Max(S) \in S /\ \A i \in S : i <= Max(S)
<1> DEFINE T == {n - i : i \in S}
<1>1. \A i \in S : i \in Int /\ n - i \in Nat /\ n - i \in T
  OBVIOUS
<1>2. T \subseteq Nat /\ T # {}
  <2>1. T \subseteq Nat
    BY <1>1
  <2>2. PICK i \in S : TRUE
    OBVIOUS
  <2>3. n - i \in T
    BY <1>1, <2>2
  <2> QED BY <2>1, <2>3
<1>3. PICK x \in T : \A y \in T : ~ (<<y, x>> \in OpToRel(<, Nat))
  BY <1>2, NatLessThanWellFounded, WFMin
<1>4. \A y \in T : ~ (y < x)
  BY <1>2, <1>3 DEF OpToRel
<1>5. PICK j \in S : x = n - j
  OBVIOUS
<1>6. ASSUME NEW i \in S
      PROVE  j >= i
  <2>1. ~ (n - i < n - j)
    BY <1>1, <1>4, <1>5
  <2> QED BY <1>1, <2>1
<1> HIDE DEF T
<1>7. \A i \in S : j >= i
  BY <1>6
<1>8. Max(S) \in S /\ \A i \in S : Max(S) >= i
  BY <1>7 DEF Max
<1> QED BY <1>1, <1>8

\* Cutting by size: quotients, and how many pieces there are.
LEMMA Quotient ==
  ASSUME NEW x \in Nat, NEW k \in Nat \ {0}
  PROVE  x \div k \in Nat /\ (x \div k) * k <= x /\ x < (x \div k) * k + k
OBVIOUS

LEMMA PieceStartsInside ==
  ASSUME NEW i \in Nat \ {0}, NEW n \in Nat, NEW k \in Nat \ {0}
  PROVE  i \in 1..((n + k - 1) \div k) <=> (i - 1) * k < n
OBVIOUS

\* The order in which the members of a batch are written names each of them.
LEMMA OrderNamesAll ==
  ASSUME NEW S, IsFiniteSet(S)
  PROVE  /\ Cardinality(S) \in Nat
         /\ SetToSeq(S) \in [1..Cardinality(S) -> S]
         /\ Len(SetToSeq(S)) = Cardinality(S)
         /\ \A m \in S : \E j \in 1..Cardinality(S) : SetToSeq(S)[j] = m
<1> DEFINE n == Cardinality(S)
<1>1. n \in Nat /\ ExistsBijection(1..n, S)
  BY FS_CardinalityType
<1>2. PICK f \in Bijection(1..n, S) : TRUE
  BY <1>1 DEF ExistsBijection
<1>3. f \in [1..n -> S] /\ IsInjective(f)
  BY <1>2 DEF Bijection, Injection, IsInjective
<1>4. SetToSeq(S) \in [1..n -> S] /\ IsInjective(SetToSeq(S))
  BY <1>3 DEF SetToSeq
<1>5. SetToSeq(S) \in Injection(1..n, S)
  BY <1>4 DEF Injection, IsInjective
<1>6. Cardinality(1..n) = n
  BY <1>1, FS_Interval
<1>7. SetToSeq(S) \in Surjection(1..n, S)
  BY <1>5, <1>6, FS_Injection
<1> QED BY <1>1, <1>4, <1>7 DEF Surjection

\* The chunks of a batch are its members, a few at a time (process_batch cuts
\* with chunks(CHUNK_SIZE)).
LEMMA ChunksAreTheBatch ==
  ASSUME NEW S, IsFiniteSet(S)
  PROVE  /\ UNION ChunksOf(S) = S
         /\ \A c \in ChunksOf(S) : Cardinality(c) \in 1..ChunkSize
<1> DEFINE order    == SetToSeq(S)
           n        == Cardinality(S)
           first(i) == (i - 1) * ChunkSize + 1
           last(i)  == IF i * ChunkSize < n THEN i * ChunkSize ELSE n
           count    == (n + ChunkSize - 1) \div ChunkSize
           chunk(i) == {order[j] : j \in first(i)..last(i)}
<1>1. /\ n \in Nat /\ order \in [1..n -> S] /\ Len(order) = n
      /\ \A m \in S : \E j \in 1..n : order[j] = m
  BY OrderNamesAll
<1>2. ChunksOf(S) = {chunk(i) : i \in 1..count}
  BY <1>1 DEF ChunksOf
<1>3. ChunkSize \in Nat \ {0} /\ count \in Nat
  BY <1>1, SizesArePositive, Quotient
<1>4. ASSUME NEW i \in 1..count
      PROVE  /\ first(i) \in 1..n /\ last(i) \in 1..n
             /\ first(i) <= last(i) /\ last(i) - first(i) < ChunkSize
  <2>1. i \in Nat \ {0} /\ (i - 1) * ChunkSize < n
    BY <1>1, <1>3, <1>4, PieceStartsInside
  <2>2. (i - 1) * ChunkSize \in Nat /\ i * ChunkSize = (i - 1) * ChunkSize + ChunkSize
    BY <1>3, <2>1
  <2> QED BY <1>1, <1>3, <2>1, <2>2
<1>5. ASSUME NEW i \in 1..count
      PROVE  chunk(i) \subseteq S /\ Cardinality(chunk(i)) \in 1..ChunkSize
  <2> DEFINE D == first(i)..last(i)
             g == [j \in D |-> order[j]]
  <2>1. D \subseteq 1..n /\ first(i) \in D /\ last(i) \in Int /\ first(i) \in Int
    BY <1>1, <1>4
  <2>2. IsFiniteSet(D) /\ Cardinality(D) <= ChunkSize /\ Cardinality(D) \in Nat
    <3>1. IsFiniteSet(D) /\ Cardinality(D) = IF first(i) > last(i) THEN 0 ELSE last(i) - first(i) + 1
      BY <2>1, FS_Interval
    <3>2. first(i) <= last(i) /\ last(i) - first(i) < ChunkSize
      BY <1>4
    <3> HIDE DEF first, last, D
    <3> QED BY <1>3, <2>1, <3>1, <3>2
  <2>3. chunk(i) \subseteq S
    BY <1>1, <2>1
  <2>4. g \in Surjection(D, chunk(i))
    BY DEF Surjection
  <2>5. IsFiniteSet(chunk(i)) /\ Cardinality(chunk(i)) <= Cardinality(D)
    BY <2>2, <2>4, FS_Surjection
  <2>6. chunk(i) # {}
    BY <2>1
  <2>7. Cardinality(chunk(i)) \in Nat /\ Cardinality(chunk(i)) # 0
    BY <2>5, <2>6, FS_CardinalityType, FS_EmptySet
  <2> QED BY <1>3, <2>2, <2>3, <2>5, <2>7
<1>6. ASSUME NEW m \in S
      PROVE  \E i \in 1..count : m \in chunk(i)
  <2>1. PICK j \in 1..n : order[j] = m
    BY <1>1
  <2> DEFINE q == (j - 1) \div ChunkSize
  <2>2. q \in Nat /\ q * ChunkSize <= j - 1 /\ j - 1 < q * ChunkSize + ChunkSize
    BY <1>1, <1>3, Quotient
  <2>3. q + 1 \in 1..count
    <3>1. q + 1 \in Nat \ {0} /\ (q + 1) - 1 = q
      BY <2>2
    <3>2. q * ChunkSize < n
      <4>1. q * ChunkSize \in Nat
        BY <1>3, <2>2
      <4> QED BY <1>1, <2>2, <4>1
    <3> HIDE DEF q
    <3> QED BY <1>1, <1>3, <3>1, <3>2, PieceStartsInside
  <2>4. j \in first(q + 1)..last(q + 1)
    <3>1. /\ q * ChunkSize \in Nat /\ (q + 1) * ChunkSize = q * ChunkSize + ChunkSize
          /\ ((q + 1) - 1) * ChunkSize = q * ChunkSize
      BY <1>3, <2>2
    <3> HIDE DEF q
    <3> QED BY <1>1, <1>3, <2>2, <3>1
  <2> QED BY <2>1, <2>3, <2>4
<1> HIDE DEF chunk, count
<1> QED BY <1>2, <1>5, <1>6

-----------------------------------------------------------------------------
\* Update i of w says something of section s of member m.
Carries(w, i, m, s) == w[i].member = m /\ w[i].fields[s] # None

\* What was collected and what is still in the channel, in the order it was sent.
Waiting == buffer \o channel

\* The batch being written says something of it.
Writing(m, s) == m \in UNION chunks /\ batch[m][s] # None

LEMMA UpdateShape == \A u \in Update : u.member \in Members /\ u.fields \in Fields
BY DEF Update

\* deduplicate_batch: of each field, what the last update that carries it says.
LEMMA MergedIsLast ==
  ASSUME buffer \in Seq(Update), NEW m \in Members
  PROVE  /\ Merged(m) \in Fields
         /\ \A s \in Sections :
              \/ /\ Merged(m)[s] = None
                 /\ \A i \in 1..Len(buffer) : ~Carries(buffer, i, m, s)
              \/ \E i \in 1..Len(buffer) :
                   /\ Carries(buffer, i, m, s) /\ Merged(m)[s] = buffer[i].fields[s]
                   /\ \A j \in 1..Len(buffer) : Carries(buffer, j, m, s) => j <= i
<1>1. /\ Len(buffer) \in Nat
      /\ \A i \in 1..Len(buffer) : buffer[i] \in Update /\ buffer[i].fields \in Fields
  BY LenProperties, ElementOfSeq, UpdateShape
<1>2. ASSUME NEW s \in Sections
      PROVE  /\ Merged(m)[s] \in Stored \cup {None}
             /\ \/ /\ Merged(m)[s] = None
                   /\ \A i \in 1..Len(buffer) : ~Carries(buffer, i, m, s)
                \/ \E i \in 1..Len(buffer) :
                     /\ Carries(buffer, i, m, s) /\ Merged(m)[s] = buffer[i].fields[s]
                     /\ \A j \in 1..Len(buffer) : Carries(buffer, j, m, s) => j <= i
  <2> DEFINE P == Positions(m, s)
  <2>1. \A i : i \in P <=> i \in 1..Len(buffer) /\ Carries(buffer, i, m, s)
    BY DEF Positions, Carries
  <2>2. CASE P = {}
    <3>1. Merged(m)[s] = None
      BY <2>2 DEF Merged
    <3> QED BY <2>1, <2>2, <3>1
  <2>3. CASE P # {}
    <3>1. Merged(m)[s] = buffer[Max(P)].fields[s]
      BY <2>3 DEF Merged
    <3>2. P \in SUBSET (1..Len(buffer))
      BY <2>1
    <3>3. Max(P) \in P /\ \A i \in P : i <= Max(P)
      BY <1>1, <2>3, <3>2, LastPosition
    <3>4. buffer[Max(P)].fields[s] \in Stored \cup {None}
      BY <1>1, <3>2, <3>3 DEF Fields
    <3> QED BY <2>1, <3>1, <3>3, <3>4
  <2> QED BY <2>2, <2>3
<1>3. Merged(m) = [s \in Sections |-> Merged(m)[s]]
  BY DEF Merged
<1>4. Merged(m) \in Fields
  BY <1>2, <1>3 DEF Fields
<1> QED BY <1>2, <1>4

\* The members of what was collected, and the chunks they are cut into.
LEMMA BatchIsCut ==
  ASSUME buffer \in Seq(Update)
  PROVE  LET S == {buffer[i].member : i \in 1..Len(buffer)} IN
         /\ S \subseteq Members /\ UNION ChunksOf(S) = S
         /\ ChunksOf(S) \subseteq SUBSET Members
         /\ \A c \in ChunksOf(S) : Cardinality(c) \in 1..ChunkSize
<1> DEFINE S == {buffer[i].member : i \in 1..Len(buffer)}
           f == [i \in 1..Len(buffer) |-> buffer[i].member]
<1>1. Len(buffer) \in Nat /\ \A i \in 1..Len(buffer) : buffer[i].member \in Members
  BY LenProperties, ElementOfSeq, UpdateShape
<1>2. f \in Surjection(1..Len(buffer), S)
  BY DEF Surjection
<1>3. IsFiniteSet(1..Len(buffer))
  BY <1>1, FS_Interval
<1>4. IsFiniteSet(S)
  BY <1>2, <1>3, FS_Surjection
<1>5. S \subseteq Members
  BY <1>1
<1> HIDE DEF S
<1>6. UNION ChunksOf(S) = S /\ \A c \in ChunksOf(S) : Cardinality(c) \in 1..ChunkSize
  BY <1>4, ChunksAreTheBatch
<1>7. S \subseteq Members /\ UNION ChunksOf(S) = S /\ ChunksOf(S) \subseteq SUBSET Members
  BY <1>5, <1>6
<1> QED BY <1>6, <1>7 DEF S

LEMMA TypeInit == Init => TypeOK
<1> SUFFICES ASSUME Init PROVE TypeOK
  OBVIOUS
<1>1. MaxChanges \in Nat /\ MaxFaults \in Nat /\ ChannelCap \in Nat /\ BatchSize \in Nat
  BY SizesArePositive, BoundsAreNumbers
<1>2. hub \in [Members -> [Sections -> Section]]
  BY <1>1 DEF Init, Section, Kinds
<1>3. NoFields \in Fields
  BY DEF NoFields, Fields
<1>4. /\ sent \in [Members -> [Sections -> Section] \cup {None}]
      /\ batch \in [Members -> Fields \cup {None}] /\ db \in [Members -> Fields]
  BY <1>3 DEF Init, Idle
<1>5. /\ channel \in Seq(Update) /\ Len(channel) <= ChannelCap
      /\ buffer \in Seq(Update) /\ Len(buffer) <= BatchSize
  BY <1>1 DEF Init
<1> QED BY <1>1, <1>2, <1>4, <1>5 DEF Init, TypeOK

\* to_member builds an update.
LEMMA ToMemberIsUpdate ==
  ASSUME TypeOK, NEW m \in Members
  PROVE  ToMember(m) \in Update
<1>1. \A s \in Sections : hub[m][s] \in Section
  BY DEF TypeOK
<1>2. \A s \in Sections : hub[m][s].kind # "nothing" => hub[m][s] \in Stored
  BY <1>1 DEF Stored
<1>3. ToMember(m).fields \in Fields
  BY <1>2 DEF ToMember, Fields
<1> QED BY <1>3 DEF ToMember, Update

LEMMA TypeStep == TypeOK /\ [Next]_vars => TypeOK'
<1> SUFFICES ASSUME TypeOK, [Next]_vars
             PROVE  TypeOK'
  OBVIOUS
<1> USE DEF TypeOK
<1>1. MaxChanges \in Nat /\ MaxFaults \in Nat
  BY BoundsAreNumbers
<1>2. ASSUME NEW m \in Members, SendChanges(m)
      PROVE  TypeOK'
  <2>1. channel' \in Seq(Update) /\ Len(channel') <= ChannelCap
    <3>1. ToMember(m) \in Update
      BY ToMemberIsUpdate
    <3>2. ChannelCap \in Nat /\ Len(channel) \in Nat
      BY SizesArePositive, LenProperties
    <3>3. channel' = Append(channel, ToMember(m)) /\ Len(channel) < ChannelCap
      BY <1>2 DEF SendChanges
    <3> HIDE DEF TypeOK
    <3> QED BY <3>1, <3>2, <3>3 DEF TypeOK
  <2>2. sent' \in [Members -> [Sections -> Section] \cup {None}]
    BY <1>2 DEF SendChanges
  <2> QED BY <1>2, <2>1, <2>2 DEF SendChanges
<1>3. ASSUME NEW m \in Members, ForgetSent(m)
      PROVE  TypeOK'
  <2>1. sent' \in [Members -> [Sections -> Section] \cup {None}]
    BY <1>3 DEF ForgetSent
  <2>2. resends' \in Nat /\ drops + resends' <= MaxFaults
    BY <1>1, <1>3 DEF ForgetSent
  <2> QED BY <1>3, <2>1, <2>2 DEF ForgetSent
<1>4. ASSUME NEW m \in Members, NEW s \in Sections, NEW k \in Kinds, HubChanges(m, s, k)
      PROVE  TypeOK'
  <2>1. changes' \in 0..MaxChanges
    BY <1>1, <1>4 DEF HubChanges
  <2>2. [ver |-> changes', kind |-> k] \in Section
    BY <2>1 DEF Section
  <2>3. hub' \in [Members -> [Sections -> Section]]
    BY <1>4, <2>2 DEF HubChanges
  <2> QED BY <1>4, <2>1, <2>3 DEF HubChanges
<1>5. ASSUME Receive
      PROVE  TypeOK'
  <2>1. /\ Head(channel) \in Update /\ Tail(channel) \in Seq(Update)
        /\ Len(Tail(channel)) = Len(channel) - 1
    BY <1>5, HeadTailProperties DEF Receive
  <2>2. buffer' = Append(buffer, Head(channel)) /\ channel' = Tail(channel) /\ Len(buffer) < BatchSize
    BY <1>5 DEF Receive
  <2>3. BatchSize \in Nat /\ ChannelCap \in Nat /\ Len(buffer) \in Nat /\ Len(channel) \in Nat
    BY SizesArePositive, LenProperties
  <2>4. buffer' \in Seq(Update) /\ Len(buffer') <= BatchSize
    BY <2>1, <2>2, <2>3
  <2>5. channel' \in Seq(Update) /\ Len(channel') <= ChannelCap
    BY <2>1, <2>2, <2>3
  <2> QED BY <1>5, <2>4, <2>5 DEF Receive
<1>6. ASSUME StartWriting
      PROVE  TypeOK'
  <2> DEFINE S == {buffer[i].member : i \in 1..Len(buffer)}
  <2>1. /\ S \subseteq Members /\ UNION ChunksOf(S) = S
        /\ ChunksOf(S) \subseteq SUBSET Members
        /\ \A c \in ChunksOf(S) : Cardinality(c) \in 1..ChunkSize
    BY BatchIsCut
  <2>2. /\ batch' = [m \in Members |-> IF m \in S THEN Merged(m) ELSE None]
        /\ chunks' = ChunksOf(S) /\ buffer' = <<>>
    BY <1>6 DEF StartWriting
  <2>3. \A m \in Members : Merged(m) \in Fields /\ Merged(m) # None
    BY MergedIsLast, NoneIsNothing
  <2> HIDE DEF S
  <2>4. batch' \in [Members -> Fields \cup {None}]
    BY <2>2, <2>3
  <2>5. \A c \in chunks' : Cardinality(c) \in 1..ChunkSize /\ \A m \in c : batch'[m] # None
    BY <2>1, <2>2, <2>3
  <2>6. buffer' \in Seq(Update) /\ Len(buffer') <= BatchSize
    BY <2>2, SizesArePositive
  <2> QED BY <1>6, <2>1, <2>2, <2>4, <2>5, <2>6 DEF StartWriting
<1>7. ASSUME NEW c \in SUBSET Members, c \in chunks, ChunkOver(c)
      PROVE  /\ batch' \in [Members -> Fields \cup {None}] /\ chunks' \subseteq SUBSET Members
             /\ \A d \in chunks' : Cardinality(d) \in 1..ChunkSize /\ \A m \in d : batch'[m] # None
  BY <1>7 DEF ChunkOver, Idle
<1>8. ASSUME NEW c \in SUBSET Members, WriteChunk(c)
      PROVE  TypeOK'
  <2>1. \A m \in c : batch[m] \in Fields
    BY <1>8 DEF WriteChunk
  <2>2. \A m \in c : [s \in Sections |-> IF batch[m][s] = None THEN db[m][s] ELSE batch[m][s]] \in Fields
    BY <2>1 DEF Fields
  <2>3. db' \in [Members -> Fields]
    BY <1>8, <2>2 DEF WriteChunk
  <2> QED BY <1>7, <1>8, <2>3 DEF WriteChunk
<1>9. ASSUME NEW c \in SUBSET Members, DropChunk(c)
      PROVE  TypeOK'
  <2>1. drops' \in Nat /\ drops' + resends <= MaxFaults
    BY <1>1, <1>9 DEF DropChunk
  <2> QED BY <1>7, <1>9, <2>1 DEF DropChunk
<1>10. CASE Restart
  <2>1. resends' \in Nat /\ drops + resends' <= MaxFaults
    BY <1>1, <1>10 DEF Restart
  <2>2. /\ sent' \in [Members -> [Sections -> Section] \cup {None}]
        /\ batch' \in [Members -> Fields \cup {None}]
    BY <1>10 DEF Restart, Idle
  <2>3. /\ channel' \in Seq(Update) /\ Len(channel') <= ChannelCap
        /\ buffer' \in Seq(Update) /\ Len(buffer') <= BatchSize
    BY <1>10, SizesArePositive DEF Restart
  <2> QED BY <1>10, <2>1, <2>2, <2>3 DEF Restart
<1>11. CASE UNCHANGED vars
  BY <1>11 DEF vars
<1> QED BY <1>2, <1>3, <1>4, <1>5, <1>6, <1>8, <1>9, <1>10, <1>11 DEF Next, Write

\* What is on its way and what is stored are of the shapes the code gives them,
\* the channel and the batch never exceed their capacities, and no statement
\* writes more members than CHUNK_SIZE (update_batcher.rs).
THEOREM TypeCorrect == Spec => []TypeOK
BY TypeInit, TypeStep, PTL DEF Spec

-----------------------------------------------------------------------------
\* What section s of member m will hold once all that is under way is written: the
\* last update that carries it, else the batch, else the column.
WillHold(m, s, v) ==
  \/ \E i \in 1..Len(Waiting) :
       /\ Carries(Waiting, i, m, s) /\ Waiting[i].fields[s] = v
       /\ \A j \in 1..Len(Waiting) : Carries(Waiting, j, m, s) => j <= i
  \/ /\ \A i \in 1..Len(Waiting) : ~Carries(Waiting, i, m, s)
     /\ IF Writing(m, s) THEN batch[m][s] = v ELSE db[m][s] = v

SentWillHold ==
  drops = 0 =>
    \A m \in Members : sent[m] # None =>
      \A s \in Sections : sent[m][s].kind # "nothing" => WillHold(m, s, sent[m][s])

\* The versions of a section are in order from the hub back to the column.
InOrder(m, s) ==
  /\ hub[m][s].ver <= changes
  /\ db[m][s] # None => db[m][s].ver <= hub[m][s].ver
  /\ Writing(m, s) =>
       /\ batch[m][s].ver <= hub[m][s].ver
       /\ db[m][s] # None => db[m][s].ver <= batch[m][s].ver
  /\ \A i \in 1..Len(Waiting) : Carries(Waiting, i, m, s) =>
       /\ Waiting[i].fields[s].ver <= hub[m][s].ver
       /\ db[m][s] # None => db[m][s].ver <= Waiting[i].fields[s].ver
       /\ Writing(m, s) => batch[m][s].ver <= Waiting[i].fields[s].ver
       /\ \A j \in i..Len(Waiting) :
            Carries(Waiting, j, m, s) => Waiting[i].fields[s].ver <= Waiting[j].fields[s].ver

IInv == TypeOK /\ SentWillHold /\ \A m \in Members, s \in Sections : InOrder(m, s)

LEMMA WaitingIsSeq ==
  ASSUME TypeOK
  PROVE  /\ Waiting \in Seq(Update) /\ Len(Waiting) \in Nat
         /\ Len(buffer) \in Nat /\ Len(channel) \in Nat
         /\ Len(Waiting) = Len(buffer) + Len(channel)
         /\ \A i \in 1..Len(buffer) : Waiting[i] = buffer[i]
         /\ \A i \in 1..Len(channel) : Waiting[Len(buffer) + i] = channel[i]
<1>1. buffer \in Seq(Update) /\ channel \in Seq(Update)
  BY DEF TypeOK
<1>2. Len(buffer) \in Nat /\ Len(channel) \in Nat
  BY <1>1, LenProperties
<1>3. /\ Waiting \in Seq(Update) /\ Len(Waiting) = Len(buffer) + Len(channel)
      /\ \A i \in 1..Len(buffer) + Len(channel) :
           Waiting[i] = IF i <= Len(buffer) THEN buffer[i] ELSE channel[i - Len(buffer)]
  BY <1>1, ConcatProperties DEF Waiting
<1> QED BY <1>2, <1>3

\* An update that says something of a section says a version of it.
LEMMA CarriedIsStored ==
  ASSUME TypeOK, NEW i \in 1..Len(Waiting), NEW m, NEW s \in Sections, Carries(Waiting, i, m, s)
  PROVE  m \in Members /\ Waiting[i].fields[s] \in Stored
<1>1. Waiting[i] \in Update
  BY WaitingIsSeq, ElementOfSeq
<1>2. Waiting[i].member \in Members /\ Waiting[i].fields \in Fields
  BY <1>1, UpdateShape
<1> QED BY <1>2 DEF Carries, Fields

LEMMA VersionsAreNumbers == \A x \in Section : x.ver \in Nat
BY BoundsAreNumbers DEF Section

\* The sync appends an update with what the hub says of the changed sections.
LEMMA SendKeeps ==
  ASSUME IInv, NEW m \in Members, SendChanges(m)
  PROVE  SentWillHold' /\ \A k \in Members, s \in Sections : InOrder(k, s)'
<1> DEFINE n == Len(Waiting)
           says(s) == s \in SectionsChanged(m) /\ hub[m][s].kind # "nothing"
<1>1. TypeOK /\ ToMember(m) \in Update
  BY ToMemberIsUpdate DEF IInv
<1>2. /\ n \in Nat /\ Waiting' = Append(Waiting, ToMember(m))
  <2>1. buffer' = buffer /\ channel' = Append(channel, ToMember(m))
    BY DEF SendChanges
  <2>2. buffer \in Seq(Update) /\ channel \in Seq(Update)
    BY <1>1 DEF TypeOK
  <2>3. buffer \o Append(channel, ToMember(m)) = Append(buffer \o channel, ToMember(m))
    BY <1>1, <2>2
  <2> QED BY <1>1, <2>1, <2>3, WaitingIsSeq DEF Waiting
<1>3. /\ Len(Waiting') = n + 1 /\ Waiting'[n + 1] = ToMember(m)
      /\ \A i \in 1..n : Waiting'[i] = Waiting[i]
  BY <1>1, <1>2, WaitingIsSeq
<1>4. \A k, s : \A i \in 1..n : Carries(Waiting', i, k, s) <=> Carries(Waiting, i, k, s)
  BY <1>3 DEF Carries
<1>5. \A s \in Sections : hub[m][s] \in Section /\ hub[m][s] # None
  BY <1>1, NoneIsNothing DEF TypeOK
<1>6. \A k, s : s \in Sections =>
        /\ Carries(Waiting', n + 1, k, s) <=> k = m /\ says(s)
        /\ says(s) => Waiting'[n + 1].fields[s] = hub[m][s]
  BY <1>3, <1>5 DEF Carries, ToMember
<1>7. /\ UNCHANGED <<hub, batch, chunks, db, changes, drops>>
      /\ sent' = [sent EXCEPT ![m] = hub[m]]
  BY DEF SendChanges
<1>8. \A k, s : Writing(k, s)' <=> Writing(k, s)
  BY <1>7 DEF Writing
<1> HIDE DEF says, n
<1>9. ASSUME NEW k \in Members, NEW s \in Sections
      PROVE  InOrder(k, s)'
  <2>1. InOrder(k, s) /\ hub[k][s].ver \in Nat
    BY <1>1, VersionsAreNumbers DEF IInv, TypeOK
  <2>2. \A i \in 1..n : Carries(Waiting, i, k, s) => Waiting[i].fields[s].ver \in Nat
    BY <1>1, CarriedIsStored, VersionsAreNumbers DEF Stored, n
  <2>3. db[k][s] # None => db[k][s].ver \in Nat
    BY <1>1, VersionsAreNumbers DEF TypeOK, Fields, Stored
  <2>4. CASE says(s) /\ k = m
    BY <1>2, <1>3, <1>4, <1>6, <1>7, <1>8, <2>1, <2>2, <2>4 DEF InOrder, n
  <2>5. CASE ~(says(s) /\ k = m)
    BY <1>2, <1>3, <1>4, <1>6, <1>7, <1>8, <2>1, <2>2, <2>5 DEF InOrder, n
  <2> QED BY <2>4, <2>5
<1>10. ASSUME drops' = 0, NEW k \in Members, sent'[k] # None,
              NEW s \in Sections, sent'[k][s].kind # "nothing", NEW v, v = sent'[k][s]
       PROVE  WillHold(k, s, v)'
  <2>1. CASE says(s) /\ k = m
    <3>1. v = hub[m][s]
      BY <1>1, <1>7, <1>10, <2>1 DEF TypeOK
    <3>2. /\ n + 1 \in 1..Len(Waiting') /\ Carries(Waiting', n + 1, k, s)
          /\ Waiting'[n + 1].fields[s] = v
          /\ \A j \in 1..Len(Waiting') : j <= n + 1
      BY <1>2, <1>3, <1>6, <2>1, <3>1
    <3> QED BY <3>2 DEF WillHold
  <2>2. CASE ~(says(s) /\ k = m)
    <3>1. sent[k] # None /\ v = sent[k][s]
      BY <1>1, <1>7, <1>10, <2>2 DEF TypeOK, SectionsChanged, says
    <3>2. WillHold(k, s, v)
      BY <1>7, <1>10, <3>1 DEF IInv, SentWillHold
    <3>3. ~ Carries(Waiting', n + 1, k, s)
      BY <1>6, <2>2
    <3>4. CASE \E i \in 1..n : /\ Carries(Waiting, i, k, s) /\ Waiting[i].fields[s] = v
                               /\ \A j \in 1..n : Carries(Waiting, j, k, s) => j <= i
      BY <1>2, <1>3, <1>4, <3>3, <3>4 DEF WillHold
    <3>5. CASE /\ \A i \in 1..n : ~Carries(Waiting, i, k, s)
               /\ IF Writing(k, s) THEN batch[k][s] = v ELSE db[k][s] = v
      <4>1. \A i \in 1..Len(Waiting') : ~Carries(Waiting', i, k, s)
        BY <1>2, <1>3, <1>4, <3>3, <3>5
      <4> QED BY <1>7, <1>8, <3>5, <4>1 DEF WillHold
    <3> QED BY <3>2, <3>4, <3>5 DEF WillHold, n
  <2> QED BY <2>1, <2>2
<1> QED BY <1>9, <1>10 DEF SentWillHold, WillHold

\* Collecting moves an update from the channel to the batch: nothing changes place.
LEMMA ReceiveKeepsWaiting ==
  ASSUME TypeOK, Receive
  PROVE  Waiting' = Waiting
<1>1. buffer \in Seq(Update) /\ channel \in Seq(Update) /\ channel # <<>>
  BY DEF TypeOK, Receive
<1>2. Head(channel) \in Update /\ Tail(channel) \in Seq(Update)
  BY <1>1, HeadTailProperties
<1>3. /\ Len(Tail(channel)) = Len(channel) - 1 /\ Len(channel) \in Nat /\ Len(buffer) \in Nat
      /\ \A i \in 1..Len(Tail(channel)) : Tail(channel)[i] = channel[i + 1]
  BY <1>1, HeadTailProperties, LenProperties
<1>4. buffer' = Append(buffer, Head(channel)) /\ channel' = Tail(channel)
  BY DEF Receive
<1>5. /\ buffer' \in Seq(Update) /\ Len(buffer') = Len(buffer) + 1
      /\ \A i \in 1..Len(buffer') :
           buffer'[i] = IF i = Len(buffer) + 1 THEN channel[1] ELSE buffer[i]
  BY <1>1, <1>2, <1>3, <1>4
<1>6. /\ Waiting \in Seq(Update) /\ Len(Waiting) = Len(buffer) + Len(channel)
      /\ \A i \in 1..Len(buffer) + Len(channel) :
           Waiting[i] = IF i <= Len(buffer) THEN buffer[i] ELSE channel[i - Len(buffer)]
  BY <1>1, ConcatProperties DEF Waiting
<1>7. /\ Waiting' \in Seq(Update) /\ Len(Waiting') = Len(buffer') + Len(channel')
      /\ \A i \in 1..Len(buffer') + Len(channel') :
           Waiting'[i] = IF i <= Len(buffer') THEN buffer'[i] ELSE channel'[i - Len(buffer')]
  BY <1>2, <1>4, <1>5, ConcatProperties DEF Waiting
<1>8. /\ Len(buffer') = Len(buffer) + 1 /\ Len(channel') = Len(channel) - 1
      /\ Len(Waiting') = Len(Waiting)
  <2>1. Len(buffer') = Len(buffer) + 1
    BY <1>5
  <2>2. Len(channel') = Len(channel) - 1
    BY <1>3, <1>4
  <2> QED BY <1>3, <1>6, <1>7, <2>1, <2>2
<1>9. ASSUME NEW i \in 1..Len(Waiting)
      PROVE  Waiting'[i] = Waiting[i]
  <2>0. i \in 1..Len(buffer) + Len(channel) /\ i \in 1..Len(buffer') + Len(channel')
    BY <1>6, <1>7, <1>8
  <2>1. CASE i <= Len(buffer)
    <3>1. Waiting'[i] = buffer'[i] /\ i \in 1..Len(buffer') /\ i # Len(buffer) + 1
      BY <1>3, <1>7, <1>8, <2>0, <2>1
    <3> QED BY <1>5, <1>6, <2>0, <2>1, <3>1
  <2>2. CASE i = Len(buffer) + 1
    BY <1>3, <1>5, <1>6, <1>7, <2>0, <2>2
  <2>3. CASE i > Len(buffer) + 1
    <3>1. /\ i - (Len(buffer) + 1) \in 1..Len(Tail(channel))
          /\ (i - (Len(buffer) + 1)) + 1 = i - Len(buffer)
      BY <1>3, <1>6, <2>0, <2>3
    <3>2. Waiting'[i] = Tail(channel)[i - (Len(buffer) + 1)]
      <4>1. ~(i <= Len(buffer'))
        BY <1>3, <1>8, <2>0, <2>3
      <4>2. Waiting'[i] = channel'[i - Len(buffer')]
        BY <1>7, <2>0, <4>1
      <4> QED BY <1>4, <1>8, <4>2
    <3>3. Waiting[i] = channel[i - Len(buffer)]
      BY <1>3, <1>6, <2>0, <2>3
    <3> QED BY <1>3, <3>1, <3>2, <3>3
  <2> QED BY <1>3, <2>0, <2>1, <2>2, <2>3
<1> QED BY <1>6, <1>7, <1>8, <1>9, SeqEqual

\* Merging makes a batch of what was collected: what is still in the channel is newer.
LEMMA StartWritingKeeps ==
  ASSUME IInv, StartWriting
  PROVE  SentWillHold' /\ \A k \in Members, s \in Sections : InOrder(k, s)'
<1> DEFINE b == Len(buffer)
           n == Len(channel)
           S == {buffer[i].member : i \in 1..b}
<1>1. TypeOK /\ buffer \in Seq(Update) /\ channel \in Seq(Update)
  BY DEF IInv, TypeOK
<1>2. /\ b \in Nat /\ n \in Nat /\ Len(Waiting) = b + n
      /\ \A i \in 1..b : Waiting[i] = buffer[i]
      /\ \A i \in 1..n : Waiting[b + i] = channel[i]
  BY <1>1, WaitingIsSeq
<1>3. Waiting' = channel
  <2>1. buffer' = <<>> /\ channel' = channel
    BY DEF StartWriting
  <2> QED BY <1>1, <2>1, ConcatEmptySeq DEF Waiting
<1>4. \A k, s : /\ \A i \in 1..n : Carries(Waiting', i, k, s) <=> Carries(Waiting, b + i, k, s)
                /\ \A i \in 1..b : Carries(buffer, i, k, s) <=> Carries(Waiting, i, k, s)
  BY <1>2, <1>3 DEF Carries
<1>5. /\ UNCHANGED <<hub, sent, db, changes, drops>> /\ chunks = {}
      /\ batch' = [m \in Members |-> IF m \in S THEN Merged(m) ELSE None]
      /\ UNION chunks' = S
  BY <1>1, BatchIsCut DEF StartWriting
<1>6. \A k, s : ~Writing(k, s)
  BY <1>5 DEF Writing
<1>7. \A k \in Members, s \in Sections :
        \/ /\ ~Writing(k, s)' /\ \A i \in 1..b : ~Carries(Waiting, i, k, s)
        \/ /\ Writing(k, s)'
           /\ \E i \in 1..b : /\ Carries(Waiting, i, k, s) /\ batch'[k][s] = Waiting[i].fields[s]
                              /\ \A j \in 1..b : Carries(Waiting, j, k, s) => j <= i
  <2> TAKE k \in Members, s \in Sections
  <2>1. CASE k \in S
    <3>1. batch'[k] = Merged(k) /\ (Writing(k, s)' <=> Merged(k)[s] # None)
      BY <1>5, <2>1 DEF Writing
    <3>2. \/ /\ Merged(k)[s] = None
             /\ \A i \in 1..b : ~Carries(buffer, i, k, s)
          \/ \E i \in 1..b :
               /\ Carries(buffer, i, k, s) /\ Merged(k)[s] = buffer[i].fields[s]
               /\ \A j \in 1..b : Carries(buffer, j, k, s) => j <= i
      BY <1>1, MergedIsLast
    <3>3. CASE Merged(k)[s] = None /\ \A i \in 1..b : ~Carries(buffer, i, k, s)
      BY <1>4, <3>1, <3>3
    <3>4. ASSUME NEW i \in 1..b, Carries(buffer, i, k, s), Merged(k)[s] = buffer[i].fields[s],
                 \A j \in 1..b : Carries(buffer, j, k, s) => j <= i
          PROVE  /\ Writing(k, s)'
                 /\ Carries(Waiting, i, k, s) /\ batch'[k][s] = Waiting[i].fields[s]
                 /\ \A j \in 1..b : Carries(Waiting, j, k, s) => j <= i
      <4>1. Merged(k)[s] # None
        BY <3>4 DEF Carries
      <4> QED BY <1>2, <1>4, <3>1, <3>4, <4>1
    <3> QED BY <3>2, <3>3, <3>4
  <2>2. CASE k \notin S
    <3>1. ~Writing(k, s)'
      BY <1>5, <2>2 DEF Writing
    <3>2. \A i \in 1..b : ~Carries(Waiting, i, k, s)
      BY <1>2, <2>2 DEF Carries
    <3> QED BY <3>1, <3>2
  <2> QED BY <2>1, <2>2
<1> HIDE DEF S, b, n
<1>8. \A k, s : \A i \in 1..n : /\ b + i \in 1..Len(Waiting)
                                /\ Waiting'[i] = Waiting[b + i]
  BY <1>2, <1>3
<1>9. ASSUME NEW k \in Members, NEW s \in Sections
      PROVE  InOrder(k, s)'
  <2>1. InOrder(k, s) /\ hub[k][s].ver \in Nat
    BY <1>1, VersionsAreNumbers DEF IInv, TypeOK
  <2>2. /\ hub'[k][s].ver <= changes'
        /\ db'[k][s] # None => db'[k][s].ver <= hub'[k][s].ver
    BY <1>5, <2>1 DEF InOrder
  <2>3. Writing(k, s)' =>
          /\ batch'[k][s].ver <= hub'[k][s].ver
          /\ db'[k][s] # None => db'[k][s].ver <= batch'[k][s].ver
    BY <1>2, <1>5, <1>7, <2>1 DEF InOrder
  <2>4. ASSUME NEW i \in 1..Len(Waiting'), Carries(Waiting', i, k, s)
        PROVE  /\ Waiting'[i].fields[s].ver <= hub'[k][s].ver
               /\ db'[k][s] # None => db'[k][s].ver <= Waiting'[i].fields[s].ver
               /\ Writing(k, s)' => batch'[k][s].ver <= Waiting'[i].fields[s].ver
               /\ \A j \in i..Len(Waiting') :
                    Carries(Waiting', j, k, s) =>
                      Waiting'[i].fields[s].ver <= Waiting'[j].fields[s].ver
    <3>1. i \in 1..n /\ b + i \in 1..Len(Waiting) /\ Carries(Waiting, b + i, k, s)
          /\ Waiting'[i] = Waiting[b + i]
      BY <1>3, <1>4, <1>8, <2>4 DEF n
    <3>2. Writing(k, s)' => batch'[k][s].ver <= Waiting'[i].fields[s].ver
      <4>1. SUFFICES ASSUME Writing(k, s)'
                     PROVE  batch'[k][s].ver <= Waiting'[i].fields[s].ver
        OBVIOUS
      <4>2. PICK l \in 1..b : Carries(Waiting, l, k, s) /\ batch'[k][s] = Waiting[l].fields[s]
        BY <1>7, <4>1
      <4>3. l \in 1..Len(Waiting) /\ b + i \in l..Len(Waiting)
        BY <1>2, <3>1
      <4> QED BY <2>1, <3>1, <4>2, <4>3 DEF InOrder
    <3>3. ASSUME NEW j \in i..Len(Waiting'), Carries(Waiting', j, k, s)
          PROVE  Waiting'[i].fields[s].ver <= Waiting'[j].fields[s].ver
      <4>1. j \in 1..n /\ b + j \in (b + i)..Len(Waiting)
        BY <1>2, <1>3, <3>1, <3>3 DEF n
      <4>2. Carries(Waiting, b + j, k, s) /\ Waiting'[j] = Waiting[b + j]
        BY <1>4, <1>8, <3>3, <4>1
      <4> QED BY <2>1, <3>1, <4>1, <4>2 DEF InOrder
    <3>4. /\ Waiting'[i].fields[s].ver <= hub'[k][s].ver
          /\ db'[k][s] # None => db'[k][s].ver <= Waiting'[i].fields[s].ver
      BY <1>5, <2>1, <3>1 DEF InOrder
    <3> QED BY <3>2, <3>3, <3>4
  <2> QED BY <2>2, <2>3, <2>4 DEF InOrder
<1>10. ASSUME drops' = 0, NEW k \in Members, sent'[k] # None,
              NEW s \in Sections, sent'[k][s].kind # "nothing", NEW v, v = sent'[k][s]
       PROVE  WillHold(k, s, v)'
  <2>1. WillHold(k, s, v)
    BY <1>5, <1>10 DEF IInv, SentWillHold
  <2>2. ASSUME NEW i \in 1..Len(Waiting), Carries(Waiting, i, k, s), Waiting[i].fields[s] = v,
               \A j \in 1..Len(Waiting) : Carries(Waiting, j, k, s) => j <= i
        PROVE  WillHold(k, s, v)'
    <3>1. CASE i > b
      <4>1. PICK h \in 1..n : i = b + h
        <5>1. i - b \in 1..n /\ i = b + (i - b)
          BY <1>2, <3>1
        <5> QED BY <5>1
      <4>2. h \in 1..Len(Waiting') /\ Carries(Waiting', h, k, s) /\ Waiting'[h].fields[s] = v
        BY <1>3, <1>4, <1>8, <2>2, <4>1 DEF n
      <4>3. ASSUME NEW j \in 1..Len(Waiting'), Carries(Waiting', j, k, s)
            PROVE  j <= h
        <5>1. j \in 1..n
          BY <1>3 DEF n
        <5>2. b + j \in 1..Len(Waiting) /\ Carries(Waiting, b + j, k, s)
          BY <1>4, <1>8, <4>3, <5>1
        <5> QED BY <1>2, <2>2, <4>1, <5>1, <5>2
      <4> QED BY <4>2, <4>3 DEF WillHold
    <3>2. CASE i <= b
      <4>1. \A j \in 1..Len(Waiting') : ~Carries(Waiting', j, k, s)
        <5> TAKE j \in 1..Len(Waiting')
        <5>1. j \in 1..n
          BY <1>3 DEF n
        <5>2. b + j \in 1..Len(Waiting) /\ ~(b + j <= i)
          BY <1>2, <1>8, <3>2, <5>1
        <5>3. ~Carries(Waiting, b + j, k, s)
          BY <2>2, <5>2
        <5> QED BY <1>4, <5>1, <5>3
      <4>2. i \in 1..b
        BY <1>2, <3>2
      <4>3. PICK l \in 1..b : /\ Writing(k, s)' /\ batch'[k][s] = Waiting[l].fields[s]
                              /\ Carries(Waiting, l, k, s)
                              /\ \A j \in 1..b : Carries(Waiting, j, k, s) => j <= l
        BY <1>7, <2>2, <4>2
      <4>4. l = i
        <5>1. l \in 1..Len(Waiting) /\ l <= i /\ i <= l
          BY <1>2, <2>2, <4>2, <4>3
        <5> QED BY <1>2, <4>2, <5>1
      <4>5. batch'[k][s] = v
        BY <2>2, <4>3, <4>4
      <4> QED BY <4>1, <4>3, <4>5 DEF WillHold
    <3> QED BY <1>2, <3>1, <3>2
  <2>3. CASE /\ \A i \in 1..Len(Waiting) : ~Carries(Waiting, i, k, s)
             /\ IF Writing(k, s) THEN batch[k][s] = v ELSE db[k][s] = v
    <3>1. db'[k][s] = v
      BY <1>5, <1>6, <2>3
    <3>2. \A j \in 1..Len(Waiting') : ~Carries(Waiting', j, k, s)
      BY <1>3, <1>4, <1>8, <2>3 DEF n
    <3>3. ~Writing(k, s)'
      BY <1>2, <1>7, <2>3
    <3> QED BY <3>1, <3>2, <3>3 DEF WillHold
  <2> QED BY <2>1, <2>2, <2>3 DEF WillHold
<1> QED BY <1>9, <1>10 DEF SentWillHold, WillHold

\* A chunk that is over leaves the batch; what it does not touch stays in it.
LEMMA ChunkOverLeaves ==
  ASSUME TypeOK, NEW c \in chunks, ChunkOver(c)
  PROVE  /\ c \subseteq UNION chunks
         /\ \A m \in Members, s \in Sections :
              /\ Writing(m, s)' => Writing(m, s) /\ batch'[m][s] = batch[m][s]
              /\ Writing(m, s) /\ m \notin c => Writing(m, s)'
<1>1. chunks' = chunks \ {c} /\ batch' = IF chunks' = {} THEN Idle ELSE batch
  BY DEF ChunkOver
<1>2. ASSUME NEW m \in UNION chunks'
      PROVE  m \in UNION chunks /\ batch' = batch
  BY <1>1, <1>2
<1>3. ASSUME NEW m \in UNION chunks, m \notin c
      PROVE  m \in UNION chunks'
  BY <1>1, <1>3
<1> QED BY <1>2, <1>3 DEF Writing

\* A statement writes what its chunk says, and keeps what it does not (COALESCE).
LEMMA WriteKeeps ==
  ASSUME IInv, NEW c \in SUBSET Members, WriteChunk(c)
  PROVE  SentWillHold' /\ \A k \in Members, s \in Sections : InOrder(k, s)'
<1>1. TypeOK /\ c \in chunks /\ ChunkOver(c) /\ Waiting' = Waiting
      /\ UNCHANGED <<hub, sent, changes, drops>>
  BY DEF IInv, WriteChunk, Waiting
<1>2. \A k \in Members, s \in Sections :
        /\ Writing(k, s)' => Writing(k, s) /\ batch'[k][s] = batch[k][s]
        /\ Writing(k, s) /\ ~Writing(k, s)' => k \in c
        /\ k \in c /\ ~Writing(k, s) => batch[k][s] = None
  BY <1>1, ChunkOverLeaves DEF Writing
<1>3. \A k \in Members, s \in Sections :
        db'[k][s] = IF k \in c /\ Writing(k, s) THEN batch[k][s] ELSE db[k][s]
  <2> TAKE k \in Members, s \in Sections
  <2>1. k \in c => (Writing(k, s) <=> batch[k][s] # None)
    BY <1>1 DEF Writing
  <2> QED BY <2>1 DEF WriteChunk
<1>4. ASSUME NEW k \in Members, NEW s \in Sections
      PROVE  InOrder(k, s)'
  <2>1. InOrder(k, s) /\ hub[k][s].ver \in Nat
    BY <1>1, VersionsAreNumbers DEF IInv, TypeOK
  <2>2. Writing(k, s) => batch[k][s].ver \in Nat /\ batch[k][s] # None
    BY <1>1, VersionsAreNumbers DEF TypeOK, Writing, Fields, Stored
  <2>3. CASE k \in c /\ Writing(k, s)
    BY <1>1, <1>2, <1>3, <2>1, <2>2, <2>3 DEF InOrder
  <2>4. CASE ~(k \in c /\ Writing(k, s))
    BY <1>1, <1>2, <1>3, <2>1, <2>2, <2>4 DEF InOrder
  <2> QED BY <2>3, <2>4
<1>5. ASSUME drops' = 0, NEW k \in Members, sent'[k] # None,
             NEW s \in Sections, sent'[k][s].kind # "nothing", NEW v, v = sent'[k][s]
      PROVE  WillHold(k, s, v)'
  <2>1. WillHold(k, s, v)
    BY <1>1, <1>5 DEF IInv, SentWillHold
  <2>2. (IF Writing(k, s) THEN batch[k][s] = v ELSE db[k][s] = v) =>
          IF Writing(k, s)' THEN batch'[k][s] = v ELSE db'[k][s] = v
    BY <1>2, <1>3
  <2> QED BY <1>1, <2>1, <2>2 DEF WillHold
<1> QED BY <1>4, <1>5 DEF SentWillHold, WillHold

\* A chunk that is given up is missing from the table, but nothing is out of order.
LEMMA DropKeeps ==
  ASSUME IInv, NEW c \in SUBSET Members, DropChunk(c)
  PROVE  SentWillHold' /\ \A k \in Members, s \in Sections : InOrder(k, s)'
<1>1. TypeOK /\ c \in chunks /\ ChunkOver(c) /\ Waiting' = Waiting
      /\ UNCHANGED <<hub, sent, db, changes>> /\ drops' # 0
  BY DEF IInv, TypeOK, DropChunk, Waiting
<1>2. \A k \in Members, s \in Sections :
        Writing(k, s)' => Writing(k, s) /\ batch'[k][s] = batch[k][s]
  BY <1>1, ChunkOverLeaves
<1>3. ASSUME NEW k \in Members, NEW s \in Sections
      PROVE  InOrder(k, s)'
  <2>1. InOrder(k, s)
    BY DEF IInv
  <2> QED BY <1>1, <1>2, <2>1 DEF InOrder
<1> QED BY <1>1, <1>3 DEF SentWillHold

\* A restart forgets what was sent and what was on its way.
LEMMA RestartKeeps ==
  ASSUME IInv, Restart
  PROVE  SentWillHold' /\ \A k \in Members, s \in Sections : InOrder(k, s)'
<1>1. /\ Waiting' = <<>> /\ chunks' = {} /\ sent' = Idle
      /\ UNCHANGED <<hub, db, changes, drops>>
  <2>1. <<>> \o <<>> = <<>>
    OBVIOUS
  <2> QED BY <2>1 DEF Restart, Waiting
<1>2. Len(Waiting') = 0 /\ \A k, s : ~Writing(k, s)'
  BY <1>1 DEF Writing
<1>3. ASSUME NEW k \in Members, NEW s \in Sections
      PROVE  InOrder(k, s)'
  <2>1. InOrder(k, s)
    BY DEF IInv
  <2> QED BY <1>1, <1>2, <2>1 DEF InOrder
<1>4. SentWillHold'
  BY <1>1 DEF SentWillHold, Idle
<1> QED BY <1>3, <1>4

\* What neither sends, collects nor writes: the hub moves on, the sync forgets.
LEMMA OthersKeep ==
  ASSUME IInv,
         \/ \E m \in Members : ForgetSent(m) \/ \E s \in Sections, q \in Kinds : HubChanges(m, s, q)
         \/ Receive
         \/ UNCHANGED vars
  PROVE  SentWillHold' /\ \A k \in Members, s \in Sections : InOrder(k, s)'
<1>1. TypeOK
  BY DEF IInv
<1>2. Waiting' = Waiting /\ UNCHANGED <<batch, chunks, db, drops>>
  <2>1. CASE Receive
    BY <1>1, <2>1, ReceiveKeepsWaiting DEF Receive
  <2>2. CASE ~Receive
    BY <2>2 DEF ForgetSent, HubChanges, vars, Waiting
  <2> QED BY <2>1, <2>2
<1>3. \A k, s : Writing(k, s)' <=> Writing(k, s)
  BY <1>2 DEF Writing
<1>4. \A k \in Members : sent'[k] # None => sent'[k] = sent[k]
  BY <1>1 DEF TypeOK, ForgetSent, HubChanges, Receive, vars
<1>5. \A k \in Members, s \in Sections :
        hub[k][s].ver \in Nat /\ hub[k][s].ver <= changes /\ changes \in Nat
  BY <1>1, VersionsAreNumbers DEF IInv, InOrder, TypeOK
<1>6. \A k \in Members, s \in Sections :
        /\ hub'[k][s].ver \in Nat
        /\ hub[k][s].ver <= hub'[k][s].ver /\ hub'[k][s].ver <= changes'
  <2>1. CASE UNCHANGED <<hub, changes>>
    BY <1>5, <2>1
  <2>2. ASSUME NEW m \in Members, NEW t \in Sections, NEW q \in Kinds, HubChanges(m, t, q)
        PROVE  \A k \in Members, s \in Sections :
                 /\ hub'[k][s].ver \in Nat
                 /\ hub[k][s].ver <= hub'[k][s].ver /\ hub'[k][s].ver <= changes'
    <3>1. changes' = changes + 1 /\ hub' = [hub EXCEPT ![m][t] = [ver |-> changes', kind |-> q]]
      BY <2>2 DEF HubChanges
    <3>2. \A k \in Members, s \in Sections :
            hub'[k][s] = IF k = m /\ s = t THEN [ver |-> changes', kind |-> q] ELSE hub[k][s]
      BY <1>1, <3>1 DEF TypeOK
    <3> QED BY <1>5, <3>1, <3>2
  <2> QED BY <2>1, <2>2 DEF ForgetSent, Receive, vars
<1>7. ASSUME NEW k \in Members, NEW s \in Sections
      PROVE  InOrder(k, s)'
  <2>1. InOrder(k, s)
    BY DEF IInv
  <2>2. \A i \in 1..Len(Waiting) : Carries(Waiting, i, k, s) => Waiting[i].fields[s].ver \in Nat
    BY <1>1, CarriedIsStored, VersionsAreNumbers DEF Stored
  <2>3. db[k][s] # None => db[k][s].ver \in Nat
    BY <1>1, VersionsAreNumbers DEF TypeOK, Fields, Stored
  <2>4. Writing(k, s) => batch[k][s].ver \in Nat
    BY <1>1, VersionsAreNumbers DEF TypeOK, Writing, Fields, Stored
  <2> QED BY <1>2, <1>3, <1>5, <1>6, <2>1, <2>2, <2>3, <2>4 DEF InOrder
<1>8. ASSUME drops' = 0, NEW k \in Members, sent'[k] # None,
             NEW s \in Sections, sent'[k][s].kind # "nothing", NEW v, v = sent'[k][s]
      PROVE  WillHold(k, s, v)'
  <2>1. WillHold(k, s, v)
    BY <1>2, <1>4, <1>8 DEF IInv, SentWillHold
  <2> QED BY <1>2, <1>3, <2>1 DEF WillHold
<1> QED BY <1>7, <1>8 DEF SentWillHold, WillHold

LEMMA IInvInit == Init => IInv
<1> SUFFICES ASSUME Init PROVE IInv
  OBVIOUS
<1>1. TypeOK
  BY TypeInit
<1>2. Waiting = <<>>
  <2>1. <<>> \o <<>> = <<>>
    OBVIOUS
  <2> QED BY <2>1 DEF Init, Waiting
<1>3. Len(Waiting) = 0 /\ \A k, s : ~Writing(k, s)
  BY <1>2 DEF Init, Writing
<1>4. ASSUME NEW k \in Members, NEW s \in Sections
      PROVE  InOrder(k, s)
  BY <1>3 DEF Init, NoFields, InOrder
<1>5. SentWillHold
  BY DEF Init, Idle, SentWillHold
<1> QED BY <1>1, <1>4, <1>5 DEF IInv

LEMMA IInvStep == IInv /\ [Next]_vars => IInv'
<1> SUFFICES ASSUME IInv, [Next]_vars
             PROVE  IInv'
  OBVIOUS
<1>1. TypeOK'
  BY TypeStep DEF IInv
<1>2. SentWillHold' /\ \A k \in Members, s \in Sections : InOrder(k, s)'
  <2>1. CASE \E m \in Members : SendChanges(m)
    BY <2>1, SendKeeps
  <2>2. CASE StartWriting
    BY <2>2, StartWritingKeeps
  <2>3. CASE Write
    BY <2>3, WriteKeeps DEF Write
  <2>4. CASE \E c \in SUBSET Members : DropChunk(c)
    BY <2>4, DropKeeps
  <2>5. CASE Restart
    BY <2>5, RestartKeeps
  <2>6. CASE \/ \E m \in Members : ForgetSent(m) \/ \E s \in Sections, q \in Kinds : HubChanges(m, s, q)
             \/ Receive
             \/ UNCHANGED vars
    BY <2>6, OthersKeep
  <2> QED BY <2>1, <2>2, <2>3, <2>4, <2>5, <2>6 DEF Next
<1> QED BY <1>1, <1>2 DEF IInv

\* When the pipeline is empty and nothing was dropped, the table holds what the
\* sync believes it sent, however updates were merged, cut and interleaved.
THEOREM SentIsStoredAlways == Spec => []SentIsStored
<1>1. IInv => SentIsStored
  <2> SUFFICES ASSUME IInv, drops = 0, channel = <<>>, buffer = <<>>, chunks = {},
                      NEW m \in Members, sent[m] # None,
                      NEW s \in Sections, sent[m][s].kind # "nothing"
               PROVE  db[m][s] = sent[m][s]
    BY DEF SentIsStored
  <2>1. WillHold(m, s, sent[m][s])
    BY DEF IInv, SentWillHold
  <2>2. Len(Waiting) = 0 /\ ~Writing(m, s)
    <3>1. Len(buffer) = 0 /\ Len(channel) = 0
      OBVIOUS
    <3>2. Len(Waiting) = Len(buffer) + Len(channel)
      BY WaitingIsSeq DEF IInv
    <3> QED BY <3>1, <3>2 DEF Writing
  <2> QED BY <2>1, <2>2 DEF WillHold
<1> QED BY <1>1, IInvInit, IInvStep, PTL DEF Spec

\* No step takes a column back to an older state of the hub, whatever failed or
\* was lost before.
THEOREM NeverBack == Spec => NeverBackwards
<1> DEFINE Forward == \A m \in Members, s \in Sections :
                        db[m][s] # None => db'[m][s] # None /\ db'[m][s].ver >= db[m][s].ver
<1>1. IInv /\ [Next]_vars => [Forward]_vars
  <2> SUFFICES ASSUME IInv, Next
               PROVE  Forward
    OBVIOUS
  <2>1. \A m \in Members, s \in Sections : db[m][s] # None => db[m][s].ver \in Nat
    BY VersionsAreNumbers DEF IInv, TypeOK, Fields, Stored
  <2>2. CASE UNCHANGED db
    BY <2>1, <2>2
  <2>3. ASSUME NEW c \in SUBSET Members, WriteChunk(c)
        PROVE  Forward
    <3> SUFFICES ASSUME NEW m \in Members, NEW s \in Sections, db[m][s] # None
                 PROVE  db'[m][s] # None /\ db'[m][s].ver >= db[m][s].ver
      OBVIOUS
    <3>1. CASE m \in c /\ batch[m][s] # None
      <4>1. db'[m][s] = batch[m][s] /\ Writing(m, s)
        BY <2>3, <3>1 DEF WriteChunk, Writing
      <4>2. db[m][s].ver <= batch[m][s].ver
        BY <4>1 DEF IInv, InOrder
      <4>3. batch[m][s].ver \in Nat
        BY <3>1, <4>1, VersionsAreNumbers DEF IInv, TypeOK, Writing, Fields, Stored
      <4> QED BY <2>1, <3>1, <4>1, <4>2, <4>3
    <3>2. CASE ~(m \in c /\ batch[m][s] # None)
      <4>1. db'[m][s] = db[m][s]
        BY <2>3, <3>2 DEF WriteChunk
      <4> QED BY <2>1, <4>1
    <3> QED BY <3>1, <3>2
  <2>4. (\E c \in SUBSET Members : WriteChunk(c)) \/ UNCHANGED db
    BY DEF Next, Write, SendChanges, ForgetSent, HubChanges, Receive, StartWriting,
           DropChunk, Restart
  <2> QED BY <2>2, <2>3, <2>4
<1> QED BY <1>1, IInvInit, IInvStep, PTL DEF Spec, NeverBackwards
=============================================================================
