-------------------------- MODULE MembersPollProofs --------------------------
(* That no update is missed by a page whose first poll is answered before  *)
(* the next one is sent: for every set of members and sections, every lag  *)
(* of the cursor that covers the batcher's statements, and every bound.    *)
EXTENDS MembersPoll, TLAPS

(* The inductive invariant.                                                 *)

\* One poll at a time, sent with the from_time the page still has.
OneAtATime ==
  /\ ~started => poll[First] = Idle /\ poll[Interval] = Idle
  /\ poll[First] = Idle \/ poll[Interval] = Idle
  /\ \A i \in Callers : poll[i].at = "sent" => poll[i].from = nextCheck

\* A statement under way has taken no longer than a statement may.
StatementsAreShort ==
  \A n \in Names : writing[n] # NoWrite => clock <= writing[n].start + MaxStatement

\* What the page has something of, the table holds.
ShownIsStored ==
  \A n \in Names, s \in Sections :
    site[n] # NoMember /\ rows[n] # NoRow /\ site[n].data[s] # 0 => rows[n].val[s] # 0

\* What an answer on its way says of a section is what the table holds, or has
\* changed since the answer's cursor; what it leaves out had not changed since the
\* from_time, or has since the cursor.
AnswerCovers(body) ==
  \A n \in body.roster, s \in Sections : rows[n] # NoRow =>
    IF body.fields[n][s] # 0
    THEN /\ rows[n].val[s] # 0
         /\ body.fields[n][s] = rows[n].val[s] \/ rows[n].stamp[s] >= body.cursor
    ELSE \/ rows[n].val[s] = 0
         \/ rows[n].stamp[s] < nextCheck
         \/ rows[n].stamp[s] >= body.cursor

AnswersCover == \A i \in Callers : poll[i].at = "answered" => AnswerCovers(poll[i].body)

IInv == /\ TypeOK /\ OneAtATime /\ StatementsAreShort /\ ShownIsStored
        /\ AnswersCover /\ NothingStale

-----------------------------------------------------------------------------
USE DEF Callers, First, Interval

LEMMA InitIInv == Init => IInv
<1> SUFFICES ASSUME Init PROVE IInv
  OBVIOUS
<1> USE CursorCoversStatements, ClockIsPastOverlap, BoundsAreNaturals, AbsentIsNoRecord
<1>1. rows \in [Names -> Row \cup {NoRow}]
  BY DEF Init, Row, Values, Versions, Nothing
<1>2. poll \in [Callers -> {Idle} \cup Sent \cup Answered] /\ \A i \in Callers : poll[i] = Idle
  BY DEF Init
<1>3. Idle.at = "idle"
  BY DEF Idle
<1>4. clock \in Overlap + 1..MaxClock /\ nextCheck \in 0..clock - Overlap
  BY DEF Init
<1>5. TypeOK
  <2>1. writes \in 0..MaxWrites /\ moves \in 0..MaxMoves /\ fails \in 0..MaxFails
    BY DEF Init
  <2>2. /\ writing \in [Names -> Statement \cup {NoWrite}]
        /\ site \in [Names -> Member \cup {NoMember}] /\ started \in BOOLEAN
    BY DEF Init
  <2>3. \A i \in Callers : poll[i].at # "answered"
    BY <1>2, <1>3
  <2> QED BY <1>1, <1>2, <1>4, <2>1, <2>2, <2>3 DEF TypeOK
<1>6. OneAtATime /\ StatementsAreShort /\ ShownIsStored /\ AnswersCover /\ NothingStale
  BY <1>2, <1>3 DEF Init, OneAtATime, StatementsAreShort, ShownIsStored, AnswersCover, NothingStale
<1> QED BY <1>5, <1>6 DEF IInv

\* The three kinds of poll.
LEMMA PollKinds ==
  ASSUME TypeOK, NEW i \in Callers
  PROVE  \/ poll[i] = Idle /\ poll[i].at = "idle"
         \/ poll[i] \in Sent /\ poll[i].at = "sent" /\ poll[i].from \in 0..MaxClock
         \/ poll[i] \in Answered /\ poll[i].at = "answered" /\ poll[i].body \in Answer
BY DEF TypeOK, Idle, Sent, Answered

(* Steps of the backend.                                                    *)

LEMMA TickStep == IInv /\ Tick => IInv'
<1> SUFFICES ASSUME IInv, Tick PROVE IInv'
  OBVIOUS
<1> USE CursorCoversStatements, ClockIsPastOverlap
<1>1. TypeOK'
  <2>1. clock' \in Overlap + 1..MaxClock /\ nextCheck' \in 0..clock' - Overlap
    BY DEF IInv, TypeOK, Tick, pageVars
  <2>2. ASSUME NEW i \in Callers, poll[i].at = "answered"
        PROVE  poll[i].body.cursor <= clock' - Overlap
    <3>1. poll[i].body.cursor \in Nat /\ poll[i].body.cursor <= clock - Overlap
      BY <2>2, PollKinds DEF IInv, TypeOK, Answer
    <3> QED BY <3>1 DEF IInv, TypeOK, Tick
  <2> QED BY <2>1, <2>2 DEF IInv, TypeOK, Tick, pageVars, countVars
<1>2. StatementsAreShort'
  <2> SUFFICES ASSUME NEW n \in Names, writing[n] # NoWrite
               PROVE  clock + 1 <= writing[n].start + MaxStatement
    BY DEF StatementsAreShort, Tick
  <2>1. clock < writing[n].start + MaxStatement /\ clock \in Nat
    BY DEF Tick, IInv, TypeOK
  <2>2. writing[n].start \in Nat
    BY DEF IInv, TypeOK, Statement
  <2> QED BY <2>1, <2>2
<1>3. OneAtATime' /\ ShownIsStored' /\ AnswersCover' /\ NothingStale'
  BY DEF IInv, Tick, pageVars, OneAtATime, ShownIsStored, AnswersCover, AnswerCovers, NothingStale
<1> QED BY <1>1, <1>2, <1>3 DEF IInv

LEMMA StartWriteStep ==
  ASSUME IInv, NEW n \in Names, NEW changed \in SUBSET Sections, StartWrite(n, changed)
  PROVE  IInv'
<1> USE CursorCoversStatements, ClockIsPastOverlap, BoundsAreNaturals
<1> DEFINE new == [start |-> clock,
                   val |-> [s \in Sections |-> IF s \in changed THEN writes + 2 ELSE 0]]
<1>1. new \in Statement /\ new.start = clock
  BY DEF IInv, TypeOK, Statement, Values, Versions, StartWrite
<1>2. writing' = [writing EXCEPT ![n] = new]
  BY DEF StartWrite
<1>3. TypeOK'
  <2> HIDE DEF new
  <2> QED BY <1>1, <1>2 DEF IInv, TypeOK, StartWrite, pageVars
<1>4. StatementsAreShort'
  <2> HIDE DEF new
  <2>1. clock \in Nat /\ clock' = clock
    BY DEF IInv, TypeOK, StartWrite
  <2> QED BY <1>1, <1>2, <2>1 DEF IInv, TypeOK, StatementsAreShort
<1>5. OneAtATime' /\ ShownIsStored' /\ AnswersCover' /\ NothingStale'
  BY DEF IInv, StartWrite, pageVars, OneAtATime, ShownIsStored, AnswersCover, AnswerCovers,
         NothingStale
<1> QED BY <1>3, <1>4, <1>5 DEF IInv

\* What is committed is stamped no earlier than the page's from_time, and than the
\* cursor of an answer on its way: the statement started within the cursor's lag.
LEMMA CommitStep ==
  ASSUME IInv, NEW m \in Names, Commit(m)
  PROVE  IInv'
<1> USE CursorCoversStatements, ClockIsPastOverlap, AbsentIsNoRecord
<1> DEFINE w == writing[m]
<1>1. w \in Statement /\ w.start \in Nat /\ w.val \in Values
  BY DEF IInv, TypeOK, Commit, Statement
<1>2. nextCheck <= w.start
  BY <1>1 DEF IInv, TypeOK, StatementsAreShort, Commit
<1>3. \A i \in Callers : poll[i].at = "answered" => poll[i].body.cursor <= w.start
  <2> SUFFICES ASSUME NEW i \in Callers, poll[i].at = "answered"
               PROVE  poll[i].body.cursor <= w.start
    OBVIOUS
  <2>1. poll[i].body.cursor \in Nat /\ poll[i].body.cursor <= clock - Overlap
    BY PollKinds DEF IInv, TypeOK, Answer
  <2>2. clock <= w.start + MaxStatement /\ clock \in Nat
    BY DEF IInv, TypeOK, StatementsAreShort, Commit
  <2> QED BY <1>1, <2>1, <2>2
<1>4. \A n \in Names : /\ rows'[n] # NoRow => rows[n] # NoRow
                       /\ n # m \/ rows[m] = NoRow => rows'[n] = rows[n]
  BY DEF Commit, IInv, TypeOK
<1>5. ASSUME rows[m] # NoRow
      PROVE  /\ rows'[m] \in Row
             /\ \A s \in Sections :
                  \/ w.val[s] = 0 /\ rows'[m].val[s] = rows[m].val[s]
                                  /\ rows'[m].stamp[s] = rows[m].stamp[s]
                  \/ rows'[m].val[s] # 0 /\ rows'[m].stamp[s] = w.start
  <2> DEFINE v == [s \in Sections |-> IF w.val[s] # 0 THEN w.val[s] ELSE rows[m].val[s]]
             st == [s \in Sections |-> IF w.val[s] # 0 THEN w.start ELSE rows[m].stamp[s]]
  <2>1. rows[m] \in Row
    BY <1>5 DEF IInv, TypeOK
  <2>2. rows'[m] = [rows[m] EXCEPT !.val = v, !.stamp = st]
    BY <1>5, <2>1 DEF Commit, IInv, TypeOK, Row
  <2>3. v \in Values /\ st \in [Sections -> 0..MaxClock]
    BY <1>1, <2>1 DEF Row, Values, Statement
  <2>4. rows'[m].val = v /\ rows'[m].stamp = st /\ rows'[m] \in Row
    <3> HIDE DEF v, st
    <3> QED BY <2>1, <2>2, <2>3 DEF Row
  <2> QED BY <2>4
<1>6. TypeOK'
  <2>1. rows' \in [Names -> Row \cup {NoRow}]
    <3>1. DOMAIN rows' = Names /\ rows' = [n \in Names |-> rows'[n]]
      BY DEF Commit, IInv, TypeOK
    <3>2. \A n \in Names : rows'[n] \in Row \cup {NoRow}
      BY <1>4, <1>5 DEF IInv, TypeOK
    <3> QED BY <3>1, <3>2
  <2> QED BY <2>1 DEF Commit, IInv, TypeOK, pageVars, countVars
<1>7. OneAtATime' /\ StatementsAreShort'
  BY DEF Commit, IInv, TypeOK, OneAtATime, StatementsAreShort, pageVars
<1>8. ShownIsStored' /\ NothingStale'
  <2>1. site' = site /\ nextCheck' = nextCheck
    BY DEF Commit, pageVars
  <2> QED BY <1>2, <1>4, <1>5, <2>1 DEF IInv, ShownIsStored, NothingStale
<1>9. AnswersCover'
  <2>1. poll' = poll /\ nextCheck' = nextCheck
    BY DEF Commit, pageVars
  <2> SUFFICES ASSUME NEW i \in Callers, poll[i].at = "answered"
               PROVE  AnswerCovers(poll[i].body)'
    BY <2>1 DEF AnswersCover
  <2>2. poll[i].body.roster \subseteq Names
    BY PollKinds DEF IInv, Answer
  <2>3. AnswerCovers(poll[i].body)
    BY DEF IInv, AnswersCover
  <2>4. poll[i].body.cursor <= w.start
    BY <1>3
  <2> HIDE DEF w
  <2> QED BY <1>4, <1>5, <2>1, <2>2, <2>3, <2>4 DEF AnswerCovers
<1> QED BY <1>6, <1>7, <1>8, <1>9 DEF IInv

\* Hiding, showing and renaming change no value and no stamp of a name the page or
\* an answer knows.
LEMMA MoveStep ==
  ASSUME IInv, NEW n \in Names, SetVisible(n) \/ \E m \in Names : RenameMember(n, m)
  PROVE  IInv'
<1>1. CASE SetVisible(n)
  <2>1. rows[n] \in Row
    BY <1>1 DEF IInv, TypeOK, SetVisible
  <2>2. rows' = [rows EXCEPT ![n] = [rows[n] EXCEPT !.visible = ~rows[n].visible]]
    BY <1>1 DEF SetVisible
  <2>3. /\ [rows[n] EXCEPT !.visible = ~rows[n].visible] \in Row
        /\ [rows[n] EXCEPT !.visible = ~rows[n].visible].val = rows[n].val
        /\ [rows[n] EXCEPT !.visible = ~rows[n].visible].stamp = rows[n].stamp
    BY <2>1 DEF Row
  <2>4. \A x \in Names : /\ rows'[x] # NoRow => rows[x] # NoRow
                         /\ rows'[x] # NoRow => rows'[x].val = rows[x].val
                         /\ rows'[x] # NoRow => rows'[x].stamp = rows[x].stamp
    BY <1>1, <2>2, <2>3 DEF SetVisible, IInv, TypeOK
  <2>5. rows' \in [Names -> Row \cup {NoRow}]
    BY <2>2, <2>3 DEF IInv, TypeOK
  <2>6. /\ UNCHANGED <<clock, writing, pageVars, writes, fails>>
        /\ moves' \in 0..MaxMoves
    BY <1>1, BoundsAreNaturals DEF SetVisible, IInv, TypeOK
  <2>7. TypeOK' /\ OneAtATime' /\ StatementsAreShort'
    BY <2>5, <2>6 DEF IInv, TypeOK, OneAtATime, StatementsAreShort, pageVars
  <2>8. ShownIsStored' /\ NothingStale'
    BY <2>4, <2>6 DEF IInv, ShownIsStored, NothingStale, pageVars
  <2>9. AnswersCover'
    <3> SUFFICES ASSUME NEW i \in Callers, poll[i].at = "answered"
                 PROVE  AnswerCovers(poll[i].body)'
      BY <2>6 DEF AnswersCover, pageVars
    <3>1. poll[i].body.roster \subseteq Names /\ AnswerCovers(poll[i].body)
      BY PollKinds DEF IInv, Answer, AnswersCover
    <3> QED BY <2>4, <2>6, <3>1 DEF AnswerCovers, pageVars
  <2> QED BY <2>7, <2>8, <2>9 DEF IInv
<1>2. ASSUME NEW m \in Names, RenameMember(n, m) PROVE IInv'
  <2>1. rows[n] \in Row /\ rows' = [rows EXCEPT ![m] = rows[n], ![n] = NoRow] /\ m # n
    BY <1>2 DEF RenameMember, Unseen, IInv, TypeOK
  <2>2. rows' \in [Names -> Row \cup {NoRow}]
    BY <2>1 DEF IInv, TypeOK
  <2>3. \A x \in Names \ {m} : rows'[x] # NoRow => rows'[x] = rows[x]
    BY <2>1 DEF IInv, TypeOK
  <2>4. /\ UNCHANGED <<clock, writing, pageVars, writes, fails>>
        /\ moves' \in 0..MaxMoves
    BY <1>2, BoundsAreNaturals DEF RenameMember, IInv, TypeOK
  <2>5. /\ site[m] = NoMember
        /\ \A i \in Callers : poll[i].at = "answered" => m \notin poll[i].body.roster
    BY <1>2 DEF RenameMember, Unseen
  <2>6. TypeOK' /\ OneAtATime' /\ StatementsAreShort'
    BY <2>2, <2>4 DEF IInv, TypeOK, OneAtATime, StatementsAreShort, pageVars
  <2>7. ShownIsStored' /\ NothingStale'
    BY <2>3, <2>4, <2>5 DEF IInv, ShownIsStored, NothingStale, pageVars
  <2>8. AnswersCover'
    <3> SUFFICES ASSUME NEW i \in Callers, poll[i].at = "answered"
                 PROVE  AnswerCovers(poll[i].body)'
      BY <2>4 DEF AnswersCover, pageVars
    <3>1. poll[i].body.roster \subseteq Names /\ AnswerCovers(poll[i].body)
      BY PollKinds DEF IInv, Answer, AnswersCover
    <3> QED BY <2>3, <2>4, <2>5, <3>1 DEF AnswerCovers, pageVars
  <2> QED BY <2>6, <2>7, <2>8 DEF IInv
<1> QED BY <1>1, <1>2

(* Steps of the page.                                                       *)

\* A poll is sent with nextCheck, and only while no other is on its way.
LEMMA SendStep ==
  ASSUME ~SlowFirst, IInv, NEW i \in Callers, PollSend(i)
  PROVE  IInv'
<1> DEFINE sent == [at |-> "sent", from |-> nextCheck]
<1>1. sent \in Sent /\ sent.at = "sent" /\ sent.from = nextCheck
  BY CursorCoversStatements, ClockIsPastOverlap DEF Sent, IInv, TypeOK
<1>2. poll' = [poll EXCEPT ![i] = sent] /\ started' = TRUE
  BY DEF PollSend
<1>3. UNCHANGED <<clock, rows, writing, site, nextCheck, countVars>>
  BY DEF PollSend
<1> HIDE DEF sent
<1>4. TypeOK'
  BY <1>1, <1>2, <1>3 DEF IInv, TypeOK, countVars
<1>5. OneAtATime'
  <2>1. \A j \in Callers : j # i => poll[j] = Idle
    BY DEF PollSend, MaySend, IInv, OneAtATime
  <2>2. poll \in [Callers -> {Idle} \cup Sent \cup Answered] /\ Idle.at # "sent"
    BY DEF IInv, TypeOK, Idle
  <2> QED BY <1>1, <1>2, <1>3, <2>1, <2>2 DEF OneAtATime
<1>6. StatementsAreShort' /\ ShownIsStored' /\ NothingStale'
  BY <1>3 DEF IInv, StatementsAreShort, ShownIsStored, NothingStale
<1>7. AnswersCover'
  <2> SUFFICES ASSUME NEW j \in Callers, poll'[j].at = "answered"
               PROVE  AnswerCovers(poll[j].body)'
    BY DEF AnswersCover
  <2>1. poll'[j] = poll[j]
    BY <1>1, <1>2 DEF IInv, TypeOK
  <2>2. AnswerCovers(poll[j].body)
    BY <2>1 DEF IInv, AnswersCover
  <2> QED BY <1>3, <2>1, <2>2 DEF AnswerCovers
<1> QED BY <1>4, <1>5, <1>6, <1>7 DEF IInv

\* An answer covers what it is asked for: one SELECT at one moment.
LEMMA AnswerStep ==
  ASSUME IInv, NEW i \in Callers, PollAnswer(i)
  PROVE  IInv'
<1> USE CursorCoversStatements, ClockIsPastOverlap
<1> DEFINE body == Members(poll[i].from)
           answered == [at |-> "answered", body |-> body]
<1>1. /\ poll[i].at = "sent" /\ poll[i].from = nextCheck
      /\ UNCHANGED <<clock, rows, writing, site, nextCheck, started, countVars>>
  BY DEF PollAnswer, IInv, OneAtATime
<1>2. poll' = [poll EXCEPT ![i] = answered]
  BY DEF PollAnswer
<1>3. body \in Answer /\ body.cursor = clock - Overlap
  <2>1. Visible \subseteq Names
    BY DEF Visible
  <2>2. \A n \in Visible : rows[n] \in Row
    BY DEF Visible, IInv, TypeOK
  <2>3. body.cursor \in 0..MaxClock /\ body.cursor = clock - Overlap
    BY DEF Members, IInv, TypeOK
  <2>4. body.fields \in [Names -> Values]
    BY <2>2, BoundsAreNaturals DEF Members, Row, Values, Versions
  <2>5. body = [cursor |-> body.cursor, roster |-> Visible, fields |-> body.fields]
    BY DEF Members
  <2> HIDE DEF body
  <2> QED BY <2>1, <2>3, <2>4, <2>5 DEF Answer
<1>4. AnswerCovers(body)
  <2> SUFFICES ASSUME NEW n \in Visible, NEW s \in Sections
               PROVE  IF body.fields[n][s] # 0
                      THEN rows[n].val[s] # 0 /\ body.fields[n][s] = rows[n].val[s]
                      ELSE rows[n].val[s] = 0 \/ rows[n].stamp[s] < nextCheck
    BY DEF AnswerCovers, Members
  <2>1. n \in Names /\ rows[n] \in Row
    BY DEF Visible, IInv, TypeOK
  <2>2. body.fields[n][s] = IF rows[n].stamp[s] >= nextCheck THEN rows[n].val[s] ELSE 0
    BY <1>1, <2>1 DEF Members
  <2>3. rows[n].stamp[s] \in Nat /\ nextCheck \in Nat
    BY <2>1 DEF Row, IInv, TypeOK
  <2> HIDE DEF body
  <2> QED BY <2>2, <2>3
<1> HIDE DEF body
<1>5. answered \in Answered /\ answered.at = "answered" /\ answered.body = body
  BY <1>3 DEF Answered
<1> HIDE DEF answered
<1>6. \A j \in Callers : j # i => poll'[j] = poll[j]
  BY <1>2 DEF IInv, TypeOK
<1>7. poll'[i] = answered /\ poll[i] # Idle
  BY <1>1, <1>2 DEF IInv, TypeOK, Idle
<1>8. TypeOK'
  <2>1. poll' \in [Callers -> {Idle} \cup Sent \cup Answered]
    BY <1>2, <1>5 DEF IInv, TypeOK
  <2>2. \A j \in Callers : poll'[j].at = "answered" => poll'[j].body.cursor <= clock - Overlap
    BY <1>3, <1>5, <1>6, <1>7 DEF IInv, TypeOK
  <2> QED BY <1>1, <2>1, <2>2 DEF IInv, TypeOK, countVars
<1>9. OneAtATime'
  BY <1>1, <1>5, <1>6, <1>7 DEF IInv, OneAtATime
<1>10. StatementsAreShort' /\ ShownIsStored' /\ NothingStale'
  BY <1>1 DEF IInv, StatementsAreShort, ShownIsStored, NothingStale
<1>11. AnswersCover'
  <2> SUFFICES ASSUME NEW j \in Callers, poll'[j].at = "answered"
               PROVE  AnswerCovers(poll[j].body)'
    BY DEF AnswersCover
  <2>1. CASE j = i
    BY <1>1, <1>4, <1>5, <1>7, <2>1 DEF AnswerCovers
  <2>2. CASE j # i
    <3>1. AnswerCovers(poll[j].body)
      BY <1>6, <2>2 DEF IInv, AnswersCover
    <3> QED BY <1>1, <1>6, <2>2, <3>1 DEF AnswerCovers
  <2> QED BY <2>1, <2>2
<1> QED BY <1>8, <1>9, <1>10, <1>11 DEF IInv

\* What the page has of a member after an answer: the section the answer brings, or
\* what it had.
LEMMA MergedMember ==
  ASSUME TypeOK, NEW body \in Answer, NEW n \in body.roster
  PROVE  /\ Merge(body)[n] \in Member
         /\ \A s \in Sections :
              Merge(body)[n].data[s] =
                IF body.fields[n][s] # 0 THEN body.fields[n][s]
                ELSE IF site[n] = NoMember THEN 0 ELSE site[n].data[s]
<1> USE AbsentIsNoRecord, BoundsAreNaturals
<1> DEFINE m == IF site[n] = NoMember THEN NewMember ELSE site[n]
           data == [s \in Sections |-> IF body.fields[n][s] # 0 THEN body.fields[n][s]
                                       ELSE m.data[s]]
           has == m.hasData \/ body.fields[n] # Nothing
<1>1. n \in Names /\ body.fields[n] \in Values
  BY DEF Answer
<1>2. m \in Member
  BY <1>1 DEF TypeOK, Member, NewMember, Nothing, Values, Versions
<1>3. Merge(body)[n] = [m EXCEPT !.data = data, !.hasData = has]
  BY <1>1, <1>2 DEF Merge, Member
<1>4. data \in Values /\ has \in BOOLEAN
  BY <1>1, <1>2 DEF Values, Member
<1>5. Merge(body)[n] \in Member /\ Merge(body)[n].data = data
  <2> HIDE DEF m, data, has
  <2> QED BY <1>2, <1>3, <1>4 DEF Member
<1>6. \A s \in Sections : m.data[s] = IF site[n] = NoMember THEN 0 ELSE site[n].data[s]
  BY DEF NewMember, Nothing
<1> HIDE DEF m
<1> QED BY <1>5, <1>6

\* The page after an answer: it covers what the table holds, up to its cursor.
LEMMA ReceiveStep ==
  ASSUME IInv, NEW i \in Callers, PollReceive(i)
  PROVE  IInv'
<1> USE CursorCoversStatements, ClockIsPastOverlap
<1> DEFINE body == poll[i].body
           merged == Merge(body)
           asks == Asks(merged, body)
<1>1. /\ body \in Answer /\ poll[i].at = "answered" /\ poll[i] # Idle
      /\ AnswerCovers(body) /\ body.roster \subseteq Names
      /\ body.cursor \in Nat /\ body.cursor <= clock - Overlap
  <2>1. poll[i].at = "answered"
    BY DEF PollReceive
  <2> QED BY <2>1, PollKinds DEF IInv, TypeOK, AnswersCover, Answer, Idle
<1>2. /\ site' = [n \in Names |-> IF n \notin body.roster THEN NoMember
                                  ELSE IF n \in asks THEN [merged[n] EXCEPT !.asked = TRUE]
                                  ELSE merged[n]]
      /\ nextCheck' = IF asks # {} THEN 0 ELSE body.cursor
      /\ poll' = [poll EXCEPT ![i] = Idle]
      /\ UNCHANGED <<clock, rows, writing, started, countVars>>
  BY DEF PollReceive
<1>3. \A n \in body.roster :
        /\ merged[n] \in Member
        /\ \A s \in Sections : merged[n].data[s] =
             IF body.fields[n][s] # 0 THEN body.fields[n][s]
             ELSE IF site[n] = NoMember THEN 0 ELSE site[n].data[s]
  BY <1>1, MergedMember DEF IInv
<1> HIDE DEF body, merged, asks
<1>4. \A n \in body.roster : site'[n] \in Member /\ site'[n].data = merged[n].data
  BY <1>1, <1>2, <1>3 DEF Member
<1>5. \A n \in Names : n \notin body.roster => site'[n] = NoMember
  BY <1>2
<1>6. nextCheck' \in 0..clock' - Overlap /\ nextCheck' <= body.cursor
  BY <1>1, <1>2 DEF IInv, TypeOK
<1>7. \A j \in Callers : poll'[j] = Idle
  BY <1>1, <1>2 DEF IInv, TypeOK, OneAtATime
<1>8. Idle.at = "idle"
  BY DEF Idle
<1>9. TypeOK'
  <2>1. site' \in [Names -> Member \cup {NoMember}]
    <3>1. site' = [n \in Names |-> site'[n]]
      BY <1>2
    <3>2. \A n \in Names : site'[n] \in Member \cup {NoMember}
      BY <1>4, <1>5
    <3> QED BY <3>1, <3>2
  <2>2. poll' \in [Callers -> {Idle} \cup Sent \cup Answered]
    BY <1>2 DEF IInv, TypeOK
  <2> QED BY <1>2, <1>6, <1>7, <1>8, <2>1, <2>2 DEF IInv, TypeOK, countVars
<1>10. OneAtATime' /\ StatementsAreShort' /\ AnswersCover'
  BY <1>2, <1>7, <1>8, PollKinds, <1>1
  DEF IInv, OneAtATime, StatementsAreShort, AnswersCover
<1>11. ASSUME NEW n \in Names, NEW s \in Sections,
              site'[n] # NoMember, rows[n] # NoRow, site'[n].data[s] # 0
       PROVE  /\ rows[n].val[s] # 0
              /\ site'[n].data[s] = rows[n].val[s] \/ rows[n].stamp[s] >= body.cursor
  <2>1. n \in body.roster
    BY <1>5, <1>11
  <2>2. CASE body.fields[n][s] # 0
    BY <1>1, <1>3, <1>4, <2>1, <2>2, <1>11 DEF AnswerCovers
  <2>3. CASE body.fields[n][s] = 0
    <3>1. site[n] # NoMember /\ site'[n].data[s] = site[n].data[s]
      BY <1>3, <1>4, <1>11, <2>1, <2>3
    <3>2. /\ rows[n].val[s] # 0
          /\ site[n].data[s] = rows[n].val[s] \/ rows[n].stamp[s] >= nextCheck
      BY <1>11, <3>1 DEF IInv, ShownIsStored, NothingStale
    <3>3. \/ rows[n].val[s] = 0
          \/ rows[n].stamp[s] < nextCheck
          \/ rows[n].stamp[s] >= body.cursor
      BY <1>1, <1>11, <2>1, <2>3 DEF AnswerCovers
    <3>4. rows[n].stamp[s] \in Nat /\ nextCheck \in Nat
      BY <1>11 DEF IInv, TypeOK, Row
    <3> QED BY <3>1, <3>2, <3>3, <3>4
  <2> QED BY <2>2, <2>3
<1>12. ShownIsStored' /\ NothingStale'
  <2>1. \A n \in Names, s \in Sections : rows[n] # NoRow => rows[n].stamp[s] \in Nat
    BY DEF IInv, TypeOK, Row
  <2>2. nextCheck' \in Nat /\ body.cursor \in Nat
    BY <1>1, <1>6 DEF IInv, TypeOK
  <2> QED BY <1>2, <1>6, <1>11, <2>1, <2>2 DEF ShownIsStored, NothingStale
<1> QED BY <1>9, <1>10, <1>12 DEF IInv

LEMMA FailStep ==
  ASSUME IInv, NEW i \in Callers, PollFail(i)
  PROVE  IInv'
<1>1. /\ poll[i] # Idle /\ poll' = [poll EXCEPT ![i] = Idle] /\ fails' \in 0..MaxFails
      /\ UNCHANGED <<clock, rows, writing, site, nextCheck, started, writes, moves>>
  BY BoundsAreNaturals DEF PollFail, IInv, TypeOK
<1>2. \A j \in Callers : poll'[j] = Idle
  BY <1>1 DEF IInv, TypeOK, OneAtATime
<1>3. Idle.at = "idle"
  BY DEF Idle
<1>4. TypeOK'
  BY <1>1, <1>2, <1>3 DEF IInv, TypeOK
<1>5. OneAtATime' /\ AnswersCover'
  BY <1>1, <1>2, <1>3 DEF IInv, OneAtATime, AnswersCover
<1>6. StatementsAreShort' /\ ShownIsStored' /\ NothingStale'
  BY <1>1 DEF IInv, StatementsAreShort, ShownIsStored, NothingStale
<1> QED BY <1>4, <1>5, <1>6 DEF IInv

LEMMA StutterStep == IInv /\ UNCHANGED vars => IInv'
BY DEF IInv, TypeOK, OneAtATime, StatementsAreShort, ShownIsStored, AnswersCover,
       AnswerCovers, NothingStale, vars, pageVars, countVars

LEMMA NextKeepsIInv == ~SlowFirst /\ IInv /\ [Next]_vars => IInv'
<1> SUFFICES ASSUME ~SlowFirst, IInv, [Next]_vars PROVE IInv'
  OBVIOUS
<1>1. ASSUME NEW i \in Callers, Poll(i) \/ PollFail(i) PROVE IInv'
  BY <1>1, SendStep, AnswerStep, ReceiveStep, FailStep DEF Poll
<1>2. ASSUME NEW n \in Names, NEW changed \in SUBSET Sections \ {{}}, StartWrite(n, changed)
      PROVE  IInv'
  BY <1>2, StartWriteStep
<1>3. ASSUME NEW n \in Names,
             Commit(n) \/ SetVisible(n) \/ \E m \in Names : RenameMember(n, m)
      PROVE  IInv'
  BY <1>3, CommitStep, MoveStep
<1>4. CASE Tick
  BY <1>4, TickStep
<1>5. CASE UNCHANGED vars
  BY <1>5, StutterStep
<1> QED BY <1>1, <1>2, <1>3, <1>4, <1>5 DEF Next

\* The page's cursor and that of every answer under way stay a lag behind the clock
\* (get_members takes it off), and rows, statements, calls and the page's members
\* keep their types, where the first poll is answered before the interval is over.
THEOREM TypeCorrect ==
  ASSUME ~SlowFirst
  PROVE  Spec => []TypeOK
<1>1. IInv /\ [Next]_vars => IInv'
  BY NextKeepsIInv
<1>2. IInv => TypeOK
  BY DEF IInv
<1> QED BY InitIInv, <1>1, <1>2, PTL DEF Spec

\* Where the first poll is answered before the interval is over and the batcher's
\* statements take no longer than the cursor lags, an open page never misses an
\* update: what it shows of a section is the table's value, or the next poll asks
\* for the change (get_members' cursor, GuildData.update).
THEOREM NoUpdateIsMissed ==
  ASSUME ~SlowFirst
  PROVE  Spec => []NothingStale
<1>1. IInv /\ [Next]_vars => IInv'
  BY NextKeepsIInv
<1>2. IInv => NothingStale
  BY DEF IInv
<1> QED BY InitIInv, <1>1, <1>2, PTL DEF Spec
=============================================================================
