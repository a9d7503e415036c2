----------------------------- MODULE MembersPoll -----------------------------
(***************************************************************************)
(* How an open page follows the members table: the stamps the batcher's    *)
(* UPDATE sets (update_batcher.rs), the answer of /api/members             *)
(* (db/members.rs get_members) with its lagging cursor, and the page that  *)
(* merges the answers (site: api.js, utility.js, guild-data.js).           *)
(*                                                                         *)
(* The clock is the database's, in steps of an arbitrary length.  A        *)
(* section's value is a version; "the player does not share it" is a value *)
(* like any other.  0 is a column that is NULL, and a section a page has   *)
(* nothing of.  Presence is left out.                                      *)
(***************************************************************************)
EXTENDS Naturals

CONSTANTS Names, Sections,
          Taken,         \* the names that have a row at the start
          Unfilled,      \* those of them nothing was ever stored for
          NoRow,         \* no row of that name
          NoMember,      \* a name the page does not show
          NoWrite,       \* no statement under way for that name
          Overlap,       \* how far the cursor lags (CURSOR_OVERLAP_MS)
          MaxStatement,  \* how long the batcher's UPDATE takes at the most
          SlowFirst,     \* whether the first poll may outlast the interval
          MaxClock, MaxWrites, MaxMoves, MaxFails   \* bounds on what happens

ASSUME CursorCoversStatements ==
  /\ Overlap \in Nat /\ MaxStatement \in Nat /\ MaxStatement <= Overlap
ASSUME ClockIsPastOverlap == MaxClock \in Nat /\ MaxClock > Overlap
ASSUME BoundsAreNaturals == MaxWrites \in Nat /\ MaxMoves \in Nat /\ MaxFails \in Nat

VARIABLES
  clock,
  rows,       \* guildmap.members: name -> visible, values and their stamps
  writing,    \* the batcher's statements under way: name -> start and values
  site,       \* guildData.members: name -> what the page has of it
  nextCheck,  \* api.nextCheck: from_time of the next poll; 0 is the epoch
  poll,       \* the two callers of pollMembers: the immediate call, the interval
  started,    \* the immediate call was made
  writes, moves, fails    \* what has happened so far, against the bounds

countVars == <<writes, moves, fails>>
pageVars == <<site, nextCheck, poll, started>>
vars == <<clock, rows, writing, pageVars, countVars>>

First == 1      \* callOnInterval's own call of fn
Interval == 2   \* the calls of its setInterval
Callers == {First, Interval}

Versions == 0..MaxWrites + 1
Values == [Sections -> Versions]
Row == [visible : BOOLEAN, val : Values, stamp : [Sections -> 0..MaxClock]]
Statement == [start : 0..MaxClock, val : Values]
Member == [data : Values, hasData : BOOLEAN, asked : BOOLEAN]
Answer == [cursor : 0..MaxClock, roster : SUBSET Names, fields : [Names -> Values]]

Idle == [at |-> "idle"]
Sent == [at : {"sent"}, from : 0..MaxClock]
Answered == [at : {"answered"}, body : Answer]

ASSUME AbsentIsNoRecord == NoRow \notin Row /\ NoMember \notin Member /\ NoWrite \notin Statement

TypeOK ==
  /\ clock \in Overlap + 1..MaxClock
  /\ nextCheck \in 0..clock - Overlap
  /\ rows \in [Names -> Row \cup {NoRow}]
  /\ writing \in [Names -> Statement \cup {NoWrite}]
  /\ site \in [Names -> Member \cup {NoMember}]
  /\ poll \in [Callers -> {Idle} \cup Sent \cup Answered]
  /\ \A i \in Callers : poll[i].at = "answered" => poll[i].body.cursor <= clock - Overlap
  /\ started \in BOOLEAN
  /\ writes \in 0..MaxWrites /\ moves \in 0..MaxMoves /\ fails \in 0..MaxFails

Nothing == [s \in Sections |-> 0]
NewMember == [data |-> Nothing, hasData |-> FALSE, asked |-> FALSE]

\* Long ago the members' sections were stored, and a page is opened.
Init ==
  /\ clock = Overlap + 1
  /\ rows = [n \in Names |->
               IF n \in Taken
               THEN [visible |-> TRUE, stamp |-> Nothing,
                     val |-> [s \in Sections |-> IF n \in Unfilled THEN 0 ELSE 1]]
               ELSE NoRow]
  /\ writing = [n \in Names |-> NoWrite]
  /\ site = [n \in Names |-> NoMember]
  /\ nextCheck = 0
  /\ poll = [i \in Callers |-> Idle] /\ started = FALSE
  /\ writes = 0 /\ moves = 0 /\ fails = 0

Visible == {n \in Names : rows[n] # NoRow /\ rows[n].visible}

-----------------------------------------------------------------------------
(* The backend.                                                            *)

\* Time passes, but not past what a statement under way may take.
Tick ==
  /\ clock < MaxClock /\ clock' = clock + 1
  /\ \A n \in Names : writing[n] # NoWrite => clock < writing[n].start + MaxStatement
  /\ UNCHANGED <<rows, writing, pageVars, countVars>>

\* The UPDATE of a member's changed sections starts; its NOW() is this moment.
StartWrite(n, changed) ==
  /\ rows[n] # NoRow /\ writing[n] = NoWrite
  /\ writes < MaxWrites /\ writes' = writes + 1
  /\ writing' = [writing EXCEPT ![n] =
       [start |-> clock, val |-> [s \in Sections |-> IF s \in changed THEN writes + 2 ELSE 0]]]
  /\ UNCHANGED <<clock, rows, pageVars, moves, fails>>

\* Mutant: the columns are stored without their stamps.
CommitWithoutStamp(n) ==
  /\ writing[n] # NoWrite
  /\ writing' = [writing EXCEPT ![n] = NoWrite]
  /\ rows' = IF rows[n] = NoRow THEN rows
             ELSE [rows EXCEPT ![n].val = [s \in Sections |->
                     IF writing[n].val[s] = 0 THEN @[s] ELSE writing[n].val[s]]]
  /\ UNCHANGED <<clock, pageVars, countVars>>

\* It is committed and visible: the given columns and their `_last_update`. A
\* name that has no row any more matches nothing.
Commit(n) ==
  /\ writing[n] # NoWrite
  /\ writing' = [writing EXCEPT ![n] = NoWrite]
  /\ LET new(s) == writing[n].val[s] # 0 IN
     rows' = IF rows[n] = NoRow THEN rows
             ELSE [rows EXCEPT
               ![n].val = [s \in Sections |-> IF new(s) THEN writing[n].val[s] ELSE @[s]],
               ![n].stamp = [s \in Sections |-> IF new(s) THEN writing[n].start ELSE @[s]]]
  /\ UNCHANGED <<clock, pageVars, countVars>>

\* set_member_hidden, or mark_hub_orphans for one row: off the map, or back on it.
SetVisible(n) ==
  /\ rows[n] # NoRow
  /\ moves < MaxMoves /\ moves' = moves + 1
  /\ rows' = [rows EXCEPT ![n].visible = ~@]
  /\ UNCHANGED <<clock, writing, pageVars, writes, fails>>

\* A name that neither the table, the page nor an answer on its way knows.
Unseen(m) ==
  /\ rows[m] = NoRow /\ site[m] = NoMember
  /\ \A i \in Callers : poll[i].at = "answered" => m \notin poll[i].body.roster

\* rename_hub_member, to a name nobody had before: what becomes of a name that
\* changes hands is the matter of HubSync.
RenameMember(n, m) ==
  /\ rows[n] # NoRow /\ Unseen(m)
  /\ moves < MaxMoves /\ moves' = moves + 1
  /\ rows' = [rows EXCEPT ![m] = rows[n], ![n] = NoRow]
  /\ UNCHANGED <<clock, writing, pageVars, writes, fails>>

\* Mutant: the cursor does not lag behind the clock.
MembersNoOverlap(from) ==
  [cursor |-> clock,
   roster |-> Visible,
   fields |-> [n \in Names |-> [s \in Sections |->
                 IF n \in Visible /\ rows[n].stamp[s] >= from THEN rows[n].val[s] ELSE 0]]]

\* get_members: the roster, and every section stored since; one SELECT.
Members(from) ==
  [cursor |-> clock - Overlap,
   roster |-> Visible,
   fields |-> [n \in Names |-> [s \in Sections |->
                 IF n \in Visible /\ rows[n].stamp[s] >= from THEN rows[n].val[s] ELSE 0]]]

-----------------------------------------------------------------------------
(* The page.                                                               *)

\* callOnInterval: the first call at once, and not awaited; the interval's calls
\* one after another.
MaySend(i) ==
  /\ poll[i] = Idle
  /\ IF i = First THEN ~started
     ELSE started /\ (SlowFirst \/ poll[First] = Idle)

\* pollMembers up to its request.
PollSend(i) ==
  /\ MaySend(i) /\ started' = TRUE
  /\ poll' = [poll EXCEPT ![i] = [at |-> "sent", from |-> nextCheck]]
  /\ UNCHANGED <<clock, rows, writing, site, nextCheck, countVars>>

\* The backend answers.
PollAnswer(i) ==
  /\ poll[i].at = "sent"
  /\ poll' = [poll EXCEPT ![i] = [at |-> "answered", body |-> Members(@.from)]]
  /\ UNCHANGED <<clock, rows, writing, site, nextCheck, started, countVars>>

\* The members after the roster and the data of an answer, those who left the
\* roster still among them.
Merge(body) ==
  [n \in Names |->
     IF n \in body.roster
     THEN LET m == IF site[n] = NoMember THEN NewMember ELSE site[n]
          IN  [m EXCEPT !.data = [s \in Sections |-> IF body.fields[n][s] # 0
                                                     THEN body.fields[n][s] ELSE @[s]],
                        !.hasData = @ \/ body.fields[n] # Nothing]
     ELSE site[n]]

\* Mutant: a member without data asks at every new name.
AsksEveryTime(merged, body) ==
  {n \in Names : merged[n] # NoMember /\ ~merged[n].hasData}

\* Who asks for a full reload: at a new name, everyone without data, once each.
Asks(merged, body) ==
  IF \E n \in body.roster : site[n] = NoMember
  THEN {n \in Names : merged[n] # NoMember /\ ~merged[n].hasData /\ ~merged[n].asked}
  ELSE {}

\* Mutant: who left the roster stays on the page.
ReceiveKeepsAll(i) ==
  /\ poll[i].at = "answered"
  /\ LET body   == poll[i].body
         merged == Merge(body)
         asks   == Asks(merged, body)
     IN  /\ site' = [n \in Names |-> IF n \in asks THEN [merged[n] EXCEPT !.asked = TRUE]
                                     ELSE merged[n]]
         /\ nextCheck' = IF asks # {} THEN 0 ELSE body.cursor
  /\ poll' = [poll EXCEPT ![i] = Idle]
  /\ UNCHANGED <<clock, rows, writing, started, countVars>>

\* GuildData.update, and what pollMembers keeps of it for the next poll.
PollReceive(i) ==
  /\ poll[i].at = "answered"
  /\ LET body   == poll[i].body
         merged == Merge(body)
         asks   == Asks(merged, body)
     IN  /\ site' = [n \in Names |-> IF n \notin body.roster THEN NoMember
                                     ELSE IF n \in asks THEN [merged[n] EXCEPT !.asked = TRUE]
                                     ELSE merged[n]]
         /\ nextCheck' = IF asks # {} THEN 0 ELSE body.cursor
  /\ poll' = [poll EXCEPT ![i] = Idle]
  /\ UNCHANGED <<clock, rows, writing, started, countVars>>

\* The request fails or is answered with an error: nothing changes.
PollFail(i) ==
  /\ poll[i] # Idle
  /\ fails < MaxFails /\ fails' = fails + 1
  /\ poll' = [poll EXCEPT ![i] = Idle]
  /\ UNCHANGED <<clock, rows, writing, site, nextCheck, started, writes, moves>>

Poll(i) == PollSend(i) \/ PollAnswer(i) \/ PollReceive(i)

Next ==
  \/ Tick
  \/ \E n \in Names : \/ Commit(n) \/ SetVisible(n)
                      \/ \E m \in Names : RenameMember(n, m)
                      \/ \E changed \in SUBSET Sections \ {{}} : StartWrite(n, changed)
  \/ \E i \in Callers : Poll(i) \/ PollFail(i)

Spec == Init /\ [][Next]_vars

\* The database answers and finishes its statements, and the page is one somebody
\* looks at: the interval skips its calls in a hidden tab.
Fairness == /\ \A i \in Callers : WF_vars(Poll(i))
            /\ \A n \in Names : WF_vars(Commit(n))
FairSpec == Spec /\ Fairness

-----------------------------------------------------------------------------
\* What the page shows of a section is what the table holds, or the next poll asks
\* for the change: no update is missed however statements and polls overlap, as
\* the cursor's lag promises (db/members.rs:46-48). A section the page has nothing
\* of is the matter of NothingMissing.
NothingStale ==
  \A n \in Names, s \in Sections :
    site[n] # NoMember /\ rows[n] # NoRow /\ site[n].data[s] # 0 =>
      site[n].data[s] = rows[n].val[s] \/ rows[n].stamp[s] >= nextCheck

\* In the end the page shows the members on the map and nobody else, and of
\* each section the value of the table or nothing: whoever is hidden, comes back or
\* is renamed meanwhile, whichever polls fail.
PageFollowsMap ==
  <>[](/\ {n \in Names : site[n] # NoMember} = Visible
       /\ \A n \in Visible, s \in Sections : site[n].data[s] \in {0, rows[n].val[s]})

\* A page does not go on asking for everything: after the last change, polls go
\* back to asking for what changed, even with a member that has no data at all.
ReloadsEnd == <>[](nextCheck # 0)

\* guild-data.js:18-19 and :49-51, "epoch when a full reload is needed (a name appeared
\* whose data we don't have)", "everyone new gets their data with the members of this
\* same poll": a section the table holds is on the page or comes with the next poll.
NothingMissing ==
  \A n \in Names, s \in Sections :
    site[n] # NoMember /\ rows[n] # NoRow /\ rows[n].val[s] # 0 =>
      site[n].data[s] # 0 \/ rows[n].stamp[s] >= nextCheck
=============================================================================
