----------------------------- MODULE PlayerViews -----------------------------
(***************************************************************************)
(* What the site shows of its players: the roster in the side panel        *)
(* (player-roster.js), the table of the players page (players-page.js) and *)
(* the profile in its drawer (player-profile.js, player-profile-view.js),  *)
(* drawn once and patched from what the polls publish (guild-data.js,      *)
(* member-data.js), while the profile's tabs load parts of their own.      *)
(*                                                                         *)
(* A player is a number, in the order of the names.  Of what a poll brings *)
(* there is a world (the section `stats`), a place (`coordinates`) and     *)
(* `meta`: the categories shared and a version of all else it tells, the   *)
(* prayers, status and slayer task.  A poll changes one player; how a poll *)
(* answers is the matter of MembersPoll.                                   *)
(***************************************************************************)
EXTENDS Integers, Sequences, FiniteSets

CONSTANTS Players,
          Named, Unnamed,  \* places the region names cover, and others
          Shares,          \* what a player may share: sets of categories
          Periods,         \* GAIN_PERIODS
          Day,             \* the period of the first gains
          MaxMoves, MaxPolls,  \* bounds: what viewers do; what polls bring;
          MaxBoth              \* both together

NoPlayer == 0
Nowhere == "nowhere"
Unset == "unset"       \* `region` of a member that never had coordinates: undefined
NoName == "no name"    \* a place without a name: null
Untold == 0            \* meta doesn't tell: null
NoCategories == {"unknown"}  \* what is shared before meta tells: null

ViewConstants ==
  /\ NoPlayer \notin Players /\ NoCategories \notin Shares
  /\ Nowhere \notin Named \cup Unnamed /\ {Unset, NoName} \cap Named = {}
  /\ Day \in Periods

VARIABLES
  store,     \* guildData.members
  named,     \* the region names have loaded
  roster,    \* the roster: its rows, their order, the status chosen
  table,     \* the players page: open, rows, order, status, descending
  profile,   \* the open profile-view, or Closed
  lastTab, lastPeriod,
  loads,     \* the requests of profile tabs under way
  moves, polls

dataVars == <<store, named>>
listVars == <<roster, table>>
viewVars == <<profile, lastTab, lastPeriod, loads>>
vars == <<dataVars, listVars, viewVars, moves, polls>>

Gone == [gone |-> TRUE]
NoMeta == [none |-> TRUE]
Closed == [name |-> NoPlayer]

Tabs == {"overview", "gains", "activity", "wealth", "gear", "hiscores"}
Statuses == {"all", "online", "offline"}

\* What the backend serves of a player: sections only of what is shared.
Served == {r \in [online : BOOLEAN, cats : Shares, world : 0..1,
                  at : Named \cup Unnamed \cup {Nowhere}, told : 0..1] :
             /\ "activity" \notin r.cats => r.world = 0 /\ r.told = Untold
             /\ "location" \notin r.cats => r.at = Nowhere}

Known == {p \in Players : store[p] # Gone}

-----------------------------------------------------------------------------
(* What is drawn of a member.                                              *)

Told(m) == IF m.meta = NoMeta THEN Untold ELSE m.meta.told
World(m) == IF m.online THEN m.world ELSE 0
MayShow(m, category) == m.meta = NoMeta \/ category \in m.meta.cats

\* activePrayers: the prayers that are on; offline players have none on (-1).
Prayers(m) == IF Told(m) # Untold /\ ~m.online THEN -1 ELSE Told(m)

Place(m) == IF ~m.online THEN "offline"
            ELSE IF m.region \notin {Unset, NoName} THEN m.region
            ELSE IF m.at # Nowhere THEN "somewhere" ELSE "private"

RosterRow(m) == [place |-> Place(m), world |-> World(m), prayers |-> Prayers(m),
                 bars |-> IF m.online THEN m.world ELSE 0, told |-> Told(m)]
TableRow(m) == [online |-> m.online, world |-> World(m), told |-> Told(m)]
Header(m) == [online |-> m.online, world |-> World(m),
              region |-> IF m.online /\ m.region # Unset THEN m.region ELSE NoName,
              told |-> Told(m), follow |-> m.online /\ m.at # Nowhere]
SharedNow(m) == IF m.meta = NoMeta THEN NoCategories ELSE m.meta.cats

\* filterMembers and the order "Online first".
Sorted(st, status, descending) ==
  LET visible == {p \in Players : st[p] # Gone /\ status \in {"all", IF st[p].online THEN "online" ELSE "offline"}}
      before(p, q) == IF st[p].online = st[q].online THEN p < q ELSE st[p].online
      size == Cardinality(visible)
      place(p) == Cardinality({q \in visible : q = p \/ before(q, p)})
  IN [i \in 1..size |-> CHOOSE p \in visible : place(p) = IF descending THEN size + 1 - i ELSE i]

-----------------------------------------------------------------------------
(* A member takes what a poll brings, step by step: each step is the member *)
(* after it and the topics published then.                                  *)

RegionOf(known, at) == IF known /\ at \in Named THEN at ELSE NoName

Moved(known, m, at) == [m EXCEPT !.at = at, !.region = RegionOf(known, at)]
RegionTopic(before, after) == IF before.region # after.region THEN {"region"} ELSE {}

NewMember == [online |-> FALSE, world |-> 0, at |-> Nowhere, region |-> Unset, meta |-> NoMeta]

\* Mutant: meta is told before the sections are in place.
StepsMetaFirst(m0, r, sent) ==
  LET m1 == [m0 EXCEPT !.online = r.online,
                       !.meta = IF "meta" \in sent THEN [cats |-> r.cats, told |-> r.told] ELSE @]
      m2 == IF "stats" \in sent THEN [m1 EXCEPT !.world = r.world] ELSE m1
      m3 == IF "coordinates" \in sent THEN Moved(named, m2, r.at) ELSE m2
  IN <<[m |-> m1, topics |-> IF m0.online # m1.online THEN {"presence"} ELSE {}],
       [m |-> m1, topics |-> IF "meta" \in sent THEN {"meta"} ELSE {}],
       [m |-> m3, topics |-> IF "stats" \in sent /\ r.world # 0 THEN {"stats"} ELSE {}],
       [m |-> m3, topics |-> RegionTopic(m2, m3)]>>

\* `sent`: the sections the poll brings. An empty one is dropped, silently
\* but for the region; meta is told last.
Steps(m0, r, sent) ==
  LET m1 == [m0 EXCEPT !.online = r.online]
      m2 == IF "stats" \in sent /\ "activity" \notin r.cats THEN [m1 EXCEPT !.world = 0] ELSE m1
      m3 == IF "coordinates" \in sent /\ "location" \notin r.cats THEN Moved(named, m2, Nowhere) ELSE m2
      m4 == IF "stats" \in sent /\ r.world # 0 THEN [m3 EXCEPT !.world = r.world] ELSE m3
      m5 == IF "meta" \in sent THEN [m4 EXCEPT !.meta = [cats |-> r.cats, told |-> r.told]] ELSE m4
      m6 == IF "coordinates" \in sent /\ r.at # Nowhere THEN Moved(named, m5, r.at) ELSE m5
  IN <<[m |-> m1, topics |-> IF m0.online # m1.online THEN {"presence"} ELSE {}],
       [m |-> m3, topics |-> RegionTopic(m2, m3)],
       [m |-> m4, topics |-> IF "stats" \in sent /\ r.world # 0 THEN {"stats"} ELSE {}],
       [m |-> m6, topics |-> RegionTopic(m5, m6)],
       [m |-> m6, topics |-> IF "meta" \in sent THEN {"meta"} ELSE {}]>>

-----------------------------------------------------------------------------
(* The profile.                                                            *)

\* The tabs that say so, and load nothing, when the player doesn't share it.
Needs == [wealth |-> "inventory", gear |-> "equipment", hiscores |-> "hiscores"]
Denied(tab, m) == tab \in DOMAIN Needs /\ ~MayShow(m, Needs[tab])

\* What a tab loads when it is drawn.
Asks(tab, m, period) ==
  CASE tab = "gains" -> {[what |-> "gains", period |-> period]}
    [] tab = "activity" -> {[what |-> "sessions", period |-> "-"], [what |-> "feed", period |-> "-"]}
    [] tab \in DOMAIN Needs /\ ~Denied(tab, m) -> {[what |-> tab, period |-> "-"]}
    [] OTHER -> {}

Ask(name, tab, asks) == {[name |-> name, tab |-> tab, ask |-> a, here |-> TRUE] : a \in asks}
Detached(ls) == {[l EXCEPT !.here = FALSE] : l \in ls}

\* showTab: the body is made anew.
Body(v, tab, m) ==
  LET vitals == tab = "overview" /\ MayShow(m, "activity") IN
  [v EXCEPT !.vitals = vitals,
            !.prayers = IF vitals THEN Prayers(m) ELSE Untold,
            !.status = IF vitals THEN Told(m) ELSE Untold,
            !.denied = Denied(tab, m),
            !.rows = {}, !.errors = {}]

\* updateHeader, updatePrayers, updateStatus and updateSlayer on their topics.
Redrawn(v, m, topics) ==
  LET on == v.vitals IN
  [v EXCEPT !.header = IF topics # {} THEN Header(m) ELSE @,
            !.prayers = IF on /\ topics \cap {"presence", "meta"} # {} THEN Prayers(m) ELSE @,
            !.status = IF on /\ "meta" \in topics THEN Told(m) ELSE @]

\* The open profile after a step of its player's: with what the player
\* shares, the tab is drawn again.
Shown(s, step) ==
  LET v == Redrawn(s.profile, step.m, step.topics)
      now == SharedNow(step.m)
  IN IF "meta" \in step.topics /\ now # v.shared
     THEN [profile |-> [Body(v, lastTab, step.m) EXCEPT !.shared = now],
           loads |-> Detached(s.loads) \cup Ask(v.name, lastTab, Asks(lastTab, step.m, lastPeriod))]
     ELSE [profile |-> v, loads |-> s.loads]

\* The open profile and its requests after all of them.
ShownAfter(steps) ==
  LET after[i \in 0..Len(steps)] ==
        IF i = 0 THEN [profile |-> profile, loads |-> loads] ELSE Shown(after[i - 1], steps[i])
  IN after[Len(steps)]

Part == [name : Players, tab : Tabs, what : {"gains", "sessions", "feed"} \cup DOMAIN Needs,
         period : Periods \cup {"-"}]

View == [name : Players, shared : Shares \cup {NoCategories},
         header : [online : BOOLEAN, world : 0..1, region : Named \cup {NoName}, told : 0..1, follow : BOOLEAN],
         vitals : BOOLEAN, denied : BOOLEAN, prayers : -1..1, status : 0..1,
         rows : SUBSET Part, errors : SUBSET Part]

\* A new player-profile-view, when another player is selected.
Opened(p) ==
  LET m == store[p]
      v == [name |-> p, shared |-> SharedNow(m), header |-> Header(m), vitals |-> FALSE, denied |-> FALSE,
            prayers |-> Untold, status |-> Untold, rows |-> {}, errors |-> {}]
  IN Body(v, lastTab, m)

-----------------------------------------------------------------------------
(* The lists.                                                              *)

\* handleMembersUpdated, handleRosterChanged, refreshOrder.
RosterAfter(st, changed, listed) ==
  LET row(p) == IF st[p] = Gone THEN Gone ELSE RosterRow(st[p])
      drawn == [p \in Players |->
                  IF listed THEN row(p)
                  ELSE IF p \in changed /\ roster.rows[p] # Gone /\ st[p] # Gone THEN row(p)
                  ELSE roster.rows[p]]
  IN [roster EXCEPT !.rows = drawn, !.order = Sorted(st, roster.status, FALSE)]

\* syncRows, then patchRows.
TableAfter(st, changed, listed) ==
  LET fresh(p) == (p \in changed \/ (listed /\ table.rows[p] = Gone)) /\ st[p] # Gone
      drawn == [p \in Players |->
                  IF fresh(p) THEN TableRow(st[p])
                  ELSE IF (listed \/ p \in changed) /\ st[p] = Gone THEN Gone
                  ELSE table.rows[p]]
  IN IF table.open
     THEN [table EXCEPT !.rows = drawn, !.order = Sorted(st, table.status, table.descending)]
     ELSE table

\* What publishing means for the lists: "members-updated" when the names or
\* anyone's presence changed, "roster-changed" when anything did.
Publish(st, changed, listed) ==
  IF changed = {} /\ ~listed THEN UNCHANGED listVars
  ELSE /\ roster' = RosterAfter(st, changed, listed)
       /\ table' = TableAfter(st, changed, listed)

\* GuildData.update: whether the poll changed this member.
Changed(m, r, sent) == m.online # r.online \/ sent # {}

-----------------------------------------------------------------------------
Init ==
  /\ store = [p \in Players |-> Gone] /\ named = FALSE
  /\ roster = [rows |-> [p \in Players |-> Gone], order |-> Sorted(store, "all", FALSE), status |-> "all"]
  /\ table = [open |-> FALSE, rows |-> [p \in Players |-> Gone], order |-> <<>>,
              status |-> "all", descending |-> FALSE]
  /\ profile = Closed /\ lastTab = "overview" /\ lastPeriod = Day /\ loads = {}
  /\ moves = 0 /\ polls = 0

Poll == polls < MaxPolls /\ moves + polls < MaxBoth /\ polls' = polls + 1
Move == moves < MaxMoves /\ moves + polls < MaxBoth /\ moves' = moves + 1

Differ(m, r) ==
  (IF m.world # r.world THEN {"stats"} ELSE {})
  \cup (IF m.at # r.at THEN {"coordinates"} ELSE {})
  \cup (IF m.meta # [cats |-> r.cats, told |-> r.told] THEN {"meta"} ELSE {})

\* The backend keeps what it has of a category that is still shared.
Keeps(m, r) ==
  /\ m.world # 0 /\ "activity" \in r.cats => r.world # 0
  /\ m.at # Nowhere /\ "location" \in r.cats => r.at # Nowhere

\* A poll brings what changed of a player, or all of it again; of a new one
\* their name alone, when the rest changed too long ago.
PollBrings(p, r, sent) ==
  LET m0 == IF store[p] = Gone THEN NewMember ELSE store[p]
      steps == Steps(m0, r, sent)
      after == [store EXCEPT ![p] = steps[Len(steps)].m]
      isNew == store[p] = Gone
      shown == ShownAfter(steps)
  IN /\ Poll
     /\ Keeps(m0, r)
     /\ sent \in {Differ(m0, r), {"stats", "coordinates", "meta"}} \cup (IF isNew THEN {{}} ELSE {})
     /\ store' = after
     /\ Publish(after, IF isNew \/ Changed(m0, r, sent) THEN {p} ELSE {}, isNew \/ m0.online # r.online)
     /\ IF profile.name = p THEN profile' = shown.profile /\ loads' = shown.loads
                            ELSE UNCHANGED <<profile, loads>>
     /\ UNCHANGED <<named, lastTab, lastPeriod, moves>>

\* A player leaves the roster; the drawer closes on them.
PollLeaves(p) ==
  /\ store[p] # Gone
  /\ Poll
  /\ LET after == [store EXCEPT ![p] = Gone] IN store' = after /\ Publish(after, {p}, TRUE)
  /\ IF profile.name = p THEN profile' = Closed /\ loads' = Detached(loads)
                         ELSE UNCHANGED <<profile, loads>>
  /\ UNCHANGED <<named, lastTab, lastPeriod, moves>>

\* refreshRegions: the names of the places arrive.
NamesLoad ==
  LET renamed == {p \in Known : store[p].region # RegionOf(TRUE, store[p].at)}
      after == [p \in Players |-> IF p \in renamed THEN Moved(TRUE, store[p], store[p].at) ELSE store[p]]
  IN /\ ~named /\ named' = TRUE
     /\ store' = after /\ Publish(after, renamed, FALSE)
     /\ profile' = IF profile.name \in renamed THEN Redrawn(profile, after[profile.name], {"region"}) ELSE profile
     /\ UNCHANGED <<lastTab, lastPeriod, loads, moves, polls>>

\* A click on a row of the roster: the profile opens, or the open one closes.
Select(p) ==
  /\ Move /\ roster.rows[p] # Gone /\ store[p] # Gone
  /\ IF profile.name = p
     THEN profile' = Closed /\ loads' = Detached(loads)
     ELSE /\ profile' = Opened(p)
          /\ loads' = Detached(loads) \cup Ask(p, lastTab, Asks(lastTab, store[p], lastPeriod))
  /\ UNCHANGED <<dataVars, listVars, lastTab, lastPeriod, polls>>

ShowTab(tab) ==
  /\ Move /\ profile # Closed /\ lastTab' = tab
  /\ LET m == store[profile.name] IN
     /\ profile' = Body(profile, tab, m)
     /\ loads' = Detached(loads) \cup Ask(profile.name, tab, Asks(tab, m, lastPeriod))
  /\ UNCHANGED <<dataVars, listVars, lastPeriod, polls>>

\* Another period of the gains: the list is emptied, what was asked goes on.
ChoosePeriod(period) ==
  /\ Move /\ profile # Closed /\ lastTab = "gains"
  /\ period # lastPeriod /\ lastPeriod' = period
  /\ profile' = [profile EXCEPT !.rows = {}]
  /\ loads' = loads \cup Ask(profile.name, "gains", {[what |-> "gains", period |-> period]})
  /\ UNCHANGED <<dataVars, listVars, lastTab, polls>>

\* The feed of the activity tab asks again, every PLAYER_REFRESH_MS.
RefreshFeed ==
  /\ Move /\ profile # Closed /\ lastTab = "activity"
  /\ loads' = loads \cup Ask(profile.name, "activity", {[what |-> "feed", period |-> "-"]})
  /\ UNCHANGED <<dataVars, listVars, profile, lastTab, lastPeriod, polls>>

\* every(HEADER_REFRESH_MS)
RefreshHeader ==
  /\ profile # Closed /\ profile.header # Header(store[profile.name])
  /\ profile' = [profile EXCEPT !.header = Header(store[profile.name])]
  /\ UNCHANGED <<dataVars, listVars, lastTab, lastPeriod, loads, moves, polls>>

Row(l) == [name |-> l.name, tab |-> l.tab, what |-> l.ask.what, period |-> l.ask.period]

\* An answer, or a failure, lands in the section that asked, which may be gone.
Answer(l, ok) ==
  /\ loads' = loads \ {l}
  /\ profile' = IF ~l.here THEN profile
                ELSE IF ok THEN [profile EXCEPT !.rows = @ \cup {Row(l)}, !.errors = @ \ {Row(l)}]
                ELSE [profile EXCEPT !.errors = @ \cup {Row(l)},
                                     !.rows = IF l.ask.what = "feed" THEN @ \ {Row(l)} ELSE @]
  /\ UNCHANGED <<dataVars, listVars, lastTab, lastPeriod, moves, polls>>

\* A chip of the roster, or of the table.
FilterRoster(status) ==
  /\ Move /\ status # roster.status
  /\ roster' = [roster EXCEPT !.status = status, !.order = Sorted(store, status, FALSE)]
  /\ UNCHANGED <<dataVars, table, viewVars, polls>>

ArrangeTable(status, descending) ==
  /\ Move /\ table.open
  /\ <<status, descending>> # <<table.status, table.descending>>
  /\ table' = [table EXCEPT !.status = status, !.descending = descending,
                            !.order = Sorted(store, status, descending)]
  /\ UNCHANGED <<dataVars, roster, viewVars, polls>>

\* The players page is visited, with rows made anew; or left, still as it was.
VisitTable ==
  /\ Move
  /\ table' = IF table.open THEN [table EXCEPT !.open = FALSE]
              ELSE [table EXCEPT !.open = TRUE,
                      !.rows = [p \in Players |-> IF store[p] = Gone THEN Gone ELSE TableRow(store[p])],
                      !.order = Sorted(store, table.status, table.descending)]
  /\ UNCHANGED <<dataVars, roster, viewVars, polls>>

Next ==
  \/ \E p \in Players, r \in Served :
       \E sent \in SUBSET {"stats", "coordinates", "meta"} : PollBrings(p, r, sent)
  \/ \E p \in Players : PollLeaves(p) \/ Select(p)
  \/ NamesLoad \/ RefreshHeader \/ RefreshFeed \/ VisitTable
  \/ \E tab \in Tabs : ShowTab(tab)
  \/ \E period \in Periods : ChoosePeriod(period)
  \/ \E l \in loads, ok \in BOOLEAN : Answer(l, ok)
  \/ \E status \in Statuses : FilterRoster(status) \/ \E d \in BOOLEAN : ArrangeTable(status, d)

Spec == Init /\ [][Next]_vars

-----------------------------------------------------------------------------
Members == [online : BOOLEAN, world : 0..1, at : Named \cup Unnamed \cup {Nowhere},
            region : Named \cup {Unset, NoName}, meta : [cats : Shares, told : 0..1] \cup {NoMeta}]

TypeOK ==
  /\ store \in [Players -> Members \cup {Gone}]
  /\ profile \in View \cup {Closed}
  /\ lastTab \in Tabs /\ lastPeriod \in Periods

\* Both lists show exactly the players on the map, each as last polled, in
\* the order and to the extent chosen.
ListsAgree ==
  /\ roster.rows = [p \in Players |-> IF store[p] = Gone THEN Gone ELSE RosterRow(store[p])]
  /\ roster.order = Sorted(store, roster.status, FALSE)
  /\ table.open =>
       /\ table.rows = [p \in Players |-> IF store[p] = Gone THEN Gone ELSE TableRow(store[p])]
       /\ table.order = Sorted(store, table.status, table.descending)

\* The open profile is of a player on the map, and shows them as last polled:
\* its header, what it tells in the overview, and no part they don't share.
\* Only that they can be followed may be told late: a place without a name
\* that replaces none at all is no change of region, and nothing is published
\* until the header's own refresh.
ProfileAgrees ==
  profile # Closed =>
    /\ profile.name \in Known
    /\ LET m == store[profile.name] IN
       /\ profile.header = [Header(m) EXCEPT !.follow = profile.header.follow]
       /\ profile.header.follow => Header(m).follow
       /\ profile.shared = SharedNow(m)
       /\ profile.vitals <=> lastTab = "overview" /\ MayShow(m, "activity")
       /\ profile.denied <=> Denied(lastTab, m)
       /\ profile.vitals => profile.prayers = Prayers(m) /\ profile.status = Told(m)

\* A tab shows answers to its own requests only, about its player; and each
\* part it is to show is there, on its way or said to have failed: also
\* after the period was changed with answers under way.
TabsGetTheirAnswers ==
  profile # Closed =>
    LET m == store[profile.name]
        coming == {Row(l) : l \in {k \in loads : k.here}}
    IN /\ \A r \in profile.rows : r.name = profile.name /\ r.tab = lastTab
       /\ \A a \in Asks(lastTab, m, lastPeriod) :
            [name |-> profile.name, tab |-> lastTab, what |-> a.what, period |-> a.period]
              \in profile.rows \cup profile.errors \cup coming

PlayersAgree == TypeOK /\ ListsAgree /\ ProfileAgrees /\ TabsGetTheirAnswers
=============================================================================
