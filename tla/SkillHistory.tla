---------------------------- MODULE SkillHistory ----------------------------
(***************************************************************************)
(* A player's XP on its way to a graph: the members table, the samples of  *)
(* it that the backend's aggregator keeps (db/skills.rs), the request for  *)
(* them (skills-graphs.js), and the series, gains and levels that are      *)
(* drawn (skill-graph.js).  One player, one skill, one period; time is     *)
(* counted in parts of a bucket (an hour, a day or a month).  The server's *)
(* buckets are in UTC, the graph's in the viewer's time.                   *)
(***************************************************************************)
EXTENDS Integers, FiniteSets, FiniteSetsExt

CONSTANTS Parts,        \* parts of a bucket
          Shown,        \* datesForPeriod: the buckets of a graph
          Keeps,        \* how long "1 month" may be
          Zones,        \* how far a viewer's clock may be ahead of UTC
          LevelStarts,  \* the XP each level starts at
          MaxXp, MaxTime  \* bounds

HistoryConstants ==
  /\ {Parts, Shown} \subseteq Nat \ {0} /\ {MaxXp, MaxTime} \subseteq Nat /\ Keeps \subseteq Nat
  /\ Zones \subseteq (1 - Parts)..(Parts - 1)
  /\ LevelStarts \subseteq Nat /\ IsFiniteSet(LevelStarts)

NoXp == -1

VARIABLES
  now,
  keeps,      \* the retention of the table
  zone,       \* the viewer's time zone
  stored,     \* members.skills and skills_last_update
  writing,    \* the update of them that is not committed yet
  rows,       \* the table: bucket -> xp
  last,       \* aggregation_info.last_aggregation
  asked,      \* the page's request: whether there is an answer, and that
  graph,      \* what is drawn, and whether there is a graph
  due,        \* for the properties: the newest XP that no aggregation
              \* passed over between its stamp and its commit,
  had, seen   \* the XP the player had when a bucket ended, and what was
              \* due at the last aggregation before that

vars == <<now, keeps, zone, stored, writing, rows, last, asked, graph, due, had, seen>>

NoAnswer == [there |-> FALSE]
NoWrite == [there |-> FALSE]

\* date_trunc, on the server
Bucket(t) == t \div Parts
Buckets == 0..Bucket(MaxTime)
Xps == 0..MaxXp

-----------------------------------------------------------------------------
(* The site.                                                               *)

\* truncatedDateForPeriod
Local(t) == (t + zone) \div Parts

\* Mutant: nothing is carried into the period.
SeedOfNone(table, first) == NoXp

\* datesOutsideOfPeriod[0]: the samples come newest first (loadSkillData).
Seed(table, first) ==
  LET outside == {b \in DOMAIN table : Local(b * Parts) < first} IN
  IF outside = {} THEN NoXp ELSE table[Max(outside)]

\* bucketedSkillData: the samples of a bucket of the graph
Within(table, d) == {b \in DOMAIN table : Local(b * Parts) = d}

\* lastData: a bucket's newest sample, or what came before.
Carried(table, first) ==
  LET carried[i \in 0..Shown] ==
        IF i = 0 THEN Seed(table, first)
        ELSE IF Within(table, first + i - 1) = {} THEN carried[i - 1]
        ELSE table[Max(Within(table, first + i - 1))]
  IN carried

\* generateCompleteTimeSeries: it ends with what the player has now.
TimeSeries(table, first, current) ==
  [i \in 1..Shown |-> IF i = Shown /\ current # NoXp THEN current ELSE Carried(table, first)[i]]

\* dataForPlayer: cumulativeChangeData
Gains(series) ==
  LET gains[i \in 1..Shown] ==
        IF i = 1 THEN 0
        ELSE IF NoXp \in {series[i - 1], series[i]} THEN gains[i - 1]
        ELSE gains[i - 1] + series[i] - series[i - 1]
  IN gains

\* calculateLevel
Level(xp) == Cardinality({start \in LevelStarts : start <= xp})

\* tableDataForDataSet
LevelsGained(series) ==
  LET known == {i \in 1..Shown : series[i] # NoXp} IN
  IF series[Shown] = NoXp THEN 0 ELSE Level(series[Shown]) - Level(series[Min(known)])

-----------------------------------------------------------------------------
Init ==
  /\ now = 0 /\ keeps \in Keeps /\ zone \in Zones /\ last = 0
  /\ stored = [xp |-> NoXp, at |-> 0] /\ writing = NoWrite /\ rows = <<>>
  /\ asked = NoAnswer
  /\ graph = [there |-> FALSE]
  /\ due = NoXp /\ had = [b \in Buckets |-> NoXp] /\ seen = had

\* In every bucket from this one on, until something else is stored.
FromNow(f, xp) == [b \in Buckets |-> IF b >= Bucket(now) THEN xp ELSE f[b]]

\* The batcher's UPDATE of a member with more XP: NOW() stamps it.
StartWrite(xp) ==
  /\ ~writing.there /\ xp > stored.xp
  /\ writing' = [there |-> TRUE, xp |-> xp, at |-> now] /\ had' = FromNow(had, xp)
  /\ UNCHANGED <<now, keeps, zone, stored, rows, last, asked, graph, due, seen>>

\* It is committed: only now do others see it.
Commit ==
  /\ writing.there /\ writing' = NoWrite
  /\ stored' = [xp |-> writing.xp, at |-> writing.at]
  /\ due' = IF writing.at >= last THEN writing.xp ELSE due
  /\ UNCHANGED <<now, keeps, zone, rows, last, asked, graph, had, seen>>

\* aggregate_skills
Aggregate ==
  /\ rows' = IF stored.xp = NoXp \/ stored.at < last THEN rows
             ELSE [b \in DOMAIN rows \cup {Bucket(stored.at)} |->
                     IF b = Bucket(stored.at) THEN stored.xp ELSE rows[b]]
  /\ last' = now /\ seen' = FromNow(seen, due)
  /\ UNCHANGED <<now, keeps, zone, stored, writing, asked, graph, due, had>>

\* Mutant: what is older than the period goes, all of it.
ExpiredAll(table) == {b \in DOMAIN table : b * Parts < last - keeps}

\* What is older than the period, but for the newest of it.
Expired(table) ==
  LET old == {b \in DOMAIN table : b * Parts < last - keeps} IN
  {b \in old : \E newer \in old : newer > b}

\* apply_skills_retention
Retain ==
  /\ rows' = [b \in DOMAIN rows \ Expired(rows) |-> rows[b]]
  /\ UNCHANGED <<now, keeps, zone, stored, writing, last, asked, graph, due, had, seen>>

\* loadSkillData: the request and its answer.
Ask ==
  /\ ~asked.there
  /\ asked' = [there |-> TRUE, table |-> rows, last |-> last, seen |-> seen]
  /\ UNCHANGED <<now, keeps, zone, stored, writing, rows, last, graph, due, had, seen>>

\* create, at the next poll of the members: it brings what is stored, or
\* nothing of the player.  Of a player without a sample there is no graph.
Create(current) ==
  /\ asked.there /\ asked' = NoAnswer
  /\ LET first == Local(now) - Shown + 1
         series == TimeSeries(asked.table, first, current)
     IN graph' = IF DOMAIN asked.table = {} THEN graph
                 ELSE [there |-> TRUE, first |-> first, series |-> series, current |-> current,
                       gains |-> Gains(series), levels |-> LevelsGained(series),
                       last |-> asked.last, seen |-> asked.seen]
  /\ UNCHANGED <<now, keeps, zone, stored, writing, rows, last, due, had, seen>>

Tick ==
  /\ now < MaxTime /\ now' = now + 1
  /\ UNCHANGED <<keeps, zone, stored, writing, rows, last, asked, graph, due, had, seen>>

\* Bound: a behaviour ends with its graph.
Next ==
  /\ ~graph.there
  /\ \/ \E xp \in Xps : StartWrite(xp)
     \/ Commit \/ Aggregate \/ Retain
     \/ Ask \/ \E current \in {stored.xp, NoXp} : Create(current)
     \/ Tick

Spec == Init /\ [][Next]_vars

-----------------------------------------------------------------------------
TypeOK ==
  /\ now \in 0..MaxTime /\ keeps \in Keeps /\ zone \in Zones /\ last \in 0..now
  /\ stored \in [xp : Xps \cup {NoXp}, at : 0..now]
  /\ writing \in {NoWrite} \cup [there : {TRUE}, xp : Xps, at : 0..now]
  /\ due \in {NoXp} \cup 0..stored.xp
  /\ DOMAIN rows \subseteq Buckets /\ \A b \in DOMAIN rows : rows[b] \in Xps
  /\ asked.there \in BOOLEAN /\ graph.there \in BOOLEAN
  /\ {had, seen} \subseteq [Buckets -> Xps \cup {NoXp}]

\* The bucket of the server's that begins in this one of the graph's.
BeginsIn(d) == IF zone < 0 THEN d + 1 ELSE d

\* A bucket before the last shows XP the player had by the end of the server's
\* bucket that begins in it, and no less than was due at an aggregation by then
\* (an update that one passed over is not sampled at all); or nothing, if nothing
\* was due, or if the table had let go of it (a month's graph shows 30 days, and
\* keeps February's 28).
Honest(g, i) ==
  LET b == BeginsIn(g.first + i - 1)
      xp == g.series[i]
      sampled == IF b \in Buckets THEN g.seen[b] ELSE NoXp
  IN IF xp = NoXp THEN sampled = NoXp \/ b * Parts < g.last - keeps
     ELSE b \in Buckets /\ sampled <= xp /\ xp <= had[b]

\* TypeOK, and what a graph shows, made of samples that were asked for some
\* time before: every bucket is honest, the last is what the player has; the
\* line of gains never falls, and ends at what was gained since the first XP
\* that is known, as do the levels (skill-graph.js, db/skills.rs).
GraphAgrees ==
  /\ TypeOK
  /\ graph.there =>
       LET g == graph
           known == {i \in 1..Shown : g.series[i] # NoXp}
           end == g.series[Shown]
       IN /\ \A i \in 1..Shown - 1 : Honest(g, i)
          /\ g.current # NoXp => end = g.current
          /\ \A i \in 2..Shown : g.gains[i - 1] <= g.gains[i]
          /\ known # {} =>
               /\ g.gains[Shown] = end - g.series[Min(known)]
               /\ g.levels = Cardinality({s \in LevelStarts : g.series[Min(known)] < s /\ s <= end})
=============================================================================
