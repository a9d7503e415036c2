------------------------------- MODULE Trails -------------------------------
(***************************************************************************)
(* A player's trail on the map: the hub's history of them, joined with     *)
(* where this tab has seen them since (trail-layer.js, and observeLive and *)
(* mergeTrail in trail-model.js).  The plugin sends what the player did in *)
(* messages, each with the tiles since the one before.  The history has    *)
(* them at once, but an answer with it may be a minute old: it is under    *)
(* way, or the server has it in its cache.  The marker on the map gets     *)
(* there a few seconds later, and all the tab sees of a player is where    *)
(* their marker is: also at first, when the tab is opened or the player is *)
(* back.                                                                   *)
(*                                                                         *)
(* One tick of the clock here is about five seconds.                       *)
(***************************************************************************)
EXTENDS Integers, Sequences, SequencesExt

CONSTANTS Tiles,
          Skews,       \* how far the plugin's clock may be behind the server's
          Lag,         \* the marker is at most this far behind the hub
          Period,      \* at least this long between two messages
          MarkerLag,   \* MARKER_LAG_S
          Gap,         \* GAP_S
          MaxPoints,   \* LIVE_MAX_POINTS
          MaxAge,      \* LIVE_MAX_AGE_S
          MaxTime,     \* bound: of the clock
          MaxMoves     \* bound: what the player and the viewer do

TrailConstants ==
  /\ 1 \in Tiles /\ Tiles \subseteq Nat \ {0}
  /\ Skews \subseteq Int /\ Lag \in Nat /\ Period > MarkerLag /\ MaxPoints \in Nat \ {0}
  /\ (\A s \in Skews : MarkerLag >= Lag + s) /\ Gap \in Nat /\ MaxAge \in Nat

VARIABLES
  now,       \* the server's clock
  skew,      \* how far the plugin's clock is behind it
  hub,       \* every tile the hub was told of, in order, by the plugin's clock
  everyTile, \* the plugin sends every tile, or the last one of each message only
  sent,      \* when the last message came
  playing,   \* the hub has the player online
  changed,   \* when the hub last had something new of them
  marker,    \* what the backend answers of them, a while behind the hub: tile, online
  seen,      \* TrailLayer.seen: buffer, position (0: not known), online
  trail,     \* shown, history, asOf, until (it ended before now), from, points
  answer,    \* the history under way: none, or what the hub had and when
  late,      \* for the properties: the stays that began where the player was no more
  moves

hubVars == <<now, skew, hub, everyTile, sent, playing, changed>>
tabVars == <<seen, trail, late>>
vars == <<hubVars, marker, tabVars, answer, moves>>

NoTrail == [shown |-> FALSE, history |-> <<>>, asOf |-> 0, until |-> FALSE, from |-> 0, points |-> <<>>]
NoAnswer == [asked |-> FALSE, history |-> <<>>, asOf |-> 0, until |-> FALSE, from |-> 0]

Point(tile, t0, t1) == [tile |-> tile, t0 |-> t0, t1 |-> t1]

Upper(x, y) == IF x > y THEN x ELSE y

-----------------------------------------------------------------------------
(* observeLive and mergeTrail.                                             *)

Known(position) == position # 0

\* Mutant: the points seen live are kept for as long as the tab is open.
NeverDropped(buffer) == buffer

\* What is over an hour old, or too much, is dropped from the front.
Bounded(buffer) ==
  LET many == Upper(0, Len(buffer) - MaxPoints)
      drops == {d \in many..Upper(many, Len(buffer) - 1) : \A i \in (many + 1)..d : buffer[i].t1 < now - MaxAge}
  IN SubSeq(buffer, 1 + CHOOSE d \in drops : \A e \in drops : d >= e, Len(buffer))

\* observeLive: back from having been away starts a new stay on the same tile.
ObserveLive(buffer, tile, fresh) ==
  IF buffer # <<>> /\ ~fresh /\ Last(buffer).tile = tile
  THEN Bounded([buffer EXCEPT ![Len(buffer)].t1 = Upper(@, now)])
  ELSE LET t == IF buffer = <<>> THEN now ELSE Upper(now, Last(buffer).t1)
       IN Bounded(Append(buffer, Point(tile, t, t)))

Moved(buffer, tile, fresh) == buffer = <<>> \/ fresh \/ Last(buffer).tile # tile

\* Mutant: a point keeps the time it was seen, whatever comes before it.
AppendAsSeen(merged, p) == Append(merged, p)

\* A point can't be from before the one it follows, by whatever clock that is.
AppendAfter(merged, p) ==
  LET t0 == IF merged = <<>> THEN p.t0 ELSE Upper(p.t0, Last(merged).t1)
  IN Append(merged, Point(p.tile, t0, Upper(p.t1, t0)))

\* append: a stay on the last tile goes on.
Joined(merged, p, continues) ==
  IF merged # <<>> /\ continues /\ Last(merged).tile = p.tile
  THEN [merged EXCEPT ![Len(merged)].t1 = Upper(@, p.t1)]
  ELSE AppendAfter(merged, p)

\* Mutant: a sighting counts from when it was last seen there.
SeenSince(history, asOf, p) == history = <<>> \/ p.t1 >= asOf

\* When the marker got there counts, not how long it stayed.
IsNews(history, asOf, p) == history = <<>> \/ p.t0 >= asOf

\* Mutant: an online player's trail always ends on the marker.
NeverBehind(history, live, tile, asOf) == FALSE

\* Mutant: a marker the history doesn't end on is taken to be behind, however
\* old the history's newest point is.
AnyIsBehind(history, live, tile, asOf) ==
  /\ live # <<>> /\ Last(live).tile = tile /\ ~IsNews(history, asOf, Last(live)) /\ Last(history).tile # tile

\* The marker is itself behind the history: the hub has the player further on.
Behind(history, live, tile, asOf) ==
  /\ live # <<>> /\ Last(live).tile = tile /\ ~IsNews(history, asOf, Last(live))
  /\ Last(history).tile # tile /\ Last(history).t1 >= Last(live).t0 - MarkerLag

\* mergeTrail
MergeTrail(history, live, head, asOf, from) ==
  LET span == [i \in DOMAIN live |-> [live[i] EXCEPT !.t0 = Upper(@, from)]]
      added(p) == p.t1 >= from /\ IsNews(history, asOf, p)
      merged == FoldLeft(LAMBDA so, p : IF added(p) THEN Joined(so, p, so # <<>> => p.t0 - Last(so).t1 <= Gap) ELSE so,
                         history, span)
  IN IF Known(head) /\ ~Behind(history, live, head, asOf)
     THEN Joined(merged, Point(head, now, now), TRUE)
     ELSE merged

-----------------------------------------------------------------------------
(* TrailLayer                                                              *)

\* rebuild: a trail that ended before now has nothing of where the player is.
Rebuilt(tr, site) ==
  [tr EXCEPT !.points = IF tr.until THEN MergeTrail(tr.history, <<>>, 0, tr.asOf, tr.from)
                        ELSE MergeTrail(tr.history, site.buffer, IF site.online THEN site.position ELSE 0, tr.asOf, tr.from)]

Does == moves < MaxMoves /\ moves' = moves + 1

\* Where the hub has the player.
AtTheHub == [tile |-> Last(hub).tile, online |-> playing]

\* The backend's next look at the hub, and the site's at the backend.
MarkerMoves ==
  /\ marker # AtTheHub /\ marker' = AtTheHub
  /\ UNCHANGED <<hubVars, tabVars, answer, moves>>

\* observe, with what the marker on the map is told.
Observe ==
  /\ LET on == marker.online
         fresh == ~seen.online
         moved == on /\ Moved(seen.buffer, marker.tile, fresh)
         changes == moved \/ seen.online # on
     IN /\ IF changes THEN UNCHANGED moves ELSE Does
        /\ seen' = [buffer |-> IF on THEN ObserveLive(seen.buffer, marker.tile, fresh) ELSE seen.buffer,
                    position |-> marker.tile, online |-> on]
        /\ trail' = IF trail.shown /\ ~trail.until /\ changes THEN Rebuilt(trail, seen') ELSE trail
        /\ late' = IF on /\ fresh /\ marker.tile # AtTheHub.tile
                   THEN late \cup {[tile |-> marker.tile, t0 |-> Last(seen'.buffer).t0]} ELSE late
  /\ UNCHANGED <<hubVars, marker, answer>>

\* The tab, if it is open, has the player where the hub has them.
CaughtUp ==
  /\ marker = AtTheHub
  /\ Known(seen.position) => seen.position = marker.tile /\ seen.online = marker.online

\* The plugin's message: where the player went since the last one.  A plugin
\* that doesn't send every tile says where they are, a point a minute of it kept.
\* The ticks are fine enough to tell a sighting from what the player does after it.
Message(tiles, kept) ==
  /\ seen.buffer # <<>> => Last(seen.buffer).t0 < now
  /\ Does /\ playing /\ now >= sent + Period /\ IF everyTile THEN kept ELSE Len(tiles) = 1
  /\ LET at(i) == now - skew - (Len(tiles) - i)
         stays(so, p) == IF p.kept THEN [so EXCEPT ![Len(so)].t1 = p.t1, ![Len(so)].kept = TRUE] ELSE so
     IN hub' = FoldLeft(LAMBDA so, p : IF Last(so).tile = p.tile THEN stays(so, p) ELSE Append(so, p), hub,
                        [i \in DOMAIN tiles |-> [tile |-> tiles[i], t0 |-> at(i), t1 |-> at(i), kept |-> kept]])
  /\ sent' = now /\ changed' = now
  /\ UNCHANGED <<now, skew, everyTile, playing, marker, tabVars, answer>>

\* The player logs in or out; where they are then is the next message's.
Presence ==
  /\ Does /\ playing' = ~playing /\ changed' = now
  /\ UNCHANGED <<now, skew, hub, everyTile, sent, marker, tabVars, answer>>

\* The trails of some days, of a session that goes on, or of one that is over.
HubAnswers(from, over) ==
  /\ Does /\ ~answer.asked
  /\ LET history == SelectSeq(hub, LAMBDA p : p.kept /\ p.t1 >= from)
         said == [i \in 1..(IF over THEN Len(history) - 1 ELSE Len(history)) |->
                    Point(history[i].tile, history[i].t0, history[i].t1)]
     IN /\ over => history # <<>>
        /\ answer' = [asked |-> TRUE, history |-> said, asOf |-> now, until |-> over, from |-> from]
  /\ UNCHANGED <<hubVars, marker, tabVars>>

\* setHistory
SetHistory ==
  /\ answer.asked /\ answer' = NoAnswer
  /\ trail' = Rebuilt([shown |-> TRUE, history |-> answer.history, asOf |-> answer.asOf,
                       until |-> answer.until, from |-> answer.from, points |-> <<>>], seen)
  /\ UNCHANGED <<hubVars, marker, seen, late, moves>>

\* remove
RemoveTrail ==
  /\ Does /\ trail.shown /\ trail' = NoTrail
  /\ UNCHANGED <<hubVars, marker, seen, late, answer>>

\* What an open tab sees is never further behind than Lag.
Tick ==
  /\ now < MaxTime /\ (CaughtUp \/ now < changed + Lag) /\ now' = now + 1
  /\ UNCHANGED <<skew, hub, everyTile, sent, playing, changed, marker, tabVars, answer, moves>>

Init ==
  /\ now = 0 /\ skew \in Skews /\ hub = <<[tile |-> 1, t0 |-> -skew, t1 |-> -skew, kept |-> TRUE]>>
  /\ everyTile \in BOOLEAN /\ sent = 0 /\ playing \in BOOLEAN /\ changed = 0
  /\ marker = AtTheHub
  /\ seen = [buffer |-> <<>>, position |-> 0, online |-> FALSE]
  /\ trail = NoTrail /\ answer = NoAnswer /\ late = {} /\ moves = 0

Messages == {<<t>> : t \in Tiles} \cup {<<t, u>> : t \in Tiles, u \in Tiles}

Next ==
  \/ MarkerMoves \/ Observe \/ Presence \/ SetHistory \/ RemoveTrail \/ Tick
  \/ \E tiles \in Messages, kept \in BOOLEAN : Message(tiles, kept)
  \/ \E from \in {now - Period, -MaxTime} : HubAnswers(from, FALSE)
  \/ HubAnswers(-MaxTime, TRUE)

Spec == Init /\ [][Next]_vars

-----------------------------------------------------------------------------
(* Properties.                                                             *)

TypeOK ==
  /\ now \in Nat /\ playing \in BOOLEAN /\ everyTile \in BOOLEAN
  /\ seen.position \in Tiles \cup {0} /\ Len(seen.buffer) <= MaxPoints
  /\ trail.shown \in BOOLEAN /\ ~trail.shown => trail = NoTrail
  /\ \A i \in DOMAIN trail.points : trail.points[i].tile \in Tiles

\* A trail goes forward in time: no point ends before it begins or begins
\* before the one it follows has ended, though two clocks dated them.
InOrder ==
  \A i \in DOMAIN trail.points :
    /\ trail.points[i].t0 <= trail.points[i].t1
    /\ i > 1 => trail.points[i - 1].t1 <= trail.points[i].t0

TilesOf(points) == [i \in DOMAIN points |-> points[i].tile]

Collapsed(tiles) == FoldLeft(LAMBDA so, t : IF so # <<>> /\ Last(so) = t THEN so ELSE Append(so, t), <<>>, tiles)

IsWithin(short, long) ==
  Len(short) = FoldLeft(LAMBDA k, t : IF k < Len(short) /\ short[k + 1] = t THEN k + 1 ELSE k, 0, long)

\* Where a late stay begins on the trail: the first point on its tile since then that
\* is not of the history.
Begins(stay) ==
  LET since == {i \in DOMAIN trail.points :
                  /\ i > Len(trail.history) /\ trail.points[i].tile = stay.tile
                  /\ trail.points[i].t0 >= stay.t0}
  IN {i \in since : \A j \in since : i <= j}

\* A trail is a way the player went: it never has them back on a tile they had left
\* because the marker was the last to know (mergeTrail).  There is one case in which it
\* has, and these points are not counted: a tab just opened, or a player just back, is
\* first seen where the marker is, and if the history was read between the player's
\* leaving and that sighting, the sighting passes for news.
TrailIsAWay ==
  LET begun == UNION {Begins(stay) : stay \in late}
      tiles == [i \in DOMAIN trail.points |-> IF i \in begun THEN 0 ELSE trail.points[i].tile]
  IN IsWithin(Collapsed(SelectSeq(tiles, Known)), TilesOf(hub))

\* The plugin's clock isn't so far ahead that the message before the last one
\* is dated after the marker of the last one.
ClocksAgree == everyTile \/ Period + skew > MarkerLag

\* The trail of an online player ends on their marker, and only where the
\* marker hasn't caught up yet further on (mergeTrail's head).
EndsWithThePlayer ==
  ClocksAgree /\ trail.shown /\ ~trail.until /\ seen.online /\ Known(seen.position) =>
    /\ trail.points # <<>>
    /\ Last(trail.points).tile # seen.position =>
         ~CaughtUp /\ trail.history # <<>> /\ Last(trail.points).tile = Last(trail.history).tile

TrailsHold == TypeOK /\ InOrder /\ TrailIsAWay /\ EndsWithThePlayer
=============================================================================
