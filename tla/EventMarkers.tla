---------------------------- MODULE EventMarkers ----------------------------
(***************************************************************************)
(* The hub's events on the site's map: which live markers there are and    *)
(* where (event-layer.js, event-markers.js), the places remembered across  *)
(* a reload (event-places.js), the marks on a player's trail and what a    *)
(* replay makes ring, what was drawn last, and the map's asking itself to  *)
(* be drawn again (canvas-map.js).                                         *)
(*                                                                         *)
(* All events are one player's.  A place is a number: 0 is none, Spot is   *)
(* where an event itself says it happened.  Time is the server's clock, in *)
(* steps; the screen (stacks, colours, words) is left out.                 *)
(***************************************************************************)
EXTENDS Integers, FiniteSets, FiniteSetsExt

CONSTANTS Events,
          Unshown,       \* those of a type the map does not show (eventKind is null)
          Own,           \* the events that say where they happened (eventPlace)
          Spot,          \* that place
          Spots,         \* where the player can be
          Filters,       \* the choices of what to show, each as the events that pass
          MarkerMs,      \* EVENT_MARKER_MS
          FreshMs,       \* EVENT_FRESH_MS
          RingMs,        \* EVENT_RING_MS
          MarkersMax,    \* EVENT_MARKERS_MAX
          PopMax,        \* REPLAY_POP_MAX
          MaxClock, MaxMoves    \* bounds: on time, and on what players and viewers do

TimesAreOrdered ==
  /\ RingMs \in Nat \ {0} /\ FreshMs \in Nat /\ MarkerMs \in Nat
  /\ RingMs <= FreshMs /\ FreshMs <= MarkerMs
PlacesAreNumbers == Spots \subseteq Nat \ {0} /\ Spot \in Nat \ (Spots \cup {0})

VARIABLES
  now,        \* api.serverNow()
  when,       \* event -> when it happened, or Never
  player,     \* where the player's marker is (CanvasMap.playerMarkers), or 0
  given,      \* EventLayer.live: the events of the last "live-events"
  heard,      \* newsTracker's `heard` of the layer
  isNews,     \* EventLayer.isNews
  live,       \* EventMarkers.live: event -> its marker, or NoMarker
  places,     \* EventPlaces: event -> the place remembered in this browser, or 0
  marks,      \* EventMarkers.trails: the events marked on the trail
  pops,       \* EventMarkers.pops: event -> since when it rings again, or Never
  replay,     \* TrailLayer.replayTime, or Never (live)
  filter,     \* EventLayer.filters: the events that pass
  rendered,   \* EventLayer.rendered: what was drawn last
  dirty,      \* CanvasMap.updateRequested
  timer,      \* CanvasMap.frameTimer is set
  put,        \* history: where an event was first put as certain, or 0
  seen,       \* history: where the player was while the event was fresh
  moves       \* what players and viewers did so far

layerVars == <<given, heard, isNews, live, places>>
trailVars == <<marks, pops, replay>>
drawVars == <<rendered, dirty, timer>>
vars == <<now, when, player, layerVars, trailVars, filter, drawVars, put, seen, moves>>

Never == -1
NoMarker == [place |-> 0, approximate |-> FALSE, arrived |-> Never]
Marker == [place : Spots \cup {Spot}, approximate : BOOLEAN, arrived : 0..MaxClock \cup {Never}]
Item == [id : Events, on : {"trail", "live"}]

TypeOK ==
  /\ now \in 0..MaxClock /\ when \in [Events -> 0..now \cup {Never}]
  /\ player \in Spots \cup {0}
  /\ given \subseteq Events /\ heard \in BOOLEAN /\ isNews \in BOOLEAN
  /\ live \in [Events -> Marker \cup {NoMarker}] /\ places \in [Events -> Spots \cup {0}]
  /\ marks \subseteq Events /\ pops \in [Events -> 0..now \cup {Never}]
  /\ replay \in 0..now \cup {Never} /\ filter \in Filters
  /\ rendered \subseteq Item /\ dirty \in BOOLEAN /\ timer \in BOOLEAN
  /\ put \in [Events -> Spots \cup {Spot, 0}] /\ seen \in [Events -> SUBSET Spots]
  /\ moves \in 0..MaxMoves

Init ==
  /\ now = 0 /\ when = [e \in Events |-> Never] /\ player = 0
  /\ given = {} /\ heard = FALSE /\ isNews = FALSE
  /\ live = [e \in Events |-> NoMarker] /\ places = [e \in Events |-> 0]
  /\ marks = {} /\ pops = [e \in Events |-> Never] /\ replay = Never
  /\ filter \in Filters
  /\ rendered = {} /\ dirty = TRUE /\ timer = FALSE
  /\ put = [e \in Events |-> 0] /\ seen = [e \in Events |-> {}]
  /\ moves = 0

Happened == {e \in Events : when[e] # Never}
Age(e) == now - when[e]
OnMap(e) == live[e] # NoMarker

\* eventIsFresh
Fresh(e) == Age(e) < FreshMs

-----------------------------------------------------------------------------
(* Putting events on the map.                                              *)

\* Mutant: an event goes where its player is, whatever is remembered.
PlaceOfPlayer(e, at) ==
  IF e \in Own THEN [place |-> Spot, known |-> TRUE] ELSE [place |-> at, known |-> FALSE]

\* EventLayer.placeOf: where it says it happened, where it was put when it
\* did, or where the player is now; no place when none of those is known.
PlaceOf(e, at) ==
  IF e \in Own THEN [place |-> Spot, known |-> TRUE]
  ELSE IF places[e] # 0 THEN [place |-> places[e], known |-> TRUE]
  ELSE [place |-> at, known |-> FALSE]

\* Mutant: what comes as news is taken to have just happened.
ArrivedIsFresh(e, news) == news

\* In EventMarkers.add: the event gets its rings and its words.
IsFresh(e, news) == news /\ Fresh(e)

\* A place that is not the event's own is right for one that just happened,
\* and a guess for one from a while ago.
NewMarker(e, at, news) ==
  [place |-> PlaceOf(e, at).place,
   approximate |-> ~PlaceOf(e, at).known /\ ~IsFresh(e, news),
   arrived |-> IF IsFresh(e, news) THEN now ELSE Never]

\* Mutant: the newest go.
DropsNewest(on, dropped) == \A d \in dropped, k \in on \ dropped : when[d] >= when[k]

\* With more markers than there is room for, the oldest go.
DropsOldest(on, dropped) == \A d \in dropped, k \in on \ dropped : when[d] <= when[k]

\* Mutant: also with no telling where.
PlaceableAnywhere(e, at) == Age(e) < MarkerMs /\ e \notin Unshown

\* What EventMarkers.add lets onto the map.
Placeable(e, at) == Age(e) < MarkerMs /\ e \notin Unshown /\ PlaceOf(e, at).place # 0

\* EventLayer.placeLive over EventMarkers.add and EventPlaces.remember, with
\* the player at a place: `old` are the markers there are.
PlaceLive(events, old, at, news) ==
  LET added == {e \in events : old[e] = NoMarker /\ Placeable(e, at)}
      with == [e \in Events |-> IF e \in added THEN NewMarker(e, at, news) ELSE old[e]]
      on == {e \in Events : with[e] # NoMarker}
      byPlayer == {e \in added : ~with[e].approximate /\ e \notin Own}
  IN \E dropped \in kSubset(IF Cardinality(on) > MarkersMax
                            THEN Cardinality(on) - MarkersMax ELSE 0, on) :
       /\ DropsOldest(on, dropped)
       /\ live' = [e \in Events |-> IF e \in dropped THEN NoMarker ELSE with[e]]
       /\ places' = IF byPlayer = {} THEN places
                    ELSE [e \in Events |->
                            IF e \in byPlayer THEN with[e].place
                            ELSE IF Age(e) >= MarkerMs THEN 0 ELSE places[e]]
       /\ put' = [e \in Events |->
                    IF put[e] = 0 /\ e \in added /\ ~with[e].approximate THEN with[e].place ELSE put[e]]
       /\ dirty' = (dirty \/ added # {})

-----------------------------------------------------------------------------
(* What happens in the game, and reaches the page.                         *)

Does == moves < MaxMoves /\ moves' = moves + 1

Tick ==
  /\ now < MaxClock /\ now' = now + 1
  /\ UNCHANGED <<when, player, layerVars, trailVars, filter, drawVars, put, seen, moves>>

\* An event happens to the player, where they are.
Happen(e) ==
  /\ when[e] = Never /\ when' = [when EXCEPT ![e] = now]
  /\ seen' = [seen EXCEPT ![e] = {player} \ {0}]
  /\ UNCHANGED <<now, player, layerVars, trailVars, filter, drawVars, put, moves>>

\* EventLayer.feed: the live feed's message, with all it holds.  A feed that
\* starts over (`initial`) may be another group's.
Feed(initial) ==
  /\ IF initial THEN Does ELSE UNCHANGED moves
  /\ given' = Happened /\ heard' = TRUE /\ isNews' = (heard /\ ~initial)
  /\ PlaceLive(Happened, IF initial THEN [e \in Events |-> NoMarker] ELSE live,
               player, isNews')
  /\ UNCHANGED <<now, when, player, trailVars, filter, rendered, timer, seen>>

Moved(to) ==
  /\ Does /\ player' = to
  /\ seen' = [e \in Events |-> IF e \in Happened /\ Fresh(e) THEN seen[e] \cup ({to} \ {0}) ELSE seen[e]]

\* Mutant: an event that waits for its player is put on the map with the next feed.
WaitsForFeed(to) == UNCHANGED <<live, places, put>> /\ dirty' = TRUE

\* An event that was waiting for its player has a place now.
TurnedUp(to) == PlaceLive(given, live, to, isNews)

\* CanvasMap.handleUpdatedCoordinates: the player turns up, moves, or no
\* longer shares a place (0).
Coordinates(to) ==
  /\ to # player /\ Moved(to)
  /\ IF player = 0 THEN TurnedUp(to)
     ELSE UNCHANGED <<live, places, put>> /\ dirty' = TRUE
  /\ UNCHANGED <<now, when, given, heard, isNews, trailVars, filter, rendered, timer>>

\* The page is opened anew: what is remembered in the browser is all it has.
Reload ==
  /\ Does
  /\ player' = 0 /\ given' = {} /\ heard' = FALSE /\ isNews' = FALSE
  /\ live' = [e \in Events |-> NoMarker]
  /\ marks' = {} /\ pops' = [e \in Events |-> Never] /\ replay' = Never
  /\ rendered' = {} /\ dirty' = TRUE /\ timer' = FALSE
  /\ UNCHANGED <<now, when, places, filter, put, seen>>

-----------------------------------------------------------------------------
(* The trail, the replay and the filters.                                  *)

\* EventLayer.syncTrails: the trail's events move with it, and go when it does.
SyncTrail(on) ==
  /\ Does /\ on # marks /\ marks' = on /\ dirty' = TRUE
  /\ UNCHANGED <<now, when, player, layerVars, pops, replay, filter, rendered, timer, put, seen>>

\* eventPasses
Passes(e) == e \in filter \ Unshown

\* EventMarkers.trailMarksBetween: what a replay passes on its way forward.
Passed(from, to) == {e \in marks : when[e] > from /\ when[e] <= to /\ Passes(e)}

\* EventLayer.replayMoved: the last few of those ring.
Popped(passed) ==
  {e \in passed : Cardinality({o \in passed : when[o] > when[e]}) < PopMax}

\* CanvasMap.setReplayTime (Never for live).
SetReplay(to) ==
  /\ Does /\ to # replay /\ marks # {} /\ replay' = to /\ dirty' = TRUE
  /\ pops' = IF replay = Never \/ to = Never \/ to <= replay THEN pops
             ELSE [e \in Events |-> IF e \in Popped(Passed(replay, to)) THEN now ELSE pops[e]]
  /\ UNCHANGED <<now, when, player, layerVars, marks, filter, rendered, timer, put, seen>>

\* CanvasMap.setEventFilters
SetFilters(f) ==
  /\ Does /\ f # filter /\ filter' = f /\ dirty' = TRUE
  /\ UNCHANGED <<now, when, player, layerVars, trailVars, rendered, timer, put, seen>>

-----------------------------------------------------------------------------
(* Drawing.                                                                *)

Rings(e, arrived) ==
  \/ pops[e] # Never /\ now - pops[e] < RingMs
  \/ arrived # Never /\ now - arrived < RingMs

\* EventMarkers.visible: the marks on the trail that pass the filters, and the
\* live markers that do and are not among them.
Shown ==
  [id : {m \in marks : Passes(m)}, on : {"trail"}] \cup
  [id : {e \in Events \ marks : OnMap(e) /\ Passes(e) /\ Age(e) < MarkerMs}, on : {"live"}]

\* Drawn small: a mark on the trail from longer ago, or not reached by the replay.
Compact(item) ==
  LET age == (IF replay = Never THEN now ELSE replay) - when[item.id]
  IN item.on = "trail" /\ (age < 0 \/ age >= MarkerMs)

ItemRings(item) ==
  Rings(item.id, IF item.on = "trail" /\ replay # Never THEN Never ELSE live[item.id].arrived)

\* Mutant: only rings need another frame.
WakesForRings(items) == \E i \in items : ItemRings(i)

\* layoutMarkers' nextMs: a ring moves, words and full markers go by themselves.
Wakes(items) == \E i \in items : ItemRings(i) \/ ~Compact(i)

\* CanvasMap.drawEvents: EventMarkers.prune, what there is to draw, and a
\* timer for when it changes by itself.
Draw ==
  /\ dirty /\ dirty' = FALSE
  /\ live' = [e \in Events |-> IF OnMap(e) /\ Age(e) >= MarkerMs THEN NoMarker ELSE live[e]]
  /\ pops' = [e \in Events |-> IF pops[e] # Never /\ now - pops[e] >= RingMs THEN Never ELSE pops[e]]
  /\ rendered' = Shown
  /\ timer' = (timer \/ Wakes(Shown))
  /\ UNCHANGED <<now, when, player, given, heard, isNews, places, marks, replay, filter, put, seen, moves>>

\* CanvasMap.requestFrameIn's timer.
FrameDue ==
  /\ timer /\ timer' = FALSE /\ dirty' = TRUE
  /\ UNCHANGED <<now, when, player, layerVars, trailVars, filter, rendered, put, seen, moves>>

Next ==
  \/ Tick \/ Reload \/ Draw \/ FrameDue
  \/ \E e \in Events : Happen(e)
  \/ \E initial \in BOOLEAN : Feed(initial)
  \/ \E to \in Spots \cup {0} : Coordinates(to)
  \/ \E on \in SUBSET Happened : SyncTrail(on)
  \/ \E to \in 0..now \cup {Never} : SetReplay(to)
  \/ \E f \in Filters : SetFilters(f)

Spec == Init /\ [][Next]_vars

-----------------------------------------------------------------------------
(* Properties.                                                             *)

\* A marker that was once put on the map as certain stays where it was put:
\* through a feed that starts over and through reloads, wherever its player
\* has gone since, and it does not turn into a guess (event-places.js).
PlaceStays ==
  \A e \in Events : OnMap(e) /\ put[e] # 0 => live[e].place = put[e] /\ ~live[e].approximate

\* A place shown without "Position approximate" is where the event says it
\* happened, or one the player was at while it was fresh: not where they turned
\* up later, nor where they were when an old event came in.
CertainIsWhereItHappened ==
  \A e \in Events \ Own : OnMap(e) /\ ~live[e].approximate => live[e].place \in seen[e]

\* No event the page has and can place is left off the map, also when it came
\* before its player did, unless there are MarkersMax newer ones.
NoneLeftOut ==
  /\ Cardinality({e \in Events : OnMap(e)}) <= MarkersMax
  /\ \A e \in given :
       (~OnMap(e) /\ Age(e) < MarkerMs /\ e \notin Unshown /\ PlaceOf(e, player).place # 0) =>
         Cardinality({o \in Events : OnMap(o) /\ when[o] >= when[e]}) = MarkersMax

\* What the screen shows of the live events is drawn again, though nothing else
\* happens: with a frame or a timer under way for as long as a marker is on it
\* that its time will take, or a ring that moves (event-layer.js draw,
\* canvas-map.js requestFrameIn).
DrawnAgain ==
  (\E i \in rendered : i.on = "live" \/ pops[i.id] # Never) => dirty \/ timer

MarkersHold == TypeOK /\ CertainIsWhereItHappened /\ NoneLeftOut /\ DrawnAgain
=============================================================================
