------------------------------ MODULE MapView ------------------------------
(***************************************************************************)
(* The map itself (canvas-map.js): the frame loop that draws only when     *)
(* asked to, the camera and its animations, the player it follows, the     *)
(* terrain it loads, and the pointer -- hovering, pressing, dragging and   *)
(* pinching -- while players move, come and go.                            *)
(*                                                                         *)
(* The map is cut into areas, one of which is in view; a spot is an area   *)
(* and a floor.  An animation takes Frames frames.                         *)
(***************************************************************************)
EXTENDS Naturals, FiniteSets

CONSTANTS Names, NoOne,
          Areas,
          FirstArea,     \* where the camera starts
          Terrain,       \* the tiles there are, <<floor, level, area>>
          Link, LinkTo,  \* the area with a map link, and the spot it leads to
          EventAt,       \* the spot of the event that may be on the map, of player EventOf
          EventOf,
          Frames,        \* bound: how many frames an animation takes
          MaxMoves       \* bound: what players and the viewer do

Floors == {0, 1}
Spots == [area : Areas, floor : Floors]
NoSpot == [area |-> 0, floor |-> 0]
Levels == {0, 1}
Tiles == Floors \X Levels \X Areas

ASSUME MapIsWhole ==
  /\ 0 \notin Areas /\ FirstArea \in Areas /\ Terrain \subseteq Tiles /\ Link \in Areas /\ LinkTo \in Spots
  /\ EventAt \in Spots /\ EventOf \in Names /\ NoOne \notin Names /\ Frames \in Nat \ {0}

VARIABLES
  where,     \* the store: player -> the spot they share, or NoSpot
  online,    \* the store: who is online
  camera,    \* at, target (areas), left (frames of a pan), zoom (frames of a zoom), over, overTo, glide
  floor,
  updateRequested,
  follow,    \* followingPlayer: its name and the spot it was last given
  replay,    \* a replay moves the camera until the map is dragged
  selected,
  markers,   \* playerMarkers: player -> spot, or NoSpot
  drawn,     \* renderedPlayers: who the last frame drew
  tile,      \* tile -> "none", "asked", "fading" or "shown"
  inView,    \* tilesInView
  data,      \* the map's data is in
  event,     \* the event is on the map
  pointer,   \* down: the fingers or the button; press, dragging
  hover,     \* what the pointer is on: hover, and what the layers were told of it
  moves

world == <<where, online, event>>
mapVars == <<camera, floor, updateRequested, follow, replay, selected>>
drawVars == <<markers, drawn, tile, inView, data>>
vars == <<world, mapVars, drawVars, pointer, hover, moves>>

NoHit == [on |-> "nothing"]
Hits == [on : {"links", "events"}] \cup [on : {"players", "trails"}, name : Names] \cup [on : {"cluster"}] \cup {NoHit}

TypeOK ==
  /\ where \in [Names -> Spots \cup {NoSpot}] /\ online \subseteq Names
  /\ camera \in [at : Areas, target : Areas, left : 0..Frames, zoom : 0..Frames,
                 over : BOOLEAN, overTo : BOOLEAN, glide : 0..Frames]
  /\ floor \in Floors /\ updateRequested \in BOOLEAN /\ replay \in BOOLEAN
  /\ follow \in [name : Names \cup {NoOne}, spot : Spots \cup {NoSpot}]
  /\ follow.name # NoOne => follow.spot # NoSpot
  /\ selected \in Names \cup {NoOne}
  /\ markers \in [Names -> Spots \cup {NoSpot}] /\ drawn \subseteq Names
  /\ tile \in [Tiles -> {"none", "asked", "fading", "shown"}] /\ inView \subseteq Tiles
  /\ \A t \in inView : tile[t] # "none"
  /\ pointer \in [down : 0..2, press : Hits, dragging : BOOLEAN]
  /\ hover \in [hit : Hits, tooltip : BOOLEAN, player : Names \cup {NoOne}, trail : Names \cup {NoOne}]

-----------------------------------------------------------------------------
(* The camera: Animation.goTo and cancelAnimation.                         *)

Pan(cam, area) == [cam EXCEPT !.target = area, !.left = Frames]
Jump(cam, area) == [cam EXCEPT !.at = area, !.target = area, !.left = 0]
Still(cam) == [cam EXCEPT !.target = cam.at, !.left = 0, !.zoom = 0, !.overTo = cam.over, !.glide = 0]
NoGlide(cam) == [cam EXCEPT !.glide = 0]

\* stopFollowingPlayer leaves the place it last had.
Unfollowed(f) == [f EXCEPT !.name = NoOne]

\* Mutant: a player without a place is followed.
FollowsUnplaced(n) == [name |-> n, spot |-> IF n = NoOne THEN NoSpot ELSE markers[n]]

\* followPlayer
Follows(n) == IF n # NoOne /\ markers[n] # NoSpot THEN [name |-> n, spot |-> markers[n]] ELSE follow

\* zoomOntoPoint: not while dragging, and not when the zoom is at its limit.
ZoomOnto(cam, over, time) ==
  IF cam.overTo = over THEN NoGlide(cam)
  ELSE IF time <= 1
       THEN [Jump(cam, cam.target) EXCEPT !.zoom = 0, !.over = over, !.overTo = over, !.glide = 0]
       ELSE [cam EXCEPT !.left = Frames, !.zoom = Frames, !.overTo = over, !.glide = 0]

\* handleMapFocus, with what followReplay has in common with it.
Focus(spot) ==
  /\ follow' = Unfollowed(follow) /\ floor' = spot.floor
  /\ camera' = NoGlide(Pan(camera, spot.area)) /\ updateRequested' = TRUE

-----------------------------------------------------------------------------
(* The frame loop.                                                         *)

\* terrainLevel: the zoom's, or the finest when the floor has no coarser tiles.
LevelOf(over, f) == IF over /\ data /\ \E a \in Areas : <<f, 1, a>> \in Terrain THEN 1 ELSE 0

\* hasTerrainTile: until the data is in, every map tile may be there.
HasTile(t) == ~data \/ t \in Terrain

\* Mutant: the camera is sent on its way in every frame.
KeepsGoing(cam) == follow.name # NoOne

\* The camera goes after the player it follows, when it isn't on its way there.
GoesAfter(cam) == follow.name # NoOne /\ cam.target # follow.spot.area

\* Animation.animate: there is another frame after the one an animation ends in.
Animating(cam) == cam.left > 0

\* drawMapSquaresInView: the tile in view, asked for unless the camera is
\* passing by.  One that is cached is complete when it is made.
DrawTerrain(t, faded, load, cached) ==
  IF ~HasTile(t) THEN tile' = faded /\ inView' = {}
  ELSE IF faded[t] = "none"
  THEN IF load THEN /\ tile' = [faded EXCEPT ![t] = IF cached THEN "fading" ELSE "asked"]
                    /\ inView' = {t}
       ELSE tile' = faded /\ inView' = {}
  ELSE tile' = faded /\ inView' = {t}

\* drawPlayers: those in view, on whatever floor they are.
DrawnAt(area) == {n \in Names : markers[n] # NoSpot /\ markers[n].area = area}

\* _update, in its order: where a glide has come to (slow: and whether it goes
\* on), the zoom, the player that is followed, the way there.
Glided(to, slow) ==
  IF camera.glide > 0
  THEN [(IF pointer.dragging THEN camera ELSE Jump(camera, to)) EXCEPT !.glide = IF slow THEN @ - 1 ELSE 0]
  ELSE camera
Zooming(cam) == cam.zoom > 0
Zoomed(cam) ==
  IF Zooming(cam) THEN [cam EXCEPT !.zoom = @ - 1, !.over = IF cam.zoom = 1 THEN cam.overTo ELSE @] ELSE cam
FollowsOn(cam) == ~Zooming(cam) /\ follow.name # NoOne
SentOn(cam) ==
  IF FollowsOn(cam) /\ GoesAfter(Zoomed(cam)) THEN Pan(Zoomed(cam), follow.spot.area) ELSE Zoomed(cam)
Panned(cam) ==
  IF cam.left > 0 THEN [cam EXCEPT !.left = @ - 1, !.at = IF cam.left = 1 THEN cam.target ELSE @] ELSE cam
NewFloor(cam) == IF FollowsOn(cam) THEN follow.spot.floor ELSE floor
FadingTiles == {t \in inView : tile[t] = "fading"}
FadedTiles == [t \in Tiles |-> IF t \in FadingTiles THEN "shown" ELSE tile[t]]

\* What is drawn then: far from where the camera goes, and with what is cached.
FrameGoes(glided, far, cached) ==
  LET cam == Panned(SentOn(glided))
      newFloor == NewFloor(glided)
  IN /\ camera' = cam /\ floor' = newFloor
     /\ DrawTerrain(<<newFloor, LevelOf(cam.over, newFloor), cam.at>>, FadedTiles,
                    ~(far /\ ~Zooming(glided) /\ cam.left > 0), cached)
     /\ drawn' = DrawnAt(cam.at)
     /\ updateRequested' = (camera.glide > 0 \/ Zooming(glided) \/ Animating(SentOn(glided)) \/ FadingTiles # {}
                             \/ newFloor # floor)

Frame ==
  /\ updateRequested
  /\ \E to \in Areas, slow \in BOOLEAN, far \in BOOLEAN, cached \in BOOLEAN :
       /\ ~(camera.glide > 0) => to = camera.at /\ ~slow
       /\ FrameGoes(Glided(to, slow), far, cached)
  /\ UNCHANGED <<world, follow, replay, selected, markers, data, pointer, hover, moves>>

\* The tile's onload.
TileLoads(t) ==
  /\ tile[t] = "asked" /\ HasTile(t) /\ t \in Terrain
  /\ tile' = [tile EXCEPT ![t] = "fading"] /\ updateRequested' = TRUE
  /\ UNCHANGED <<world, camera, floor, follow, replay, selected, markers, drawn, inView, data, pointer, hover, moves>>

\* getMapJson and loadMapLinks
DataArrives ==
  /\ ~data /\ data' = TRUE /\ updateRequested' = TRUE
  /\ UNCHANGED <<world, camera, floor, follow, replay, selected, markers, drawn, tile, inView, pointer, hover, moves>>

-----------------------------------------------------------------------------
(* The players on the map.                                                 *)

Does == moves < MaxMoves /\ moves' = moves + 1

InView(spot) == spot # NoSpot /\ spot.area = camera.at

\* Mutant: only those on the floor shown are drawn, and so only they need a frame.
DrawsOnFloor(spot) == InView(spot) /\ spot.floor = floor

\* isGameTileInView: a player who is, or has come, in view needs a frame.
NeedsFrame(spot) == InView(spot)

\* handleUpdatedCoordinates: a player shares another spot, or none any more.
Moves(n, spot) ==
  /\ Does /\ spot # where[n] /\ where' = [where EXCEPT ![n] = spot]
  /\ IF n \notin online
     THEN /\ markers' = [markers EXCEPT ![n] = NoSpot] /\ updateRequested' = TRUE /\ UNCHANGED follow
     ELSE /\ markers' = [markers EXCEPT ![n] = spot]
          /\ follow' = IF follow.name # n \/ (spot = NoSpot /\ markers[n] = NoSpot) THEN follow
                       ELSE IF spot = NoSpot THEN Unfollowed(follow) ELSE [follow EXCEPT !.spot = spot]
          /\ updateRequested' = (updateRequested \/ NeedsFrame(spot) \/ (spot = NoSpot /\ markers[n] # NoSpot))
  /\ UNCHANGED <<online, event, camera, floor, replay, selected, drawn, tile, inView, data, pointer, hover>>

\* handleUpdatedMembers: somebody came online or went, and the markers are made anew.
Presence(n) ==
  /\ Does /\ online' = IF n \in online THEN online \ {n} ELSE online \cup {n}
  /\ markers' = [m \in Names |-> IF m \in online' THEN where[m] ELSE NoSpot]
  /\ follow' = IF follow.name # NoOne /\ markers'[follow.name] # NoSpot
               THEN [follow EXCEPT !.spot = markers'[follow.name]] ELSE follow
  /\ updateRequested' = (updateRequested \/ \E m \in Names : NeedsFrame(markers'[m]))
  /\ UNCHANGED <<where, event, camera, floor, replay, selected, drawn, tile, inView, data, pointer, hover>>

-----------------------------------------------------------------------------
(* The pointer.                                                            *)

NoHover == [hit |-> NoHit, tooltip |-> FALSE, player |-> NoOne, trail |-> NoOne]

\* playerAt: the players as the last frame drew them, a group of them on an overview.
PlayersUnder ==
  IF camera.over /\ Cardinality(drawn) > 1 THEN [on : {"cluster"}] ELSE [on : {"players"}, name : drawn]

\* linkAt: the links are neither drawn nor clicked on an overview.
LinksUnder == IF data /\ ~camera.over /\ camera.at = Link /\ floor = 0 THEN [on : {"links"}] ELSE {}

\* What the overlays may find under the pointer.
Under ==
  PlayersUnder \cup LinksUnder \cup [on : {"trails"}, name : Names] \cup {NoHit}
  \cup (IF event /\ camera.at = EventAt.area THEN [on : {"events"}] ELSE {})

Clickable == {h \in Under : h.on \notin {"trails", "nothing"}}

\* Mutant: what the pointer was on isn't told that it has left.
HoverUntold(hit) ==
  [hit |-> hit, tooltip |-> hit # NoHit, player |-> IF hit.on = "players" THEN hit.name ELSE hover.player,
   trail |-> IF hit.on = "trails" THEN hit.name ELSE hover.trail]

\* hoverAt, and clearHover for nothing.
HoverOn(hit) ==
  [hit |-> hit, tooltip |-> hit # NoHit, player |-> IF hit.on = "players" THEN hit.name ELSE NoOne,
   trail |-> IF hit.on = "trails" THEN hit.name ELSE NoOne]

Untouched == <<world, selected, markers, drawn, tile, inView, data>>

\* Mutant: a drag goes on with the player being followed.
DragFollows(f) == f

\* startDragging: whoever was moving the camera for the viewer lets go.
DragLetsGo(f) == Unfollowed(f)

\* onPointerDown and onTouchStart: a press on something that can be clicked,
\* else the button drags the map and a finger waits for what it does.
Down(hit, finger) ==
  /\ Does /\ pointer.down = 0
  /\ IF hit # NoHit
     THEN /\ pointer' = [down |-> 1, press |-> hit, dragging |-> pointer.dragging]
          /\ UNCHANGED <<mapVars, hover>>
     ELSE IF finger THEN pointer' = [pointer EXCEPT !.down = 1, !.press = NoHit] /\ UNCHANGED <<mapVars, hover>>
     ELSE /\ pointer' = [down |-> 1, press |-> NoHit, dragging |-> TRUE]
          /\ camera' = Still(camera) /\ follow' = DragLetsGo(follow) /\ replay' = FALSE
          /\ hover' = NoHover /\ updateRequested' = TRUE /\ UNCHANGED <<floor, selected>>
  /\ UNCHANGED <<world, drawVars>>

\* Two fingers zoom: what the first one was on isn't clicked.
SecondFinger ==
  /\ Does /\ pointer.down = 1 /\ pointer' = [pointer EXCEPT !.down = 2, !.press = NoHit]
  /\ UNCHANGED <<world, mapVars, drawVars, hover>>

\* onPointerMove and onTouchMove with one finger, past DRAG_THRESHOLD_PX: a
\* press is a drag now.
Drag(to) ==
  /\ pointer.down = 1 /\ (pointer.dragging => to # camera.at) /\ Does
  /\ LET cam == IF pointer.dragging THEN camera ELSE Still(camera)
     IN camera' = [Jump(cam, to) EXCEPT !.glide = Frames]
  /\ pointer' = [down |-> 1, press |-> NoHit, dragging |-> TRUE]
  /\ IF pointer.dragging THEN UNCHANGED <<follow, replay, hover>>
     ELSE follow' = DragLetsGo(follow) /\ replay' = FALSE /\ hover' = NoHover
  /\ updateRequested' = TRUE
  /\ UNCHANGED <<Untouched, floor>>

\* onTouchMove with two fingers
Pinch(over) ==
  /\ Does /\ pointer.down = 2 /\ pointer' = [pointer EXCEPT !.dragging = FALSE]
  /\ camera' = ZoomOnto(camera, over, 1) /\ updateRequested' = TRUE
  /\ UNCHANGED <<world, floor, follow, replay, selected, drawVars, hover>>

\* onPointerMove with nothing pressed
Hover(hit) ==
  /\ pointer.down = 0 /\ hit # hover.hit /\ Does
  /\ hover' = HoverOn(hit) /\ updateRequested' = TRUE
  /\ UNCHANGED <<world, camera, floor, follow, replay, selected, drawVars, pointer>>

\* activate, of what was pressed: the link, the player, the group of them or the
\* event (goToEvent, whose player is followed when it isn't on the map any more).
GoThrough ==
  /\ follow' = Unfollowed(follow) /\ floor' = LinkTo.floor
  /\ camera' = NoGlide(Jump(camera, LinkTo.area)) /\ UNCHANGED <<replay, selected>>

GoToPlayer(n) == selected' = n /\ follow' = Follows(n) /\ UNCHANGED <<camera, floor, replay>>

GoToGroup ==
  /\ follow' = Unfollowed(follow) /\ camera' = ZoomOnto(camera, FALSE, 300)
  /\ UNCHANGED <<floor, replay, selected>>

GoToEvent ==
  IF event THEN selected' = EventOf /\ Focus(EventAt) /\ UNCHANGED replay ELSE GoToPlayer(EventOf)

Activate(hit) ==
  /\ updateRequested' = TRUE
  /\ \/ hit.on = "links" /\ GoThrough
     \/ hit.on = "players" /\ GoToPlayer(hit.name)
     \/ hit.on = "cluster" /\ GoToGroup
     \/ hit.on = "events" /\ GoToEvent

\* stopDragging: a press that is let go where it began is a click.  The map
\* glides on, unless the pointer had stopped.
Release(stopped) ==
  /\ pointer.down > 0
  /\ IF pointer.press # NoHit
     THEN /\ pointer' = [pointer EXCEPT !.down = @ - 1, !.press = NoHit] /\ hover' = NoHover
          /\ Activate(pointer.press)
     ELSE /\ pointer' = [pointer EXCEPT !.down = @ - 1, !.dragging = FALSE]
          /\ camera' = IF stopped THEN NoGlide(camera) ELSE camera
          /\ updateRequested' = TRUE /\ UNCHANGED <<hover, floor, follow, replay, selected>>
  /\ UNCHANGED <<world, drawVars, moves>>

\* Mutant: a press is still there when the pointer has left the map.
LeavesPressed == pointer' = [pointer EXCEPT !.down = 0, !.dragging = FALSE]

\* onMouseLeave forgets the press, and what comes up is no click.
LeavesNothing == pointer' = [down |-> 0, press |-> NoHit, dragging |-> FALSE]

Leave ==
  /\ pointer.down < 2 /\ (pointer.down = 1 \/ hover # NoHover)
  /\ LeavesNothing /\ hover' = NoHover /\ updateRequested' = TRUE
  /\ UNCHANGED <<world, camera, floor, follow, replay, selected, drawVars, moves>>

\* onScroll
Scroll(over) ==
  /\ Does /\ pointer.down = 0 /\ over # camera.overTo
  /\ camera' = ZoomOnto(camera, over, 100) /\ updateRequested' = TRUE
  /\ UNCHANGED <<world, floor, follow, replay, selected, drawVars, pointer, hover>>

-----------------------------------------------------------------------------
(* The rest of the site, with no finger on the map.                        *)

\* handleSelected: from the roster and the search, or nobody any more.
Select(n) ==
  /\ Does /\ pointer.down = 0 /\ selected' = n
  /\ follow' = Follows(n) /\ updateRequested' = TRUE
  /\ UNCHANGED <<world, camera, floor, replay, drawVars, pointer, hover>>

\* selection.focusMap, goToEvent from a toast
FocusMap(spot) ==
  /\ Does /\ pointer.down = 0 /\ Focus(spot)
  /\ UNCHANGED <<world, replay, selected, drawVars, pointer, hover>>

\* MapPage.handlePlaneSelect
PickFloor(f) ==
  /\ Does /\ pointer.down = 0 /\ f # floor /\ floor' = f /\ follow' = Unfollowed(follow)
  /\ updateRequested' = TRUE
  /\ UNCHANGED <<world, camera, replay, selected, drawVars, pointer, hover>>

\* followReplay: the replay was opened, and moves on.
ReplayStarts ==
  /\ Does /\ pointer.down = 0 /\ ~replay /\ replay' = TRUE
  /\ UNCHANGED <<world, camera, floor, updateRequested, follow, selected, drawVars, pointer, hover>>

ReplayMoves(spot) ==
  /\ Does /\ replay /\ Focus(spot) /\ UNCHANGED <<world, replay, selected, drawVars, pointer, hover>>

\* Mutant: the tooltip of a trail that is gone stays.
HoverStays(n) == IF hover.trail = n THEN [hover EXCEPT !.trail = NoOne] ELSE hover

\* trailsChanged: the hovered point is forgotten when its trail is rebuilt or taken off.
HoverWithout(n) == IF hover.trail = n THEN NoHover ELSE hover

TrailChanges(n) ==
  /\ Does /\ hover' = HoverWithout(n) /\ updateRequested' = TRUE
  /\ UNCHANGED <<world, camera, floor, follow, replay, selected, drawVars, pointer>>

\* The event comes on the map, or has had its time.
EventChanges ==
  /\ Does /\ event' = ~event /\ updateRequested' = TRUE
  /\ UNCHANGED <<where, online, camera, floor, follow, replay, selected, drawVars, pointer, hover>>

Init ==
  /\ where = [n \in Names |-> [area |-> FirstArea, floor |-> 0]] /\ online = Names
  /\ camera = [at |-> FirstArea, target |-> FirstArea, left |-> 0, zoom |-> 0, over |-> FALSE, overTo |-> FALSE, glide |-> 0]
  /\ floor = 0 /\ updateRequested = TRUE /\ follow = [name |-> NoOne, spot |-> NoSpot] /\ replay = FALSE
  /\ selected = NoOne /\ markers = where /\ drawn = {} /\ tile = [t \in Tiles |-> "none"] /\ inView = {}
  /\ data = FALSE /\ event = FALSE
  /\ pointer = [down |-> 0, press |-> NoHit, dragging |-> FALSE] /\ hover = NoHover /\ moves = 0

ViewerActs ==
  \/ \E hit \in Clickable \cup {NoHit}, finger \in BOOLEAN : Down(hit, finger)
  \/ SecondFinger \/ Leave
  \/ \E a \in Areas : Drag(a)
  \/ \E over \in BOOLEAN : Pinch(over) \/ Scroll(over)
  \/ \E hit \in Under : Hover(hit)
  \/ \E n \in Names \cup {NoOne} : Select(n)
  \/ \E s \in Spots : FocusMap(s) \/ ReplayMoves(s)
  \/ \E f \in Floors : PickFloor(f)
  \/ ReplayStarts

WorldMoves ==
  \/ \E n \in Names, s \in Spots \cup {NoSpot} : Moves(n, s)
  \/ \E n \in Names : Presence(n) \/ TrailChanges(n)
  \/ EventChanges \/ DataArrives
  \/ \E t \in Tiles : TileLoads(t)

Next ==
  \/ Frame \/ ViewerActs \/ WorldMoves
  \/ \E stopped \in BOOLEAN : Release(stopped)

Spec == Init /\ [][Next]_vars

-----------------------------------------------------------------------------
(* Properties.                                                             *)

AtRest == ~updateRequested

\* What the pointer is on is what the layers were told it is on, and the
\* tooltip is about: no name stays lit and no tooltip stays up for what the
\* pointer has left, or what was taken off the map (hoverAt, trailsChanged).
HoverAgrees ==
  /\ hover.tooltip <=> hover.hit # NoHit
  /\ hover.player = IF hover.hit.on = "players" THEN hover.hit.name ELSE NoOne
  /\ hover.trail = IF hover.hit.on = "trails" THEN hover.hit.name ELSE NoOne

\* A press and a drag are one or the other, neither outlasts the pointer, and
\* two fingers press nothing: letting go after a drag or a pinch selects nobody.
PressOrDrag ==
  /\ ~(pointer.press # NoHit /\ pointer.dragging)
  /\ pointer.down = 0 => pointer.press = NoHit /\ ~pointer.dragging
  /\ pointer.down = 2 => pointer.press = NoHit

\* While the map is dragged nothing else moves it: no player it follows, no
\* replay, no animation that was under way (startDragging).
DragIsTheViewers ==
  pointer.dragging => follow.name = NoOne /\ ~replay /\ camera.left = 0 /\ camera.zoom = 0

\* A map at rest shows what it should: the players in view are drawn, and its
\* terrain was asked for, however far the camera came from (_update).
RestShowsAll ==
  AtRest =>
    /\ \A n \in Names : InView(markers[n]) => n \in drawn
    /\ LET t == <<floor, LevelOf(camera.over, floor), camera.at>> IN HasTile(t) => tile[t] # "none"

\* The map comes to rest, and then it is where the player it follows is, on
\* their floor: unless that is where it doesn't look.
RestFollows ==
  AtRest /\ follow.name # NoOne /\ InView(follow.spot) => camera.target = camera.at /\ floor = follow.spot.floor

ViewHolds == TypeOK /\ HoverAgrees /\ PressOrDrag /\ DragIsTheViewers

RestHolds == RestShowsAll /\ RestFollows

\* selection.js: "Which player is selected (their profile is open and the map
\* follows them)".  A map at rest is where the player it follows is.
MapFollows ==
  AtRest /\ follow.name # NoOne => camera.at = follow.spot.area
=============================================================================
