------------------------------- MODULE MCSite -------------------------------
(***************************************************************************)
(* The site on small instances of its modules, and the server's sessions   *)
(* it is open to.  They are parts that share nothing a property is about,  *)
(* so a behaviour is of one of them: `part` says which, and the others'    *)
(* variables are 0.                                                        *)
(***************************************************************************)
EXTENDS MapView, Integers, Sequences

CONSTANTS ann, bob,
          LifeUsers, LifeAdmins, MaxLifeMoves,   \* of SiteLife
          BoardNames, BoardPeriods, BoardSkills, MaxBoardPlayers, MaxBoardChoices,   \* of Boards
          MarkerEvents, MarkersUnshown, MarkersOwn, OwnSpot, PlayerSpots, MarkerFilters,
          MarkerMs, FreshMs, RingMs, MarkersMax, PopMax, MaxClock, MaxMarkerMoves,   \* of EventMarkers
          ToastEvents, NotableEvents, ToastMs, NotableMs, LeaveMs, ToastMax, MaxToastTime,   \* of EventToasts
          ReplayTrails, IdleSkip, IdleLead, ReplaySteps, HoldFrames, HopFrames, MaxReplayMoves,   \* of Replay
          SessionUsers, Requests, Connections, SweepMembers, MaxSessions, MaxSessionMoves,   \* of Sessions
          ViewedPlayers, NamedPlaces, UnnamedPlaces, SharedCategories, GainPeriods,
          MaxViewMoves, MaxViewPolls, MaxViewBoth,   \* of PlayerViews
          BucketParts, ShownBuckets, Retentions, ViewerZones, LevelStarts, MaxSkillXp, MaxSkillTime   \* of SkillHistory

Parts == {"view", "markers", "replay", "trails", "players", "boards", "life", "history", "gear", "toasts", "sessions"}

\* MapView: both areas on the ground, one of them upstairs as well; one coarse tile.
MCTerrain == {<<0, 0, 1>>, <<0, 0, 2>>, <<1, 0, 2>>, <<0, 1, 1>>}
MCUpstairs == [area |-> 2, floor |-> 1]

\* Replay: a teleport out of a long absence with an event marked in it, the same
\* trail later, its beginning gone and an entrance at its end, and an instant
\* teleport, an entrance, and a teleport at the very end.
At(t0, t1) == [t0 |-> t0, t1 |-> t1]
Away == [points |-> <<At(0, 1), At(7, 8), At(9, 9)>>, kinds |-> <<"teleport", "walk">>, marks |-> {5}]
Later == [points |-> <<At(8, 8), At(9, 9), At(10, 10)>>, kinds |-> <<"house", "entrance">>, marks |-> {}]
Hops == [points |-> <<At(2, 3), At(3, 3), At(4, 4), At(6, 6)>>,
         kinds |-> <<"teleport", "entrance", "teleport">>, marks |-> {}]
MCTrails == {Away, Later, Hops}

\* GearTrips: two sets that share enough to be swapped, another outfit, and
\* what is too little for one.
Ranged == {<<1, "cape">>, <<2, "boots">>, <<3, "bow">>}
Melee == {<<1, "cape">>, <<2, "boots">>, <<3, "sword">>}
Fishing == {<<1, "hood">>, <<2, "waders">>, <<3, "rod">>}
Bare == {<<3, "rod">>}

\* SkillHistory: viewers behind UTC, in it and ahead of it.
MCZones == {-1, 0, 1}

VARIABLES
  part,
  markersNow, when, player, given, heard, isNews, live, places, marks, pops,
  markersReplay, filter, rendered, dirty, timer, put, markersSeen, markersMoves,
  replayTrail, order, replaySelected, clock, controls, map, replayMoves,
  trailsNow, skew, hub, everyTile, sent, playing, changed, marker, trailsSeen, trailsTrail, answer,
  late, trailsMoves,
  store, named, roster, table, profile, lastTab, lastPeriod, loads, playersMoves, polls,
  polled, boardsGraph, charts, chart, overlay, clan, asks, choices,
  account, site, lifeMoves,
  historyNow, keeps, zone, stored, writing, rows, last, asked, historyGraph, sampleDue, had, historySeen,
  log, gearNow,
  toastsNow, toasts, held, fading, shown, gone,
  roles, sessions, due, sweep, logins, stage, connections, sessionMoves, since, passed

Markers == INSTANCE EventMarkers WITH
  Events <- MarkerEvents, Unshown <- MarkersUnshown, Own <- MarkersOwn, Spot <- OwnSpot,
  Spots <- PlayerSpots, Filters <- MarkerFilters, MaxMoves <- MaxMarkerMoves,
  now <- markersNow, replay <- markersReplay, seen <- markersSeen, moves <- markersMoves

Replays == INSTANCE Replay WITH
  Trails <- ReplayTrails, Steps <- ReplaySteps, MaxMoves <- MaxReplayMoves,
  trail <- replayTrail, selected <- replaySelected, moves <- replayMoves

TrailData == INSTANCE Trails WITH
  Tiles <- {1, 2}, Skews <- {-4, 1}, Lag <- 1, Period <- 3, MarkerLag <- 2, Gap <- 3,
  MaxPoints <- 2, MaxAge <- 4, MaxTime <- 6, MaxMoves <- 2,
  now <- trailsNow, seen <- trailsSeen, trail <- trailsTrail, moves <- trailsMoves

Players == INSTANCE PlayerViews WITH
  Players <- ViewedPlayers, Named <- NamedPlaces, Unnamed <- UnnamedPlaces,
  Shares <- SharedCategories, Periods <- GainPeriods, Day <- "day",
  MaxMoves <- MaxViewMoves, MaxPolls <- MaxViewPolls, MaxBoth <- MaxViewBoth,
  moves <- playersMoves

Charts == INSTANCE Boards WITH
  Names <- BoardNames, Periods <- BoardPeriods, Skills <- BoardSkills,
  NoSkill <- "none", MaxPlayers <- MaxBoardPlayers, MaxChoices <- MaxBoardChoices,
  graph <- boardsGraph

Life == INSTANCE SiteLife WITH
  Users <- LifeUsers, Admins <- LifeAdmins, Nobody <- "nobody", MaxMoves <- MaxLifeMoves,
  moves <- lifeMoves

History == INSTANCE SkillHistory WITH
  Parts <- BucketParts, Shown <- ShownBuckets, Keeps <- Retentions, Zones <- ViewerZones, MaxXp <- MaxSkillXp, MaxTime <- MaxSkillTime,
  now <- historyNow, graph <- historyGraph, due <- sampleDue, seen <- historySeen

Gear == INSTANCE GearTrips WITH
  Sets <- {{}, Ranged, Melee, Fishing, Bare}, TripGap <- 2, MinShared <- 2,
  MaxChanges <- 4, MaxTime <- 6,
  now <- gearNow

Toasts == INSTANCE EventToasts WITH
  Events <- ToastEvents, Notable <- NotableEvents, MaxTime <- MaxToastTime,
  now <- toastsNow

SignedIn == INSTANCE Sessions WITH
  Users <- SessionUsers, MaxMoves <- MaxSessionMoves,
  hub <- roles, held <- connections, moves <- sessionMoves

ASSUME MarkerConstants ==
  /\ Markers!TimesAreOrdered /\ Markers!PlacesAreNumbers
  /\ IsFiniteSet(MarkerEvents) /\ {MarkersMax, MaxClock, MaxMarkerMoves} \subseteq Nat
ASSUME UsersAreSomebody == {"nobody", Life!Untold} \cap LifeUsers = {}
ASSUME PlayersCanBe == Players!ViewConstants
ASSUME BoardsStart == "Day" \in BoardPeriods /\ "unknown" \notin BoardNames
ASSUME ToastsHaveTime == Toasts!ToastConstants
ASSUME TrailsCanBeReplayed == Replays!ReplayConstants
ASSUME SessionsCanBe == SignedIn!SessionConstants
ASSUME SamplesCanBe == History!HistoryConstants
ASSUME TrailData!TrailConstants

markersVars == <<markersNow, when, player, given, heard, isNews, live, places, marks, pops,
  markersReplay, filter, rendered, dirty, timer, put, markersSeen, markersMoves>>
replayVars == <<replayTrail, order, replaySelected, clock, controls, map, replayMoves>>
trailsVars == <<trailsNow, skew, hub, everyTile, sent, playing, changed, marker, trailsSeen, trailsTrail, answer,
  late, trailsMoves>>
playersVars == <<store, named, roster, table, profile, lastTab, lastPeriod, loads, playersMoves, polls>>
boardsVars == <<polled, boardsGraph, charts, chart, overlay, clan, asks, choices>>
lifeVars == <<account, site, lifeMoves>>
historyVars == <<historyNow, keeps, zone, stored, writing, rows, last, asked, historyGraph, sampleDue, had, historySeen>>
gearVars == <<log, gearNow>>
toastsVars == <<toastsNow, toasts, held, fading, shown, gone>>
sessionVars == <<roles, sessions, due, sweep, logins, stage, connections, sessionMoves, since, passed>>
allVars == <<part, vars, markersVars, replayVars, trailsVars, playersVars, boardsVars, lifeVars,
  historyVars, gearVars, toastsVars, sessionVars>>

-----------------------------------------------------------------------------
(* The variables of the parts a behaviour is not of.                       *)

NoView ==
  /\ where = 0 /\ online = 0 /\ camera = 0 /\ floor = 0 /\ updateRequested = 0
  /\ follow = 0 /\ replay = 0 /\ selected = 0 /\ markers = 0 /\ drawn = 0 /\ tile = 0
  /\ inView = 0 /\ data = 0 /\ event = 0 /\ pointer = 0 /\ hover = 0 /\ moves = 0
NoMarkers ==
  /\ markersNow = 0 /\ when = 0 /\ player = 0 /\ given = 0 /\ heard = 0 /\ isNews = 0
  /\ live = 0 /\ places = 0 /\ marks = 0 /\ pops = 0 /\ markersReplay = 0 /\ filter = 0
  /\ rendered = 0 /\ dirty = 0 /\ timer = 0 /\ put = 0 /\ markersSeen = 0
  /\ markersMoves = 0
NoReplay ==
  /\ replayTrail = 0 /\ order = 0 /\ replaySelected = 0 /\ clock = 0 /\ controls = 0
  /\ map = 0 /\ replayMoves = 0
NoTrails ==
  /\ trailsNow = 0 /\ skew = 0 /\ hub = 0 /\ everyTile = 0 /\ sent = 0 /\ playing = 0
  /\ changed = 0 /\ marker = 0 /\ late = 0 /\ trailsSeen = 0 /\ trailsTrail = 0 /\ answer = 0 /\ trailsMoves = 0
NoPlayers ==
  /\ store = 0 /\ named = 0 /\ roster = 0 /\ table = 0 /\ profile = 0 /\ lastTab = 0
  /\ lastPeriod = 0 /\ loads = 0 /\ playersMoves = 0 /\ polls = 0
NoBoards ==
  /\ polled = 0 /\ boardsGraph = 0 /\ charts = 0 /\ chart = 0 /\ overlay = 0 /\ clan = 0
  /\ asks = 0 /\ choices = 0
NoLife ==
  /\ account = 0 /\ site = 0 /\ lifeMoves = 0
NoHistory ==
  /\ historyNow = 0 /\ keeps = 0 /\ zone = 0 /\ stored = 0 /\ writing = 0 /\ rows = 0 /\ last = 0
  /\ asked = 0 /\ historyGraph = 0 /\ sampleDue = 0 /\ had = 0 /\ historySeen = 0
NoGear ==
  /\ log = 0 /\ gearNow = 0
NoToasts ==
  /\ toastsNow = 0 /\ toasts = 0 /\ held = 0 /\ fading = 0 /\ shown = 0 /\ gone = 0
NoSessions ==
  /\ roles = 0 /\ sessions = 0 /\ due = 0 /\ sweep = 0 /\ logins = 0 /\ stage = 0
  /\ connections = 0 /\ sessionMoves = 0 /\ since = 0 /\ passed = 0

-----------------------------------------------------------------------------
MCInit ==
  \E p \in Parts :
    /\ part = p
    /\ IF p = "view" THEN Init ELSE NoView
    /\ IF p = "markers" THEN Markers!Init ELSE NoMarkers
    /\ IF p = "replay" THEN Replays!Init ELSE NoReplay
    /\ IF p = "trails" THEN TrailData!Init ELSE NoTrails
    /\ IF p = "players" THEN Players!Init ELSE NoPlayers
    /\ IF p = "boards" THEN Charts!Init ELSE NoBoards
    /\ IF p = "life" THEN Life!Init ELSE NoLife
    /\ IF p = "history" THEN History!Init ELSE NoHistory
    /\ IF p = "gear" THEN Gear!Init ELSE NoGear
    /\ IF p = "toasts" THEN Toasts!Init ELSE NoToasts
    /\ IF p = "sessions" THEN SignedIn!Init ELSE NoSessions

OfView ==
  /\ part = "view" /\ Next
  /\ UNCHANGED <<part, markersVars, replayVars, trailsVars, playersVars, boardsVars, lifeVars,
       historyVars, gearVars, toastsVars, sessionVars>>
OfMarkers ==
  /\ part = "markers" /\ Markers!Next
  /\ UNCHANGED <<part, vars, replayVars, trailsVars, playersVars, boardsVars, lifeVars, historyVars,
       gearVars, toastsVars, sessionVars>>
OfReplay ==
  /\ part = "replay" /\ Replays!Next
  /\ UNCHANGED <<part, vars, markersVars, trailsVars, playersVars, boardsVars, lifeVars, historyVars,
       gearVars, toastsVars, sessionVars>>
OfTrails ==
  /\ part = "trails" /\ TrailData!Next
  /\ UNCHANGED <<part, vars, markersVars, replayVars, playersVars, boardsVars, lifeVars, historyVars,
       gearVars, toastsVars, sessionVars>>
OfPlayers ==
  /\ part = "players" /\ Players!Next
  /\ UNCHANGED <<part, vars, markersVars, replayVars, trailsVars, boardsVars, lifeVars, historyVars,
       gearVars, toastsVars, sessionVars>>
OfBoards ==
  /\ part = "boards" /\ Charts!Next
  /\ UNCHANGED <<part, vars, markersVars, replayVars, trailsVars, playersVars, lifeVars, historyVars,
       gearVars, toastsVars, sessionVars>>
OfLife ==
  /\ part = "life" /\ Life!Next
  /\ UNCHANGED <<part, vars, markersVars, replayVars, trailsVars, playersVars, boardsVars, historyVars,
       gearVars, toastsVars, sessionVars>>
OfHistory ==
  /\ part = "history" /\ History!Next
  /\ UNCHANGED <<part, vars, markersVars, replayVars, trailsVars, playersVars, boardsVars, lifeVars,
       gearVars, toastsVars, sessionVars>>
OfGear ==
  /\ part = "gear" /\ Gear!Next
  /\ UNCHANGED <<part, vars, markersVars, replayVars, trailsVars, playersVars, boardsVars, lifeVars,
       historyVars, toastsVars, sessionVars>>
OfToasts ==
  /\ part = "toasts" /\ Toasts!Next
  /\ UNCHANGED <<part, vars, markersVars, replayVars, trailsVars, playersVars, boardsVars, lifeVars,
       historyVars, gearVars, sessionVars>>

OfSessions ==
  /\ part = "sessions" /\ SignedIn!Next
  /\ UNCHANGED <<part, vars, markersVars, replayVars, trailsVars, playersVars, boardsVars, lifeVars,
       historyVars, gearVars, toastsVars>>

MCNext ==
  \/ OfView \/ OfMarkers \/ OfReplay \/ OfTrails \/ OfPlayers \/ OfBoards \/ OfLife 
  \/ OfHistory \/ OfGear \/ OfToasts \/ OfSessions

MCSpec == MCInit /\ [][MCNext]_allVars

-----------------------------------------------------------------------------
\* MapView: hover, press and drag, and a map at rest.
ViewIsWhole == part = "view" => ViewHolds /\ RestHolds

\* EventMarkers: what is on the map, what is certain of it, and that it is
\* drawn again.
MarkersAreWhole == part = "markers" => Markers!MarkersHold

\* EventMarkers: a certain place stays.
MarkersStay == part = "markers" => Markers!PlaceStays

\* Replay: the map and the clock.
ReplayIsWhole == part = "replay" => Replays!ReplayHolds

\* Replay: hops, waits, and getting on.
ReplayGoesOn == [][part = "replay" => Replays!PlayingGoesOn]_allVars

\* Trails: the trail that live points are added to.
TrailsAreWhole == part = "trails" => TrailData!TrailsHold

\* PlayerViews: the lists and the profile.
PlayersAgree == part = "players" => Players!PlayersAgree

\* Boards: the charts and the gains.
BoardsHold == part = "boards" => Charts!BoardsHold

\* SiteLife: what runs, covers the page, and is shown to whom.
LifeHolds == part = "life" => Life!LifeHolds

\* SkillHistory: the graph, made of samples.
GraphAgrees == part = "history" => History!GraphAgrees

\* GearTrips: the trips of a gear log.
TripsAgree == part = "gear" => Gear!TripsAgree

\* EventToasts: the toasts and their timers.
ToastsStay == part = "toasts" => Toasts!ToastsStay

\* Sessions: who is asked about when, and the connections.
SessionsHold == part = "sessions" => SignedIn!SessionsHold
=============================================================================
