SPECIFICATION MCSpec
CONSTANTS
  LifeUsers = {"u", "a"}
  LifeAdmins = {"a"}
  MaxLifeMoves = 3
  BoardNames = {"p", "q"}
  BoardPeriods = {"Day", "Week"}
  BoardSkills = {"Overall", "Agility"}
  MaxBoardPlayers = 1
  MaxBoardChoices = 4
  MarkerEvents = {"drop", "death"}
  MarkersUnshown = {}
  MarkersOwn = {"death"}
  OwnSpot = 9
  PlayerSpots = {1, 2}
  MarkerFilters = {{"drop", "death"}}
  MarkerMs = 2
  FreshMs = 1
  RingMs = 1
  MarkersMax = 1
  PopMax = 1
  MaxClock = 2
  MaxMarkerMoves = 2
  ToastEvents = {1, 2, 3}
  NotableEvents = {3}
  ToastMs = 2
  NotableMs = 3
  LeaveMs = 1
  ToastMax = 2
  MaxToastTime = 5
  ReplayTrails <- MCTrails
  IdleSkip = 3
  IdleLead = 1
  ReplaySteps = {1, 2}
  HoldFrames = 1
  HopFrames = 2
  MaxReplayMoves = 4
  SessionUsers = {"u", "v"}
  Requests = {1, 2}
  Connections = 1
  SweepMembers = 1
  MaxSessions = 3
  MaxSessionMoves = 2
  ViewedPlayers = {1, 2}
  NamedPlaces = {"Varrock"}
  UnnamedPlaces = {"sea"}
  SharedCategories = {{"activity", "inventory"}, {"location", "hiscores"}}
  GainPeriods = {"day", "week"}
  MaxViewMoves = 3
  MaxViewPolls = 2
  MaxViewBoth = 4
  BucketParts = 2
  ViewerZones <- MCZones
  ShownBuckets = 2
  Retentions = {2, 4}
  LevelStarts = {0, 2}
  MaxSkillXp = 2
  MaxSkillTime = 6
  ann = ann
  bob = bob
  NoOne = NoOne
  Names = {ann, bob}
  Areas = {1, 2}
  FirstArea = 1
  Terrain <- MCTerrain
  Link = 1
  LinkTo <- MCUpstairs
  EventAt <- MCUpstairs
  EventOf = ann
  Frames = 2
  MaxMoves = 2
INVARIANTS
  ViewIsWhole
  MarkersAreWhole
  MarkersStay
  ReplayIsWhole
  TrailsAreWhole
  PlayersAgree
  BoardsHold
  LifeHolds
  GraphAgrees
  TripsAgree
  ToastsStay
  SessionsHold
PROPERTIES
  ReplayGoesOn
CHECK_DEADLOCK FALSE
