CONSTANTS
  alice = alice
  bob = bob
  p1 = p1
  p2 = p2
  h1 = h1
  h2 = h2
  NoPane = NoPane
  Agents <- MCAgents
  Panes <- OnePane
  Bodies <- MCBodies
  MaxId = 4
  Strategy = "max"
  RecipientCap = 3
  SenderCap = 0
  CapFloor <- MCCapFloor
  Sendable <- BacklogMail
  Self = bob
  StuckThreshold = 2
  StaleThreshold = 2
  DriftCheck = FALSE
  Supported = {}
  Resets = {}
  Named <- MCAgents
  MaxFaults = 0
  MaxCrashes = 0
  KeepNewest = 1
  RegisterModes = {"paste-and-enter"}
  MaxRegisters = 1
  Hooks = {}
  MaxClaims = 0
  Home = p1
  HomeMode = "paste-and-enter"
  HomeSessions = {bob}
  Commands = {"ackall"}
  MayLimit = FALSE
  MaxMoves = 0
SPECIFICATION BusSpec
CHECK_DEADLOCK FALSE
INVARIANTS
  FencedWasAnnounced
PROPERTIES
  ShownInChannelOrder
  ReleasedByItsTrigger
