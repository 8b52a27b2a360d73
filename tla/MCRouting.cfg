CONSTANTS
  alice = alice
  bob = bob
  p1 = p1
  p2 = p2
  h1 = h1
  h2 = h2
  NoPane = NoPane
  Agents <- MCAgents
  Panes <- TwoPanes
  Bodies <- MCBodies
  MaxId = 1
  Strategy = "max"
  RecipientCap = 1
  SenderCap = 0
  CapFloor <- MCCapFloor
  Sendable <- OneSender
  Self = bob
  StuckThreshold = 2
  StaleThreshold = 2
  DriftCheck = TRUE
  Supported = {}
  Resets = {}
  Named = {alice}
  MaxFaults = 0
  MaxCrashes = 1
  KeepNewest = 0
  RegisterModes = {"paste-and-enter"}
  MaxRegisters = 1
  Hooks = {}
  MaxClaims = 0
  Home = p1
  HomeMode = "paste-and-enter"
  HomeSessions = {"none", bob}
  Commands = {}
  MayLimit = FALSE
  MaxMoves = 3
SPECIFICATION BusSpec
CHECK_DEADLOCK FALSE
INVARIANTS
  DuplicatesBounded
PROPERTIES
  PastesReachAgent
