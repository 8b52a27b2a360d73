CONSTANTS
  alice = alice
  bob = bob
  p1 = p1
  p2 = p2
  h1 = h1
  h2 = h2
  NoPane = NoPane
  Agents <- MCAgents
  Panes <- OnePane
  Bodies <- MCBodies
  MaxId = 2
  Strategy = "max"
  RecipientCap = 1
  SenderCap = 0
  CapFloor <- MCCapFloor
  Sendable <- ResumeMail
  Self = bob
  StuckThreshold = 2
  StaleThreshold = 2
  DriftCheck = TRUE
  Supported = {}
  Resets = {}
  Named <- MCAgents
  MaxFaults = 0
  MaxCrashes = 1
  KeepNewest = 0
  RegisterModes = {"paste-and-enter"}
  MaxRegisters = 0
  Hooks = {}
  MaxClaims = 0
  Home = p1
  HomeMode = "paste-and-enter"
  HomeSessions = {bob}
  Commands = {"compact", "pause", "ack"}
  MayLimit = TRUE
  MaxMoves = 1
SPECIFICATION FairBusSpec
CHECK_DEADLOCK FALSE
PROPERTIES
  EventuallyHandled
  CompactReleases
