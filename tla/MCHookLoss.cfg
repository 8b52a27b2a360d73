CONSTANTS
  alice = alice
  bob = bob
  p1 = p1
  p2 = p2
  h1 = h1
  h2 = h2
  NoPane = NoPane
  Agents <- MCAgents
  Panes <- OnePane
  Bodies <- MCBodies
  MaxId = 2
  Strategy = "max"
  RecipientCap = 2
  SenderCap = 0
  CapFloor <- MCCapFloor
  Sendable <- OneSender
  Self = bob
  StuckThreshold = 2
  StaleThreshold = 2
  DriftCheck = TRUE
  Supported = {}
  Resets = {}
  Named <- MCAgents
  MaxFaults = 1
  MaxCrashes = 0
  KeepNewest = 0
  RegisterModes = {"paste-and-enter"}
  MaxRegisters = 0
  Hooks = {h1}
  MaxClaims = 2
  Home = p1
  HomeMode = "hook-context"
  HomeSessions = {"none", bob}
  Commands = {}
  MayLimit = FALSE
  MaxMoves = 0
SPECIFICATION BusSpec
CHECK_DEADLOCK FALSE
INVARIANTS
  HookLosesNothing
