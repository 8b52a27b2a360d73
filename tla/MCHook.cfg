CONSTANTS
  alice = alice
  bob = bob
  p1 = p1
  p2 = p2
  h1 = h1
  h2 = h2
  NoPane = NoPane
  Agents <- MCAgents
  Panes <- OnePane
  Bodies <- MCBodies
  MaxId = 2
  Strategy = "max"
  RecipientCap = 2
  SenderCap = 0
  CapFloor <- MCCapFloor
  Sendable <- OneSender
  Self = bob
  StuckThreshold = 2
  StaleThreshold = 2
  DriftCheck = FALSE
  Supported = {}
  Resets = {}
  Named <- MCAgents
  MaxFaults = 0
  MaxCrashes = 0
  KeepNewest = 0
  RegisterModes = {"hook-context"}
  MaxRegisters = 1
  Hooks = {h1, h2}
  MaxClaims = 2
  Home = p1
  HomeMode = "paste-and-enter"
  HomeSessions = {bob}
  Commands = {}
  MayLimit = FALSE
  MaxMoves = 0
SYMMETRY HookSymmetry
SPECIFICATION BusSpec
CHECK_DEADLOCK FALSE
INVARIANTS
  PresentedOnce
  LoneHookLosesNothing
