CONSTANTS
  alice = alice
  bob = bob
  p1 = p1
  p2 = p2
  h1 = h1
  h2 = h2
  NoPane = NoPane
  Agents <- MCAgents
  Panes <- OnePane
  Bodies <- MCBodies
  MaxId = 3
  Strategy = "max"
  RecipientCap = 1
  SenderCap = 0
  CapFloor <- MCCapFloor
  Sendable <- ControlMail
  Self = bob
  StuckThreshold = 2
  StaleThreshold = 2
  DriftCheck = TRUE
  Supported <- ResetBody
  Resets <- ResetBody
  Named <- MCAgents
  MaxFaults = 1
  MaxCrashes = 1
  KeepNewest = 0
  RegisterModes = {"paste-and-enter"}
  MaxRegisters = 0
  Hooks = {}
  MaxClaims = 0
  Home = p1
  HomeMode = "paste-and-enter"
  HomeSessions = {"none"}
  Commands = {"flush"}
  MayLimit = FALSE
  MaxMoves = 0
SPECIFICATION BusSpec
CHECK_DEADLOCK FALSE
INVARIANTS
  InFlightIsCurrent
  NoticesBounded
  QueueBounded
PROPERTIES
  BusImplementsDelivery
  ReleasedByItsTrigger
