CONSTANTS
  alice = alice
  bob = bob
  carol = carol
  p1 = p1
  p2 = p2
  p3 = p3
  c1 = c1
  c2 = c2
  c3 = c3
  NoPane = NoPane
  Operator = Operator
  Agents <- MCAgents
  Payers <- MCAgents
  Panes <- MCPanes
  Home <- MCHome
  Bodies <- MCBodies
  MaxId = 5
  Strategy = "max"
  RecipientCap = 1
  SenderCap = 0
  CapFloor <- MCCapFloor
  Sendable <- MCSendable
  Calls = {c1, c2, c3}
  Plans <- SendPlans
  Window = 2
  Length <- MCLength
  PoolOf <- MCPoolOf
  Throttles <- MCThrottles
  Unthrottled = {}
  MaxStagger = 1
  MaxRecipients = 2
  Edges <- MCEdges
  Capacity = 300
  RefillPerTick = 50
  Minute = 2
  Alpha = 37
  Breadth <- MCBreadth
  Asked <- MCAsked
  MaxClock = 2
  Movable = {carol}
  MaxMoves = 1
  Swept = {alice}
  Retention = 1
SPECIFICATION FairOutboxSpec
CHECK_DEADLOCK FALSE
INVARIANTS
  BalanceInBounds
  RefillsOnce
  SplittingIsNeutral
  RefusalAdviceHolds
  NoMissedRing
  RepliesHaveParents
PROPERTIES
  WaitersReturn
