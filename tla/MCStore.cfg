CONSTANTS
  alice = alice
  bob = bob
  p1 = p1
  NoPane = NoPane
  Agents <- MCAgents
  Panes <- OnePane
  Bodies = {"b"}
  MaxId = 3
  Strategy = "max"
  RecipientCap = 1
  SenderCap = 1
  CapFloor <- MCCapFloor
  Sendable <- MCSendable
SPECIFICATION StoreSpec
CONSTRAINT SwitchesAtDefault
INVARIANTS
  VerdictIffDelivered
  OnePaneOneIdentity
PROPERTIES
  LifeCycle
  ClaimsInChannelOrder
