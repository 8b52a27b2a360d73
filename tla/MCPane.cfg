CONSTANTS
  long = long
  short = short
  Msgs <- MCMsgs
  Long <- MCLong
  Drafts = {"word", "block"}
  Looks <- MCLooks
  MaxInput = 2
  MaxMoves = 2
  DraftNotices = {}
  StaleAfter = 1
  MaxWait = 2
  FailThreshold = 2
  MaxErrors = 1
  Retries = 1
  Extra = 0
  SettleExtra = 2
SPECIFICATION PaneSpec
CHECK_DEADLOCK FALSE
INVARIANTS
  VerifiedWasSubmitted
PROPERTIES
  DraftsAreSpared
  ModalsAreSpared
  ClearedWasArchived
  PaneImplementsDelivery
  NoStacking
