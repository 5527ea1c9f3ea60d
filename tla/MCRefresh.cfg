SPECIFICATION Spec
CONSTANTS
  Msgs <- MCMsgs
  Threads <- MCThreads
  Tags <- MCTags
  Views <- MCViews
  Flat <- MCFlat
  Query <- MCQuery
  FirstView = "inbox"
  MaxRev = 3
  MaxUuid = 2
  MaxPending = 1
INVARIANTS NoMissedRow NoAlienRow
PROPERTY CarryOver
CHECK_DEADLOCK FALSE
