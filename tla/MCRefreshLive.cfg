SPECIFICATION FairSpec
CONSTANTS
  Msgs <- MCMsgs
  Threads <- MCOneThread
  Tags <- MCTags
  Views <- MCViews
  Flat <- MCFlat
  Query <- MCQuery
  FirstView = "inbox"
  MaxRev = 2
  MaxUuid = 1
  MaxPending = 1

PROPERTY Converges
CHECK_DEADLOCK FALSE
