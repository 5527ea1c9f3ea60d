SPECIFICATION FairSpec
CONSTANTS
  Msgs <- MCMsgs
  Threads <- MCThreads
  ThreadOf <- MCTogether
  Tags <- MCTags
  Views <- MCViews
  Flat <- MCFlat
  FirstView = "unread"
  Query <- MCQuery
  Loose <- MCLooseRest
  Ops <- MCOps
  ReadOp <- MCRead
  Nil = Nil
  Jobs = {j1}
  Failures = {"tag", "late", "check"}
  MaxRev = 2
  MaxGen = 2
  MaxSwitch = 1
INVARIANTS NoGhostRow
PROPERTIES Drains StagedSurvive
CHECK_DEADLOCK FALSE
