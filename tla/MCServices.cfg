\* Two dialogues, two jobs, two seconds; the other components' instances are in
\* the module.  A crashed client has stopped.
SPECIFICATION MCSpec
CONSTANTS
  MaxOpen = 2
  Searches = 1
  Cap = 1
  MaxJobs = 2
  MaxSecond = 2
  Room = 1
  Splits <- MCSplits
  Contents <- MCContents
  Accounts <- MCAccounts
  Given <- MCStart
  BaseKeys <- MCBaseKeys
  MaxEdits = 2
  MaxActs = 1
  Contacts = {1, 2}
  Old = {1}
  PageSize = 1
  MaxPulls = 2
  MaxReviews = 2
INVARIANTS TwiceOnlyOverlapping KeptSomewhere NeverWedged UserWins Current FollowUpsRecorded NotOfferedAgain
PROPERTIES ClosedStaysClosed
CHECK_DEADLOCK FALSE
