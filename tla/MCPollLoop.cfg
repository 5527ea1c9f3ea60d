\* The event loop: one mail, and one act of the user, of another job or process,
\* or one failing call.  With the automatic poll off the system may rest.
SPECIFICATION FairSpec
CONSTANTS
  Views <- MCViews
  HookViews <- MCHookViews
  FirstView = "work"
  Capacity = 4
  Burst = 1
  MaxMail = 1
  MaxActs = 1
  MaxSpawn = 1
INVARIANTS SingleFlight OnePipeline
PROPERTY Converges
CHECK_DEADLOCK FALSE
