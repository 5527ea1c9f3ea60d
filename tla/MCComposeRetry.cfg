\* The retry of a failed schedule: one dialogue, two jobs.
SPECIFICATION Spec
CONSTANTS
  MaxOpen = 1
  Searches = 1
  Cap = 1
  MaxJobs = 2
  MaxSecond = 2
PROPERTY RetryRepeats
CHECK_DEADLOCK FALSE
