SPECIFICATION Spec
CONSTANTS
  Msgs = {"a1", "a2", "a3", "a4", "b"}
  Time <- MCTime
  Refs <- MCRefs
  ThreadIds <- MCThreads
  Snapshots <- MCSnapshots
  Filters <- MCOneMatch
  Found = {"a3", "b"}
  Leaving = {"a1"}
  Window = 2
  Height = 2
  NoMsg = "none"
  NoFilter = NoFilter
INVARIANTS StaysUp
CHECK_DEADLOCK FALSE
