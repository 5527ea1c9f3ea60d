\* One message, with a header rule or without, two processes that poll, one change and one fault.
SPECIFICATION FairSpec
CONSTANTS
  m1 = m1
  p1 = p1
  p2 = p2
  inbox = inbox
  archive = archive
  None = None
  NoTmp = NoTmp
  Msgs <- MCMsgs
  Homes <- MCHomes
  Inbox = inbox
  Procs <- MCProcs
  MaxChange = 1
  MaxFault = 1
  MaxRev = 4
INVARIANTS NothingForgotten FloorIsPast
PROPERTY ClassifiedInTheEnd
CHECK_DEADLOCK FALSE
