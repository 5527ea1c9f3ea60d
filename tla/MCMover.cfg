\* One message, two movers, one fault or rename.
SPECIFICATION MCSpec
CONSTANTS
  m1 = m1
  p1 = p1
  p2 = p2
  inbox = inbox
  archive = archive
  trash = trash
  work = work
  Msgs <- MCMsgs
  Folders <- MCFolders
  Inbox = inbox
  Targets <- MCTargets
  Movers <- MCMovers
  Nobody = Nobody
  MaxTrouble = 1
INVARIANTS NoLoss KeepsRecord CopyStands
SYMMETRY MCSymmetry
