\* Two mails and two clients, two faults: crashes, failing writes, reads and removals.
\* When all is sent the clients only tick.
SPECIFICATION FairSpec
CONSTANTS
  m1 = m1
  m2 = m2
  p1 = p1
  p2 = p2
  Mails <- MCMails
  Procs <- MCProcs
  Owner <- MCOwner
  Nobody = Nobody
  NoMail = NoMail
  MaxFault = 2
INVARIANTS OneDeliverer TwiceOnlyAfterMiss
PROPERTIES Promise SentInTheEnd
