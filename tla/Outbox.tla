-------------------------------- MODULE Outbox --------------------------------
(***************************************************************************)
(* What the spool of scheduled mail promises (src/app/schedule.go): a mail *)
(* that is in it leaves it only after it was delivered at least once, or   *)
(* after it was given back to the user, or because a round failed to read  *)
(* it, each time by a failure of its own.  Nothing is said of how often it *)
(* is delivered, nor of who delivers it.                                   *)
(***************************************************************************)
EXTENDS Naturals

CONSTANT Mails

VARIABLES
  pending,   \* the mails somebody will deliver
  sends,     \* sends[m]: how often m was delivered
  returned,  \* the mails the user has opened again for editing
  unread     \* unread[m]: how often reading m failed

vars == <<pending, sends, returned, unread>>

Init == pending = {} /\ sends = [m \in Mails |-> 0] /\ returned = {} /\ unread = [m \in Mails |-> 0]

Accept(m) == pending' = pending \cup {m} /\ UNCHANGED <<sends, returned, unread>>

\* a delivery may be the end of a mail that was given back meanwhile
Send(m) ==
  /\ m \in pending
  /\ sends' = [sends EXCEPT ![m] = @ + 1]
  /\ pending' \in {pending, pending \ {m}}
  /\ UNCHANGED <<returned, unread>>

Return(m) ==
  /\ returned' = returned \cup {m}
  /\ pending' \in {pending, pending \ {m}}
  /\ UNCHANGED <<sends, unread>>

\* a mail that cannot be read is given up; it may come back
GiveUp(m) ==
  /\ unread' = [unread EXCEPT ![m] = @ + 1]
  /\ pending' = pending \ {m}
  /\ UNCHANGED <<sends, returned>>

Settle(m) ==
  /\ sends[m] > 0 \/ m \in returned
  /\ pending' = pending \ {m}
  /\ UNCHANGED <<sends, returned, unread>>

Next == \E m \in Mails : Accept(m) \/ Send(m) \/ Return(m) \/ GiveUp(m) \/ Settle(m)

Spec == Init /\ [][Next]_vars
=============================================================================
