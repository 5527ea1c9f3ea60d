------------------------------ MODULE MCSchedule ------------------------------
(* A small instance of Schedule: two mails, composed in two clients.       *)
EXTENDS Schedule

CONSTANTS m1, m2, p1, p2

MCMails == {m1, m2}
MCProcs == {p1, p2}
MCOwner == [m \in MCMails |-> IF m = m1 THEN p1 ELSE p2]
=============================================================================
