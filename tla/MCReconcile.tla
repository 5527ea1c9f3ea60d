----------------------------- MODULE MCReconcile -----------------------------
(* Small instances of Reconcile: two processes that poll.                     *)
EXTENDS Reconcile

CONSTANTS m1, p1, p2, inbox, archive

MCMsgs == {m1}
MCProcs == {p1, p2}
MCHomes == {inbox, archive}
=============================================================================
