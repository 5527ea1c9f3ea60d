------------------------------- MODULE Services -------------------------------
(***************************************************************************)
(* What runs behind the terminal, three components that share no state:    *)
(* the hand-over of mails (Compose), the live configuration (Config) and   *)
(* the follow-up queue (Crm).  A behaviour is one of one of them, named by *)
(* part.                                                                   *)
(***************************************************************************)
EXTENDS Compose

CONSTANTS
  Room,                                                       \* events a channel of the bus holds
  Splits, Contents, Accounts, Given, BaseKeys, MaxEdits, MaxActs,   \* of Config
  Contacts, Old, PageSize, MaxPulls, MaxReviews               \* of Crm

VARIABLES
  part,                                                                         \* the component that runs
  dir, stamp, pc, last, next, todo, merged, store, ch, shown, edits, acts, missed,   \* of Config
  hub, due, pull, jobs, tuiCh, appCh, latest, queue, sel, pulled, brief, refs, dialogues,
  npulls, njobs, handled, dismissed, sent, excused, late, odd, seen             \* of Crm

Settings == INSTANCE Config

ASSUME ServicesAssumption ==
  /\ Room \in Nat /\ Splits \in Seq(Settings!Names) /\ Given \in [Settings!Names -> Contents \cup {Settings!Absent}]
  /\ Contacts \subseteq Int /\ Old \subseteq Contacts /\ IsFiniteSet(Old) /\ PageSize \in Nat

Queue == INSTANCE Crm WITH q <- queue, MaxJobs <- MaxReviews

cfgVars == <<dir, stamp, pc, last, next, todo, merged, store, ch, shown, edits, acts, missed>>
crmVars == <<hub, due, pull, jobs, tuiCh, appCh, latest, queue, sel, pulled, brief, refs, dialogues,
             npulls, njobs, handled, dismissed, sent, excused, late, odd, seen>>

-----------------------------------------------------------------------------
(* Properties.                                                             *)

\* the precedence of what the user wrote, while Config is the component that runs
UserWins == part = "config" => Settings!UserWins

\* the store of what the watcher took for loaded, likewise
Current == part = "config" => Settings!Current

\* the marker of every contact that is done with, while Crm runs
FollowUpsRecorded == part = "crm" => Queue!FollowUpsRecorded

\* no contact twice, likewise
NotOfferedAgain == part = "crm" => Queue!NotOfferedAgain
=============================================================================
