----------------------------- MODULE MCPollLoop -----------------------------
(* Small instances of PollLoop: a view with a sync command and one without. *)
EXTENDS PollLoop

MCViews == {"inbox", "work"}
MCHookViews == {"work"}
=============================================================================
