------------------------------ MODULE MCRefresh ------------------------------
(* Small instances of Refresh: two messages in two threads, one tag, a     *)
(* threaded view of the tagged messages and a flat one of the untagged.    *)
EXTENDS Refresh

MCMsgs == {"m1", "m2"}
MCThreads == {"t1", "t2"}
MCTags == {"inbox"}
MCViews == {"inbox", "rest"}
MCFlat == {"rest"}
MCOneThread == {"t1"}
MCQuery == [v \in MCViews |-> IF v = "inbox" THEN {{"inbox"}} ELSE {{}}]
=============================================================================
