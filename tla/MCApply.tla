------------------------------- MODULE MCApply -------------------------------
(* A small instance of Apply: two messages in one thread, one tag, and the *)
(* views of the unread mail and of the rest.                               *)
EXTENDS Apply

MCMsgs == {"m1", "m2"}
MCThreads == {"t1", "t2"}
MCTogether == [m \in MCMsgs |-> "t1"]
MCTags == {"unread"}
MCRead == [tag |-> "unread", add |-> FALSE]
MCOps == {[tag |-> "unread", add |-> TRUE], MCRead}

MCViews == {"unread", "rest"}
MCFlat == {"rest"}
MCQuery == [v \in MCViews |-> {T \in SUBSET MCTags : "unread" \in T <=> v = "unread"}]
\* "tag:new or not tag:unread": the first alternative is what id:m does not bind
MCLooseRest == [v \in MCViews |-> IF v = "rest" THEN {{}} ELSE {}]
=============================================================================
