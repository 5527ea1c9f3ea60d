-------------------------------- MODULE MCView --------------------------------
EXTENDS View

MCTime == "a1" :> 1 @@ "a2" :> 2 @@ "a3" :> 3 @@ "a4" :> 5 @@ "b" :> 4
MCRefs == "a1" :> <<>> @@ "a2" :> <<"a1">> @@ "a3" :> <<"a1">> @@ "a4" :> <<"a1", "a2">> @@ "b" :> <<>>

MCThreads == <<"A", "B">>
Plain(ms) == [m \in ms |-> {}]

\* before and after a4 arrives, the newest of all; a2 is tagged deleted, a1 is gone
MCSnapshots == {
  "A" :> [a1 |-> {}, a2 |-> {"unread"}, a3 |-> {}] @@ "B" :> Plain({"b"}),
  "A" :> [a2 |-> {"deleted"}, a3 |-> {}, a4 |-> {}] @@ "B" :> Plain({"b"})}
MCFilters == {{"a2", "b"}}
MCOneMatch == {{"a2"}}
=============================================================================
