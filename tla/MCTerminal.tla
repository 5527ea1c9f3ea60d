------------------------------ MODULE MCTerminal ------------------------------
(* Small instances of the terminal's components, side by side: they share   *)
(* no state, and a behaviour is one of one of them while the others rest.    *)
EXTENDS Terminal, TLC

CONSTANTS m1, m2

MCMsgs == {m1, m2}

(* Scripts: two runs, one from another program, and a channel with room for *)
(* one event.                                                               *)
MCEffects == <<{"attach"}, {}>>

(* Pager: lines shorter and longer than the window, two pictures, a link,   *)
(* and every way to cut a stream around a blank and a line's end.           *)
Row(n) == [text |-> [i \in 1..n |-> "a"], label |-> FALSE, picture |-> "none", rows |-> 0]
Label == [text |-> <<"a">>, label |-> TRUE, picture |-> "none", rows |-> 0]
Pic(k) == [text |-> <<"a", "a">>, label |-> FALSE, picture |-> k, rows |-> 0]
Seg(t, nl) == [text |-> t, nl |-> nl]

MCMails == { <<Row(3), Pic("block"), Label, Pic("inline"), Row(1)>> }
MCChunks ==
  { <<Seg(<<"a">>, FALSE)>>, <<Seg(<<"a", " ">>, FALSE)>>, <<Seg(<<" ", "a", "a", "a">>, FALSE)>>,
    <<Seg(<<>>, TRUE)>>, <<Seg(<<"a">>, TRUE), Seg(<<"a", "a">>, FALSE)>>,
    <<Seg(<<"a", " ">>, TRUE), Seg(<<>>, TRUE)>> }

(* Images: an embedded picture taller than its neighbour, and a remote one. *)
MCItems == <<"", "cid", "url", "">>
MCSize == ("cid" :> 3) @@ ("url" :> 2)

LuaRests ==
  /\ pc = 0 /\ asks = 0 /\ effects = 0 /\ out = 0 /\ waiters = 0 /\ box = 0 /\ tuiCh = 0 /\ appCh = 0
  /\ readers = 0 /\ held = 0 /\ execs = 0 /\ dialogue = 0 /\ at = 0 /\ tabs = 0 /\ opens = 0 /\ lost = 0
PagerRests == page = 0 /\ streamed = 0 /\ deltas = 0 /\ turns = 0 /\ odd = 0
ImagesRest ==
  /\ proto = 0 /\ content = 0 /\ look = 0 /\ painted = 0 /\ kimg = 0 /\ term = 0
  /\ fetches = 0 /\ layouts = 0 /\ nextLoad = 0 /\ presses = 0 /\ fresh = 0

MCInit ==
  /\ Init
  /\ \/ part = "surfaces" /\ LuaRests /\ PagerRests /\ ImagesRest
     \/ part = "lua" /\ Lua!Init /\ PagerRests /\ ImagesRest
     \/ part = "pager" /\ LuaRests /\ Page!Init /\ ImagesRest
     \/ part = "images" /\ LuaRests /\ PagerRests /\ Pics!Init

InSurfaces == part = "surfaces" /\ UNCHANGED <<part, luaVars, pagerVars, imgVars>>
InLua == part = "lua" /\ UNCHANGED <<part, vars, pagerVars, imgVars>>
InPager == part = "pager" /\ UNCHANGED <<part, vars, luaVars, imgVars>>
InImages == part = "images" /\ UNCHANGED <<part, vars, luaVars, pagerVars>>

MCNext == \/ InSurfaces /\ Next
          \/ InLua /\ Lua!Next
          \/ InPager /\ Page!Next
          \/ InImages /\ Pics!Next

MCSpec == MCInit /\ [][MCNext]_<<part, vars, luaVars, pagerVars, imgVars>>

Symmetric == Permutations(MCMsgs)

StreamWhole == part = "pager" => Page!StreamWhole
=============================================================================
