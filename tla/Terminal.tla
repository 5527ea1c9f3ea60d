------------------------------- MODULE Terminal -------------------------------
(***************************************************************************)
(* Four sides of the terminal that share no state: its surfaces            *)
(* (Surfaces), its event loop with the Lua runs that ask through it        *)
(* (Scripts), the text of a pager (Pager) and the pictures of a mail       *)
(* (Images).  A behaviour is one of one of them, named by part.            *)
(***************************************************************************)
EXTENDS Surfaces

CONSTANTS
  Runs, Remote, Effects, Cap, MaxAsks, MaxTabs, MaxOpens,               \* of Scripts
  Letters, Mails, Chunks, Widths, PageHeights, Themes, Margin, Step, MaxChunks, MaxChanges,  \* of Pager
  Items, Urls, Size, Protocols, Heights, MaxLayouts, MaxPresses         \* of Images

VARIABLES
  part,                                                                 \* the component that runs
  pc, asks, effects, out, waiters, box, tuiCh, appCh,                   \* of Scripts
  readers, held, execs, dialogue, at, tabs, opens, lost,
  page, streamed, deltas, turns, odd,                                   \* of Pager
  proto, content, look, painted, kimg, term, fetches, layouts, nextLoad, presses, fresh   \* of Images

Lua == INSTANCE Scripts

Page == INSTANCE Pager WITH p <- page, given <- streamed, chunks <- deltas, changes <- turns, Heights <- PageHeights

Pics == INSTANCE Images WITH c <- content, ui <- look, loads <- layouts, next <- nextLoad, acts <- presses,
                             MaxLoads <- MaxLayouts, MaxActs <- MaxPresses

\* a text is made of letters, blanks and the ends of its lines
Cell == Letters \cup {Page!Space, Page!Newline}
Text == Seq(Cell)
Line == [text : Text, label : BOOLEAN, picture : {"none", "block", "inline"}, rows : Nat]

ASSUME PagerAssumption ==
  /\ {"s", "e"} \subseteq Letters /\ Mails \subseteq Seq(Line) /\ Chunks \subseteq Seq([text : Text, nl : BOOLEAN])
  /\ Widths \subseteq Nat \ {0} /\ PageHeights \subseteq Nat /\ Margin \in Nat /\ Step \in Nat

ASSUME TerminalAssumption ==
  /\ Items \in Seq(STRING) /\ Protocols \subseteq {"kitty", "sixel"} /\ Heights \subseteq Nat
  /\ \A i \in DOMAIN Items : Items[i] \in {""} \cup DOMAIN Size
  /\ Size \in [DOMAIN Size -> Nat]

luaVars == <<pc, asks, effects, out, waiters, box, tuiCh, appCh, readers, held, execs, dialogue, at, tabs, opens, lost>>
pagerVars == <<page, streamed, deltas, turns, odd>>
imgVars == <<proto, content, look, painted, kimg, term, fetches, layouts, nextLoad, presses, fresh>>

-----------------------------------------------------------------------------
(* Properties.                                                             *)

\* the reader's account of Scripts, while that is the component that runs
OneReader == part = "lua" => Lua!OneReader

\* no question forgotten, likewise
QuestionHeld == part = "lua" => Lua!QuestionHeld

\* the window of Pager, likewise
WindowTrue == part = "pager" => Page!WindowTrue

\* the placements and the pixels of Images, while that is the component that runs
PicturesAgree == part = "images" => Pics!PicturesAgree
=============================================================================
