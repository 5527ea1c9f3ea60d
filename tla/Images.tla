-------------------------------- MODULE Images --------------------------------
(***************************************************************************)
(* Pictures in the pager (src/tui/img.go, the loop's render in loop.go,    *)
(* the fetches of src/app/imgfetch.go).  The key that loads remote images  *)
(* fetches bytes and asks for the mail to be laid out anew; replies come   *)
(* in any order, or not at all.  A frame first settles which pictures of   *)
(* the window to paint and which painted ones to erase, then decodes what  *)
(* the window shows while it draws the text, then paints.  What the        *)
(* terminal holds is its own state: kitty keeps pictures by number and     *)
(* places them, sixel leaves pixels in the rows.                           *)
(*                                                                         *)
(* A picture is <<g, i>>: item i of the content that reply g brought; a    *)
(* new reply brings new objects.                                           *)
(***************************************************************************)
EXTENDS Integers, Sequences, FiniteSets

CONSTANTS
  Items,     \* the mail: rows of text "", and the pictures' sources, embedded or not
  Urls,      \* the sources that are remote
  Size,      \* Size[s]: the rows source s takes in a large window
  Protocols, \* those the terminal may have: "kitty", "sixel"
  Heights,   \* of the window
  MaxLoads, MaxActs   \* bounds: layouts asked for; keys that change more than the offset

VARIABLES
  proto,
  c,          \* the installed content: its reply, switch, pictures decoded, bytes held
  ui,         \* mode, height, offset, the toggle, caches, the hold
  painted,    \* what the program takes for painted: picture -> rect
  kimg,       \* the numbers of the transmitted pictures
  term,       \* the terminal: pictures by number, placements, pixels
  fetches, loads, next, acts,
  fresh       \* the last frame shows the state as it is

vars == <<proto, c, ui, painted, kimg, term, fetches, loads, next, acts, fresh>>
netVars == <<fetches, loads, next>>
tty == <<painted, kimg, term>>

Pictures == {i \in DOMAIN Items : Items[i] # ""}
Online(i) == Items[i] \in Urls
Max0(a) == IF a > 0 THEN a ELSE 0
Min2(a, b) == IF a < b THEN a ELSE b

Content(g, on, have) ==
  [gen |-> g, images |-> on, rows |-> [i \in Pictures |-> 0],
   data |-> {i \in Pictures : ~Online(i) \/ Items[i] \in have}]

Init ==
  /\ proto \in Protocols
  /\ c = Content(0, FALSE, {})
  /\ \E h \in Heights :
       ui = [mode |-> "pager", height |-> h, offset |-> 0, images |-> FALSE, imgMode |-> 0, remote |-> {},
             fetching |-> {}, refine |-> FALSE, hold |-> FALSE, seen |-> 0, crop |-> FALSE]
  /\ painted = <<>> /\ kimg = <<>>
  /\ term = [stored |-> <<>>, placed |-> <<>>, pixels |-> {}]
  /\ fetches = {} /\ loads = {} /\ next = 1 /\ acts = 0 /\ fresh = FALSE

-----------------------------------------------------------------------------
(* Layout.                                                                 *)

Expanded(k, i) == i \in Pictures /\ k.images /\ k.rows[i] > 0
Rows(k, i) == IF Expanded(k, i) THEN k.rows[i] ELSE 1
Above(k, i) == Cardinality(UNION {{j} \X (1..Rows(k, j)) : j \in 1..(i - 1)})   \* the rows above item i
Total(k) == Above(k, Len(Items) + 1)
Clamped(k, o, h) == Max0(Min2(o, Total(k) - h))
Relayout(u, k) == [u EXCEPT !.offset = Clamped(k, @, u.height)]

Visible(u, k) == {i \in Pictures : Above(k, i) < u.offset + u.height /\ Above(k, i) + Rows(k, i) > u.offset}

\* the cells of a picture, the tab bar above them, and its first visible row
Rect(u, k, i) ==
  LET top == Above(k, i) - u.offset
  IN [y |-> 1 + Max0(top), h |-> Min2(k.rows[i], u.height - top) - Max0(0 - top)]
CropOf(u, k, i) == Max0(u.offset - Above(k, i))

Live(u, k) == u.mode = "pager" /\ k.images

-----------------------------------------------------------------------------
(* The terminal.                                                           *)

FreeAll(t) == [t EXCEPT !.stored = <<>>, !.placed = <<>>]
Erase(t, rects) == [t EXCEPT !.pixels = {x \in @ : x.rect \notin rects}]
Without(f, gone) == [x \in DOMAIN f \ gone |-> f[x]]
RangeOf(f) == {f[x] : x \in DOMAIN f}
Over(f, g) == [x \in DOMAIN f \cup DOMAIN g |-> IF x \in DOMAIN g THEN g[x] ELSE f[x]]

\* clearImageRects
ClearRects ==
  /\ painted' = <<>> /\ kimg' = <<>>
  /\ term' = IF proto = "kitty" THEN FreeAll(term) ELSE Erase(term, RangeOf(painted))

-----------------------------------------------------------------------------
(* Decoding.                                                               *)

DecodeDue(u, k) ==
  IF Live(u, k) /\ ~u.hold THEN {i \in Visible(u, k) : i \in k.data /\ k.rows[i] = 0} ELSE {}
Decoded(k, due, h) ==
  [k EXCEPT !.rows = [i \in DOMAIN @ |-> IF i \in due THEN Min2(Size[Items[i]], h) ELSE @[i]]]

-----------------------------------------------------------------------------
(* A frame.                                                                *)

\* the decoded pictures in the window
Paintable(u, k) == IF Live(u, k) THEN {i \in Visible(u, k) : k.rows[i] > 0} ELSE {}

PaintsOf(u, k) ==
  [x \in {<<k.gen, i>> : i \in Paintable(u, k)} |-> [rect |-> Rect(u, k, x[2]), top |-> CropOf(u, k, x[2])]]

\* the others: the terminal still has them where they are
Moved(paint) == {x \in DOMAIN paint : x \notin DOMAIN painted \/ painted[x] # paint[x].rect}

NewIds(new) == [x \in new |-> Cardinality(DOMAIN kimg) + Cardinality({y \in new : y[2] <= x[2]})]
Transmit(t, ids) == [t EXCEPT !.stored = Over(@, [n \in RangeOf(ids) |-> CHOOSE x \in DOMAIN ids : ids[x] = n])]
Place(t, ids, paint, due) ==
  [t EXCEPT !.placed = Over(@, [n \in {ids[x] : x \in due} |-> paint[CHOOSE x \in due : ids[x] = n]])]
Unplace(t, gone) == [t EXCEPT !.placed = Without(@, {kimg[x] : x \in gone})]

\* mutant: a picture that left the window keeps its placement
KittyLeaves(paint, new) ==
  /\ painted' = [x \in DOMAIN paint |-> paint[x].rect] /\ kimg' = Over(kimg, new)
  /\ term' = Place(Transmit(term, new), Over(kimg, new), paint, Moved(paint))

\* a picture that left is taken off, a new one is transmitted once, and what
\* moved is placed
PaintKitty(paint, new) ==
  /\ painted' = [x \in DOMAIN paint |-> paint[x].rect] /\ kimg' = Over(kimg, new)
  /\ term' = Place(Transmit(Unplace(term, DOMAIN painted \ DOMAIN paint), new), Over(kimg, new), paint, Moved(paint))

Kitty(paint) == PaintKitty(paint, NewIds(DOMAIN paint \ DOMAIN kimg))

\* every painted rect is erased, the unchanged ones too; what moved is painted
PaintSixel(paint, due) ==
  /\ painted' = IF due = {} THEN painted ELSE [x \in due |-> paint[x].rect]
  /\ term' = [term EXCEPT !.pixels = {x \in @ : x.rect \notin RangeOf(painted)}
                                     \cup {[pic |-> x, rect |-> paint[x].rect, top |-> paint[x].top] : x \in due}]
  /\ UNCHANGED kimg

\* the same pictures somewhere else: a scroll is under way
Translated(paint, due) == \A x \in due : paint[x].rect.h = painted[x].h
Same(due) == due # {} /\ due = DOMAIN painted

\* the text of a frame decodes what the window shows, too late for its pictures
Text(u) ==
  /\ c' = Decoded(c, DecodeDue(u, c), u.height) /\ ui' = Relayout(u, c')
  /\ fresh' = (DecodeDue(u, c) = {})

FrameSixel(paint, due) ==
  \/ ui.hold /\ Live(ui, c) /\ UNCHANGED tty /\ Text(ui)
  \/ /\ ~(ui.hold /\ Live(ui, c)) /\ Same(due) /\ (Translated(paint, due) \/ ui.crop)
     /\ ClearRects /\ Text([ui EXCEPT !.hold = TRUE, !.crop = FALSE, !.seen = ui.offset])
  \/ /\ ~(ui.hold /\ Live(ui, c)) /\ ~(Same(due) /\ Translated(paint, due))
     /\ PaintSixel(paint, due) /\ Text([ui EXCEPT !.crop = @ \/ Same(due)])

Frame ==
  /\ IF proto = "kitty" THEN Kitty(PaintsOf(ui, c)) /\ Text(ui)
     ELSE FrameSixel(PaintsOf(ui, c), Moved(PaintsOf(ui, c)))
  /\ UNCHANGED <<proto, netVars, acts>>

\* the tick of a hold: lifted once the pager rests
Settle ==
  /\ ui.hold /\ UNCHANGED <<proto, tty, netVars, acts>> /\ fresh' = FALSE
  /\ IF ~Live(ui, c) THEN ui' = [ui EXCEPT !.hold = FALSE] /\ UNCHANGED c
     ELSE IF ui.offset # ui.seen THEN ui' = [ui EXCEPT !.seen = ui.offset] /\ UNCHANGED c
     ELSE /\ c' = Decoded(c, DecodeDue([ui EXCEPT !.hold = FALSE], c), ui.height)
          /\ ui' = Relayout([ui EXCEPT !.hold = FALSE], c')

-----------------------------------------------------------------------------
(* Keys.                                                                   *)

Act == acts < MaxActs /\ acts' = acts + 1 /\ fresh' = FALSE

Scroll ==
  /\ ui.mode = "pager" /\ fresh' = FALSE
  /\ \E n \in {1, 0 - 1, ui.height} :
       ui' = [ui EXCEPT !.offset = Clamped(c, @ + n, ui.height)] /\ ui' # ui
  /\ UNCHANGED <<proto, c, tty, netVars, acts>>

\* reopenDispatch
Ask(on, refine) ==
  next <= MaxLoads /\ next' = next + 1 /\ loads' = loads \cup {[gen |-> next, on |-> on, refine |-> refine]}

\* fetchRemoteImages
Missing == {Items[i] : i \in {j \in Pictures : Online(j) /\ j \notin c.data}} \ ui.fetching

ToggleOn ==
  /\ ui.imgMode = 0 /\ Ask(TRUE, FALSE)
  /\ c' = [c EXCEPT !.images = TRUE]
  /\ ui' = Relayout([ui EXCEPT !.hold = FALSE, !.imgMode = 1, !.fetching = @ \cup Missing], c')
  /\ fetches' = fetches \cup Missing /\ UNCHANGED tty

\* dropRemoteData: nothing from the network outlives the switch
ToggleOff ==
  /\ ui.imgMode = 1 /\ Ask(FALSE, FALSE) /\ ClearRects
  /\ c' = [c EXCEPT !.images = FALSE, !.data = {i \in @ : ~Online(i)},
                    !.rows = [i \in DOMAIN @ |-> IF Online(i) THEN 0 ELSE @[i]]]
  /\ ui' = Relayout([ui EXCEPT !.hold = FALSE, !.imgMode = 0, !.remote = {}, !.refine = FALSE], c')
  /\ UNCHANGED fetches

Toggle == ui.mode = "pager" /\ Act /\ (ToggleOn \/ ToggleOff) /\ UNCHANGED proto

\* q shows the index, reply opens a dialogue in a while; both clear
Back ==
  /\ ui.mode = "pager" /\ Act /\ ClearRects
  /\ ui' \in {[ui EXCEPT !.mode = "index"], ui}
  /\ UNCHANGED <<proto, c, netVars>>

\* a dialogue's tab, and the mail again
SwitchTab ==
  /\ ui.mode # "index" /\ Act
  /\ ui' = [ui EXCEPT !.mode = IF @ = "pager" THEN "compose" ELSE "pager"]
  /\ UNCHANGED <<proto, c, tty, netVars>>

Open == ui.mode = "index" /\ Act /\ Ask(FALSE, FALSE) /\ UNCHANGED <<proto, c, ui, tty, fetches>>

\* resetImages: cells have another size
Resize ==
  /\ Act /\ ClearRects
  /\ c' = [c EXCEPT !.rows = [i \in DOMAIN @ |-> 0]]
  /\ \E h \in Heights : ui' = Relayout([ui EXCEPT !.height = h, !.hold = FALSE], c')
  /\ UNCHANGED <<proto, netVars>>

-----------------------------------------------------------------------------
(* Replies.  The bus may drop either.                                      *)

\* attachFetched: a size that is new asks for a layout that seats it
FetchOk(url) ==
  /\ c' = [c EXCEPT !.data = @ \cup {i \in Pictures : Items[i] = url}]
  /\ LET u == [ui EXCEPT !.fetching = @ \ {url}, !.remote = @ \cup {url}]
     IN IF url \notin ui.remote /\ u.images /\ u.fetching = {} /\ ~u.refine
        THEN Ask(TRUE, TRUE) /\ ui' = Relayout([u EXCEPT !.refine = TRUE], c')
        ELSE ui' = Relayout(u, c') /\ UNCHANGED <<loads, next>>

Fetched(url) ==
  /\ url \in fetches /\ fetches' = fetches \ {url} /\ fresh' = FALSE
  /\ \/ ui.imgMode = 1 /\ FetchOk(url)
     \/ ui.imgMode = 1 /\ ui' = [ui EXCEPT !.fetching = @ \ {url}] /\ UNCHANGED <<c, loads, next>>
     \/ UNCHANGED <<c, ui, loads, next>>
  /\ UNCHANGED <<proto, tty, acts>>

\* onThreadLoaded, of the mail that is open
Replaces(l) == l.on # ui.images \/ l.refine
Landed(u) == IF u.mode = "compose" THEN u ELSE [u EXCEPT !.mode = "pager"]

Replace(l, have) ==
  /\ c' = Content(l.gen, l.on, have)
  /\ ui' = Landed(Relayout([ui EXCEPT !.images = l.on, !.hold = FALSE, !.crop = FALSE, !.remote = have,
                                      !.imgMode = IF l.on THEN 1 ELSE 0, !.refine = @ /\ ~l.refine], c'))

Loaded(l) ==
  /\ l \in loads /\ loads' = loads \ {l} /\ fresh' = FALSE
  /\ IF l.refine /\ ~ui.images THEN ui' = [ui EXCEPT !.refine = FALSE] /\ UNCHANGED c
     ELSE IF Replaces(l) THEN Replace(l, IF l.on THEN ui.remote ELSE {})
     ELSE ui' = Landed(ui) /\ UNCHANGED c
  /\ UNCHANGED <<proto, tty, fetches, next, acts>>

Lost(l) == l \in loads /\ loads' = loads \ {l} /\ UNCHANGED <<proto, c, ui, tty, fetches, next, acts, fresh>>

-----------------------------------------------------------------------------
Key == Scroll \/ Toggle \/ Back \/ SwitchTab \/ Open \/ Resize

Next == \/ Key \/ Frame \/ Settle
        \/ \E url \in Urls : Fetched(url)
        \/ \E l \in loads : Loaded(l) \/ Lost(l)

Spec == Init /\ [][Next]_vars

-----------------------------------------------------------------------------
(* Properties.                                                             *)

\* "the terminal still holds this exact placement": after a frame that decoded
\* nothing, kitty shows the decoded pictures of the window, each one at its rows
\* and cut as they are, and no other; what sixel shows is never out of place.
\* (It may lack a picture: every painted rect is erased before each frame, and
\* those that did not move are not painted again.)
PicturesAgree ==
  fresh => LET paint == PaintsOf(ui, c)
           IN IF proto = "kitty"
              THEN /\ \A x \in DOMAIN paint : term.stored[kimg[x]] = x
                   /\ term.placed = [n \in {kimg[x] : x \in DOMAIN paint} |-> paint[CHOOSE x \in DOMAIN paint : kimg[x] = n]]
              ELSE \A q \in term.pixels : q.pic \in DOMAIN paint /\ paint[q.pic] = [rect |-> q.rect, top |-> q.top]
=============================================================================
