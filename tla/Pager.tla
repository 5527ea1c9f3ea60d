-------------------------------- MODULE Pager --------------------------------
(***************************************************************************)
(* The pager (src/tui/pager.go, viewport.go) and what the model does to it *)
(* (src/tui/model.go).  A pager holds the lines of a mail, or those of a   *)
(* summary that streams in.  Lines are styled lazily, the window and a     *)
(* margin at a time, into two caches that every change has to invalidate:  *)
(* one entry per line, and one per row of the document, where a decoded    *)
(* picture takes several rows.  A streamed text is cut anywhere by the     *)
(* network and wrapped as it arrives.                                      *)
(*                                                                         *)
(* Text is a sequence of cells: a letter, " ", or "\n" at the end of a     *)
(* line of a summary that is complete.  A styled entry is what it was      *)
(* styled from.                                                            *)
(***************************************************************************)
EXTENDS Integers, Sequences, FiniteSets, SequencesExt

CONSTANTS
  Mails,       \* the contents a mail can be rendered to: sequences of lines
  Chunks,      \* what one event of the stream brings: sequences of segments
  Widths, Heights, Themes,
  Margin,      \* pagerStyleMargin, 20 in the code
  Step,        \* scrollStep, 8 in the code
  MaxChunks, MaxChanges  \* bounds: events of the stream; resizes, themes, loads

VARIABLES
  p,           \* the pager
  given,       \* what the stream brought, its error aside: cells
  chunks, changes,
  odd          \* history: "wrapped" at another width, "failed" before the end

vars == <<p, given, chunks, changes, odd>>

Space == " "
Newline == "\n"

Cells(text) == IF text # <<>> /\ Last(text) = Newline THEN Front(text) ELSE text
Closed(line) == line.text # <<>> /\ Last(line.text) = Newline
Plain(text) == [text |-> text, label |-> FALSE, picture |-> "none", rows |-> 0]
Widest(lines) ==
  LET widths == {0} \cup {Len(Cells(lines[i].text)) : i \in DOMAIN lines}
  IN CHOOSE w \in widths : \A v \in widths : v <= w

-----------------------------------------------------------------------------
(* The window.                                                             *)

Low(a, b) == IF a < b THEN a ELSE b
High(a, b) == IF a < b THEN b ELSE a

\* offset into [0, rows - height]
Clamp(q) == [q EXCEPT !.offset = High(0, Low(@, q.rows - q.height))]
Move(q, n) == Clamp([q EXCEPT !.offset = @ + n])

-----------------------------------------------------------------------------
(* Styles and the two caches.                                              *)

Unstyled == [text |-> <<>>, pad |-> 0 - 1, theme |-> "", sel |-> FALSE, blank |-> FALSE]
Blanks(n) == [i \in 1..n |-> Unstyled]
NoDoc == <<[line |-> 0, picture |-> FALSE, entry |-> Unstyled]>>

Pad(q) == q.width + q.x
Spans(q, l) == q.images /\ l.rows > 0

StyleLine(q, i) ==
  LET l == q.lines[i]
  IN [text |-> l.text, pad |-> IF q.width > 0 THEN Pad(q) ELSE 0, theme |-> q.theme,
      sel |-> l.label /\ q.sel, blank |-> l.picture = "inline" /\ Spans(q, l)]

\* an inline picture keeps its row of text, a block has none
RowsOf(q, i) ==
  LET l == q.lines[i]
  IN [r \in 1..(IF Spans(q, l) THEN l.rows ELSE 1) |->
        [line |-> i, picture |-> Spans(q, l) /\ (l.picture = "block" \/ r > 1), entry |-> Unstyled]]

Doc(q) ==
  LET d[n \in 0..Len(q.lines)] == IF n = 0 THEN <<>> ELSE d[n - 1] \o RowsOf(q, n)
  IN d[Len(q.lines)]

\* the document anew: lines with pictures are styled again
Relayout(q) ==
  LET doc == Doc(q)
      styled == [i \in DOMAIN q.styled |-> IF q.lines[i].picture = "none" THEN q.styled[i] ELSE Unstyled]
  IN Clamp([q EXCEPT !.doc = doc, !.styled = styled, !.rows = Len(doc)])

\* the rows of text in the window and its margin
Band(q) == {i \in (q.offset - Margin + 1)..(q.offset + q.height + Margin) : i \in DOMAIN q.doc /\ ~q.doc[i].picture}

StyleBand(q, band) ==
  [q EXCEPT !.styled = [i \in DOMAIN @ |-> IF @[i] = Unstyled /\ \E b \in band : q.doc[b].line = i
                                          THEN StyleLine(q, i) ELSE @[i]]]
FillBand(q, band) ==
  [q EXCEPT !.doc = [i \in DOMAIN @ |-> IF i \in band THEN [@[i] EXCEPT !.entry = q.styled[q.doc[i].line]] ELSE @[i]],
            !.rows = Len(q.doc)]

Grown(q) == IF Len(q.styled) = Len(q.lines) THEN q ELSE [q EXCEPT !.styled = Blanks(Len(q.lines))]
Styled(q, band) == Clamp(FillBand(StyleBand(q, band), band))
InBand(q) == Styled(q, Band(q))

EnsureStyled(q) == InBand(Grown(IF q.doc = NoDoc THEN Relayout(q) ELSE q))

\* clear() empties the entries, the layout stays
Cleared(q) ==
  [q EXCEPT !.styled = Blanks(Len(@)),
            !.doc = IF q.doc = NoDoc THEN @ ELSE [i \in DOMAIN @ |-> [@[i] EXCEPT !.entry = Unstyled]]]

\* entries stand for one boundary and one theme
Fit(q) == IF Pad(q) # q.styledAt.pad \/ q.theme # q.styledAt.theme
          THEN Cleared([q EXCEPT !.styledAt = [pad |-> Pad(q), theme |-> q.theme], !.kept = FALSE]) ELSE q

SetSize(q, w, h, t) ==
  EnsureStyled(Fit(Clamp([q EXCEPT !.width = w, !.height = h, !.theme = t])))

SetLines(q, lines) ==
  [q EXCEPT !.lines = lines, !.doc = NoDoc, !.styled = <<>>, !.offset = 0, !.x = 0, !.maxX = Widest(lines)]

NewPager(kind, lines) ==
  [kind |-> kind, lines |-> lines, styled |-> <<>>, doc |-> NoDoc, images |-> FALSE, sel |-> FALSE,
   width |-> 0, height |-> 0, x |-> 0, maxX |-> Widest(lines), offset |-> 0, rows |-> 0, theme |-> "",
   styledAt |-> [pad |-> 0, theme |-> ""], kept |-> FALSE]

SetImages(q, on) == IF q.images = on THEN q ELSE Relayout([q EXCEPT !.images = on])

\* mutant: the marker moves, its entries stay
SelQuiet(q, on) == EnsureStyled([q EXCEPT !.sel = on])

SetLinkSel(q, on) == IF q.sel = on THEN q ELSE EnsureStyled([q EXCEPT !.sel = on, !.styled = Blanks(Len(@))])

Pan(q, x) == Fit([q EXCEPT !.x = x])
ScrollLeft(q) == Pan(q, High(0, q.x - Step))
ScrollRight(q) == Pan(q, Low(q.x + Step, High(0, q.maxX - q.width)))

-----------------------------------------------------------------------------
(* The stream.                                                             *)

\* where the words of a line begin, and where a word too long is cut
Starts(text, w) ==
  LET first(i) == CHOOSE j \in 1..i : /\ \A k \in j..i : text[k] # Space
                                      /\ j = 1 \/ text[j - 1] = Space
  IN {i \in DOMAIN text : text[i] # Space /\ (i - first(i)) % w = 0}

EndOf(text, w, i) ==
  LET ends == {j \in i..Low(i + w - 1, Len(text)) : \A k \in i..j : text[k] # Space}
  IN CHOOSE j \in ends : \A k \in ends : k <= j

\* greedy, one blank between two words
Fill(rows, word, w) ==
  IF rows = <<>> \/ Len(Last(rows)) + 1 + Len(word) > w THEN Append(rows, word)
  ELSE [rows EXCEPT ![Len(rows)] = @ \o <<Space>> \o word]

Filled(text, w) ==
  LET s == Starts(text, w)
      f[n \in 0..Len(text)] ==
        IF n = 0 THEN <<>>
        ELSE IF n \in s THEN Fill(f[n - 1], SubSeq(text, n, EndOf(text, w, n)), w) ELSE f[n - 1]
  IN f[Len(text)]

\* mutant: the blank at the end of a line is lost
WrapTight(text, w) ==
  IF w <= 0 \/ \A i \in DOMAIN text : text[i] = Space THEN <<text>>
  ELSE Filled(text, w)

\* blanks at the ends of a line stay, as one
WrapText(text, w) ==
  IF w <= 0 THEN <<text>>
  ELSE IF \A i \in DOMAIN text : text[i] = Space THEN <<IF text = <<>> THEN text ELSE <<Space>> >>
  ELSE LET rows == Filled(text, w)
           led == IF Head(text) = Space THEN [rows EXCEPT ![1] = <<Space>> \o @] ELSE rows
       IN IF Last(text) = Space THEN [led EXCEPT ![Len(led)] = @ \o <<Space>>] ELSE led

End(rows) == [rows EXCEPT ![Len(rows)] = Append(@, Newline)]

NewRow(n) == [line |-> n, picture |-> FALSE, entry |-> Unstyled]

AppendLine(q, text) ==
  EnsureStyled([q EXCEPT !.lines = Append(@, Plain(text)),
                         !.doc = IF @ = NoDoc THEN @ ELSE Append(@, NewRow(Len(q.lines) + 1))])

AppendRows(q, rows) ==
  LET f[k \in 0..Len(rows)] == IF k = 0 THEN q ELSE AppendLine(f[k - 1], rows[k])
  IN f[Len(rows)]

Open(q) == q.lines # <<>> /\ ~Closed(Last(q.lines))

\* the last line takes the first row, the others follow
Place(q, rows) ==
  AppendRows([q EXCEPT !.lines[Len(q.lines)].text = rows[1],
                       !.styled = [i \in DOMAIN @ |-> IF i = Len(q.lines) THEN Unstyled ELSE @[i]]], Tail(rows))

Rows(q, text, close) == IF close THEN End(WrapText(text, q.width)) ELSE WrapText(text, q.width)

\* a line of a delta, or its unfinished rest: the open line goes on with it, and
\* wraps in place
AppendSegment(q, s) ==
  IF Open(q) THEN EnsureStyled(Place(q, Rows(q, Last(q.lines).text \o s.text, s.nl)))
  ELSE AppendRows(q, Rows(q, s.text, s.nl))

AppendText(q, chunk) ==
  LET f[k \in 0..Len(chunk)] == IF k = 0 THEN q ELSE AppendSegment(f[k - 1], chunk[k])
  IN f[Len(chunk)]

-----------------------------------------------------------------------------
(* The model.                                                              *)

Init ==
  /\ \E m \in Mails, w \in Widths, h \in Heights, t \in Themes :
       p \in {SetSize(NewPager("mail", m), w, h, t),
              SetSize(NewPager("summary", <<Plain(<<"s">>)>>), w, h, t)}
  /\ given = <<>> /\ chunks = 0 /\ changes = 0 /\ odd = {}

Changes == changes < MaxChanges /\ changes' = changes + 1
Scrolled(q) == p' = q /\ q # p /\ UNCHANGED <<given, chunks, changes, odd>>

Scroll ==
  \/ \E n \in {1, 0 - 1, p.height, 0 - p.height, p.height \div 2, 0 - (p.height \div 2)} : Scrolled(Move(p, n))
  \/ Scrolled([p EXCEPT !.offset = 0])
  \/ Scrolled(Clamp([p EXCEPT !.offset = p.rows - p.height]))

PanKey == Scrolled(ScrollLeft(p)) \/ Scrolled(ScrollRight(p))

\* the digits of the link labels
LinkDigit == p.kind = "mail" /\ \E on \in BOOLEAN : Scrolled(SetLinkSel(p, on))

Frame == Scrolled(EnsureStyled(p))

\* a window of another size, or another theme
Resize ==
  /\ Changes
  /\ \E w \in Widths, h \in Heights, t \in Themes :
       /\ p' = SetSize(p, w, h, t) /\ p' # p
       /\ odd' = IF w # p.width /\ given # <<>> THEN odd \cup {"wrapped"} ELSE odd
  /\ UNCHANGED <<given, chunks>>

\* a reply: other content starts at the top, the same one keeps its place
Fresh(m, on) == SetImages(SetSize(NewPager("mail", m), p.width, p.height, p.theme), on)
Kept(q, x) == Clamp([q EXCEPT !.offset = p.offset, !.x = x, !.kept = x # 0])
Back(q) == Kept(q, Low(p.x, High(0, q.maxX - q.width)))

Load ==
  /\ p.kind = "mail" /\ Changes
  /\ \E m \in Mails, on, keep \in BOOLEAN : p' = IF keep THEN Back(Fresh(m, on)) ELSE Fresh(m, on)
  /\ UNCHANGED <<given, chunks, odd>>

\* alt+i, at once: the reply comes later
Pictures ==
  /\ p.kind = "mail" /\ Changes
  /\ p' = SetImages(p, ~p.images)
  /\ UNCHANGED <<given, chunks, odd>>

\* a picture of the window is decoded, to the height of the window at most
Decode ==
  /\ p.images
  /\ \E i \in DOMAIN p.lines, r \in 1..p.height :
       /\ p.lines[i].picture # "none" /\ p.lines[i].rows = 0
       /\ p' = Relayout([p EXCEPT !.lines[i].rows = r])
  /\ UNCHANGED <<given, chunks, changes, odd>>

\* onAiChunk: the first delta replaces the placeholder
Chunk ==
  /\ p.kind = "summary" /\ chunks < MaxChunks /\ chunks' = chunks + 1
  /\ \E c \in Chunks :
       /\ p' = AppendText(IF chunks = 0 THEN SetLines(p, <<>>) ELSE p, c)
       /\ given' = given \o FlattenSeq([i \in DOMAIN c |-> IF c[i].nl THEN Append(c[i].text, Newline) ELSE c[i].text])
  /\ UNCHANGED <<changes, odd>>

\* onAiResult: polled from the bus, it can overtake the deltas in the channel
Failed ==
  /\ p.kind = "summary" /\ "failed" \notin odd
  /\ p' = AppendLine(p, <<"e">>) /\ odd' = odd \cup {"failed"}
  /\ UNCHANGED <<given, chunks, changes>>

Next == \/ Scroll \/ PanKey \/ LinkDigit \/ Frame \/ Resize
        \/ Load \/ Pictures \/ Decode \/ Chunk \/ Failed

Spec == Init /\ [][Next]_vars

-----------------------------------------------------------------------------
(* Properties.                                                             *)

\* "a resize, a theme switch, or a pan that moved the boundary invalidates" the
\* entries: whatever was scrolled, streamed, decoded, selected or resized since,
\* the window a frame would show is the document as it is now -- but for the
\* boundary of a pan that was kept across a re-render.
Window(q) == [top |-> q.offset, rows |-> SubSeq(q.doc, q.offset + 1, Low(q.offset + q.height, q.rows))]
Anew(q) == EnsureStyled([q EXCEPT !.doc = NoDoc, !.styled = <<>>])
WindowTrue == ~p.kept => Window(EnsureStyled(p)) = Window(Anew(p))

\* where the lines of a text begin and end
Breaks(text) == SetToSortSeq({i \in DOMAIN text : text[i] = Newline}, <)
Lines(text) ==
  LET b == <<0>> \o Breaks(text)
  IN [i \in 1..(Len(b) - 1) |-> SubSeq(text, b[i] + 1, b[i + 1] - 1)]
Rest(text) == SubSeq(text, Last(<<0>> \o Breaks(text)) + 1, Len(text))

\* "a token-per-event stream renders as flowing wrapped text": wherever the
\* network cuts it, the rows are those of the whole text wrapped at once.
Wrapped(line) == End(WrapText(line, p.width))
AtOnce(lines, rest) ==
  FlattenSeq([i \in DOMAIN lines |-> Wrapped(lines[i])]) \o IF rest = <<>> THEN <<>> ELSE WrapText(rest, p.width)

StreamWhole ==
  p.kind = "summary" /\ chunks > 0 /\ odd = {} =>
    [i \in DOMAIN p.lines |-> p.lines[i].text] = AtOnce(Lines(given), Rest(given))
=============================================================================
