--------------------------------- MODULE View ---------------------------------
(***************************************************************************)
(* The index (src/core/view.go, diff.go, and the cursor keys of            *)
(* src/tui/model.go).  The refresher merges snapshots of the query's       *)
(* answer into the view; the view flattens its threads into rows, once for *)
(* every change, folds a long thread into a window with a ghost row at each *)
(* hidden end, and filters what is left; the terminal keeps a copy of the  *)
(* rows and moves a cursor over them.  The cursor is the identity of a      *)
(* message and, for the paint, an index; both must survive what the others *)
(* do.  Summary rows without messages are left out.                        *)
(***************************************************************************)
EXTENDS Integers, Sequences, FiniteSets, SequencesExt

CONSTANTS
  Msgs, Time,    \* the messages, and their order in a thread
  Refs,          \* Refs[m]: the references of m, the nearest last
  ThreadIds,     \* in the order of their ids, a sequence
  Snapshots,     \* answers: a thread id -> message -> its tags
  Filters,       \* display filters, as the messages that match them
  Found,         \* the messages the search pattern matches
  Leaving,       \* those an apply takes out of the answer
  Window, Height,  \* rows of a thread, of a page
  NoMsg, NoFilter

ASSUME ViewAssumption ==
  /\ Window \in Nat /\ Height \in Nat \ {0} /\ NoMsg \notin Msgs
  /\ Time \in [Msgs -> Nat] /\ Refs \in [Msgs -> Seq(Msgs)]

VARIABLES
  v,       \* the view
  u        \* the terminal: its rows, the first row of its page, whether it runs,
           \* and (history) whether the cursor was set from rows that are gone

vars == <<v, u>>

Empty == [m \in {} |-> {}]
ThreadNames == {ThreadIds[i] : i \in DOMAIN ThreadIds}

Init ==
  /\ v = [threads |-> <<>>, cursor |-> NoMsg, last |-> 1, rows |-> <<>>, idx |-> <<>>,
          dirty |-> TRUE, filter |-> NoFilter, merged |-> FALSE]
  /\ u = [rows |-> <<>>, offset |-> 0, up |-> TRUE, torn |-> FALSE]

-----------------------------------------------------------------------------
(* The tree of a thread and its flatten.                                   *)

RECURSIVE InOrder(_)
InOrder(ms) == IF ms = {} THEN <<>>
             ELSE LET m == CHOOSE x \in ms : \A y \in ms : Time[x] <= Time[y]
                  IN <<m>> \o InOrder(ms \ {m})

\* the nearest present reference
ParentOf(m, present) ==
  LET near == {i \in DOMAIN Refs[m] : Refs[m][i] \in present \ {m}}
  IN IF near = {} THEN NoMsg ELSE Refs[m][CHOOSE i \in near : \A j \in near : j <= i]

Children(m, present) == {c \in present : ParentOf(c, present) = m}

Row(m, id, ghost) == [msg |-> m, thread |-> id, ghost |-> ghost]

\* a deleted message keeps its row for its children only
RECURSIVE Walk(_, _, _)
Walk(m, id, msgs) ==
  LET kids == InOrder(Children(m, DOMAIN msgs))
  IN IF "deleted" \in msgs[m] /\ kids = <<>> THEN <<>>
     ELSE <<Row(m, id, FALSE)>> \o FlattenSeq([i \in DOMAIN kids |-> Walk(kids[i], id, msgs)])

\* several roots hang below a ghost, unless nothing is attached to anything
Tree(id, msgs) ==
  LET roots == InOrder(Children(NoMsg, DOMAIN msgs))
      rows == FlattenSeq([i \in DOMAIN roots |-> Walk(roots[i], id, msgs)])
  IN IF Len(roots) > 1 /\ Len(roots) # Cardinality(DOMAIN msgs)
     THEN <<Row(NoMsg, id, TRUE)>> \o rows ELSE rows

\* what a thread can hold, and its tree
Held == UNION {{[m \in ms |-> s[id][m]] : ms \in SUBSET DOMAIN s[id]} : <<s, id>> \in {<<t, i>> \in Snapshots \X ThreadNames : i \in DOMAIN t}}
Trees == [id \in ThreadNames |-> [msgs \in Held |-> Tree(id, msgs)]]

\* the newest unread message, or the newest
CollapseMsg(t) ==
  LET live == {m \in DOMAIN t.msgs : "deleted" \notin t.msgs[m]}
      unread == {m \in live : "unread" \in t.msgs[m]}
  IN IF live = {} THEN NoMsg ELSE Last(InOrder(IF unread = {} THEN live ELSE unread))

FlattenThread(t, collapsed) ==
  IF Children(NoMsg, DOMAIN t.msgs) = {} THEN <<>>
  ELSE IF collapsed THEN <<Row(CollapseMsg(t), t.id, FALSE)>> ELSE Trees[t.id][t.msgs]

\* the window, and a ghost for what is hidden before and behind it
WindowOf(full, t) ==
  LET n == Len(full)
      s == IF t.win > n - Window THEN n - Window ELSE t.win
      ghost == <<Row(NoMsg, t.id, TRUE)>>
  IN IF Window = 0 \/ n <= Window THEN full
     ELSE (IF s > 0 THEN ghost ELSE <<>>) \o SubSeq(full, s + 1, s + Window)
          \o (IF s + Window < n THEN ghost ELSE <<>>)

Windowed(t) == WindowOf(FlattenThread(t, t.collapsed), t)
AllRows(w) == FlattenSeq([i \in DOMAIN w.threads |-> Windowed(w.threads[i])])

Matches(r, f) == r.msg # NoMsg /\ r.msg \in f
Hits(rows, f) == IF f = NoFilter THEN [i \in DOMAIN rows |-> i]
                 ELSE SelectSeq([i \in DOMAIN rows |-> i], LAMBDA i : Matches(rows[i], f))

Find(rows, m) == IF \E i \in DOMAIN rows : rows[i].msg = m /\ m # NoMsg
                 THEN CHOOSE i \in DOMAIN rows : rows[i].msg = m /\ \A j \in 1..(i - 1) : rows[j].msg # m
                 ELSE 0

Filtered(w, full, idx) ==
  [w EXCEPT !.rows = [j \in DOMAIN idx |-> full[idx[j]]], !.idx = idx, !.dirty = FALSE]

\* mutant: the index is not looked for again
RefilterQuiet(w, full) == Filtered(w, full, Hits(full, w.filter))

\* the cursor's index is looked for in the rows before the filter
Refilter(w, full) ==
  LET at == Find(full, w.cursor)
  IN [Filtered(w, full, Hits(full, w.filter)) EXCEPT !.last = IF at = 0 THEN @ ELSE at]

\* rowsLocked
Rebuild(w) == Refilter(w, AllRows(w))
Rows(w) == IF w.dirty \/ w.rows = <<>> THEN Rebuild(w) ELSE w

\* between the rows before the filter and those it leaves; the index of a
\* hidden row is the first one
ToFull(w, i) == IF w.filter # NoFilter /\ i \in DOMAIN w.idx THEN w.idx[i] ELSE i
ToShown(w, i) ==
  IF w.filter = NoFilter THEN i
  ELSE IF \E j \in DOMAIN w.idx : w.idx[j] = i THEN CHOOSE j \in DOMAIN w.idx : w.idx[j] = i
  ELSE 1

Least(a, b) == IF a < b THEN a ELSE b
Most(a, b) == IF a > b THEN a ELSE b

\* CursorRow: the index of the row, in a view that remembers it
CursorIn(w) ==
  LET at == Find(w.rows, w.cursor)
      i == IF at # 0 THEN at ELSE Least(ToShown(w, w.last), Len(w.rows))
  IN IF w.rows = <<>> THEN [at |-> 0, w |-> w] ELSE [at |-> i, w |-> [w EXCEPT !.last = ToFull(w, i)]]

CursorRow(w) == CursorIn(Rows(w))

-----------------------------------------------------------------------------
(* DiffSorted and Apply, over records with a key and a rank.               *)

Op(kind, from, to, item) == [kind |-> kind, from |-> from, to |-> to, item |-> item]

\* mutant: the lists are walked in the other order
RECURSIVE DiffBackwards(_, _, _, _)
DiffBackwards(old, new, i, j) ==
  CASE i > Len(old) /\ j > Len(new) -> <<>>
    [] i <= Len(old) /\ j <= Len(new) /\ old[i].key = new[j].key -> DiffBackwards(old, new, i + 1, j + 1)
    [] i <= Len(old) /\ (j > Len(new) \/ (old[i].key # new[j].key /\ old[i].rank > new[j].rank)) ->
         <<Op("remove", j, 0, old[i])>> \o DiffBackwards(old, new, i + 1, j)
    [] OTHER -> <<Op("insert", 0, j, new[j])>> \o DiffBackwards(old, new, i, j + 1)

RECURSIVE Diff(_, _, _, _)
Diff(old, new, i, j) ==
  CASE i > Len(old) /\ j > Len(new) -> <<>>
    [] i <= Len(old) /\ j <= Len(new) /\ old[i].key = new[j].key -> Diff(old, new, i + 1, j + 1)
    [] i <= Len(old) /\ (j > Len(new) \/ (old[i].key # new[j].key /\ old[i].rank < new[j].rank)) ->
         <<Op("remove", j, 0, old[i])>> \o Diff(old, new, i + 1, j)
    [] OTHER -> <<Op("insert", 0, j, new[j])>> \o Diff(old, new, i, j + 1)

\* a removal and the insertion of the same key, next to each other
RECURSIVE CollapseMoves(_)
CollapseMoves(ops) ==
  IF ops = <<>> THEN <<>>
  ELSE IF /\ Len(ops) > 1 /\ ops[1].kind = "remove" /\ ops[2].kind = "insert"
          /\ ops[2].item.key = ops[1].item.key
  THEN <<Op("move", ops[1].from, ops[2].to, ops[1].item)>> \o CollapseMoves(Tail(Tail(ops)))
  ELSE <<Head(ops)>> \o CollapseMoves(Tail(ops))

Replay(items, op) ==
  CASE op.kind = "insert" -> InsertAt(items, op.to, op.item)
    [] op.kind = "remove" -> RemoveAt(items, op.from)
    [] op.kind = "move" -> InsertAt(RemoveAt(items, op.from), op.to, items[op.from])

DiffSorted(old, new) == CollapseMoves(Diff(old, new, 1, 1))
Applied(items, ops) == FoldLeft(Replay, items, ops)

-----------------------------------------------------------------------------
(* The refresher: MergeThreads in its batch, and the end of the batch.     *)

Horizon == 1 + CHOOSE n \in {Time[m] : m \in Msgs} : \A m \in Msgs : Time[m] <= n
LastDate(msgs) == CHOOSE n \in {Time[m] : m \in DOMAIN msgs} : \A m \in DOMAIN msgs : Time[m] <= n

\* ThreadLess: the newest first, then by id
Rank(id, msgs) ==
  (Horizon - LastDate(msgs)) * (Len(ThreadIds) + 1)
    + (CHOOSE i \in DOMAIN ThreadIds : ThreadIds[i] = id)

Fetched(id, msgs) == [id |-> id, key |-> id, rank |-> Rank(id, msgs), msgs |-> msgs,
                      collapsed |-> FALSE, win |-> 0]

ByRank(ts) == SetToSortSeq(ts, LAMBDA a, b : a.rank < b.rank)
Answer(s) == ByRank({Fetched(id, s[id]) : id \in DOMAIN s})

\* the messages of a thread, the oldest first, as the diff sees them
Listed(msgs) ==
  LET ms == InOrder(DOMAIN msgs) IN [i \in DOMAIN ms |-> [key |-> ms[i], rank |-> Time[ms[i]]]]

\* one thread: the edit script is replayed on its messages, and a message that
\* the snapshot has takes the snapshot's fields
MergeMsgs(old, new) ==
  LET kept == Applied(Listed(old), DiffSorted(Listed(old), Listed(new)))
  IN [m \in {kept[i].key : i \in DOMAIN kept} |-> IF m \in DOMAIN new THEN new[m] ELSE old[m]]

\* what stays keeps its fold and its window, and is merged with the snapshot's
\* thread; what is inserted is that thread already
MergeThreads(s) ==
  LET replayed == Applied(v.threads, DiffSorted(v.threads, Answer(s)))
      Merged(t) == IF t.id \in DOMAIN s
                   THEN [t EXCEPT !.msgs = MergeMsgs(@, s[t.id]), !.rank = Rank(t.id, s[t.id])]
                   ELSE t
  IN ByRank({Merged(replayed[i]) : i \in DOMAIN replayed})

\* bound: one merge in a batch
Merge(s) ==
  /\ ~v.merged
  /\ v' = [v EXCEPT !.threads = MergeThreads(s), !.merged = TRUE]
  /\ UNCHANGED u

EndMerge ==
  /\ v.merged
  /\ v' = [v EXCEPT !.dirty = TRUE, !.merged = FALSE]
  /\ UNCHANGED u

\* Remove, by an apply
RemoveMsg(m) ==
  /\ \E i \in DOMAIN v.threads : m \in DOMAIN v.threads[i].msgs
  /\ LET i == CHOOSE i \in DOMAIN v.threads : m \in DOMAIN v.threads[i].msgs
         t == v.threads[i]
         rest == [x \in DOMAIN t.msgs \ {m} |-> t.msgs[x]]
     IN v' = [v EXCEPT !.dirty = TRUE,
                       !.threads = IF rest = Empty THEN RemoveAt(@, i)
                                   ELSE [@ EXCEPT ![i].msgs = rest]]
  /\ UNCHANGED u

-----------------------------------------------------------------------------
(* The terminal.  s is a pair of view and terminal.                        *)

Now == [v |-> v, u |-> u]
Showing(s, w) == [v |-> w, u |-> [s.u EXCEPT !.rows = w.rows]]
Refreshed(s) == Showing(s, Rows(s.v))

\* the row that is painted as the cursor's
CursorIndex(s) ==
  LET i == ToShown(s.v, s.v.last) n == Len(s.u.rows) IN IF i \in 1..n THEN i ELSE n

LastPage(s) == Most(0, Len(s.u.rows) - Height)
Clamp(s) == [s EXCEPT !.u.offset = Most(0, Least(@, LastPage(s)))]

SetCursorAt(s, rows, i) ==
  IF rows[i].msg = NoMsg THEN s
  ELSE [s EXCEPT !.v.cursor = rows[i].msg, !.v.last = ToFull(s.v, i), !.u.torn = rows # s.u.rows]

\* the nearest real row, in the direction of travel and then in the other
LandAt(rows, i, dir) ==
  LET real == {j \in DOMAIN rows : rows[j].msg # NoMsg}
      ahead == {j \in real : IF dir > 0 THEN j >= i ELSE j <= i}
      pick == IF ahead # {} THEN ahead ELSE real
  IN IF pick = {} THEN i ELSE CHOOSE j \in pick : \A k \in pick : (j - i) * (j - i) <= (k - i) * (k - i)

\* whole pages up, whole pages down, the last one anchored at the end
RECURSIVE PageTo(_, _, _)
PageTo(n, i, off) ==
  IF i - 1 < off THEN PageTo(n, i, Most(0, off - Height))
  ELSE LET next == Least(off + Height, Most(0, n - Height))
       IN IF i > off + Height /\ next > off THEN PageTo(n, i, next) ELSE off

\* mutant: the page stays
LandOffPage(s, rows, i) == Clamp(SetCursorAt(s, rows, i))

Land(s, rows, i) ==
  LET t == SetCursorAt(s, rows, i)
  IN Clamp([t EXCEPT !.u.offset = PageTo(Len(rows), i, @)])

ThreadAt(w, id) == CHOOSE i \in DOMAIN w.threads : w.threads[i].id = id

\* the view whose window has moved, or the same view
SlideThread(w, i, n, step) ==
  LET win == w.threads[i].win next == Least(win + step, n - Window)
  IN IF n <= Window \/ win + step < 0 \/ (win + step > n - Window /\ next = win) THEN w
     ELSE [w EXCEPT !.threads[i].win = next, !.dirty = TRUE]

SlideWindow(w, id, step) ==
  IF Window = 0 \/ ~\E i \in DOMAIN w.threads : w.threads[i].id = id THEN w
  ELSE LET t == w.threads[ThreadAt(w, id)]
       IN SlideThread(w, ThreadAt(w, id), Len(FlattenThread(t, t.collapsed)), step)

\* mutant: the cursor goes on from where it was
GoOnBlind(t, old, m, i, dir) ==
  Land(t, t.u.rows, LandAt(t.u.rows, Least(i, Len(t.u.rows)), dir))

\* from the message m, in the rows of the window that has moved
GoOn(t, old, m, i, dir) ==
  LET at == Find(t.u.rows, m)
  IN IF at = 0 THEN Land(t, old, LandAt(old, i, dir))
     ELSE Land(t, t.u.rows, LandAt(t.u.rows, at + dir, dir))

SlideTo(s, slid, m, i, dir) ==
  IF m = NoMsg \/ slid = s.v THEN Land(s, s.u.rows, LandAt(s.u.rows, i, dir))
  ELSE GoOn(Refreshed([s EXCEPT !.v = slid]), s.u.rows, m, i, dir)

SlideFrom(s, c, i, dir) ==
  SlideTo([s EXCEPT !.v = c.w], SlideWindow(c.w, s.u.rows[i].thread, dir), c.w.rows[c.at].msg, i, dir)

\* a plain step onto the ghost at i: its thread's window moves by one
SlideFold(s, i, dir) == SlideFrom(s, CursorRow(s.v), i, dir)

MoveFrom(s, delta) ==
  LET n == Len(s.u.rows)
      dir == IF delta < 0 THEN -1 ELSE 1
      i == Most(1, Least(CursorIndex(s) + delta, n))
  IN IF n = 0 \/ delta = 0 THEN s
     ELSE IF delta = dir /\ s.u.rows[i].ghost THEN SlideFold(s, i, dir)
     ELSE Land(s, s.u.rows, LandAt(s.u.rows, i, dir))

MoveCursor(s, delta) == MoveFrom(Refreshed(s), delta)

-----------------------------------------------------------------------------
(* The page walk.                                                          *)

\* the neighbour's row; none, or another thread's, moves the window
WindowSlideAt(s, i, step) ==
  LET r == s.u.rows[i]
      real == {j \in DOMAIN s.u.rows : s.u.rows[j].msg # NoMsg /\ (j - i) * step > 0}
      next == CHOOSE j \in real : \A k \in real : (j - i) * step <= (k - i) * step
      free == r.msg # NoMsg /\ (real = {} \/ s.u.rows[next].thread # r.thread)
      Slid(w) == IF w = s.v THEN s ELSE Refreshed([s EXCEPT !.v = w])
  IN IF free THEN Slid(SlideWindow(s.v, r.thread, step)) ELSE s

StepAt(rows, i, dir) ==
  LET j == Most(1, Least(i + dir, Len(rows)))
      real == {k \in DOMAIN rows : rows[k].msg # NoMsg /\ (k - j) * dir >= 0}
  IN IF real = {} THEN i ELSE CHOOSE k \in real : \A l \in real : (k - j) * dir <= (l - j) * dir

\* over the edge of the page: to the first line of the next, the last of the
\* one before
PageAtEdge(s, i) ==
  LET n == Len(s.u.rows)
      down == Least(s.u.offset + Height, n - Height) up == Most(s.u.offset - Height, 0)
  IN IF i > s.u.offset + Height
     THEN SetCursorAt([s EXCEPT !.u.offset = down], s.u.rows, LandAt(s.u.rows, down + 1, 1))
     ELSE IF i - 1 < s.u.offset
     THEN SetCursorAt([s EXCEPT !.u.offset = up], s.u.rows, LandAt(s.u.rows, up + Height, -1))
     ELSE s

\* the rows are read by an index: a slide under a filter that leaves none
\* stops the program
ScrollOne(t, step) ==
  LET i == StepAt(t.u.rows, CursorIndex(t), step)
  IN IF t.u.rows = <<>> THEN [t EXCEPT !.u.up = FALSE]
     ELSE PageAtEdge(SetCursorAt(t, t.u.rows, i), i)

RECURSIVE Scroll(_, _, _)
Scroll(s, n, step) ==
  IF n = 0 \/ ~s.u.up THEN s
  ELSE Scroll(ScrollOne(WindowSlideAt(s, CursorIndex(s), step), step), n - 1, step)

ScrollFrom(s, delta) ==
  IF s.u.rows = <<>> \/ delta = 0 THEN s
  ELSE IF delta > 0 THEN Scroll(Clamp(s), delta, 1) ELSE Scroll(Clamp(s), -delta, -1)

ScrollCursor(s, delta) == ScrollFrom(Refreshed(s), delta)

-----------------------------------------------------------------------------
(* The first and the last row, the search, the folds, the filter.          *)

EdgeOf(s, dir) ==
  LET real == {j \in DOMAIN s.u.rows : s.u.rows[j].msg # NoMsg}
      j == CHOOSE j \in real : \A k \in real : IF dir > 0 THEN j <= k ELSE j >= k
      t == IF real = {} THEN s ELSE SetCursorAt(s, s.u.rows, j)
  IN IF dir > 0 THEN [t EXCEPT !.u.offset = 0] ELSE [t EXCEPT !.u.offset = LastPage(t)]

CursorEdge(s, dir) == EdgeOf(Refreshed(s), dir)

FullRows(w) ==
  SelectSeq(FlattenSeq([i \in DOMAIN w.threads |-> FlattenThread(w.threads[i], FALSE)]),
            LAMBDA r : w.filter = NoFilter \/ Matches(r, w.filter))

\* the thread opens, its window moves until the message is in it
RevealMsg(w, m) ==
  LET i == CHOOSE i \in DOMAIN w.threads : Find(FlattenThread(w.threads[i], FALSE), m) # 0
      full == FlattenThread(w.threads[i], FALSE) at == Find(full, m) - 1
      win == w.threads[i].win
      hidden == Window > 0 /\ Len(full) > Window /\ (at < win \/ at >= win + Window)
  IN Rebuild([w EXCEPT !.cursor = m, !.threads[i].collapsed = FALSE,
                       !.threads[i].win = IF hidden THEN Most(0, Least(at - Window \div 2, Len(full) - Window)) ELSE @])

LandOnHit(s, w) ==
  LET at == Find(w.rows, w.cursor)
  IN IF at = 0 THEN [s EXCEPT !.v = w]
     ELSE Land(Showing(s, [w EXCEPT !.last = ToFull(w, at)]), w.rows, at)

\* from the row behind the cursor's, around
SearchIn(s, c, full) ==
  LET n == Len(full)
      from == IF c.at = 0 THEN 0 ELSE Find(full, c.w.rows[c.at].msg)
      order == [k \in 1..n |-> ((from + k - 1) % n) + 1]
      hits == SelectSeq(order, LAMBDA i : Matches(full[i], Found))
  IN IF hits = <<>> THEN [s EXCEPT !.v = c.w]
     ELSE LandOnHit(s, RevealMsg(c.w, full[hits[1]].msg))

SearchNext(s) == SearchIn(s, CursorRow(s.v), FullRows(s.v))

\* the cursor goes to the row that stands for the thread
ToggleAtCursor(s) ==
  LET i == CursorIndex(s) id == s.u.rows[i].thread
      k == ThreadAt(s.v, id) t == s.v.threads[k]
      m == CollapseMsg(t)
      w == IF t.collapsed THEN [s.v EXCEPT !.threads[k].collapsed = FALSE, !.threads[k].win = 0, !.dirty = TRUE]
           ELSE [s.v EXCEPT !.threads[k].collapsed = TRUE, !.dirty = TRUE,
                            !.cursor = IF m = NoMsg THEN @ ELSE m]
  IN IF i = 0 \/ s.u.rows[i].msg = NoMsg \/ ~\E j \in DOMAIN s.v.threads : s.v.threads[j].id = id THEN s
     ELSE Clamp(Refreshed([s EXCEPT !.v = w]))

ToggleCollapsed(s) == ToggleAtCursor(Refreshed(s))

ToggleCollapseAll(s) ==
  LET all == \A i \in DOMAIN s.v.threads : s.v.threads[i].collapsed
      w == [s.v EXCEPT !.dirty = TRUE,
              !.threads = [i \in DOMAIN @ |-> [@[i] EXCEPT !.collapsed = ~all,
                                                           !.win = IF all THEN 0 ELSE @]]]
  IN Clamp(Refreshed([s EXCEPT !.v = w]))

SetFilter(s, f) == Refreshed([s EXCEPT !.v.filter = f, !.v.dirty = TRUE])

-----------------------------------------------------------------------------
(* Steps.                                                                  *)

Becomes(s) == v' = s.v /\ u' = s.u

Pressed(k) ==
  CASE k = "down" -> MoveCursor(Now, 1)
    [] k = "up" -> MoveCursor(Now, -1)
    [] k = "goto" -> MoveCursor(Now, 1 - CursorIndex(Now))
    [] k = "page down" -> ScrollCursor(Now, Height)
    [] k = "page up" -> ScrollCursor(Now, -Height)
    [] k = "half down" -> ScrollCursor(Now, Height \div 2)
    [] k = "top" -> CursorEdge(Now, 1)
    [] k = "bottom" -> CursorEdge(Now, -1)
    [] k = "search" -> SearchNext(Now)

CursorKeys == {"down", "up", "goto", "page down", "page up", "half down", "top",
               "bottom", "search"}

Press(k) == Becomes(Pressed(k))

Fold == Becomes(ToggleCollapsed(Now)) \/ Becomes(ToggleCollapseAll(Now))

Filter(f) == Becomes(SetFilter(Now, f))

\* a tag key: it stages a tag on the view's row, and steps down
Staged(c) ==
  IF c.at = 0 \/ c.w.rows[c.at].msg = NoMsg THEN [Now EXCEPT !.v = c.w]
  ELSE MoveCursor(Refreshed([Now EXCEPT !.v = [c.w EXCEPT !.dirty = TRUE]]), 1)

Stage == Becomes(Staged(CursorRow(v)))

\* the row a new tag search or a script asks for, from a goroutine of its own.
\* The filter's rows are rebuilt in place: those the terminal holds may change
\* under it
Peek ==
  /\ v' = CursorRow(v).w
  /\ \/ UNCHANGED u
     \/ /\ v.dirty /\ v.filter # NoFilter
        /\ u' = [u EXCEPT !.rows = [i \in DOMAIN @ |->
                                     IF i \in DOMAIN v'.rows THEN v'.rows[i] ELSE @[i]]]

\* any event of the bus
OnEvent == Becomes(Refreshed(Now))

Next ==
  /\ u.up
  /\ \/ \E s \in Snapshots : Merge(s)
     \/ EndMerge \/ Peek
     \/ \E m \in Leaving : RemoveMsg(m)
     \/ \E k \in CursorKeys : Press(k)
     \/ Fold \/ Stage \/ OnEvent
     \/ \E f \in Filters \cup {NoFilter} : Filter(f)

Spec == Init /\ [][Next]_vars

-----------------------------------------------------------------------------
(* Properties.                                                             *)

Shown == IF u.rows = <<>> THEN NoMsg ELSE u.rows[CursorIndex(Now)].msg

\* A tag key acts on the message that is highlighted: the row the terminal
\* paints is chosen by index and the row the action takes by identity, and the
\* two agree whenever the painted rows are the view's (but for a step over a
\* fold whose cursor a merge under way has hidden: it lands by the old rows).
HitsShown(c) == c.w.rows[c.at].msg = Shown
ActsOnShown ==
  v.rows # <<>> /\ ~v.dirty /\ u.rows = v.rows /\ ~u.torn => HitsShown(CursorRow(v))

\* Stepping down line by line reads a thread message by message, whatever the
\* window hides.
StepsOn(all) ==
  LET at == Find(all, v.cursor)
  IN /\ at # 0 /\ at < Len(all) /\ \A i \in DOMAIN v.threads : ~v.threads[i].collapsed
     => Pressed("down").v.cursor = all[at + 1].msg \/ all[at + 1].thread # all[at].thread

StepsThrough ==
  /\ v.filter = NoFilter /\ ~v.merged /\ ~v.dirty
  /\ u.rows = Rebuild(v).rows /\ Shown = v.cursor
  => StepsOn(SelectSeq(FullRows(v), LAMBDA r : r.msg # NoMsg))

\* No key stops the program.
StaysUp == u.up

\* A merge leaves the threads of the answer, newest first, each with the
\* answer's messages; a thread that keeps its place keeps its fold and window.
MergeExact ==
  [][~v.merged /\ v'.merged => \A s \in Snapshots :
       Merge(s) =>
         /\ [i \in DOMAIN v'.threads |-> v'.threads[i].id] = [i \in DOMAIN Answer(s) |-> Answer(s)[i].id]
         /\ \A i \in DOMAIN v'.threads : v'.threads[i].msgs = s[v'.threads[i].id]
         /\ \A i \in DOMAIN v.threads, j \in DOMAIN v'.threads :
              v.threads[i].id = v'.threads[j].id /\ v.threads[i].rank = v'.threads[j].rank
              => v.threads[i].collapsed = v'.threads[j].collapsed /\ v.threads[i].win = v'.threads[j].win]_vars
=============================================================================
