------------------------------- MODULE Surfaces -------------------------------
(***************************************************************************)
(* The tab strip of the terminal (src/tui/model.go): the mail surface, the *)
(* dialogues, the search tabs, the crm queue and the AI summary, in this   *)
(* order, and one pager for all of them.  Each index surface keeps the     *)
(* message that is open on it while another tab has the screen: installed  *)
(* with its home, parked under its view, or displaced by the summary.      *)
(* Loads are asynchronous, and answer to the surface that asked; dialogues *)
(* and summaries open and close on their own.                              *)
(***************************************************************************)
EXTENDS Naturals, Sequences, FiniteSets, SequencesExt

CONSTANTS
  Msgs,        \* the messages; every view lists them all
  MaxSearch,   \* bound: search tabs ever opened
  MaxDialogs,  \* bound: dialogues open at once
  MaxLoads,    \* bound: loads dispatched
  MaxJobs      \* bound: summaries started

ASSUME SurfacesAssumption ==
  {MaxSearch, MaxDialogs, MaxLoads, MaxJobs} \subseteq Nat

VARIABLES
  ui,      \* the model
  loads,   \* the loads under way
  nloads, njobs, nsearch,
  asked,   \* history: the messages each view has asked for
  met      \* history: the odd encounters, by name

vars == <<ui, loads, nloads, njobs, nsearch, asked, met>>

Mail == 0
Views == 0..MaxSearch
NoView == MaxSearch + 1
NoPager == [kind |-> "none"]
Box == [kind |-> "box"]              \* the preview's, before its load
Shows(m) == [kind |-> "msg", msg |-> m]
SumPager(j) == [kind |-> "summary", job |-> j]
NoSummary == [job |-> 0, done |-> TRUE, saved |-> NoPager, savedHome |-> NoView]
NoPreview == [on |-> FALSE]

Init ==
  /\ ui = [dialogs |-> 0, searches |-> <<>>, crm |-> FALSE, sum |-> NoSummary,
           at |-> 0, mode |-> "index", crmOpen |-> FALSE, rows |-> Mail,
           pager |-> NoPager, home |-> NoView, open |-> [v \in Views |-> NoPager],
           preview |-> NoPreview]
  /\ loads = {} /\ nloads = 0 /\ njobs = 0 /\ nsearch = 0
  /\ asked = [v \in Views |-> {}] /\ met = {}

-----------------------------------------------------------------------------
(* The strip.                                                              *)

HasSummary(u) == u.sum.job # 0
CrmIdx(u) == 1 + u.dialogs + Len(u.searches)
SummaryIdx(u) == CrmIdx(u) + (IF u.crm THEN 1 ELSE 0)
TabCount(u) == SummaryIdx(u) + (IF HasSummary(u) THEN 1 ELSE 0)

OnSearch(u) == u.at \in (u.dialogs + 1)..(u.dialogs + Len(u.searches))
OnCrm(u) == u.crm /\ u.at = CrmIdx(u)
OnSummary(u) == HasSummary(u) /\ u.at = SummaryIdx(u)

ActiveView(u) == IF OnSearch(u) THEN u.searches[u.at - u.dialogs] ELSE Mail
StackSurface(u) == IF OnSearch(u) \/ u.at = 0 THEN ActiveView(u) ELSE NoView
Live(u, v) == v = Mail \/ \E i \in DOMAIN u.searches : u.searches[i] = v
HomeView(u) == IF u.home = NoView THEN Mail ELSE u.home

\* mutant: the open that is left is dropped
MountForgets(u, v) ==
  LET back == IF u.open[v] # NoPager
              THEN [u EXCEPT !.pager = u.open[v], !.open[v] = NoPager]
              ELSE IF HomeView(u) # v THEN [u EXCEPT !.pager = NoPager] ELSE u
  IN [back EXCEPT !.home = v, !.mode = IF back.pager = NoPager THEN "index" ELSE "pager"]

\* the open of the surface that is left is parked, the one of v comes back
Mount(u, v) ==
  LET parked == IF HomeView(u) # v /\ u.pager # NoPager
                THEN [u EXCEPT !.open[HomeView(u)] = u.pager, !.pager = NoPager]
                ELSE u
      back == IF parked.open[v] # NoPager
              THEN [parked EXCEPT !.pager = parked.open[v], !.open[v] = NoPager]
              ELSE parked
  IN [back EXCEPT !.home = v, !.mode = IF back.pager = NoPager THEN "index" ELSE "pager"]

\* the message the summary displaced
Restored(u) ==
  IF HasSummary(u) /\ u.pager = SumPager(u.sum.job)
  THEN [u EXCEPT !.pager = u.sum.saved, !.home = u.sum.savedHome] ELSE u

Attach(u) ==
  LET v == [(IF OnSummary(u) THEN u ELSE Restored(u)) EXCEPT !.crmOpen = FALSE]
      w == CASE OnCrm(v) -> [v EXCEPT !.mode = "index", !.crmOpen = TRUE]
             [] OnSummary(v) ->
                  IF v.pager = SumPager(v.sum.job) THEN [v EXCEPT !.mode = "pager"]
                  ELSE [v EXCEPT !.mode = "pager", !.pager = SumPager(v.sum.job),
                                 !.sum.saved = v.pager, !.sum.savedHome = HomeView(v)]
             [] StackSurface(v) # NoView -> Mount(v, StackSurface(v))
             [] OTHER -> [v EXCEPT !.mode = "compose"]
  IN [w EXCEPT !.rows = ActiveView(w)]

Go(u, i) == Attach([u EXCEPT !.at = i])

\* mutant: the screen is left as it is
LandQuiet(closed, i) ==
  [closed EXCEPT !.at = IF closed.at >= i /\ closed.at > 0 THEN closed.at - 1 ELSE closed.at]

\* `closed' has lost the tab that was at position i (of the strip before)
Land(closed, i) ==
  LET left == IF closed.at >= i /\ closed.at > 0 THEN closed.at - 1 ELSE closed.at
  IN Go(closed, IF left > TabCount(closed) - 1 THEN TabCount(closed) - 1 ELSE left)

\* mutant: the strip is taken to be as long as before
CloseSummaryHere(u) == Go([Restored(u) EXCEPT !.sum = NoSummary], u.at)

\* the summary is the last tab: nothing slides
CloseSummary(u) ==
  LET closed == [Restored(u) EXCEPT !.sum = NoSummary]
  IN Go(closed, IF closed.at > TabCount(closed) - 1 THEN TabCount(closed) - 1 ELSE closed.at)

\* mutant: what is parked under the tab stays
CloseSearchOnly(u) ==
  LET i == u.at - u.dialogs
  IN Land([u EXCEPT !.searches = RemoveAt(u.searches, i)], u.at)

\* what is open on the tab dies with it
CloseSearch(u) ==
  LET v == ActiveView(u)
      dead == IF u.home = v THEN [u EXCEPT !.pager = NoPager, !.home = NoView] ELSE u
  IN Land([dead EXCEPT !.open[v] = NoPager,
                       !.searches = RemoveAt(u.searches, u.at - u.dialogs)], u.at)

-----------------------------------------------------------------------------
(* Keys.  A preview and the crm queue take all of them.                    *)

Becomes(u) == ui' = u
Free == ~ui.preview.on /\ ~ui.crmOpen
Strip == UNCHANGED <<loads, nloads, njobs, nsearch, asked, met>>

TabKey ==
  /\ Free /\ TabCount(ui) > 1 /\ Strip
  /\ \/ Becomes(Go(ui, IF ui.at + 1 >= TabCount(ui) THEN 0 ELSE ui.at + 1))
     \/ Becomes(Go(ui, IF ui.at = 0 THEN TabCount(ui) - 1 ELSE ui.at - 1))

\* Q: the one tab of its key
OpenCrm ==
  /\ Free /\ ui.mode = "index" /\ Strip
  /\ LET u == [ui EXCEPT !.crm = TRUE] IN Becomes(Go(u, CrmIdx(u)))

\* q closes the queue, any other key but its own leaves it
CrmKey ==
  /\ ~ui.preview.on /\ ui.crmOpen /\ Strip
  /\ Becomes(Go(ui, 0)) \/ Becomes(Go([ui EXCEPT !.crm = FALSE], 0))

\* a search in the background moves every tab behind it
OpenSearch(active) ==
  /\ Free /\ ui.mode \in {"index", "pager"} /\ nsearch < MaxSearch
  /\ nsearch' = nsearch + 1
  /\ LET u == [ui EXCEPT !.searches = Append(@, nsearch + 1)]
     IN Becomes(IF active THEN Go(u, u.dialogs + Len(u.searches)) ELSE u)
  /\ met' = IF ~active /\ ui.at > ui.dialogs + Len(ui.searches)
            THEN met \cup {"shifted"} ELSE met
  /\ UNCHANGED <<loads, nloads, njobs, asked>>

\* goto-<view>: the mail surface shows another view, its open goes
Goto ==
  /\ Free /\ ui.mode = "index" /\ Strip
  /\ Becomes(Go([ui EXCEPT !.open[Mail] = NoPager,
                           !.pager = IF HomeView(ui) = Mail THEN NoPager ELSE @], 0))

\* q on a search tab's list (on the mail surface it ends the program)
Quit ==
  /\ Free /\ ui.mode = "index" /\ OnSearch(ui) /\ Strip
  /\ Becomes(CloseSearch(ui))

\* q in the pager
Back ==
  /\ Free /\ ui.mode = "pager" /\ Strip
  /\ Becomes(IF HasSummary(ui) THEN CloseSummary(ui) ELSE [ui EXCEPT !.mode = "index"])

Load(m, preview) ==
  /\ nloads < MaxLoads /\ nloads' = nloads + 1
  /\ loads' = loads \cup {[id |-> nloads, msg |-> m, preview |-> preview,
                           origin |-> ActiveView(ui)]}
  /\ asked' = [asked EXCEPT ![ActiveView(ui)] = @ \cup {m}]
  /\ UNCHANGED <<njobs, nsearch>>

\* the list's open; the pager's next, previous and re-rendered message
Open(m) ==
  /\ Free
  /\ ui.mode = "index" \/ (ui.mode = "pager" /\ ui.pager # NoPager)
  /\ Load(m, FALSE) /\ UNCHANGED <<ui, met>>

Preview(m) ==
  /\ Free /\ ui.mode = "index" /\ Load(m, TRUE)
  /\ Becomes([ui EXCEPT !.preview = [on |-> TRUE, msg |-> m], !.pager = Box, !.home = NoView])
  /\ met' = met

ClosedPreview(u) ==
  [u EXCEPT !.preview = NoPreview, !.pager = NoPager, !.home = NoView]

ClosePreview == ui.preview.on /\ Becomes(ClosedPreview(ui)) /\ Strip

\* the box's message becomes the surface's
Promote ==
  /\ ui.preview.on /\ Load(ui.preview.msg, FALSE)
  /\ Becomes(IF ui.pager.kind = "msg" THEN [ui EXCEPT !.preview = NoPreview]
             ELSE ClosedPreview(ui))
  /\ met' = IF OnSearch(ui) /\ ui.pager.kind = "msg" THEN met \cup {"promoted"} ELSE met

-----------------------------------------------------------------------------
(* onThreadLoaded.                                                         *)

PreviewLoaded(l, ok) ==
  IF ui.preview = [on |-> TRUE, msg |-> l.msg]
  THEN IF ok THEN [ui EXCEPT !.mode = "index", !.pager = Shows(l.msg)]
       ELSE [ClosedPreview(ui) EXCEPT !.mode = "index"]
  ELSE ui

LoadFailed(o) ==
  IF o = StackSurface(ui) THEN [ui EXCEPT !.mode = "index", !.pager = NoPager, !.home = NoView]
  ELSE IF ui.home = o THEN [ui EXCEPT !.pager = NoPager, !.home = NoView]
  ELSE [ui EXCEPT !.open[o] = NoPager]

\* mutant: the reply goes to whatever is on the screen
LoadedHere(l) == [ui EXCEPT !.pager = Shows(l.msg), !.home = ActiveView(ui), !.mode = "pager"]

Loaded(l) ==
  LET o == l.origin shown == StackSurface(ui) = o
  IN IF ~shown /\ ui.home # o
     THEN IF Live(ui, o) THEN [ui EXCEPT !.open[o] = Shows(l.msg)] ELSE ui
     ELSE [ui EXCEPT !.pager = Shows(l.msg), !.home = o,
                     !.mode = IF shown THEN "pager" ELSE @]

\* the load has left v a second open, beside the one parked under it
Twice(u, v) ==
  /\ u.open[v] # NoPager
  /\ IF HasSummary(u) /\ u.pager = SumPager(u.sum.job)
     THEN u.sum.saved # NoPager /\ u.sum.savedHome = v
     ELSE u.pager # NoPager /\ HomeView(u) = v

OnThreadLoaded(l, ok) ==
  /\ l \in loads /\ loads' = loads \ {l}
  /\ Becomes(IF l.preview THEN PreviewLoaded(l, ok)
             ELSE IF ok THEN Loaded(l) ELSE LoadFailed(l.origin))
  /\ met' = met \cup (IF ~l.preview /\ OnSummary(ui) /\ ui.home = l.origin
                      THEN {"clobbered"} ELSE {})
                 \cup (IF ~l.preview /\ ~ui'.preview.on /\ Twice(ui', l.origin)
                      THEN {"doubled"} ELSE {})
  /\ UNCHANGED <<nloads, njobs, nsearch, asked>>

-----------------------------------------------------------------------------
(* Dialogues and summaries.                                                *)

Arrives == /\ met' = IF ui.preview.on THEN met \cup {"covered"} ELSE met
           /\ UNCHANGED <<loads, nloads, nsearch, asked>>

OnComposeOpened ==
  /\ ui.dialogs < MaxDialogs /\ Arrives /\ njobs' = njobs
  /\ Becomes([Go([ui EXCEPT !.dialogs = @ + 1], ui.dialogs + 1) EXCEPT !.crmOpen = FALSE])

\* sent, aborted, saved
CloseDialog(i) ==
  /\ i \in 1..ui.dialogs /\ Arrives /\ njobs' = njobs
  /\ Becomes(Land([ui EXCEPT !.dialogs = @ - 1], i))

\* one stream at a time; a settled summary gives way
OnAiStarted ==
  /\ njobs < MaxJobs /\ njobs' = njobs + 1
  /\ HasSummary(ui) => ui.sum.done
  /\ LET u == [Restored(ui) EXCEPT !.sum = [NoSummary EXCEPT !.job = njobs + 1, !.done = FALSE]]
     IN Becomes(Go(u, SummaryIdx(u)))
  /\ Arrives

\* a command's output that went to a draft closes its summary
OnAiResult(close) ==
  /\ HasSummary(ui) /\ ~ui.sum.done /\ Arrives /\ njobs' = njobs
  /\ LET u == [ui EXCEPT !.sum.done = TRUE]
     IN Becomes(IF close THEN CloseSummary(u) ELSE u)

Key ==
  \/ TabKey \/ OpenCrm \/ CrmKey \/ Goto \/ Quit \/ Back \/ ClosePreview \/ Promote
  \/ \E active \in BOOLEAN : OpenSearch(active)
  \/ \E m \in Msgs : Open(m) \/ Preview(m)

Event ==
  \/ \E l \in loads, ok \in BOOLEAN : OnThreadLoaded(l, ok)
  \/ OnComposeOpened \/ OnAiStarted
  \/ \E close \in BOOLEAN : OnAiResult(close)
  \/ \E i \in 1..MaxDialogs : CloseDialog(i)

Next == Key \/ Event

Spec == Init /\ [][Next]_vars

-----------------------------------------------------------------------------
(* Properties.                                                             *)

Pagers == {NoPager, Box} \cup {Shows(m) : m \in Msgs} \cup {SumPager(j) : j \in 1..MaxJobs}

\* The one type invariant of the module.
TypeOK ==
  /\ ui.at < TabCount(ui) /\ ui.mode \in {"index", "pager", "compose"}
  /\ ui.pager \in Pagers /\ ui.home \in Views \cup {NoView}
  /\ ui.open \in [Views -> Pagers] /\ ui.sum.saved \in Pagers
  /\ ui.dialogs \in 0..MaxDialogs /\ \A i \in DOMAIN ui.searches : ui.searches[i] \in Views

\* The message open on a surface, wherever it is kept.
OpenOn(u, v) ==
  IF HasSummary(u) /\ u.pager = SumPager(u.sum.job) /\ u.sum.saved # NoPager
     /\ (u.sum.savedHome = v \/ (v = Mail /\ u.sum.savedHome = NoView))
  THEN u.sum.saved
  ELSE IF HomeView(u) = v /\ u.pager.kind = "msg" THEN u.pager
  ELSE u.open[v]

\* A surface shows a message that was asked for on it: no reply, tab or
\* summary brings the mail of one onto another ("never to whatever surface
\* happens to be active when the reply arrives").
OwnSurface ==
  /\ met \cap {"shifted", "promoted", "covered"} = {}
  /\ ui.mode = "pager" /\ StackSurface(ui) # NoView /\ ui.pager # NoPager
  => ui.pager.kind = "msg" /\ ui.pager.msg \in asked[StackSurface(ui)]

\* "each surface keeps its own open across tab switches": no tab, dialogue,
\* search or summary that comes or goes costs a surface the message that is
\* open on it; only a load, a preview and a goto change it.
OpensKept ==
  [][\/ loads' # loads \/ ui.preview.on \/ ui'.preview.on \/ Goto
     \/ met # {}
     \/ \A v \in Views : Live(ui, v) /\ Live(ui', v) => OpenOn(ui', v) = OpenOn(ui, v)]_vars

\* "what is open on a tab dies with it"
NoGhosts ==
  \A v \in Views : ~Live(ui, v) => ui.open[v] = NoPager /\ ui.home # v

\* Screen and strip agree: the mode, the rows and the queue are those of the
\* tab the strip is on.
ScreenAgrees ==
  met \cap {"shifted", "covered", "clobbered"} = {} =>
  /\ ui.rows = ActiveView(ui)
  /\ ui.crmOpen => OnCrm(ui)
  /\ ui.mode = "compose" => ui.at \in 1..ui.dialogs
  /\ ui.at \in 1..ui.dialogs => ui.mode = "compose"
  /\ OnSummary(ui) => ui.mode = "pager" /\ ui.pager = SumPager(ui.sum.job)
=============================================================================
