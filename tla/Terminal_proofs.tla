---------------------------- MODULE Terminal_proofs ----------------------------
(***************************************************************************)
(* Proofs about the terminal.  Surfaces, for every set of messages and     *)
(* every bound: IInv, about the screen and whose message is where, and     *)
(* Single, about what is open once and nowhere twice, are inductive        *)
(* together.  Scripts, for every set of runs and what they do: LuaInv,     *)
(* which follows a question to its answer.  Images, for every mail, window *)
(* and bound: ImgInv, what the terminal has of what the program takes for  *)
(* painted.  Pager, for every mail, answer, window and theme: PagerInv,    *)
(* which holds both caches to the document and its lines to the entries.   *)
(***************************************************************************)
EXTENDS Terminal, TLAPS, SequenceTheorems, FiniteSetTheorems, WellFoundedInduction

Homes == Views \cup {NoView}
Sums == [job : 0..MaxJobs, done : BOOLEAN, saved : Pagers, savedHome : Homes]
Modes == {"index", "pager", "compose"}
Previews == {NoPreview} \cup [on : {TRUE}, msg : Msgs]
UIs == [dialogs : Nat, searches : Seq(Views), crm : BOOLEAN, sum : Sums, at : Nat,
        mode : Modes, crmOpen : BOOLEAN, rows : Views, pager : Pagers,
        home : Homes, open : [Views -> Pagers], preview : Previews]

(* The same tabs. *)
Lays(u, w) == /\ w.dialogs = u.dialogs /\ w.searches = u.searches /\ w.crm = u.crm
              /\ w.sum.job = u.sum.job

(* The summary's pager is installed, and what it displaced is remembered. *)
Displaced(u) == HasSummary(u) /\ u.pager = SumPager(u.sum.job)

-----------------------------------------------------------------------------
(* The pagers. *)

LEMMA Kinds ==
  /\ NoPager.kind = "none" /\ Box.kind = "box"
  /\ \A m : Shows(m).kind = "msg" /\ Shows(m).msg = m
  /\ \A j : SumPager(j).kind = "summary" /\ SumPager(j).job = j
  BY DEF NoPager, Box, Shows, SumPager

LEMMA PagersAre ==
  /\ NoPager \in Pagers /\ Box \in Pagers
  /\ \A m \in Msgs : Shows(m) \in Pagers
  /\ \A j \in 1..MaxJobs : SumPager(j) \in Pagers
  BY DEF Pagers

LEMMA PreviewsAre ==
  NoPreview \in Previews /\ ~NoPreview.on /\ \A p \in Previews : p.on => p.msg \in Msgs
<1>1. NoPreview \in Previews /\ ~NoPreview.on
  BY DEF Previews, NoPreview
<1>2. \A p \in [on : {TRUE}, msg : Msgs] : p.msg \in Msgs
  OBVIOUS
<1> QED
  BY <1>1, <1>2, Zenon DEF Previews

LEMMA PlacesAre == /\ Mail \in Views /\ NoView \notin Views /\ Views \subseteq Nat
                   /\ Views \subseteq Homes /\ NoView \in Homes /\ \A h \in Homes : h \in Views \/ h = NoView
<1>1. Mail \in Views /\ NoView \notin Views /\ Views \subseteq Nat
  BY SurfacesAssumption, SMT DEF Mail, Views, NoView
<1> QED
  BY <1>1 DEF Homes

-----------------------------------------------------------------------------
(* One field is replaced. *)

LEMMA AtReplaced ==
  ASSUME NEW u \in UIs, NEW x \in Nat
  PROVE  LET w == [u EXCEPT !.at = x] IN
         /\ w \in UIs /\ Lays(u, w) /\ w.at = x
         /\ w.sum = u.sum /\ w.mode = u.mode /\ w.crmOpen = u.crmOpen /\ w.rows = u.rows
         /\ w.pager = u.pager /\ w.home = u.home /\ w.open = u.open /\ w.preview = u.preview
  BY SMT DEF UIs, Lays

LEMMA PagerReplaced ==
  ASSUME NEW u \in UIs, NEW x \in Pagers
  PROVE  LET w == [u EXCEPT !.pager = x] IN
         /\ w \in UIs /\ Lays(u, w) /\ w.pager = x
         /\ w.sum = u.sum /\ w.at = u.at /\ w.mode = u.mode /\ w.crmOpen = u.crmOpen /\ w.rows = u.rows
         /\ w.home = u.home /\ w.open = u.open /\ w.preview = u.preview
  BY SMT DEF UIs, Lays

LEMMA HomeReplaced ==
  ASSUME NEW u \in UIs, NEW x \in Homes
  PROVE  LET w == [u EXCEPT !.home = x] IN
         /\ w \in UIs /\ Lays(u, w) /\ w.home = x
         /\ w.sum = u.sum /\ w.at = u.at /\ w.mode = u.mode /\ w.crmOpen = u.crmOpen /\ w.rows = u.rows
         /\ w.pager = u.pager /\ w.open = u.open /\ w.preview = u.preview
  BY SMT DEF UIs, Lays

LEMMA OpenReplaced ==
  ASSUME NEW u \in UIs, NEW v \in Views, NEW x \in Pagers
  PROVE  LET w == [u EXCEPT !.open[v] = x] IN
         /\ w \in UIs /\ Lays(u, w) /\ w.open = [u.open EXCEPT ![v] = x]
         /\ w.sum = u.sum /\ w.at = u.at /\ w.mode = u.mode /\ w.crmOpen = u.crmOpen /\ w.rows = u.rows
         /\ w.pager = u.pager /\ w.home = u.home /\ w.preview = u.preview
  BY SMT DEF UIs, Lays

LEMMA SumReplaced ==
  ASSUME NEW u \in UIs, NEW x \in Sums
  PROVE  LET w == [u EXCEPT !.sum = x] IN
         /\ w \in UIs /\ w.dialogs = u.dialogs /\ w.searches = u.searches /\ w.crm = u.crm /\ w.sum = x
         /\ w.at = u.at /\ w.mode = u.mode /\ w.crmOpen = u.crmOpen /\ w.rows = u.rows /\ w.pager = u.pager
         /\ w.home = u.home /\ w.open = u.open /\ w.preview = u.preview
  BY SMT DEF UIs, Lays

LEMMA ModeReplaced ==
  ASSUME NEW u \in UIs, NEW x \in Modes
  PROVE  LET w == [u EXCEPT !.mode = x] IN
         /\ w \in UIs /\ Lays(u, w) /\ w.mode = x
         /\ w.sum = u.sum /\ w.at = u.at /\ w.crmOpen = u.crmOpen /\ w.rows = u.rows /\ w.pager = u.pager
         /\ w.home = u.home /\ w.open = u.open /\ w.preview = u.preview
  BY SMT DEF UIs, Lays

LEMMA CrmOpenReplaced ==
  ASSUME NEW u \in UIs, NEW x \in BOOLEAN
  PROVE  LET w == [u EXCEPT !.crmOpen = x] IN
         /\ w \in UIs /\ Lays(u, w) /\ w.crmOpen = x
         /\ w.sum = u.sum /\ w.at = u.at /\ w.mode = u.mode /\ w.rows = u.rows /\ w.pager = u.pager
         /\ w.home = u.home /\ w.open = u.open /\ w.preview = u.preview
  BY SMT DEF UIs, Lays

LEMMA RowsReplaced ==
  ASSUME NEW u \in UIs, NEW x \in Views
  PROVE  LET w == [u EXCEPT !.rows = x] IN
         /\ w \in UIs /\ Lays(u, w) /\ w.rows = x
         /\ w.sum = u.sum /\ w.at = u.at /\ w.mode = u.mode /\ w.crmOpen = u.crmOpen /\ w.pager = u.pager
         /\ w.home = u.home /\ w.open = u.open /\ w.preview = u.preview
  BY SMT DEF UIs, Lays

LEMMA PreviewReplaced ==
  ASSUME NEW u \in UIs, NEW x \in Previews
  PROVE  LET w == [u EXCEPT !.preview = x] IN
         /\ w \in UIs /\ Lays(u, w) /\ w.preview = x
         /\ w.sum = u.sum /\ w.at = u.at /\ w.mode = u.mode /\ w.crmOpen = u.crmOpen /\ w.rows = u.rows
         /\ w.pager = u.pager /\ w.home = u.home /\ w.open = u.open
  BY SMT DEF UIs, Lays

LEMMA DialogsReplaced ==
  ASSUME NEW u \in UIs, NEW x \in Nat
  PROVE  LET w == [u EXCEPT !.dialogs = x] IN
         /\ w \in UIs /\ w.dialogs = x /\ w.searches = u.searches /\ w.crm = u.crm /\ w.sum = u.sum
         /\ w.at = u.at /\ w.mode = u.mode /\ w.crmOpen = u.crmOpen /\ w.rows = u.rows
         /\ w.pager = u.pager /\ w.home = u.home /\ w.open = u.open /\ w.preview = u.preview
  BY SMT DEF UIs

LEMMA AnySearches ==
  ASSUME NEW S, NEW x \in S, NEW X,
         NEW u \in [dialogs : Nat, searches : S, crm : BOOLEAN, sum : Sums, at : Nat,
                    mode : Modes, crmOpen : BOOLEAN, rows : Views, pager : Pagers,
                    home : Homes, open : X, preview : Previews]
  PROVE  LET w == [u EXCEPT !.searches = x] IN
         /\ w \in [dialogs : Nat, searches : S, crm : BOOLEAN, sum : Sums, at : Nat,
                   mode : Modes, crmOpen : BOOLEAN, rows : Views, pager : Pagers,
                   home : Homes, open : X, preview : Previews]
         /\ w.searches = x /\ w.dialogs = u.dialogs /\ w.crm = u.crm /\ w.sum = u.sum
         /\ w.at = u.at /\ w.mode = u.mode /\ w.crmOpen = u.crmOpen /\ w.rows = u.rows
         /\ w.pager = u.pager /\ w.home = u.home /\ w.open = u.open /\ w.preview = u.preview
  BY SMT

LEMMA SearchesReplaced ==
  ASSUME NEW u \in UIs, NEW x \in Seq(Views)
  PROVE  LET w == [u EXCEPT !.searches = x] IN
         /\ w \in UIs /\ w.searches = x /\ w.dialogs = u.dialogs /\ w.crm = u.crm /\ w.sum = u.sum
         /\ w.at = u.at /\ w.mode = u.mode /\ w.crmOpen = u.crmOpen /\ w.rows = u.rows
         /\ w.pager = u.pager /\ w.home = u.home /\ w.open = u.open /\ w.preview = u.preview
  BY AnySearches DEF UIs

LEMMA CrmReplaced ==
  ASSUME NEW u \in UIs, NEW x \in BOOLEAN
  PROVE  LET w == [u EXCEPT !.crm = x] IN
         /\ w \in UIs /\ w.crm = x /\ w.dialogs = u.dialogs /\ w.searches = u.searches /\ w.sum = u.sum
         /\ w.at = u.at /\ w.mode = u.mode /\ w.crmOpen = u.crmOpen /\ w.rows = u.rows
         /\ w.pager = u.pager /\ w.home = u.home /\ w.open = u.open /\ w.preview = u.preview
  BY SMT DEF UIs

LEMMA SavedReplaced ==
  ASSUME NEW y \in Sums, NEW x \in Pagers
  PROVE  LET z == [y EXCEPT !.saved = x] IN
         z \in Sums /\ z.saved = x /\ z.job = y.job /\ z.done = y.done /\ z.savedHome = y.savedHome
  BY SMT DEF Sums

LEMMA JobReplaced ==
  ASSUME NEW y \in Sums, NEW x \in 0..MaxJobs
  PROVE  LET z == [y EXCEPT !.job = x] IN
         z \in Sums /\ z.job = x /\ z.done = y.done /\ z.saved = y.saved /\ z.savedHome = y.savedHome
  BY SMT DEF Sums

LEMMA DoneReplaced ==
  ASSUME NEW y \in Sums, NEW x \in BOOLEAN
  PROVE  LET z == [y EXCEPT !.done = x] IN
         z \in Sums /\ z.done = x /\ z.job = y.job /\ z.saved = y.saved /\ z.savedHome = y.savedHome
  BY SMT DEF Sums

LEMMA SavedHomeReplaced ==
  ASSUME NEW y \in Sums, NEW x \in Homes
  PROVE  LET z == [y EXCEPT !.savedHome = x] IN
         z \in Sums /\ z.savedHome = x /\ z.job = y.job /\ z.done = y.done /\ z.saved = y.saved
  BY SMT DEF Sums

-----------------------------------------------------------------------------
(* The strip. *)

LEMMA Fields ==
  ASSUME NEW u \in UIs
  PROVE  /\ u.dialogs \in Nat /\ u.searches \in Seq(Views) /\ u.crm \in BOOLEAN /\ u.sum \in Sums
         /\ u.at \in Nat /\ u.mode \in Modes /\ u.crmOpen \in BOOLEAN
         /\ u.rows \in Views /\ u.pager \in Pagers /\ u.home \in Homes
         /\ u.open \in [Views -> Pagers] /\ u.preview \in Previews
         /\ u.sum.job \in 0..MaxJobs /\ u.sum.done \in BOOLEAN /\ u.sum.saved \in Pagers
         /\ u.sum.savedHome \in Homes
         /\ Len(u.searches) \in Nat /\ \A i \in 1..Len(u.searches) : u.searches[i] \in Views
<1>1. /\ u.dialogs \in Nat /\ u.searches \in Seq(Views) /\ u.crm \in BOOLEAN /\ u.sum \in Sums
      /\ u.at \in Nat /\ u.mode \in Modes /\ u.crmOpen \in BOOLEAN
      /\ u.rows \in Views /\ u.pager \in Pagers /\ u.home \in Homes
      /\ u.open \in [Views -> Pagers] /\ u.preview \in Previews
  BY SMT DEF UIs
<1>2. /\ u.sum.job \in 0..MaxJobs /\ u.sum.done \in BOOLEAN /\ u.sum.saved \in Pagers
      /\ u.sum.savedHome \in Homes
  BY <1>1, SMT DEF Sums
<1>3. Len(u.searches) \in Nat /\ \A i \in 1..Len(u.searches) : u.searches[i] \in Views
  BY <1>1, ElementOfSeq, LenProperties
<1> QED
  BY <1>1, <1>2, <1>3

LEMMA StripIs ==
  ASSUME NEW u \in UIs
  PROVE  /\ CrmIdx(u) \in Nat /\ SummaryIdx(u) \in Nat /\ TabCount(u) \in Nat
         /\ u.dialogs < CrmIdx(u) /\ u.dialogs + Len(u.searches) < CrmIdx(u)
         /\ CrmIdx(u) <= SummaryIdx(u) /\ SummaryIdx(u) <= TabCount(u) /\ 0 < TabCount(u)
         /\ u.crm => CrmIdx(u) < SummaryIdx(u)
         /\ HasSummary(u) => SummaryIdx(u) < TabCount(u)
<1>1. CrmIdx(u) \in Nat /\ u.dialogs < CrmIdx(u) /\ u.dialogs + Len(u.searches) < CrmIdx(u)
  BY Fields, SMT DEF CrmIdx
<1>3. u.crm => SummaryIdx(u) = CrmIdx(u) + 1
  BY DEF SummaryIdx
<1>4. ~u.crm => SummaryIdx(u) = CrmIdx(u)
  BY <1>1, SMT DEF SummaryIdx
<1>2. SummaryIdx(u) = CrmIdx(u) \/ SummaryIdx(u) = CrmIdx(u) + 1
  BY <1>3, <1>4
<1>5. TabCount(u) = SummaryIdx(u) + (IF u.sum.job # 0 THEN 1 ELSE 0)
  BY DEF TabCount, HasSummary
<1>6. SummaryIdx(u) \in Nat /\ CrmIdx(u) <= SummaryIdx(u)
  BY <1>1, <1>2, SMT
<1>7. TabCount(u) \in Nat /\ SummaryIdx(u) <= TabCount(u) /\ (u.sum.job # 0 => SummaryIdx(u) < TabCount(u))
  BY <1>5, <1>6, SMT
<1>8. u.crm => CrmIdx(u) < SummaryIdx(u)
  BY <1>1, <1>3, SMT
<1>9. 0 < TabCount(u)
  BY <1>1, <1>6, <1>7, Fields, SMT
<1> QED
  BY <1>1, <1>6, <1>7, <1>8, <1>9 DEF HasSummary

LEMMA SurfaceIs ==
  ASSUME NEW u \in UIs
  PROVE  /\ ActiveView(u) \in Views /\ Live(u, ActiveView(u))
         /\ StackSurface(u) # NoView => StackSurface(u) = ActiveView(u)
         /\ StackSurface(u) = NoView <=> ~(OnSearch(u) \/ u.at = 0)
         /\ ~OnSearch(u) => ActiveView(u) = Mail
<1>1. ASSUME OnSearch(u) PROVE ActiveView(u) \in Views /\ Live(u, ActiveView(u))
  <2>1. /\ u.at - u.dialogs \in 1..Len(u.searches)
        /\ ActiveView(u) = u.searches[u.at - u.dialogs]
    BY <1>1, Fields, SMT DEF OnSearch, ActiveView
  <2>2. DOMAIN u.searches = 1..Len(u.searches)
    BY Fields, LenProperties
  <2> QED
    BY <2>1, <2>2, Fields DEF Live
<1>2. ASSUME ~OnSearch(u) PROVE ActiveView(u) = Mail /\ Live(u, Mail)
  BY <1>2 DEF ActiveView, Live
<1>3. ActiveView(u) \in Views /\ Live(u, ActiveView(u))
  BY <1>1, <1>2, PlacesAre
<1>4. StackSurface(u) = IF OnSearch(u) \/ u.at = 0 THEN ActiveView(u) ELSE NoView
  BY DEF StackSurface
<1>5. ActiveView(u) # NoView
  BY <1>3, PlacesAre
<1> QED
  BY <1>2, <1>3, <1>4, <1>5

LEMMA SameLayout ==
  ASSUME NEW u, NEW w, Lays(u, w)
  PROVE  /\ HasSummary(w) <=> HasSummary(u)
         /\ CrmIdx(w) = CrmIdx(u) /\ SummaryIdx(w) = SummaryIdx(u) /\ TabCount(w) = TabCount(u)
         /\ \A v : Live(w, v) <=> Live(u, v)
         /\ w.at = u.at => /\ OnSearch(w) <=> OnSearch(u)
                           /\ (OnCrm(w) <=> OnCrm(u)) /\ (OnSummary(w) <=> OnSummary(u))
                           /\ ActiveView(w) = ActiveView(u) /\ StackSurface(w) = StackSurface(u)
<1>1. (HasSummary(w) <=> HasSummary(u)) /\ CrmIdx(w) = CrmIdx(u)
  BY DEF Lays, HasSummary, CrmIdx
<1>2. SummaryIdx(w) = SummaryIdx(u) /\ TabCount(w) = TabCount(u)
  BY <1>1 DEF Lays, SummaryIdx, TabCount
<1>3. \A v : Live(w, v) <=> Live(u, v)
  BY Zenon DEF Lays, Live
<1>4. ASSUME w.at = u.at
      PROVE  /\ OnSearch(w) <=> OnSearch(u)
             /\ (OnCrm(w) <=> OnCrm(u)) /\ (OnSummary(w) <=> OnSummary(u))
  <2>1. w.dialogs = u.dialogs /\ w.searches = u.searches /\ w.crm = u.crm
    BY DEF Lays
  <2>2. OnSearch(w) <=> OnSearch(u)
    BY <1>4, <2>1, SMT DEF OnSearch
  <2>3. OnCrm(w) <=> OnCrm(u)
    BY <1>1, <1>4, <2>1, Zenon DEF OnCrm
  <2>4. OnSummary(w) <=> OnSummary(u)
    BY <1>1, <1>2, <1>4, Zenon DEF OnSummary
  <2> QED
    BY <2>2, <2>3, <2>4, Zenon
<1>5. ASSUME w.at = u.at PROVE ActiveView(w) = ActiveView(u)
  BY <1>4, <1>5 DEF Lays, ActiveView
<1>6. ASSUME w.at = u.at PROVE StackSurface(w) = StackSurface(u)
  BY <1>4, <1>5, <1>6 DEF StackSurface
<1> QED
  BY <1>1, <1>2, <1>3, <1>4, <1>5, <1>6

LEMMA HomeIs ==
  ASSUME NEW u \in UIs
  PROVE  HomeView(u) \in Views /\ (u.home \in Views => HomeView(u) = u.home)
         /\ (u.home = NoView => HomeView(u) = Mail)
  BY Fields, PlacesAre DEF HomeView

LEMMA RestoredIs ==
  ASSUME NEW u \in UIs
  PROVE  LET w == Restored(u) IN
         /\ w \in UIs /\ Lays(u, w) /\ w.sum = u.sum /\ w.at = u.at /\ w.mode = u.mode
         /\ w.crmOpen = u.crmOpen /\ w.rows = u.rows /\ w.open = u.open /\ w.preview = u.preview
         /\ Displaced(u) => w.pager = u.sum.saved /\ w.home = u.sum.savedHome
         /\ ~Displaced(u) => w = u
<1>1. CASE Displaced(u)
  <2> DEFINE a == [u EXCEPT !.pager = u.sum.saved]
             b == [a EXCEPT !.home = u.sum.savedHome]
  <2>1. /\ a \in UIs /\ Lays(u, a) /\ a.pager = u.sum.saved
        /\ a.sum = u.sum /\ a.at = u.at /\ a.mode = u.mode /\ a.crmOpen = u.crmOpen /\ a.rows = u.rows
        /\ a.home = u.home /\ a.open = u.open /\ a.preview = u.preview
    BY Fields, PagerReplaced, Zenon
  <2>2. Restored(u) = b
    BY <1>1 DEF Restored, Displaced
  <2> HIDE DEF a
  <2>3. /\ b \in UIs /\ Lays(a, b) /\ b.home = u.sum.savedHome
        /\ b.sum = a.sum /\ b.at = a.at /\ b.mode = a.mode /\ b.crmOpen = a.crmOpen /\ b.rows = a.rows
        /\ b.pager = a.pager /\ b.open = a.open /\ b.preview = a.preview
    BY <2>1, Fields, HomeReplaced, Zenon
  <2> HIDE DEF b
  <2> QED
    BY <1>1, <2>1, <2>2, <2>3 DEF Lays
<1>2. CASE ~Displaced(u)
  <2>1. Restored(u) = u
    BY <1>2 DEF Restored, Displaced
  <2> QED
    BY <1>2, <2>1 DEF Lays
<1> QED
  BY <1>1, <1>2

(* What stays parked under the view x when the pager p, whose home is h, *)
(* makes way for that of v, o being parked before. *)
Beneath(p, h, o, v, x) ==
  IF x = v THEN NoPager ELSE IF x = h /\ p # NoPager THEN p ELSE o[x]

LEMMA MountIs ==
  ASSUME NEW u \in UIs, NEW v \in Views
  PROVE  LET w == Mount(u, v) IN
         /\ w \in UIs /\ Lays(u, w) /\ w.sum = u.sum /\ w.at = u.at
         /\ w.crmOpen = u.crmOpen /\ w.rows = u.rows /\ w.preview = u.preview
         /\ w.home = v /\ w.mode = (IF w.pager = NoPager THEN "index" ELSE "pager")
         /\ w.pager = (IF u.open[v] # NoPager THEN u.open[v]
                       ELSE IF HomeView(u) = v THEN u.pager ELSE NoPager)
         /\ \A x \in Views : w.open[x] = Beneath(u.pager, HomeView(u), u.open, v, x)
<1> DEFINE h == HomeView(u)
           a == [u EXCEPT !.open[h] = u.pager]
           b == [a EXCEPT !.pager = NoPager]
           parked == IF h # v /\ u.pager # NoPager
                     THEN [u EXCEPT !.open[h] = u.pager, !.pager = NoPager] ELSE u
           c == [parked EXCEPT !.pager = parked.open[v]]
           d == [c EXCEPT !.open[v] = NoPager]
           back == IF parked.open[v] # NoPager
                   THEN [parked EXCEPT !.pager = parked.open[v], !.open[v] = NoPager] ELSE parked
           e == [back EXCEPT !.home = v]
           f == [e EXCEPT !.mode = IF back.pager = NoPager THEN "index" ELSE "pager"]
<1>0. /\ h \in Views /\ NoPager \in Pagers
      /\ u.open \in [Views -> Pagers] /\ u.pager \in Pagers
  BY Fields, HomeIs, PagersAre
<1>1. Mount(u, v) = f
  BY DEF Mount
<1>2. /\ a \in UIs /\ Lays(u, a) /\ a.open = [u.open EXCEPT ![h] = u.pager]
      /\ a.sum = u.sum /\ a.at = u.at /\ a.mode = u.mode /\ a.crmOpen = u.crmOpen /\ a.rows = u.rows
      /\ a.pager = u.pager /\ a.home = u.home /\ a.preview = u.preview
  BY <1>0, OpenReplaced
<1>3. /\ b \in UIs /\ Lays(a, b) /\ b.pager = NoPager
      /\ b.sum = a.sum /\ b.at = a.at /\ b.mode = a.mode /\ b.crmOpen = a.crmOpen /\ b.rows = a.rows
      /\ b.home = a.home /\ b.open = a.open /\ b.preview = a.preview
  <2> HIDE DEF a
  <2> QED
    BY <1>0, <1>2, PagerReplaced
<1>4. parked = IF h # v /\ u.pager # NoPager THEN b ELSE u
  OBVIOUS
<1> HIDE DEF a, b, parked
<1>5. /\ parked \in UIs /\ Lays(u, parked) /\ parked.sum = u.sum /\ parked.at = u.at
      /\ parked.crmOpen = u.crmOpen /\ parked.rows = u.rows /\ parked.preview = u.preview
      /\ parked.pager = (IF h = v THEN u.pager ELSE NoPager)
      /\ parked.open[v] = u.open[v]
      /\ \A x \in Views : x # v => parked.open[x] = (IF x = h /\ u.pager # NoPager THEN u.pager ELSE u.open[x])
  <2>1. CASE h # v /\ u.pager # NoPager
    <3>1. parked = b /\ \A x \in Views : b.open[x] = (IF x = h THEN u.pager ELSE u.open[x])
      BY <1>0, <1>2, <1>3, <1>4, <2>1
    <3> QED
      BY <1>2, <1>3, <2>1, <3>1 DEF Lays
  <2>2. CASE h = v \/ u.pager = NoPager
    BY <1>4, <2>2 DEF Lays
  <2> QED
    BY <2>1, <2>2
<1>6. parked.open[v] \in Pagers
  BY <1>5, Fields
<1>7. /\ c \in UIs /\ Lays(parked, c) /\ c.pager = parked.open[v]
      /\ c.sum = parked.sum /\ c.at = parked.at /\ c.mode = parked.mode /\ c.crmOpen = parked.crmOpen
      /\ c.rows = parked.rows /\ c.home = parked.home /\ c.open = parked.open /\ c.preview = parked.preview
  BY <1>5, <1>6, PagerReplaced
<1>8. /\ d \in UIs /\ Lays(c, d) /\ d.open = [c.open EXCEPT ![v] = NoPager]
      /\ d.sum = c.sum /\ d.at = c.at /\ d.mode = c.mode /\ d.crmOpen = c.crmOpen /\ d.rows = c.rows
      /\ d.pager = c.pager /\ d.home = c.home /\ d.preview = c.preview
  <2> HIDE DEF c
  <2> QED
    BY <1>0, <1>7, OpenReplaced
<1>9. back = IF parked.open[v] # NoPager THEN d ELSE parked
  OBVIOUS
<1> HIDE DEF c, d, back
<1>10. /\ back \in UIs /\ Lays(u, back) /\ back.sum = u.sum /\ back.at = u.at
       /\ back.crmOpen = u.crmOpen /\ back.rows = u.rows /\ back.preview = u.preview
       /\ back.pager = (IF u.open[v] # NoPager THEN u.open[v] ELSE IF h = v THEN u.pager ELSE NoPager)
       /\ \A x \in Views : back.open[x] = Beneath(u.pager, h, u.open, v, x)
  <2>1. CASE parked.open[v] # NoPager
    <3>1. back = d /\ \A x \in Views : d.open[x] = (IF x = v THEN NoPager ELSE parked.open[x])
      BY <1>5, <1>7, <1>8, <1>9, <2>1, Fields
    <3> QED
      BY <1>5, <1>7, <1>8, <2>1, <3>1 DEF Lays, Beneath
  <2>2. CASE parked.open[v] = NoPager
    BY <1>5, <1>9, <2>2 DEF Beneath
  <2> QED
    BY <2>1, <2>2
<1>11. /\ e \in UIs /\ Lays(back, e) /\ e.home = v
       /\ e.sum = back.sum /\ e.at = back.at /\ e.crmOpen = back.crmOpen /\ e.rows = back.rows
       /\ e.pager = back.pager /\ e.open = back.open /\ e.preview = back.preview
  BY <1>10, HomeReplaced, PlacesAre
<1>12. /\ f \in UIs /\ Lays(e, f) /\ f.mode = (IF back.pager = NoPager THEN "index" ELSE "pager")
       /\ f.sum = e.sum /\ f.at = e.at /\ f.crmOpen = e.crmOpen /\ f.rows = e.rows
       /\ f.pager = e.pager /\ f.home = e.home /\ f.open = e.open /\ f.preview = e.preview
  <2> DEFINE x == IF back.pager = NoPager THEN "index" ELSE "pager"
  <2>1. x \in Modes
    BY DEF Modes
  <2>2. f = [e EXCEPT !.mode = x]
    OBVIOUS
  <2> HIDE DEF e, x, f
  <2>3. LET w == [e EXCEPT !.mode = x] IN
        /\ w \in UIs /\ Lays(e, w) /\ w.mode = x
        /\ w.sum = e.sum /\ w.at = e.at /\ w.crmOpen = e.crmOpen /\ w.rows = e.rows
        /\ w.pager = e.pager /\ w.home = e.home /\ w.open = e.open /\ w.preview = e.preview
    BY <1>11, <2>1, ModeReplaced, Zenon
  <2> QED
    BY <2>2, <2>3 DEF x
<1> HIDE DEF e, f
<1> QED
  BY <1>1, <1>10, <1>11, <1>12 DEF Lays

LEMMA Apart ==
  ASSUME NEW u \in UIs
  PROVE  /\ OnCrm(u) => ~OnSummary(u) /\ StackSurface(u) = NoView
         /\ OnSummary(u) => StackSurface(u) = NoView
         /\ StackSurface(u) # NoView => u.at \notin 1..u.dialogs
         /\ u.at \in 1..u.dialogs => ~OnCrm(u) /\ ~OnSummary(u) /\ ~OnSearch(u) /\ u.at # 0
<1>1. OnCrm(u) => u.at > u.dialogs + Len(u.searches) /\ u.at < SummaryIdx(u)
  BY StripIs, Fields, SMT DEF OnCrm
<1>2. OnSummary(u) => u.at > u.dialogs + Len(u.searches)
  BY StripIs, Fields, SMT DEF OnSummary
<1>3. OnSearch(u) => u.at > u.dialogs /\ u.at <= u.dialogs + Len(u.searches)
  BY Fields, SMT DEF OnSearch
<1>4. u.at > u.dialogs + Len(u.searches) => ~OnSearch(u) /\ u.at # 0
  BY <1>3, Fields, SMT
<1>5. u.at \in 1..u.dialogs => u.at <= u.dialogs + Len(u.searches) /\ u.at <= u.dialogs /\ u.at # 0
  BY Fields, SMT
<1>6. OnSummary(u) => u.at = SummaryIdx(u)
  BY DEF OnSummary
<1>7. OnCrm(u) => ~OnSummary(u)
  BY <1>1, <1>6, StripIs, SMT
<1>8. StackSurface(u) = NoView <=> ~(OnSearch(u) \/ u.at = 0)
  BY SurfaceIs
<1>9. u.at \in 1..u.dialogs => ~(u.at > u.dialogs + Len(u.searches)) /\ ~(u.at > u.dialogs)
  BY Fields, SMT
<1> QED
  BY <1>1, <1>2, <1>3, <1>4, <1>5, <1>7, <1>8, <1>9, Zenon

(* What the summary displaced is back, unless the summary has the screen. *)
Back0(u) == IF OnSummary(u) THEN u ELSE Restored(u)

LEMMA Back0Is ==
  ASSUME NEW u \in UIs
  PROVE  LET v == [Back0(u) EXCEPT !.crmOpen = FALSE] IN
         /\ v \in UIs /\ Lays(u, v) /\ v.sum = u.sum /\ v.at = u.at /\ v.mode = u.mode
         /\ v.crmOpen = FALSE /\ v.rows = u.rows /\ v.open = u.open /\ v.preview = u.preview
         /\ v.pager = Back0(u).pager /\ v.home = Back0(u).home
<1> DEFINE r == Back0(u)
           v == [r EXCEPT !.crmOpen = FALSE]
<1>1. /\ r \in UIs /\ Lays(u, r) /\ r.sum = u.sum /\ r.at = u.at /\ r.mode = u.mode
      /\ r.rows = u.rows /\ r.open = u.open /\ r.preview = u.preview
  BY RestoredIs DEF Back0, Lays
<1>2. FALSE \in BOOLEAN
  OBVIOUS
<1> HIDE DEF r
<1>3. /\ v \in UIs /\ Lays(r, v) /\ v.crmOpen = FALSE
      /\ v.sum = r.sum /\ v.at = r.at /\ v.mode = r.mode /\ v.rows = r.rows /\ v.pager = r.pager
      /\ v.home = r.home /\ v.open = r.open /\ v.preview = r.preview
  BY <1>1, <1>2, CrmOpenReplaced, Zenon
<1> HIDE DEF v
<1>4. /\ v \in UIs /\ Lays(u, v) /\ v.sum = u.sum /\ v.at = u.at /\ v.mode = u.mode
      /\ v.crmOpen = FALSE /\ v.rows = u.rows /\ v.open = u.open /\ v.preview = u.preview
      /\ v.pager = r.pager /\ v.home = r.home
  BY <1>1, <1>3, Zenon DEF Lays
<1> QED
  BY <1>4 DEF v, r

(* What w, the screen on the tab u is on, shows. *)
CrmScreen(u, w) ==
  /\ w.mode = "index" /\ w.crmOpen = TRUE /\ w.sum = u.sum /\ w.open = u.open
  /\ w.pager = Back0(u).pager /\ w.home = Back0(u).home
SummaryScreen(u, w) ==
  /\ w.mode = "pager" /\ w.crmOpen = FALSE /\ w.open = u.open
  /\ w.pager = SumPager(u.sum.job) /\ w.home = u.home
  /\ Displaced(u) => w.sum = u.sum
  /\ ~Displaced(u) => w.sum.saved = u.pager /\ w.sum.savedHome = HomeView(u)
StackScreen(u, w) ==
  /\ w.mode = (IF w.pager = NoPager THEN "index" ELSE "pager") /\ w.crmOpen = FALSE /\ w.sum = u.sum
  /\ w.home = StackSurface(u)
  /\ w.pager = (IF u.open[StackSurface(u)] # NoPager THEN u.open[StackSurface(u)]
                ELSE IF HomeView(Back0(u)) = StackSurface(u) THEN Back0(u).pager ELSE NoPager)
  /\ \A x \in Views :
       w.open[x] = Beneath(Back0(u).pager, HomeView(Back0(u)), u.open, StackSurface(u), x)
ComposeScreen(u, w) ==
  /\ w.mode = "compose" /\ w.crmOpen = FALSE /\ w.sum = u.sum /\ w.open = u.open
  /\ w.pager = Back0(u).pager /\ w.home = Back0(u).home

LEMMA AttachIs ==
  ASSUME NEW u \in UIs
  PROVE  LET w == Attach(u) IN
         /\ w \in UIs /\ Lays(u, w) /\ w.at = u.at /\ w.preview = u.preview /\ w.rows = ActiveView(u)
         /\ OnCrm(u) => CrmScreen(u, w)
         /\ OnSummary(u) => SummaryScreen(u, w)
         /\ StackSurface(u) # NoView => StackScreen(u, w)
         /\ ~OnCrm(u) /\ ~OnSummary(u) /\ StackSurface(u) = NoView => ComposeScreen(u, w)
<1> DEFINE v == [(IF OnSummary(u) THEN u ELSE Restored(u)) EXCEPT !.crmOpen = FALSE]
           w == CASE OnCrm(v) -> [v EXCEPT !.mode = "index", !.crmOpen = TRUE]
                  [] OnSummary(v) ->
                       IF v.pager = SumPager(v.sum.job) THEN [v EXCEPT !.mode = "pager"]
                       ELSE [v EXCEPT !.mode = "pager", !.pager = SumPager(v.sum.job),
                                      !.sum.saved = v.pager, !.sum.savedHome = HomeView(v)]
                  [] StackSurface(v) # NoView -> Mount(v, StackSurface(v))
                  [] OTHER -> [v EXCEPT !.mode = "compose"]
           z == [w EXCEPT !.rows = ActiveView(w)]
<1>1. Attach(u) = z
  BY DEF Attach
<1>2. /\ v \in UIs /\ Lays(u, v) /\ v.sum = u.sum /\ v.at = u.at /\ v.mode = u.mode
      /\ v.crmOpen = FALSE /\ v.rows = u.rows /\ v.open = u.open /\ v.preview = u.preview
      /\ v.pager = Back0(u).pager /\ v.home = Back0(u).home
  BY Back0Is, Zenon DEF Back0
<1> HIDE DEF v
<1>3. /\ OnSearch(v) <=> OnSearch(u)
      /\ OnCrm(v) <=> OnCrm(u)
      /\ OnSummary(v) <=> OnSummary(u)
      /\ ActiveView(v) = ActiveView(u) /\ StackSurface(v) = StackSurface(u)
  BY <1>2, SameLayout
<1> DEFINE Goal == /\ w \in UIs /\ Lays(u, w) /\ w.at = u.at /\ w.preview = u.preview
                   /\ OnCrm(u) => CrmScreen(u, w)
                   /\ OnSummary(u) => SummaryScreen(u, w)
                   /\ StackSurface(u) # NoView => StackScreen(u, w)
                   /\ ~OnCrm(u) /\ ~OnSummary(u) /\ StackSurface(u) = NoView => ComposeScreen(u, w)
<1>m. "index" \in Modes /\ "pager" \in Modes /\ "compose" \in Modes /\ TRUE \in BOOLEAN
  BY DEF Modes
<1>4. ASSUME NEW x \in Modes
      PROVE  LET a == [v EXCEPT !.mode = x] IN
             /\ a \in UIs /\ Lays(u, a) /\ a.mode = x /\ a.sum = u.sum /\ a.at = u.at
             /\ a.crmOpen = FALSE /\ a.open = u.open /\ a.preview = u.preview
             /\ a.pager = v.pager /\ a.home = v.home
  <2> DEFINE a == [v EXCEPT !.mode = x]
  <2>1. /\ a \in UIs /\ Lays(v, a) /\ a.mode = x /\ a.sum = v.sum /\ a.at = v.at
        /\ a.crmOpen = v.crmOpen /\ a.open = v.open /\ a.preview = v.preview
        /\ a.pager = v.pager /\ a.home = v.home
    BY <1>2, ModeReplaced, Zenon
  <2> HIDE DEF a
  <2>2. /\ a \in UIs /\ Lays(u, a) /\ a.mode = x /\ a.sum = u.sum /\ a.at = u.at
        /\ a.crmOpen = FALSE /\ a.open = u.open /\ a.preview = u.preview
        /\ a.pager = v.pager /\ a.home = v.home
    BY <1>2, <2>1, Zenon DEF Lays
  <2> QED
    BY <2>2, Zenon DEF a
<1>5. ASSUME OnCrm(u) PROVE Goal
  <2> DEFINE a == [v EXCEPT !.mode = "index"]
             b == [a EXCEPT !.crmOpen = TRUE]
  <2>1. w = b
    <3>1. OnCrm(v) /\ ~OnSummary(v) /\ ~(StackSurface(v) # NoView)
      BY <1>3, <1>5, Apart
    <3> QED
      BY <3>1, Zenon
  <2>2. /\ a \in UIs /\ Lays(u, a) /\ a.mode = "index" /\ a.sum = u.sum /\ a.at = u.at
        /\ a.open = u.open /\ a.preview = u.preview /\ a.pager = v.pager /\ a.home = v.home
    BY <1>4, <1>m, Zenon
  <2> HIDE DEF a
  <2>3. /\ b \in UIs /\ Lays(a, b) /\ b.crmOpen = TRUE
        /\ b.sum = a.sum /\ b.at = a.at /\ b.mode = a.mode /\ b.pager = a.pager
        /\ b.home = a.home /\ b.open = a.open /\ b.preview = a.preview
    BY <2>2, <1>m, CrmOpenReplaced, Zenon
  <2> HIDE DEF b, w
  <2>4. CrmScreen(u, w)
    BY <1>2, <2>1, <2>2, <2>3, Zenon DEF CrmScreen
  <2>5. w \in UIs /\ Lays(u, w) /\ w.at = u.at /\ w.preview = u.preview
    BY <2>1, <2>2, <2>3, Zenon DEF Lays
  <2> QED
    BY <1>5, <2>4, <2>5, Apart
<1>6. ASSUME OnSummary(u) PROVE Goal
  <2>0. ~OnCrm(u) /\ StackSurface(u) = NoView /\ HasSummary(u) /\ v.pager = u.pager /\ v.home = u.home
    BY <1>2, <1>6, Apart DEF OnSummary, Back0
  <2>1. CASE Displaced(u)
    <3> DEFINE a == [v EXCEPT !.mode = "pager"]
    <3>1. w = a
      BY <1>2, <1>3, <1>6, <2>0, <2>1 DEF Displaced
    <3>2. /\ a \in UIs /\ Lays(u, a) /\ a.mode = "pager" /\ a.sum = u.sum /\ a.at = u.at /\ a.crmOpen = FALSE
          /\ a.open = u.open /\ a.preview = u.preview /\ a.pager = v.pager /\ a.home = v.home
      BY <1>4, <1>m, Zenon
    <3> HIDE DEF a, w
    <3>3. SummaryScreen(u, w)
      BY <2>0, <2>1, <3>1, <3>2 DEF SummaryScreen, Displaced
    <3> QED
      BY <1>6, <2>0, <3>1, <3>2, <3>3
  <2>2. CASE ~Displaced(u)
    <3> DEFINE a == [v EXCEPT !.mode = "pager"]
               b == [a EXCEPT !.pager = SumPager(v.sum.job)]
               c == [b EXCEPT !.sum.saved = v.pager, !.sum.savedHome = HomeView(v)]
    <3>1. w = c
      BY <1>2, <1>3, <1>6, <2>0, <2>2 DEF Displaced
    <3>2. /\ a \in UIs /\ Lays(u, a) /\ a.mode = "pager" /\ a.sum = u.sum /\ a.at = u.at /\ a.crmOpen = FALSE
          /\ a.open = u.open /\ a.preview = u.preview /\ a.pager = v.pager /\ a.home = v.home
      BY <1>4, <1>m, Zenon
    <3>3. SumPager(v.sum.job) \in Pagers /\ v.pager \in Pagers /\ HomeView(v) \in Homes
          /\ v.sum.job = u.sum.job /\ HomeView(v) = HomeView(u)
      <4>1. u.sum.job \in 1..MaxJobs
        BY <2>0, Fields, SurfacesAssumption, SMT DEF HasSummary
      <4> QED
        BY <1>2, <2>0, <4>1, Fields, HomeIs, PagersAre, PlacesAre DEF HomeView
    <3> HIDE DEF a
    <3>4. /\ b \in UIs /\ Lays(a, b) /\ b.pager = SumPager(v.sum.job)
          /\ b.sum = a.sum /\ b.at = a.at /\ b.mode = a.mode /\ b.crmOpen = a.crmOpen
          /\ b.home = a.home /\ b.open = a.open /\ b.preview = a.preview
      BY <3>2, <3>3, PagerReplaced, Zenon
    <3> HIDE DEF b
    <3>5. /\ c \in UIs /\ Lays(b, c) /\ c.sum.saved = v.pager /\ c.sum.savedHome = HomeView(v)
          /\ c.at = b.at /\ c.mode = b.mode /\ c.crmOpen = b.crmOpen
          /\ c.pager = b.pager /\ c.home = b.home /\ c.open = b.open /\ c.preview = b.preview
      <4> DEFINE x == v.pager
                 h == HomeView(v)
      <4>1. b \in UIs /\ x \in Pagers /\ h \in Homes /\ c = [b EXCEPT !.sum.saved = x, !.sum.savedHome = h]
        BY <3>3, <3>4
      <4> HIDE DEF x, h, c
      <4> DEFINE s == [b.sum EXCEPT !.saved = x]
                 t == [s EXCEPT !.savedHome = h]
                 d == [b EXCEPT !.sum = s]
                 e == [d EXCEPT !.sum = t]
      <4>s. b.sum \in Sums
        BY <4>1, Fields, Zenon
      <4>2. s \in Sums /\ s.saved = x /\ s.job = b.sum.job
        BY <4>1, <4>s, SavedReplaced, Zenon
      <4>3. t \in Sums /\ t.savedHome = h /\ t.saved = x /\ t.job = b.sum.job
        <5> HIDE DEF s
        <5> QED
          BY <4>1, <4>2, SavedHomeReplaced, Zenon
      <4>4. /\ d \in UIs /\ d.dialogs = b.dialogs /\ d.searches = b.searches /\ d.crm = b.crm /\ d.sum = s
            /\ d.at = b.at /\ d.mode = b.mode /\ d.crmOpen = b.crmOpen /\ d.rows = b.rows
            /\ d.pager = b.pager /\ d.home = b.home /\ d.open = b.open /\ d.preview = b.preview
        <5> HIDE DEF s
        <5> QED
          BY <4>1, <4>2, SumReplaced
      <4>5. c = e
        <5>1. c = [d EXCEPT !.sum.savedHome = h]
          BY <4>1
        <5> HIDE DEF d, s
        <5>2. [d EXCEPT !.sum.savedHome = h] = [d EXCEPT !.sum = [d.sum EXCEPT !.savedHome = h]]
          OBVIOUS
        <5> QED
          BY <4>4, <5>1, <5>2
      <4> HIDE DEF d, t
      <4>6. /\ e \in UIs /\ e.dialogs = d.dialogs /\ e.searches = d.searches /\ e.crm = d.crm /\ e.sum = t
            /\ e.at = d.at /\ e.mode = d.mode /\ e.crmOpen = d.crmOpen /\ e.rows = d.rows
            /\ e.pager = d.pager /\ e.home = d.home /\ e.open = d.open /\ e.preview = d.preview
        BY <4>3, <4>4, SumReplaced
      <4> HIDE DEF e
      <4> QED
        BY <4>3, <4>4, <4>5, <4>6, Zenon DEF Lays, x, h
    <3> HIDE DEF c, w
    <3>6. SummaryScreen(u, w)
      BY <2>0, <2>2, <3>1, <3>2, <3>3, <3>4, <3>5 DEF SummaryScreen
    <3>7. w \in UIs /\ Lays(u, w) /\ w.at = u.at /\ w.preview = u.preview
      BY <3>1, <3>2, <3>4, <3>5, Zenon DEF Lays
    <3> QED
      BY <1>6, <2>0, <3>6, <3>7
  <2> QED
    BY <2>1, <2>2
<1>7. ASSUME StackSurface(u) # NoView PROVE Goal
  <2>0. ~OnCrm(u) /\ ~OnSummary(u)
    BY <1>7, Apart
  <2> DEFINE s == StackSurface(u)
  <2>1. w = Mount(v, s)
    BY <1>3, <1>7, <2>0
  <2>2. s \in Views
    BY <1>7, SurfaceIs
  <2> HIDE DEF w, s
  <2>3. /\ w \in UIs /\ Lays(v, w) /\ w.sum = v.sum /\ w.at = v.at
        /\ w.crmOpen = v.crmOpen /\ w.rows = v.rows /\ w.preview = v.preview
        /\ w.home = s /\ w.mode = (IF w.pager = NoPager THEN "index" ELSE "pager")
        /\ w.pager = (IF v.open[s] # NoPager THEN v.open[s] ELSE IF HomeView(v) = s THEN v.pager ELSE NoPager)
        /\ \A x \in Views : w.open[x] = Beneath(v.pager, HomeView(v), v.open, s, x)
    BY <1>2, <2>1, <2>2, MountIs
  <2>4. HomeView(v) = HomeView(Back0(u))
    BY <1>2 DEF HomeView
  <2>5. StackScreen(u, w)
    BY <1>2, <2>3, <2>4 DEF StackScreen, s
  <2>6. w \in UIs /\ Lays(u, w) /\ w.at = u.at /\ w.preview = u.preview
    BY <1>2, <2>3, Zenon DEF Lays
  <2> QED
    BY <2>0, <1>7, <2>5, <2>6
<1>8. ASSUME ~OnCrm(u), ~OnSummary(u), StackSurface(u) = NoView PROVE Goal
  <2> DEFINE a == [v EXCEPT !.mode = "compose"]
  <2>1. w = a
    BY <1>3, <1>8
  <2>2. /\ a \in UIs /\ Lays(u, a) /\ a.mode = "compose" /\ a.sum = u.sum /\ a.at = u.at /\ a.crmOpen = FALSE
        /\ a.open = u.open /\ a.preview = u.preview /\ a.pager = v.pager /\ a.home = v.home
    BY <1>4, <1>m, Zenon
  <2> HIDE DEF a, w
  <2>3. ComposeScreen(u, w)
    BY <1>2, <2>1, <2>2 DEF ComposeScreen
  <2> QED
    BY <1>8, <2>1, <2>2, <2>3
<1>9. Goal
  <2> HIDE DEF Goal
  <2> QED
    BY <1>5, <1>6, <1>7, <1>8, Zenon
<1> HIDE DEF w
<1>10. ActiveView(w) = ActiveView(u) /\ ActiveView(u) \in Views
  BY <1>9, SameLayout, SurfaceIs
<1>14. w \in UIs /\ ActiveView(w) \in Views
  BY <1>9, <1>10
<1>11. /\ z \in UIs /\ Lays(w, z) /\ z.rows = ActiveView(w)
       /\ z.sum = w.sum /\ z.at = w.at /\ z.mode = w.mode /\ z.crmOpen = w.crmOpen
       /\ z.pager = w.pager /\ z.home = w.home /\ z.open = w.open /\ z.preview = w.preview
  BY <1>14, RowsReplaced, Zenon
<1> HIDE DEF z
<1>12. z \in UIs /\ Lays(u, z) /\ z.at = u.at /\ z.preview = u.preview /\ z.rows = ActiveView(u)
  BY <1>9, <1>10, <1>11, Zenon DEF Lays
<1>13. /\ CrmScreen(u, w) => CrmScreen(u, z)
       /\ SummaryScreen(u, w) => SummaryScreen(u, z)
       /\ StackScreen(u, w) => StackScreen(u, z)
       /\ ComposeScreen(u, w) => ComposeScreen(u, z)
  BY <1>11, Zenon DEF CrmScreen, SummaryScreen, StackScreen, ComposeScreen
<1> QED
  BY <1>1, <1>9, <1>12, <1>13, Zenon

-----------------------------------------------------------------------------
(* The invariant's parts, for a model u and the messages A that each view *)
(* asked for. *)

(* Nothing open belongs to a tab that is gone; only the summary's own tab *)
(* shows the summary's pager. *)
Housed(u) ==
  /\ \A v \in Views : ~Live(u, v) => u.open[v] = NoPager /\ u.home # v
  /\ \A v \in Views : u.open[v].kind # "summary"
  /\ u.sum.saved.kind # "summary"
  /\ u.pager.kind = "summary" => Displaced(u)
  /\ Displaced(u) => u.mode = "pager" /\ (u.sum.savedHome = NoView \/ Live(u, u.sum.savedHome))

(* The screen is that of the tab. *)
Agrees(u) ==
  /\ u.rows = ActiveView(u) /\ (u.crmOpen <=> OnCrm(u))
  /\ (u.mode = "compose" <=> u.at \in 1..u.dialogs)
  /\ OnSummary(u) => u.mode = "pager"
  /\ u.preview.on => StackSurface(u) # NoView

Pointed(u) == OnSummary(u) => u.pager = SumPager(u.sum.job)

OfAsked(A, g, v) == g = NoPager \/ \E m \in A[v] : g = Shows(m)

(* What a surface may take the screen from. *)
Ready(A, u) ==
  /\ ~u.preview.on
  /\ \A v \in Views : OfAsked(A, u.open[v], v)
  /\ Displaced(u) => u.sum.savedHome \in Views /\ OfAsked(A, u.sum.saved, u.sum.savedHome)
  /\ ~Displaced(u) => OfAsked(A, u.pager, HomeView(u))

(* Every open message is one its surface asked for. *)
Owned(A, u) ==
  /\ \A v \in Views : OfAsked(A, u.open[v], v)
  /\ Displaced(u) => OnSummary(u) /\ u.sum.savedHome \in Views /\ OfAsked(A, u.sum.saved, u.sum.savedHome)
  /\ ~u.preview.on => Displaced(u) \/ OfAsked(A, u.pager, HomeView(u))
  /\ u.preview.on => /\ u.home \in {NoView, ActiveView(u)} /\ u.preview.msg \in A[ActiveView(u)]
                     /\ (u.pager = Box /\ u.mode = "index") \/ OfAsked(A, u.pager, ActiveView(u))
  /\ u.mode = "pager" /\ StackSurface(u) # NoView /\ (u.pager # NoPager \/ u.home # NoView)
     => HomeView(u) = StackSurface(u)

LEMMA NotSummary ==
  /\ \A A, g, v : OfAsked(A, g, v) => g.kind # "summary"
  /\ \A u : Displaced(u) => u.pager.kind = "summary"
  /\ \A u : u.pager.kind # "summary" => ~Displaced(u)
<1>1. \A A, g, v : OfAsked(A, g, v) => g.kind # "summary"
  BY Kinds DEF OfAsked
<1>2. \A u : Displaced(u) => u.pager.kind = "summary"
  BY Kinds DEF Displaced
<1> QED
  BY <1>1, <1>2

LEMMA HomeLives ==
  ASSUME NEW u \in UIs, Housed(u)
  PROVE  Live(u, HomeView(u)) /\ (u.home = NoView \/ Live(u, u.home))
<1>1. Live(u, Mail)
  BY DEF Live
<1>2. u.home = NoView \/ Live(u, u.home)
  BY Fields, PlacesAre, Zenon DEF Housed
<1> QED
  BY <1>1, <1>2 DEF HomeView

LEMMA BackHoused ==
  ASSUME NEW u \in UIs, Housed(u), ~OnSummary(u)
  PROVE  LET b == Back0(u) IN
         /\ b \in UIs /\ Lays(u, b) /\ b.open = u.open /\ b.sum = u.sum
         /\ b.pager.kind # "summary" /\ (b.home = NoView \/ Live(u, b.home)) /\ Live(u, HomeView(b))
<1> DEFINE b == Back0(u)
<1>1. b = Restored(u)
  BY DEF Back0
<1>2. /\ b \in UIs /\ Lays(u, b) /\ b.open = u.open /\ b.sum = u.sum
      /\ Displaced(u) => b.pager = u.sum.saved /\ b.home = u.sum.savedHome
      /\ ~Displaced(u) => b = u
  BY <1>1, RestoredIs
<1> HIDE DEF b
<1>3. b.pager.kind # "summary"
  BY <1>2 DEF Housed
<1>4. b.home = NoView \/ Live(u, b.home)
  BY <1>2, HomeLives DEF Housed
<1>5. Live(u, HomeView(b))
  BY <1>4 DEF HomeView, Live
<1> QED
  BY <1>2, <1>3, <1>4, <1>5 DEF b

LEMMA AttachHoused ==
  ASSUME NEW u \in UIs, Housed(u)
  PROVE  Housed(Attach(u))
<1> DEFINE w == Attach(u)
<1>1. /\ w \in UIs /\ Lays(u, w) /\ w.at = u.at
      /\ OnCrm(u) => CrmScreen(u, w)
      /\ OnSummary(u) => SummaryScreen(u, w)
      /\ StackSurface(u) # NoView => StackScreen(u, w)
      /\ ~OnCrm(u) /\ ~OnSummary(u) /\ StackSurface(u) = NoView => ComposeScreen(u, w)
  BY AttachIs
<1> HIDE DEF w
<1>2. (HasSummary(w) <=> HasSummary(u)) /\ (\A v : Live(w, v) <=> Live(u, v)) /\ w.sum.job = u.sum.job
  BY <1>1, SameLayout DEF Lays
<1>3. ASSUME w.open = u.open, w.sum = u.sum, w.pager = Back0(u).pager, w.home = Back0(u).home,
             ~OnSummary(u)
      PROVE  Housed(w)
  <2>1. w.pager.kind # "summary" /\ (w.home = NoView \/ Live(u, w.home))
    BY <1>3, BackHoused
  <2>2. ~Displaced(w)
    BY <2>1, NotSummary
  <2> QED
    BY <1>2, <1>3, <2>1, <2>2, PlacesAre DEF Housed
<1>4. ASSUME OnSummary(u) PROVE Housed(w)
  <2>1. SummaryScreen(u, w) /\ HasSummary(u)
    BY <1>1, <1>4 DEF OnSummary
  <2>2. Displaced(w) /\ w.mode = "pager"
    BY <1>2, <2>1 DEF SummaryScreen, Displaced
  <2>3. w.sum.saved.kind # "summary" /\ (w.sum.savedHome = NoView \/ Live(u, w.sum.savedHome))
    <3>1. CASE Displaced(u)
      BY <2>1, <3>1 DEF SummaryScreen, Housed
    <3>2. CASE ~Displaced(u)
      BY <2>1, <3>2, HomeLives DEF SummaryScreen, Housed
    <3> QED
      BY <3>1, <3>2
  <2> QED
    BY <1>2, <2>1, <2>2, <2>3 DEF Housed, SummaryScreen
<1>5. ASSUME StackSurface(u) # NoView PROVE Housed(w)
  <2>0. ~OnSummary(u) /\ StackScreen(u, w)
    BY <1>1, <1>5, Apart
  <2> DEFINE s == StackSurface(u)
             b == Back0(u)
  <2>1. s \in Views /\ Live(u, s)
    BY <1>5, SurfaceIs
  <2>2. b.pager.kind # "summary" /\ Live(u, HomeView(b))
    BY <2>0, BackHoused
  <2>3. /\ w.home = s /\ w.sum = u.sum
        /\ w.pager \in {NoPager, u.open[s]} \/ w.pager = b.pager
        /\ \A x \in Views : \/ w.open[x] \in {NoPager, u.open[x]}
                            \/ x = HomeView(b) /\ w.open[x] = b.pager
    BY <2>0 DEF StackScreen, Beneath
  <2> HIDE DEF s, b
  <2>4. w.pager.kind # "summary" /\ \A x \in Views : w.open[x].kind # "summary"
    BY <2>1, <2>2, <2>3, Kinds DEF Housed
  <2>5. \A x \in Views : ~Live(u, x) => w.open[x] = NoPager /\ w.home # x
    BY <2>1, <2>2, <2>3 DEF Housed
  <2>6. ~Displaced(w)
    BY <2>4, NotSummary
  <2> QED
    BY <1>2, <2>3, <2>4, <2>5, <2>6 DEF Housed
<1> QED
  <2>1. CASE OnCrm(u)
    BY <1>1, <1>3, <2>1, Apart DEF CrmScreen, w
  <2>2. CASE ~OnCrm(u) /\ ~OnSummary(u) /\ StackSurface(u) = NoView
    BY <1>1, <1>3, <2>2 DEF ComposeScreen, w
  <2> QED
    BY <1>4, <1>5, <2>1, <2>2 DEF w

LEMMA Places ==
  ASSUME NEW u \in UIs, u.at < TabCount(u)
  PROVE  u.at = 0 \/ u.at \in 1..u.dialogs \/ OnSearch(u) \/ OnCrm(u) \/ OnSummary(u)
<1>1. /\ u.at \in Nat /\ u.dialogs \in Nat /\ Len(u.searches) \in Nat
      /\ CrmIdx(u) = 1 + u.dialogs + Len(u.searches)
  BY Fields DEF CrmIdx
<1>2. u.at = 0 \/ u.at \in 1..u.dialogs \/ OnSearch(u) \/ u.at >= CrmIdx(u)
  BY <1>1, SMT DEF OnSearch
<1>3. u.crm => SummaryIdx(u) = CrmIdx(u) + 1
  BY DEF SummaryIdx
<1>4. ~u.crm => SummaryIdx(u) = CrmIdx(u)
  BY <1>1, SMT DEF SummaryIdx
<1>5. HasSummary(u) => TabCount(u) = SummaryIdx(u) + 1
  BY DEF TabCount
<1>6. ~HasSummary(u) => TabCount(u) = SummaryIdx(u)
  BY StripIs, SMT DEF TabCount
<1>7. ASSUME u.at >= CrmIdx(u) PROVE OnCrm(u) \/ OnSummary(u)
  <2>1. CASE u.crm /\ u.at = CrmIdx(u)
    BY <2>1 DEF OnCrm
  <2>2. CASE ~(u.crm /\ u.at = CrmIdx(u))
    <3>1. u.at >= SummaryIdx(u)
      BY <1>1, <1>3, <1>4, <1>7, <2>2, SMT
    <3>2. HasSummary(u)
      BY <1>1, <1>6, <3>1, StripIs, SMT
    <3>3. u.at = SummaryIdx(u)
      BY <1>1, <1>5, <3>1, <3>2, StripIs, SMT
    <3> QED
      BY <3>2, <3>3 DEF OnSummary
  <2> QED
    BY <2>1, <2>2
<1> QED
  BY <1>2, <1>7

LEMMA AttachAgrees ==
  ASSUME NEW u \in UIs, u.at < TabCount(u), ~u.preview.on
  PROVE  Agrees(Attach(u)) /\ Pointed(Attach(u))
<1> DEFINE w == Attach(u)
<1>1. /\ w \in UIs /\ Lays(u, w) /\ w.at = u.at /\ w.preview = u.preview /\ w.rows = ActiveView(u)
      /\ OnCrm(u) => CrmScreen(u, w)
      /\ OnSummary(u) => SummaryScreen(u, w)
      /\ StackSurface(u) # NoView => StackScreen(u, w)
      /\ ~OnCrm(u) /\ ~OnSummary(u) /\ StackSurface(u) = NoView => ComposeScreen(u, w)
  BY AttachIs
<1> HIDE DEF w
<1>2. /\ OnCrm(w) <=> OnCrm(u)
      /\ OnSummary(w) <=> OnSummary(u)
      /\ ActiveView(w) = ActiveView(u) /\ w.sum.job = u.sum.job /\ w.dialogs = u.dialogs
  BY <1>1, SameLayout DEF Lays
<1>3. w.crmOpen <=> OnCrm(u)
  BY <1>1, Apart DEF CrmScreen, SummaryScreen, StackScreen, ComposeScreen
<1>4. w.mode = "compose" <=> u.at \in 1..u.dialogs
  <2>1. u.at \in 1..u.dialogs => ComposeScreen(u, w)
    BY <1>1, Apart
  <2>2. ~OnCrm(u) /\ ~OnSummary(u) /\ StackSurface(u) = NoView => u.at \in 1..u.dialogs
    BY Places, SurfaceIs
  <2>3. OnCrm(u) \/ OnSummary(u) \/ StackSurface(u) # NoView => w.mode # "compose"
    BY <1>1 DEF CrmScreen, SummaryScreen, StackScreen
  <2> QED
    BY <2>1, <2>2, <2>3 DEF ComposeScreen
<1>5. OnSummary(u) => w.mode = "pager" /\ w.pager = SumPager(u.sum.job)
  BY <1>1 DEF SummaryScreen
<1>6. Agrees(w)
  BY <1>1, <1>2, <1>3, <1>4, <1>5, Zenon DEF Agrees
<1>7. Pointed(w)
  BY <1>2, <1>5 DEF Pointed
<1> QED
  BY <1>6, <1>7 DEF w

LEMMA BackReady ==
  ASSUME NEW A, NEW u \in UIs, Ready(A, u), ~OnSummary(u)
  PROVE  OfAsked(A, Back0(u).pager, HomeView(Back0(u)))
<1>1. Back0(u) = Restored(u)
  BY DEF Back0
<1>2. CASE Displaced(u)
  <2>1. Back0(u).pager = u.sum.saved /\ Back0(u).home = u.sum.savedHome
    BY <1>1, <1>2, RestoredIs
  <2>2. u.sum.savedHome \in Views /\ OfAsked(A, u.sum.saved, u.sum.savedHome)
    BY <1>2 DEF Ready
  <2>3. HomeView(Back0(u)) = u.sum.savedHome
    BY <2>1, <2>2, PlacesAre DEF HomeView
  <2> QED
    BY <2>1, <2>2, <2>3
<1>3. CASE ~Displaced(u)
  BY <1>1, <1>3, RestoredIs DEF Ready
<1> QED
  BY <1>2, <1>3

LEMMA AttachOwned ==
  ASSUME NEW A, NEW u \in UIs, Ready(A, u)
  PROVE  Owned(A, Attach(u))
<1> DEFINE w == Attach(u)
<1>1. /\ w \in UIs /\ Lays(u, w) /\ w.at = u.at /\ w.preview = u.preview
      /\ OnCrm(u) => CrmScreen(u, w)
      /\ OnSummary(u) => SummaryScreen(u, w)
      /\ StackSurface(u) # NoView => StackScreen(u, w)
      /\ ~OnCrm(u) /\ ~OnSummary(u) /\ StackSurface(u) = NoView => ComposeScreen(u, w)
  BY AttachIs
<1> HIDE DEF w
<1>2. /\ OnSummary(w) <=> OnSummary(u)
      /\ StackSurface(w) = StackSurface(u)
      /\ HasSummary(w) <=> HasSummary(u)
      /\ w.sum.job = u.sum.job /\ ~w.preview.on
  BY <1>1, SameLayout DEF Lays, Ready
<1>3. ASSUME w.open = u.open, w.pager = Back0(u).pager, w.home = Back0(u).home,
             ~OnSummary(u), StackSurface(u) = NoView
      PROVE  Owned(A, w)
  <2>1. OfAsked(A, w.pager, HomeView(w))
    BY <1>3, BackReady DEF HomeView
  <2>2. ~Displaced(w)
    BY <2>1, NotSummary
  <2> QED
    BY <1>2, <1>3, <2>1, <2>2 DEF Owned, Ready
<1>4. ASSUME OnSummary(u) PROVE Owned(A, w)
  <2>1. SummaryScreen(u, w) /\ HasSummary(u) /\ StackSurface(u) = NoView
    BY <1>1, <1>4, Apart DEF OnSummary
  <2>2. Displaced(w)
    BY <1>2, <2>1 DEF SummaryScreen, Displaced
  <2>3. w.sum.savedHome \in Views /\ OfAsked(A, w.sum.saved, w.sum.savedHome)
    <3>1. CASE Displaced(u)
      BY <2>1, <3>1 DEF SummaryScreen, Ready
    <3>2. CASE ~Displaced(u)
      BY <2>1, <3>2, HomeIs DEF SummaryScreen, Ready
    <3> QED
      BY <3>1, <3>2
  <2>4. w.open = u.open
    BY <2>1 DEF SummaryScreen
  <2> QED
    BY <1>2, <1>4, <2>1, <2>2, <2>3, <2>4 DEF Owned, Ready
<1>5. ASSUME StackSurface(u) # NoView PROVE Owned(A, w)
  <2>0. ~OnSummary(u) /\ StackScreen(u, w)
    BY <1>1, <1>5, Apart
  <2> DEFINE s == StackSurface(u)
             b == Back0(u)
  <2>1. s \in Views
    BY <1>5, SurfaceIs
  <2>2. OfAsked(A, b.pager, HomeView(b))
    BY <2>0, BackReady
  <2>3. /\ w.home = s
        /\ w.pager \in {NoPager, u.open[s]} \/ (w.pager = b.pager /\ HomeView(b) = s)
        /\ \A x \in Views : \/ w.open[x] \in {NoPager, u.open[x]}
                            \/ x = HomeView(b) /\ w.open[x] = b.pager
    BY <2>0 DEF StackScreen, Beneath
  <2>n. \A v : OfAsked(A, NoPager, v)
    BY DEF OfAsked
  <2>r. \A v \in Views : OfAsked(A, u.open[v], v)
    BY DEF Ready
  <2>d. s = StackSurface(u)
    OBVIOUS
  <2> HIDE DEF s, b
  <2>4. HomeView(w) = s
    BY <2>1, <2>3, PlacesAre DEF HomeView
  <2>5. OfAsked(A, w.pager, s)
    BY <2>1, <2>2, <2>3, <2>n, <2>r, Zenon
  <2>6. \A x \in Views : OfAsked(A, w.open[x], x)
    BY <2>2, <2>3, <2>n, <2>r, Zenon
  <2>7. ~Displaced(w)
    BY <2>5, NotSummary
  <2> QED
    BY <1>2, <2>4, <2>5, <2>6, <2>7, <2>d DEF Owned
<1> QED
  <2>1. CASE OnCrm(u)
    BY <1>1, <1>3, <2>1, Apart DEF CrmScreen, w
  <2>2. CASE ~OnCrm(u) /\ ~OnSummary(u) /\ StackSurface(u) = NoView
    BY <1>1, <1>3, <2>2 DEF ComposeScreen, w
  <2> QED
    BY <1>4, <1>5, <2>1, <2>2 DEF w

-----------------------------------------------------------------------------
(* What the operations on the strip do. *)

(* What is open is as in u; the tabs of the searches too. *)
SameOpens(u, w) ==
  /\ w.searches = u.searches /\ w.sum = u.sum /\ w.mode = u.mode
  /\ w.pager = u.pager /\ w.home = u.home /\ w.open = u.open /\ w.preview = u.preview

LEMMA OpensStay ==
  ASSUME NEW u \in UIs, NEW w \in UIs, SameOpens(u, w)
  PROVE  (Housed(u) => Housed(w)) /\ \A A : Ready(A, u) => Ready(A, w)
<1>1. Displaced(w) <=> Displaced(u)
  BY DEF Displaced, HasSummary, SameOpens
<1>2. \A v : Live(w, v) <=> Live(u, v)
  BY Zenon DEF Live, SameOpens
<1>3. HomeView(w) = HomeView(u)
  BY DEF HomeView, SameOpens
<1>4. Housed(u) => Housed(w)
  BY <1>1, <1>2, Zenon DEF Housed, SameOpens
<1>5. ASSUME NEW A, Ready(A, u) PROVE Ready(A, w)
  BY <1>1, <1>3, <1>5, Zenon DEF Ready, SameOpens
<1> QED
  BY <1>4, <1>5

LEMMA OwnedReady ==
  ASSUME NEW A, NEW u \in UIs, ~u.preview.on, Owned(A, u)
  PROVE  Ready(A, u)
<1>1. Displaced(u) => u.sum.savedHome \in Views /\ OfAsked(A, u.sum.saved, u.sum.savedHome)
  BY DEF Owned
<1>2. ~Displaced(u) => OfAsked(A, u.pager, HomeView(u))
  BY DEF Owned
<1> QED
  BY <1>1, <1>2, Zenon DEF Owned, Ready

(* The screen moves, in w, to one of the tabs of u. *)
Leads(u, w) ==
  /\ w \in UIs /\ Lays(u, w) /\ w.at < TabCount(w) /\ w.preview = u.preview
  /\ Housed(u) => Housed(w)
  /\ ~u.preview.on => Agrees(w) /\ Pointed(w)
  /\ \A A : Ready(A, u) => Owned(A, w)

LEMMA GoLeads ==
  ASSUME NEW u \in UIs, NEW i \in Nat, i < TabCount(u)
  PROVE  Leads(u, Go(u, i))
<1> DEFINE a == [u EXCEPT !.at = i]
           w == Attach(a)
<1>1. /\ a \in UIs /\ Lays(u, a) /\ a.at = i /\ SameOpens(u, a)
  BY AtReplaced DEF SameOpens, Lays
<1> HIDE DEF a
<1>2. TabCount(a) = TabCount(u) /\ a.preview = u.preview
  BY <1>1, SameLayout DEF SameOpens
<1>3. (Housed(u) => Housed(a)) /\ \A A : Ready(A, u) => Ready(A, a)
  BY <1>1, OpensStay
<1>4. w \in UIs /\ Lays(a, w) /\ w.at = a.at /\ w.preview = a.preview
  BY <1>1, AttachIs
<1>5. Housed(u) => Housed(w)
  BY <1>1, <1>3, AttachHoused
<1>6. ~u.preview.on => Agrees(w) /\ Pointed(w)
  BY <1>1, <1>2, AttachAgrees
<1>7. ASSUME NEW A, Ready(A, u) PROVE Owned(A, w)
  BY <1>1, <1>3, <1>7, AttachOwned
<1>9. Go(u, i) = w
  BY DEF Go, a
<1> HIDE DEF w
<1>8. Lays(u, w) /\ w.at < TabCount(w)
  <2>1. Lays(u, w)
    BY <1>1, <1>4, Zenon DEF Lays
  <2> QED
    BY <2>1, <1>1, <1>2, <1>4, SameLayout
<1>10. Leads(u, w)
  BY <1>1, <1>2, <1>4, <1>5, <1>6, <1>7, <1>8, Zenon DEF Leads
<1> QED
  BY <1>9, <1>10

LEMMA LandGoes ==
  ASSUME NEW u \in UIs, NEW i \in Nat
  PROVE  \E x \in Nat : x < TabCount(u) /\ Land(u, i) = Go(u, x)
<1> DEFINE left == IF u.at >= i /\ u.at > 0 THEN u.at - 1 ELSE u.at
           x == IF left > TabCount(u) - 1 THEN TabCount(u) - 1 ELSE left
<1>1. Land(u, i) = Go(u, x)
  BY DEF Land
<1>2. u.at \in Nat /\ TabCount(u) \in Nat /\ TabCount(u) > 0
  BY Fields, StripIs
<1>3. left \in Nat
  BY <1>2, SMT
<1> HIDE DEF left
<1>4. x \in Nat /\ x < TabCount(u)
  BY <1>2, <1>3, SMT
<1> HIDE DEF x
<1> QED
  BY <1>1, <1>4

LEMMA NoSummaryIs == NoSummary \in Sums /\ NoSummary.job = 0 /\ NoSummary.saved = NoPager
<1>1. 0 \in 0..MaxJobs /\ TRUE \in BOOLEAN
  BY SurfacesAssumption, SMT
<1> QED
  BY <1>1, PagersAre, PlacesAre DEF NoSummary, Sums

(* The summary goes, or another takes its place: what it displaced is back. *)
LEMMA Replaced ==
  ASSUME NEW u \in UIs, NEW s \in Sums, s.saved = NoPager
  PROVE  LET w == [Restored(u) EXCEPT !.sum = s] IN
         /\ w \in UIs /\ w.sum = s /\ w.preview = u.preview /\ w.at = u.at
         /\ w.dialogs = u.dialogs /\ w.searches = u.searches /\ w.crm = u.crm
         /\ Housed(u) => Housed(w)
         /\ \A A : Ready(A, u) => Ready(A, w)
<1> DEFINE r == Restored(u)
           w == [r EXCEPT !.sum = s]
<1>1. /\ r \in UIs /\ Lays(u, r) /\ r.sum = u.sum /\ r.at = u.at /\ r.mode = u.mode
      /\ r.crmOpen = u.crmOpen /\ r.rows = u.rows /\ r.open = u.open /\ r.preview = u.preview
      /\ Displaced(u) => r.pager = u.sum.saved /\ r.home = u.sum.savedHome
      /\ ~Displaced(u) => r = u
  BY RestoredIs
<1> HIDE DEF r
<1>2. /\ w \in UIs /\ w.dialogs = r.dialogs /\ w.searches = r.searches /\ w.crm = r.crm /\ w.sum = s
      /\ w.at = r.at /\ w.pager = r.pager
      /\ w.home = r.home /\ w.open = r.open /\ w.preview = r.preview
  BY <1>1, SumReplaced, Zenon
<1> HIDE DEF w
<1>3. \A v : Live(w, v) <=> Live(u, v)
  BY <1>1, <1>2, Zenon DEF Live, Lays
<1>4. ASSUME Housed(u) PROVE Housed(w)
  <2>1. w.pager.kind # "summary" /\ (w.home = NoView \/ Live(u, w.home))
    <3>1. CASE Displaced(u)
      BY <1>1, <1>2, <1>4, <3>1, Zenon DEF Housed
    <3>2. CASE ~Displaced(u)
      <4>1. r = u
        BY <1>1, <3>2
      <4> QED
        BY <1>2, <1>4, <3>2, <4>1, HomeLives, Zenon DEF Housed
    <3> QED
      BY <3>1, <3>2
  <2>2. ~Displaced(w)
    BY <2>1, NotSummary
  <2>3. \A v \in Views : ~Live(u, v) => w.open[v] = NoPager /\ w.home # v
    BY <1>1, <1>2, <1>4, <2>1, PlacesAre DEF Housed
  <2>4. \A v \in Views : w.open[v].kind # "summary"
    BY <1>1, <1>2, <1>4 DEF Housed
  <2>5. w.sum.saved.kind # "summary"
    BY <1>2, Kinds
  <2> QED
    BY <1>3, <2>1, <2>2, <2>3, <2>4, <2>5, Zenon DEF Housed
<1>5. ASSUME NEW A, Ready(A, u) PROVE Ready(A, w)
  <2>1. OfAsked(A, w.pager, HomeView(w))
    <3>1. CASE Displaced(u)
      <4>1. w.pager = u.sum.saved /\ w.home = u.sum.savedHome
        BY <1>1, <1>2, <3>1, Zenon
      <4>2. u.sum.savedHome \in Views /\ OfAsked(A, u.sum.saved, u.sum.savedHome)
        BY <1>5, <3>1 DEF Ready
      <4>3. HomeView(w) = u.sum.savedHome
        BY <4>1, <4>2, PlacesAre DEF HomeView
      <4> QED
        BY <4>1, <4>2, <4>3
    <3>2. CASE ~Displaced(u)
      <4>1. r = u
        BY <1>1, <3>2
      <4>2. HomeView(w) = HomeView(u)
        BY <1>2, <4>1 DEF HomeView
      <4> QED
        BY <1>2, <1>5, <3>2, <4>1, <4>2 DEF Ready
    <3> QED
      BY <3>1, <3>2
  <2>2. ~Displaced(w)
    BY <2>1, NotSummary
  <2>3. ~w.preview.on /\ \A v \in Views : OfAsked(A, w.open[v], v)
    BY <1>1, <1>2, <1>5 DEF Ready
  <2> QED
    BY <2>1, <2>2, <2>3 DEF Ready
<1>6. /\ w.preview = u.preview /\ w.at = u.at
      /\ w.dialogs = u.dialogs /\ w.searches = u.searches /\ w.crm = u.crm
  BY <1>1, <1>2 DEF Lays
<1> QED
  BY <1>2, <1>4, <1>5, <1>6 DEF w, r

(* The screen settles in w, the tabs being those of u or not. *)
Settles(u, w) ==
  /\ w \in UIs /\ w.at < TabCount(w) /\ w.preview = u.preview
  /\ Housed(u) => Housed(w)
  /\ ~u.preview.on => Agrees(w) /\ Pointed(w)
  /\ \A A : Ready(A, u) => Owned(A, w)

LEMMA ThenLeads ==
  ASSUME NEW u, NEW v, NEW w, Leads(v, w), v.preview = u.preview,
         Housed(u) => Housed(v), \A A : Ready(A, u) => Ready(A, v)
  PROVE  Settles(u, w) /\ w.dialogs = v.dialogs
  BY Zenon DEF Leads, Settles, Lays

LEMMA CloseSummaryIs ==
  ASSUME NEW u \in UIs
  PROVE  Settles(u, CloseSummary(u)) /\ CloseSummary(u).dialogs = u.dialogs
<1> DEFINE c == [Restored(u) EXCEPT !.sum = NoSummary]
           x == IF c.at > TabCount(c) - 1 THEN TabCount(c) - 1 ELSE c.at
<1>1. /\ c \in UIs /\ c.preview = u.preview /\ c.dialogs = u.dialogs
      /\ Housed(u) => Housed(c)
      /\ \A A : Ready(A, u) => Ready(A, c)
  BY NoSummaryIs, Replaced, Zenon
<1>2. CloseSummary(u) = Go(c, x)
  BY DEF CloseSummary
<1> HIDE DEF c
<1>3. c.at \in Nat /\ TabCount(c) \in Nat /\ TabCount(c) > 0
  BY <1>1, Fields, StripIs
<1>4. x \in Nat /\ x < TabCount(c)
  BY <1>3, SMT
<1> HIDE DEF x
<1>5. Leads(c, Go(c, x))
  BY <1>1, <1>4, GoLeads
<1>6. Settles(u, Go(c, x)) /\ Go(c, x).dialogs = c.dialogs
  BY <1>1, <1>5, ThenLeads, Zenon
<1> QED
  BY <1>1, <1>2, <1>6

LEMMA Cut ==
  ASSUME NEW S, NEW s \in Seq(S), NEW i \in 1..Len(s)
  PROVE  /\ RemoveAt(s, i) \in Seq(S)
         /\ Len(RemoveAt(s, i)) = Len(s) - 1
         /\ \A k \in 1..(Len(s) - 1) : RemoveAt(s, i)[k] = IF k < i THEN s[k] ELSE s[k + 1]
<1> DEFINE l == SubSeq(s, 1, i - 1)
           r == SubSeq(s, i + 1, Len(s))
<1>1. i \in Int /\ Len(s) \in Nat /\ \A k \in 1..Len(s) : s[k] \in S
  BY ElementOfSeq, LenProperties
<1>2. l \in Seq(S) /\ Len(l) = i - 1 /\ \A k \in 1..(i - 1) : l[k] = s[k]
  <2>1. \A k \in 1..(i - 1) : s[k] \in S
    BY <1>1, SMT
  <2>2. i - 1 \in Int /\ 1 \in Int
    BY <1>1, SMT
  <2>3. /\ l \in Seq(S) /\ Len(l) = IF 1 <= i - 1 THEN (i - 1) - 1 + 1 ELSE 0
        /\ \A k \in 1..((i - 1) - 1 + 1) : l[k] = s[1 + k - 1]
    BY <2>1, <2>2, SubSeqProperties
  <2> QED
    BY <2>3, <1>1, SMT
<1>3. r \in Seq(S) /\ Len(r) = Len(s) - i /\ \A k \in 1..(Len(s) - i) : r[k] = s[i + k]
  <2>1. \A k \in (i + 1)..Len(s) : s[k] \in S
    BY <1>1, SMT
  <2>2. i + 1 \in Int /\ Len(s) \in Int
    BY <1>1, SMT
  <2>3. /\ r \in Seq(S) /\ Len(r) = IF i + 1 <= Len(s) THEN Len(s) - (i + 1) + 1 ELSE 0
        /\ \A k \in 1..(Len(s) - (i + 1) + 1) : r[k] = s[(i + 1) + k - 1]
    BY <2>1, <2>2, SubSeqProperties
  <2> QED
    BY <2>3, <1>1, SMT
<1> HIDE DEF l, r
<1>4. /\ l \o r \in Seq(S) /\ Len(l \o r) = Len(l) + Len(r)
      /\ \A k \in 1..(Len(l) + Len(r)) : (l \o r)[k] = IF k <= Len(l) THEN l[k] ELSE r[k - Len(l)]
  BY <1>2, <1>3, ConcatProperties
<1>5. RemoveAt(s, i) = l \o r
  BY DEF RemoveAt, l, r
<1>6. Len(l) + Len(r) = Len(s) - 1
  BY <1>1, <1>2, <1>3, SMT
<1>7. ASSUME NEW k \in 1..(Len(s) - 1)
      PROVE  (l \o r)[k] = IF k < i THEN s[k] ELSE s[k + 1]
  <2>1. (l \o r)[k] = IF k <= Len(l) THEN l[k] ELSE r[k - Len(l)]
    BY <1>4, <1>6
  <2>2. CASE k < i
    BY <2>1, <2>2, <1>1, <1>2, SMT
  <2>3. CASE ~(k < i)
    <3>1. k - Len(l) \in 1..(Len(s) - i) /\ i + (k - Len(l)) = k + 1 /\ ~(k <= Len(l))
      BY <2>3, <1>1, <1>2, SMT
    <3> QED
      BY <2>1, <2>3, <3>1, <1>3
  <2> QED
    BY <2>2, <2>3
<1> QED
  BY <1>4, <1>5, <1>6, <1>7

(* The search tab is gone, and the screen not yet moved. *)
SearchGone(u) ==
  LET v == ActiveView(u)
      dead == IF u.home = v THEN [u EXCEPT !.pager = NoPager, !.home = NoView] ELSE u
  IN [dead EXCEPT !.open[v] = NoPager, !.searches = RemoveAt(u.searches, u.at - u.dialogs)]

LEMMA SearchGoneIs ==
  ASSUME NEW u \in UIs, OnSearch(u)
  PROVE  LET w == SearchGone(u)
             v == ActiveView(u)
             k == u.at - u.dialogs IN
         /\ CloseSearch(u) = Land(w, u.at)
         /\ k \in 1..Len(u.searches) /\ v = u.searches[k] /\ v \in Views
         /\ w \in UIs /\ w.searches = RemoveAt(u.searches, k) /\ w.open = [u.open EXCEPT ![v] = NoPager]
         /\ w.sum = u.sum /\ w.mode = u.mode /\ w.preview = u.preview /\ w.dialogs = u.dialogs
         /\ u.home = v => w.pager = NoPager /\ w.home = NoView
         /\ u.home # v => w.pager = u.pager /\ w.home = u.home
<1> DEFINE v == ActiveView(u)
           i == u.at - u.dialogs
           r == RemoveAt(u.searches, i)
           p == [u EXCEPT !.pager = NoPager]
           q == [p EXCEPT !.home = NoView]
           d == IF u.home = v THEN q ELSE u
           a == [d EXCEPT !.open[v] = NoPager]
           b == [a EXCEPT !.searches = r]
<1>0. SearchGone(u) = b
  <2>1. d = IF u.home = v THEN [u EXCEPT !.pager = NoPager, !.home = NoView] ELSE u
    OBVIOUS
  <2> HIDE DEF d
  <2>2. b = [d EXCEPT !.open[v] = NoPager, !.searches = r]
    OBVIOUS
  <2> HIDE DEF b
  <2> QED
    BY <2>1, <2>2 DEF SearchGone
<1>1. CloseSearch(u) = Land(SearchGone(u), u.at)
  BY DEF CloseSearch, SearchGone
<1>2. i \in 1..Len(u.searches) /\ v = u.searches[i] /\ v \in Views
  BY Fields, SurfaceIs, SMT DEF OnSearch, ActiveView
<1>3. r \in Seq(Views)
  BY <1>2, Fields, Cut
<1>n. v = ActiveView(u) /\ i = u.at - u.dialogs /\ r = RemoveAt(u.searches, i)
  OBVIOUS
<1> HIDE DEF v, i, r
<1>4. /\ d \in UIs /\ Lays(u, d) /\ d.sum = u.sum /\ d.mode = u.mode /\ d.open = u.open
      /\ d.preview = u.preview
      /\ u.home = v => d.pager = NoPager /\ d.home = NoView
      /\ u.home # v => d = u
  <2>1. CASE u.home = v
    <3>1. /\ p \in UIs /\ Lays(u, p) /\ p.pager = NoPager /\ p.sum = u.sum /\ p.mode = u.mode
          /\ p.open = u.open /\ p.preview = u.preview
      BY PagersAre, PagerReplaced, Zenon
    <3> HIDE DEF p
    <3>2. /\ q \in UIs /\ Lays(p, q) /\ q.home = NoView /\ q.sum = p.sum /\ q.mode = p.mode
          /\ q.pager = p.pager /\ q.open = p.open /\ q.preview = p.preview
      BY <3>1, PlacesAre, HomeReplaced, Zenon
    <3>3. d = q
      BY <2>1
    <3> HIDE DEF q, d
    <3> QED
      BY <2>1, <3>1, <3>2, <3>3, Zenon DEF Lays
  <2>2. CASE u.home # v
    BY <2>2, Zenon DEF Lays
  <2> QED
    BY <2>1, <2>2
<1> HIDE DEF d
<1>5. /\ a \in UIs /\ Lays(d, a) /\ a.open = [d.open EXCEPT ![v] = NoPager]
      /\ a.sum = d.sum /\ a.mode = d.mode /\ a.pager = d.pager /\ a.home = d.home /\ a.preview = d.preview
  <2>1. d \in UIs /\ v \in Views /\ NoPager \in Pagers
    BY <1>2, <1>4, PagersAre
  <2> QED
    BY <2>1, OpenReplaced
<1> HIDE DEF a
<1>6. /\ b \in UIs /\ b.searches = r /\ b.dialogs = a.dialogs /\ b.sum = a.sum /\ b.mode = a.mode
      /\ b.pager = a.pager /\ b.home = a.home /\ b.open = a.open /\ b.preview = a.preview
  BY <1>3, <1>5, SearchesReplaced, Zenon
<1> HIDE DEF b
<1>7. /\ b.open = [u.open EXCEPT ![v] = NoPager] /\ b.sum = u.sum /\ b.mode = u.mode
      /\ b.preview = u.preview /\ b.dialogs = u.dialogs
      /\ u.home = v => b.pager = NoPager /\ b.home = NoView
      /\ u.home # v => b.pager = u.pager /\ b.home = u.home
  BY <1>4, <1>5, <1>6 DEF Lays
<1> QED
  BY <1>0, <1>1, <1>2, <1>6, <1>7, <1>n

LEMMA SearchGoneStays ==
  ASSUME NEW u \in UIs, OnSearch(u), u.mode = "index"
  PROVE  (Housed(u) => Housed(SearchGone(u))) /\ \A A : Ready(A, u) => Ready(A, SearchGone(u))
<1> DEFINE v == ActiveView(u)
           i == u.at - u.dialogs
           r == RemoveAt(u.searches, i)
           b == SearchGone(u)
<1>2. i \in 1..Len(u.searches) /\ v = u.searches[i] /\ v \in Views /\ u.at \in Nat
  BY Fields, SearchGoneIs
<1>3. /\ r \in Seq(Views) /\ Len(r) = Len(u.searches) - 1
      /\ \A k \in 1..(Len(u.searches) - 1) : r[k] = IF k < i THEN u.searches[k] ELSE u.searches[k + 1]
  BY <1>2, Fields, Cut
<1>6. b \in UIs /\ b.searches = r
  BY SearchGoneIs
<1>7. /\ b.open = [u.open EXCEPT ![v] = NoPager] /\ b.sum = u.sum /\ b.mode = u.mode
      /\ b.preview = u.preview /\ b.dialogs = u.dialogs
      /\ u.home = v => b.pager = NoPager /\ b.home = NoView
      /\ u.home # v => b.pager = u.pager /\ b.home = u.home
  BY SearchGoneIs
<1> HIDE DEF v, i, r, b
<1>8. \A x : Live(u, x) /\ x # v => Live(b, x)
  <2> SUFFICES ASSUME NEW x, Live(u, x), x # v PROVE Live(b, x)
    OBVIOUS
  <2>1. CASE x = Mail
    BY <2>1 DEF Live
  <2>2. CASE x # Mail
    <3>0. DOMAIN u.searches = 1..Len(u.searches) /\ DOMAIN r = 1..Len(r) /\ Len(u.searches) \in Nat
      BY <1>3, Fields, LenProperties
    <3>1. PICK k \in 1..Len(u.searches) : u.searches[k] = x
      BY <2>2, <3>0 DEF Live
    <3>2. k # i
      BY <1>2, <3>1
    <3>3. \E j \in 1..Len(r) : r[j] = x
      <4>1. CASE k < i
        <5>1. k \in 1..(Len(u.searches) - 1)
          BY <1>2, <3>0, <3>1, <4>1, SMT
        <5> QED
          BY <1>3, <3>1, <4>1, <5>1
      <4>2. CASE ~(k < i)
        <5>1. k - 1 \in 1..(Len(u.searches) - 1) /\ ~(k - 1 < i) /\ (k - 1) + 1 = k
          BY <1>2, <3>0, <3>1, <3>2, <4>2, SMT
        <5> QED
          BY <1>3, <3>1, <5>1
      <4> QED
        BY <4>1, <4>2
    <3> QED
      BY <1>6, <3>0, <3>3 DEF Live
  <2> QED
    BY <2>1, <2>2
<1>9. \A x \in Views : b.open[x] = IF x = v THEN NoPager ELSE u.open[x]
  BY <1>2, <1>7, Fields
<1>10. Displaced(b) => Displaced(u)
  <2>1. CASE u.home = v
    BY <1>7, <2>1, Kinds, NotSummary
  <2>2. CASE u.home # v
    BY <1>7, <2>2, Zenon DEF Displaced, HasSummary
  <2> QED
    BY <2>1, <2>2
<1>11. ASSUME Housed(u) PROVE Housed(b)
  <2>1. ~Displaced(u) /\ ~Displaced(b)
    BY <1>10, <1>11 DEF Housed
  <2>2. u.pager.kind # "summary" /\ b.pager.kind # "summary"
    BY <1>7, <1>11, <2>1, Kinds DEF Housed
  <2>3. \A x \in Views : ~Live(b, x) => b.open[x] = NoPager /\ b.home # x
    BY <1>7, <1>8, <1>9, <1>11, PlacesAre DEF Housed
  <2>4. \A x \in Views : b.open[x].kind # "summary"
    BY <1>9, <1>11, Kinds DEF Housed
  <2> QED
    BY <1>7, <1>11, <2>1, <2>2, <2>3, <2>4 DEF Housed
<1>12. ASSUME NEW A, Ready(A, u) PROVE Ready(A, b)
  <2>1. \A x : OfAsked(A, NoPager, x)
    BY DEF OfAsked
  <2>2. \A x \in Views : OfAsked(A, b.open[x], x)
    BY <1>9, <1>12, <2>1 DEF Ready
  <2>3. ~Displaced(b) => OfAsked(A, b.pager, HomeView(b))
    <3>1. CASE u.home = v
      BY <1>7, <2>1, <3>1
    <3>2. CASE u.home # v
      <4>1. b.pager = u.pager /\ HomeView(b) = HomeView(u) /\ (Displaced(u) => Displaced(b))
        BY <1>7, <3>2 DEF HomeView, Displaced, HasSummary
      <4> QED
        BY <1>12, <4>1, Zenon DEF Ready
    <3> QED
      BY <3>1, <3>2
  <2> QED
    BY <1>7, <1>10, <1>12, <2>2, <2>3, Zenon DEF Ready
<1> QED
  BY <1>11, <1>12 DEF b

LEMMA CloseSearchIs ==
  ASSUME NEW u \in UIs, OnSearch(u), u.mode = "index"
  PROVE  Settles(u, CloseSearch(u)) /\ CloseSearch(u).dialogs = u.dialogs
<1> DEFINE b == SearchGone(u)
<1>1. b \in UIs /\ b.preview = u.preview /\ b.dialogs = u.dialogs /\ CloseSearch(u) = Land(b, u.at)
  BY SearchGoneIs
<1>2. (Housed(u) => Housed(b)) /\ \A A : Ready(A, u) => Ready(A, b)
  BY SearchGoneStays
<1> HIDE DEF b
<1>3. Leads(b, Land(b, u.at))
  BY <1>1, Fields, LandGoes, GoLeads
<1>4. Settles(u, Land(b, u.at)) /\ Land(b, u.at).dialogs = b.dialogs
  BY <1>1, <1>2, <1>3, ThenLeads, Zenon
<1> QED
  BY <1>1, <1>4

-----------------------------------------------------------------------------
(* The inductive invariant. *)

LoadSet == [id : Nat, msg : Msgs, preview : BOOLEAN, origin : Views]

Types ==
  /\ ui \in UIs /\ ui.dialogs <= MaxDialogs
  /\ nsearch \in 0..MaxSearch /\ njobs \in 0..MaxJobs /\ nloads \in Nat
  /\ loads \subseteq LoadSet /\ asked \in [Views -> SUBSET Msgs]

(* No encounter that tears the screen, the summary, or what is open. *)
Plain == met \cap {"shifted", "covered"} = {}
Screened == met \cap {"shifted", "covered", "clobbered"} = {}
Faithful == met \cap {"shifted", "covered", "promoted"} = {}

IInv ==
  /\ Types
  /\ ui.at < TabCount(ui)
  /\ Housed(ui)
  /\ \A l \in loads : l.msg \in asked[l.origin]
  /\ Plain => Agrees(ui)
  /\ Screened => Pointed(ui)
  /\ Faithful => Owned(asked, ui)

LEMMA Encounters ==
  /\ (Screened => Plain) /\ (Faithful => Plain)
  /\ met \subseteq met' => (Plain' => Plain) /\ (Screened' => Screened) /\ (Faithful' => Faithful)
  /\ "covered" \in met' => ~Plain' /\ ~Screened' /\ ~Faithful'
  BY DEF Plain, Screened, Faithful

(* A step that changes the strip and no load. *)
LEMMA StripStep ==
  ASSUME IInv, Settles(ui, ui'), ui'.dialogs <= MaxDialogs,
         nsearch' \in 0..MaxSearch, njobs' \in 0..MaxJobs,
         loads' = loads, nloads' = nloads, asked' = asked, met \subseteq met',
         ui.preview.on => "covered" \in met'
  PROVE  IInv'
<1>1. Types'
  BY DEF IInv, Types, Settles
<1>2. ui.at' < TabCount(ui') /\ Housed(ui')
  BY DEF IInv, Settles
<1>3. \A l \in loads' : l.msg \in asked'[l.origin]
  BY DEF IInv
<1>4. ASSUME ~ui.preview.on PROVE Agrees(ui') /\ Pointed(ui') /\ (Faithful' => Owned(asked', ui'))
  <2>1. Agrees(ui') /\ Pointed(ui')
    BY <1>4, Zenon DEF Settles
  <2>2. ASSUME Faithful' PROVE Owned(asked', ui')
    <3>1. Owned(asked, ui) /\ ui \in UIs
      BY <2>2, Encounters, Zenon DEF IInv, Types
    <3>2. Ready(asked, ui)
      BY <1>4, <3>1, OwnedReady
    <3> QED
      BY <3>2, Zenon DEF Settles
  <2> QED
    BY <2>1, <2>2
<1>5. ASSUME ui.preview.on PROVE ~Plain' /\ ~Screened' /\ ~Faithful'
  BY <1>5, Encounters, Zenon
<1> QED
  BY <1>1, <1>2, <1>3, <1>4, <1>5, Zenon DEF IInv

LEMMA InvFacts ==
  ASSUME IInv
  PROVE  /\ ui \in UIs /\ ui.at \in Nat /\ TabCount(ui) \in Nat /\ ui.at < TabCount(ui)
         /\ ui.dialogs \in Nat /\ ui.dialogs <= MaxDialogs
         /\ nsearch \in 0..MaxSearch /\ njobs \in 0..MaxJobs
  BY Fields, StripIs DEF IInv, Types

(* The same tabs, or a dialogue or the queue more or less, and the screen on *)
(* one of them. *)
Moves ==
  \E v \in UIs, i \in Nat :
    SameOpens(ui, v) /\ i < TabCount(v) /\ v.dialogs <= MaxDialogs /\ ui' = Go(v, i)

Shifts ==
  /\ Moves
  /\ loads' = loads /\ nloads' = nloads /\ njobs' = njobs /\ nsearch' = nsearch
  /\ asked' = asked /\ met \subseteq met' /\ (ui.preview.on => "covered" \in met')

LEMMA ShiftStep == ASSUME IInv, Shifts PROVE IInv'
<1>s. /\ loads' = loads /\ nloads' = nloads /\ njobs' = njobs /\ nsearch' = nsearch
      /\ asked' = asked /\ met \subseteq met' /\ (ui.preview.on => "covered" \in met')
  BY DEF Shifts
<1>v. PICK v \in UIs, i \in Nat :
        SameOpens(ui, v) /\ i < TabCount(v) /\ v.dialogs <= MaxDialogs /\ ui' = Go(v, i)
  BY DEF Shifts, Moves
<1>1. Leads(v, ui')
  BY <1>v, GoLeads
<1>2. (Housed(ui) => Housed(v)) /\ (\A A : Ready(A, ui) => Ready(A, v)) /\ v.preview = ui.preview
  BY <1>v, InvFacts, OpensStay DEF SameOpens
<1>3. Settles(ui, ui') /\ ui'.dialogs = v.dialogs
  BY <1>1, <1>2, ThenLeads
<1> QED
  BY <1>s, <1>v, <1>3, InvFacts, StripStep

LEMMA TabKeyShifts == ASSUME IInv, TabKey PROVE Shifts
<1>1. SameOpens(ui, ui) /\ ~ui.preview.on /\ TabCount(ui) > 1
  BY DEF SameOpens, TabKey, Free
<1>2. /\ loads' = loads /\ nloads' = nloads /\ njobs' = njobs /\ nsearch' = nsearch
      /\ asked' = asked /\ met' = met
  BY DEF TabKey, Strip
<1> DEFINE x == IF ui.at + 1 >= TabCount(ui) THEN 0 ELSE ui.at + 1
           y == IF ui.at = 0 THEN TabCount(ui) - 1 ELSE ui.at - 1
<1>3. ui' = Go(ui, x) \/ ui' = Go(ui, y)
  BY DEF TabKey, Becomes
<1>4. x \in Nat /\ x < TabCount(ui) /\ y \in Nat /\ y < TabCount(ui)
  BY <1>1, InvFacts, SMT
<1> HIDE DEF x, y
<1>5. Moves
  BY <1>1, <1>3, <1>4, InvFacts DEF Moves
<1> QED
  BY <1>1, <1>2, <1>5 DEF Shifts

LEMMA OpenCrmShifts == ASSUME IInv, OpenCrm PROVE Shifts
<1> DEFINE u == [ui EXCEPT !.crm = TRUE]
<1>1. ui' = Go(u, CrmIdx(u)) /\ ~ui.preview.on
  BY DEF OpenCrm, Becomes, Free
<1>2. /\ loads' = loads /\ nloads' = nloads /\ njobs' = njobs /\ nsearch' = nsearch
      /\ asked' = asked /\ met' = met
  BY DEF OpenCrm, Strip
<1>3. /\ u \in UIs /\ SameOpens(ui, u) /\ u.crm /\ u.dialogs = ui.dialogs
  BY InvFacts, CrmReplaced DEF SameOpens
<1> HIDE DEF u
<1>4. CrmIdx(u) \in Nat /\ CrmIdx(u) < TabCount(u)
  BY <1>3, StripIs, SMT
<1>5. Moves
  BY <1>1, <1>3, <1>4, InvFacts DEF Moves
<1> QED
  BY <1>1, <1>2, <1>5 DEF Shifts

LEMMA CrmKeyShifts == ASSUME IInv, CrmKey PROVE Shifts
<1> DEFINE u == [ui EXCEPT !.crm = FALSE]
<1>1. (ui' = Go(ui, 0) \/ ui' = Go(u, 0)) /\ ~ui.preview.on
  BY DEF CrmKey, Becomes
<1>2. /\ loads' = loads /\ nloads' = nloads /\ njobs' = njobs /\ nsearch' = nsearch
      /\ asked' = asked /\ met' = met
  BY DEF CrmKey, Strip
<1>3. u \in UIs /\ SameOpens(ui, u) /\ SameOpens(ui, ui) /\ u.dialogs = ui.dialogs
  BY InvFacts, CrmReplaced DEF SameOpens
<1> HIDE DEF u
<1>4. 0 \in Nat /\ 0 < TabCount(u) /\ 0 < TabCount(ui)
  BY <1>3, InvFacts, StripIs
<1>5. Moves
  BY <1>1, <1>3, <1>4, InvFacts DEF Moves
<1> QED
  BY <1>1, <1>2, <1>5 DEF Shifts

LEMMA QuitKeeps == ASSUME IInv, Quit PROVE IInv'
<1>1. ui' = CloseSearch(ui) /\ ~ui.preview.on /\ ui.mode = "index" /\ OnSearch(ui)
  BY DEF Quit, Becomes, Free
<1>2. /\ loads' = loads /\ nloads' = nloads /\ njobs' = njobs /\ nsearch' = nsearch
      /\ asked' = asked /\ met' = met
  BY DEF Quit, Strip
<1>3. Settles(ui, ui') /\ ui'.dialogs = ui.dialogs
  BY <1>1, InvFacts, CloseSearchIs
<1> QED
  BY <1>1, <1>2, <1>3, InvFacts, StripStep

LEMMA OnComposeOpenedShifts == ASSUME IInv, OnComposeOpened PROVE Shifts
<1> DEFINE u == [ui EXCEPT !.dialogs = @ + 1]
           i == ui.dialogs + 1
           g == Go(u, i)
<1>1. ui' = [g EXCEPT !.crmOpen = FALSE] /\ ui.dialogs < MaxDialogs
  BY DEF OnComposeOpened, Becomes
<1>2. /\ loads' = loads /\ nloads' = nloads /\ njobs' = njobs /\ nsearch' = nsearch
      /\ asked' = asked /\ met \subseteq met' /\ (ui.preview.on => "covered" \in met')
  BY DEF OnComposeOpened, Arrives
<1>3. i \in Nat /\ u = [ui EXCEPT !.dialogs = i] /\ i <= MaxDialogs
  BY <1>1, InvFacts, SurfacesAssumption, SMT
<1>4. u \in UIs /\ SameOpens(ui, u) /\ u.dialogs = i
  BY <1>3, InvFacts, DialogsReplaced DEF SameOpens
<1> HIDE DEF u
<1>5. i < TabCount(u)
  <2>1. /\ CrmIdx(u) \in Nat /\ SummaryIdx(u) \in Nat /\ TabCount(u) \in Nat
        /\ u.dialogs < CrmIdx(u) /\ CrmIdx(u) <= SummaryIdx(u) /\ SummaryIdx(u) <= TabCount(u)
    BY <1>4, StripIs
  <2> QED
    BY <1>3, <1>4, <2>1, SMT
<1>6. g \in UIs /\ g.crmOpen = FALSE
  <2> DEFINE a == [u EXCEPT !.at = i]
  <2>1. a \in UIs /\ a.at = i /\ a.dialogs = i
    BY <1>3, <1>4, AtReplaced DEF Lays
  <2>2. g = Attach(a)
    BY DEF Go
  <2> HIDE DEF a, g
  <2>3. a.at \in 1..a.dialogs
    BY <2>1, <1>3, InvFacts, SMT
  <2>4. ComposeScreen(a, g)
    BY <2>1, <2>2, <2>3, AttachIs, Apart, SurfaceIs, Zenon
  <2> QED
    BY <2>1, <2>2, <2>4, AttachIs DEF ComposeScreen
<1> HIDE DEF g
<1>7. ui' = g
  BY <1>1, <1>6, SMT DEF UIs
<1>8. Moves
  BY <1>3, <1>4, <1>5, <1>7 DEF Moves, g
<1> QED
  BY <1>2, <1>8 DEF Shifts

LEMMA CloseDialogShifts == ASSUME IInv, NEW i, CloseDialog(i) PROVE Shifts
<1> DEFINE x == ui.dialogs - 1
           u == [ui EXCEPT !.dialogs = x]
<1>1. ui' = Land(u, i) /\ i \in 1..ui.dialogs
  BY DEF CloseDialog, Becomes
<1>2. /\ loads' = loads /\ nloads' = nloads /\ njobs' = njobs /\ nsearch' = nsearch
      /\ asked' = asked /\ met \subseteq met' /\ (ui.preview.on => "covered" \in met')
  BY DEF CloseDialog, Arrives
<1>3. x \in Nat /\ x <= MaxDialogs /\ i \in Nat
  BY <1>1, InvFacts, SurfacesAssumption, SMT
<1> HIDE DEF x
<1>4. u \in UIs /\ SameOpens(ui, u) /\ u.dialogs = x
  BY <1>3, InvFacts, DialogsReplaced DEF SameOpens
<1> HIDE DEF u
<1>5. PICK k \in Nat : k < TabCount(u) /\ Land(u, i) = Go(u, k)
  BY <1>3, <1>4, LandGoes
<1>6. Moves
  BY <1>1, <1>3, <1>4, <1>5 DEF Moves
<1> QED
  BY <1>2, <1>6 DEF Shifts

LEMMA GotoGoes ==
  ASSUME IInv, Goto
  PROVE  \E u \in UIs :
           /\ ui' = Go(u, 0) /\ u.dialogs = ui.dialogs /\ u.searches = ui.searches /\ u.preview = ui.preview
           /\ Housed(u) /\ ~Displaced(u) /\ ~Displaced(ui)
           /\ \A A : Ready(A, ui) => Ready(A, u)
           /\ HomeView(u) = HomeView(ui)
           /\ \A x \in Views : u.open[x] = IF x = Mail THEN NoPager ELSE ui.open[x]
           /\ u.pager = NoPager \/ u.pager = ui.pager
<1> DEFINE p == IF HomeView(ui) = Mail THEN NoPager ELSE ui.pager
           a == [ui EXCEPT !.open[Mail] = NoPager]
           u == [a EXCEPT !.pager = p]
<1>1. ui' = Go(u, 0) /\ ~ui.preview.on /\ ui.mode = "index"
  <2>1. u = [ui EXCEPT !.open[Mail] = NoPager, !.pager = IF HomeView(ui) = Mail THEN NoPager ELSE @]
    OBVIOUS
  <2> QED
    BY <2>1 DEF Goto, Becomes, Free
<1>0. ui \in UIs /\ Mail \in Views /\ NoPager \in Pagers /\ p \in Pagers
  BY InvFacts, PlacesAre, PagersAre, Fields
<1>p. p = NoPager \/ (p = ui.pager /\ HomeView(ui) # Mail)
  OBVIOUS
<1> HIDE DEF p
<1>3. /\ a \in UIs /\ Lays(ui, a) /\ a.open = [ui.open EXCEPT ![Mail] = NoPager]
      /\ a.sum = ui.sum /\ a.mode = ui.mode /\ a.home = ui.home /\ a.preview = ui.preview
  BY <1>0, OpenReplaced
<1> HIDE DEF a
<1>4. /\ u \in UIs /\ Lays(a, u) /\ u.pager = p
      /\ u.sum = a.sum /\ u.mode = a.mode /\ u.home = a.home /\ u.open = a.open /\ u.preview = a.preview
  BY <1>0, <1>3, PagerReplaced
<1> HIDE DEF u
<1>5. /\ \A x \in Views : u.open[x] = IF x = Mail THEN NoPager ELSE ui.open[x]
      /\ u.sum = ui.sum /\ u.mode = ui.mode /\ u.home = ui.home /\ u.preview = ui.preview
      /\ HomeView(u) = HomeView(ui) /\ u.dialogs = ui.dialogs /\ u.searches = ui.searches
      /\ \A x : Live(u, x) <=> Live(ui, x)
  <2>1. \A x \in Views : u.open[x] = IF x = Mail THEN NoPager ELSE ui.open[x]
    BY <1>0, <1>3, <1>4, Fields
  <2>2. \A x : Live(u, x) <=> Live(ui, x)
    BY <1>3, <1>4, SameLayout
  <2>3. u.home = ui.home /\ u.dialogs = ui.dialogs /\ u.searches = ui.searches
    BY <1>3, <1>4 DEF Lays
  <2> QED
    BY <1>3, <1>4, <2>1, <2>2, <2>3 DEF HomeView
<1>6. Housed(ui) /\ ~Displaced(ui) /\ ui.pager.kind # "summary"
  BY <1>1 DEF IInv, Housed
<1>7. ~Displaced(u) /\ u.pager.kind # "summary"
  BY <1>4, <1>6, <1>p, Kinds, NotSummary
<1>8. Housed(u)
  BY <1>5, <1>6, <1>7, Kinds, Zenon DEF Housed
<1>9. ASSUME NEW A, Ready(A, ui) PROVE Ready(A, u)
  <2>1. \A x : OfAsked(A, NoPager, x)
    BY DEF OfAsked
  <2>2. OfAsked(A, ui.pager, HomeView(ui)) /\ \A x \in Views : OfAsked(A, ui.open[x], x)
    BY <1>6, <1>9 DEF Ready
  <2>3. OfAsked(A, u.pager, HomeView(u))
    BY <1>4, <1>5, <1>p, <2>1, <2>2
  <2>4. \A x \in Views : OfAsked(A, u.open[x], x)
    BY <1>5, <2>1, <2>2
  <2> QED
    BY <1>1, <1>5, <1>7, <2>3, <2>4, Zenon DEF Ready
<1>10. ui' = Go(u, 0) /\ u \in UIs /\ (u.pager = NoPager \/ u.pager = ui.pager)
  BY <1>1, <1>4, <1>p
<1> QED
  BY <1>5, <1>6, <1>7, <1>8, <1>9, <1>10

LEMMA GotoKeeps == ASSUME IInv, Goto PROVE IInv'
<1>1. /\ loads' = loads /\ nloads' = nloads /\ njobs' = njobs /\ nsearch' = nsearch
      /\ asked' = asked /\ met' = met /\ ~ui.preview.on
  BY DEF Goto, Strip, Free
<1>2. PICK u \in UIs :
        /\ ui' = Go(u, 0) /\ u.dialogs = ui.dialogs /\ u.preview = ui.preview
        /\ Housed(u) /\ \A A : Ready(A, ui) => Ready(A, u)
  BY GotoGoes
<1>3. Leads(u, ui')
  <2>1. 0 \in Nat /\ 0 < TabCount(u)
    BY StripIs
  <2> QED
    BY <1>2, <2>1, GoLeads
<1>4. Settles(ui, ui') /\ ui'.dialogs = u.dialogs
  BY <1>2, <1>3, ThenLeads, Zenon
<1> QED
  BY <1>1, <1>2, <1>4, InvFacts, StripStep

(* A search tab more: what was open stays open. *)
LEMMA SearchAdded ==
  ASSUME NEW u \in UIs, NEW x \in Views
  PROVE  LET w == [u EXCEPT !.searches = Append(@, x)] IN
         /\ w \in UIs /\ Len(w.searches) = Len(u.searches) + 1 /\ w.sum = u.sum
         /\ \A i \in 1..Len(u.searches) : w.searches[i] = u.searches[i]
         /\ w.dialogs = u.dialogs /\ w.crm = u.crm /\ w.at = u.at /\ w.mode = u.mode
         /\ w.crmOpen = u.crmOpen /\ w.rows = u.rows /\ w.pager = u.pager /\ w.home = u.home
         /\ w.open = u.open /\ w.preview = u.preview
         /\ \A v : Live(u, v) => Live(w, v)
         /\ Housed(u) => Housed(w)
         /\ \A A : Ready(A, u) => Ready(A, w)
<1> DEFINE t == Append(u.searches, x)
           w == [u EXCEPT !.searches = t]
<1>1. /\ t \in Seq(Views) /\ Len(t) = Len(u.searches) + 1 /\ Len(u.searches) \in Nat
      /\ \A i \in 1..Len(u.searches) : t[i] = u.searches[i]
  BY Fields, AppendProperties
<1> HIDE DEF t
<1>2. /\ w \in UIs /\ w.searches = t /\ w.dialogs = u.dialogs /\ w.crm = u.crm /\ w.sum = u.sum
      /\ w.at = u.at /\ w.mode = u.mode /\ w.crmOpen = u.crmOpen /\ w.rows = u.rows
      /\ w.pager = u.pager /\ w.home = u.home /\ w.open = u.open /\ w.preview = u.preview
  BY <1>1, SearchesReplaced, Zenon
<1>e. w = [u EXCEPT !.searches = Append(@, x)]
  BY DEF t
<1> HIDE DEF w
<1>3. ASSUME NEW v, Live(u, v) PROVE Live(w, v)
  <2>1. CASE v = Mail
    BY <2>1 DEF Live
  <2>2. CASE v # Mail
    <3>0. DOMAIN u.searches = 1..Len(u.searches) /\ DOMAIN t = 1..Len(t)
      BY <1>1, Fields, LenProperties
    <3>1. PICK i \in 1..Len(u.searches) : u.searches[i] = v
      BY <1>3, <2>2, <3>0 DEF Live
    <3>2. i \in 1..Len(t) /\ t[i] = v
      BY <1>1, <3>1, SMT
    <3> QED
      BY <1>2, <3>0, <3>2 DEF Live
  <2> QED
    BY <2>1, <2>2
<1>4. (Displaced(w) <=> Displaced(u)) /\ HomeView(w) = HomeView(u)
  BY <1>2 DEF Displaced, HasSummary, HomeView
<1>5. ASSUME Housed(u) PROVE Housed(w)
  BY <1>2, <1>3, <1>4, <1>5, Zenon DEF Housed
<1>6. ASSUME NEW A, Ready(A, u) PROVE Ready(A, w)
  BY <1>2, <1>4, <1>6, Zenon DEF Ready
<1>7. Len(w.searches) = Len(u.searches) + 1 /\ \A i \in 1..Len(u.searches) : w.searches[i] = u.searches[i]
  BY <1>1, <1>2
<1> QED
  BY <1>2, <1>3, <1>5, <1>6, <1>7, <1>e, Zenon

LEMMA OpenSearchKeeps == ASSUME IInv, NEW active \in BOOLEAN, OpenSearch(active) PROVE IInv'
<1> DEFINE x == nsearch + 1
           u == [ui EXCEPT !.searches = Append(@, x)]
           i == u.dialogs + Len(u.searches)
<1>1. /\ ui' = IF active THEN Go(u, i) ELSE u
      /\ ~ui.preview.on /\ nsearch < MaxSearch /\ nsearch' = x
      /\ met' = IF ~active /\ ui.at > ui.dialogs + Len(ui.searches) THEN met \cup {"shifted"} ELSE met
      /\ loads' = loads /\ nloads' = nloads /\ njobs' = njobs /\ asked' = asked
  BY DEF OpenSearch, Becomes, Free
<1>2. x \in Views /\ x \in 0..MaxSearch
  BY <1>1, InvFacts, SurfacesAssumption, SMT DEF Views
<1> HIDE DEF x
<1>3. /\ u \in UIs /\ Len(u.searches) = Len(ui.searches) + 1 /\ u.sum = ui.sum
      /\ \A k \in 1..Len(ui.searches) : u.searches[k] = ui.searches[k]
      /\ u.dialogs = ui.dialogs /\ u.crm = ui.crm /\ u.at = ui.at /\ u.mode = ui.mode
      /\ u.crmOpen = ui.crmOpen /\ u.rows = ui.rows /\ u.pager = ui.pager /\ u.home = ui.home
      /\ u.open = ui.open /\ u.preview = ui.preview
      /\ Housed(ui) => Housed(u)
      /\ \A A : Ready(A, ui) => Ready(A, u)
  BY <1>2, InvFacts, SearchAdded
<1> HIDE DEF u
<1>4. u.dialogs \in Nat /\ Len(u.searches) \in Nat /\ Len(ui.searches) \in Nat /\ ui.at \in Nat
  BY <1>3, InvFacts, Fields
<1>l. Len(u.searches) = Len(ui.searches) + 1 /\ u.dialogs = ui.dialogs /\ u.at = ui.at
  BY <1>3
<1>5. ASSUME active PROVE IInv'
  <2>1. i \in Nat
    BY <1>4, SMT
  <2>2. i < TabCount(u)
    <3>1. /\ CrmIdx(u) \in Nat /\ SummaryIdx(u) \in Nat /\ TabCount(u) \in Nat
          /\ i < CrmIdx(u) /\ CrmIdx(u) <= SummaryIdx(u) /\ SummaryIdx(u) <= TabCount(u)
      BY <1>3, StripIs
    <3> QED
      BY <2>1, <3>1, SMT
  <2> HIDE DEF i
  <2>3. Leads(u, ui')
    BY <1>1, <1>3, <1>5, <2>1, <2>2, GoLeads
  <2>4. u.preview = ui.preview /\ (Housed(ui) => Housed(u)) /\ \A A : Ready(A, ui) => Ready(A, u)
    BY <1>3
  <2>5. Settles(ui, ui') /\ ui'.dialogs = u.dialogs
    BY <2>3, <2>4, ThenLeads, Zenon
  <2>6. met \subseteq met'
    BY <1>1, <1>5
  <2> QED
    BY <1>1, <1>2, <1>3, <2>5, <2>6, InvFacts, StripStep
<1>6. ASSUME ~active PROVE IInv'
  <2>1. ui' = u
    BY <1>1, <1>6
  <2>2. Types'
    BY <1>1, <1>2, <1>3, <2>1 DEF IInv, Types
  <2>3. Housed(u)
    BY <1>3 DEF IInv
  <2>c. /\ CrmIdx(u) = CrmIdx(ui) + 1 /\ CrmIdx(ui) = 1 + ui.dialogs + Len(ui.searches)
        /\ CrmIdx(ui) \in Nat
    <3>1. \A d, k, m \in Nat : m = k + 1 => 1 + d + m = (1 + d + k) + 1
      BY SMT
    <3>2. CrmIdx(ui) \in Nat
      BY InvFacts, StripIs
    <3>3. CrmIdx(u) = 1 + ui.dialogs + Len(u.searches) /\ CrmIdx(ui) = 1 + ui.dialogs + Len(ui.searches)
      BY <1>l, Zenon DEF CrmIdx
    <3>4. ui.dialogs \in Nat
      BY InvFacts
    <3> QED
      <4>1. Len(u.searches) \in Nat /\ Len(ui.searches) \in Nat /\ Len(u.searches) = Len(ui.searches) + 1
        BY <1>l, <1>4
      <4>2. 1 + ui.dialogs + Len(u.searches) = (1 + ui.dialogs + Len(ui.searches)) + 1
        BY <4>1, <3>1, <3>4
      <4> QED
        BY <3>2, <3>3, <4>2
  <2>s. SummaryIdx(u) = SummaryIdx(ui) + 1
    <3>1. CASE ui.crm
      BY <1>3, <2>c, <3>1, SMT DEF SummaryIdx
    <3>2. CASE ~ui.crm
      BY <1>3, <2>c, <3>2, SMT DEF SummaryIdx
    <3> QED
      BY <3>1, <3>2
  <2>t. TabCount(u) = TabCount(ui) + 1 /\ SummaryIdx(ui) \in Nat /\ TabCount(ui) \in Nat
    <3>1. (HasSummary(u) <=> HasSummary(ui)) /\ SummaryIdx(ui) \in Nat /\ TabCount(ui) \in Nat
      BY <1>3, InvFacts, StripIs DEF HasSummary
    <3>2. CASE HasSummary(ui)
      BY <2>s, <3>1, <3>2, SMT DEF TabCount
    <3>3. CASE ~HasSummary(ui)
      BY <2>s, <3>1, <3>3, SMT DEF TabCount
    <3> QED
      BY <3>2, <3>3
  <2>4. u.at < TabCount(u)
    BY <1>3, <1>4, <2>t, InvFacts, SMT
  <2>5. \A l \in loads' : l.msg \in asked'[l.origin]
    BY <1>1 DEF IInv
  <2>6. ASSUME Plain'
        PROVE  /\ Plain /\ met' = met /\ ~OnCrm(ui) /\ ~OnSummary(ui) /\ ~OnCrm(u) /\ ~OnSummary(u)
               /\ (OnSearch(u) <=> OnSearch(ui)) /\ ActiveView(u) = ActiveView(ui)
               /\ StackSurface(u) = StackSurface(ui)
    <3>1. ~(ui.at > ui.dialogs + Len(ui.searches)) /\ met' = met
      BY <1>1, <1>6, <2>6 DEF Plain
    <3>2. Plain
      BY <2>6, <3>1 DEF Plain
    <3>3. ui.at < CrmIdx(ui)
      BY <1>3, <1>4, <2>c, <3>1, SMT
    <3>4. ~OnCrm(ui) /\ ~OnCrm(u)
      BY <1>3, <1>4, <2>c, <3>3, SMT DEF OnCrm
    <3>5. ~OnSummary(ui) /\ ~OnSummary(u)
      <4>1. CrmIdx(ui) <= SummaryIdx(ui)
        BY InvFacts, StripIs
      <4>2. ui.at # SummaryIdx(ui) /\ u.at # SummaryIdx(u)
        <5>1. ui.at \in Nat /\ CrmIdx(ui) \in Nat /\ SummaryIdx(ui) \in Nat
          BY <1>4, <2>c, <2>t
        <5>2. ui.at < SummaryIdx(ui)
          BY <3>3, <4>1, <5>1, SMT
        <5> QED
          BY <1>l, <2>s, <5>1, <5>2, SMT
      <4> QED
        BY <4>2 DEF OnSummary
    <3>6. OnSearch(u) <=> OnSearch(ui)
      BY <1>3, <1>4, <3>1, SMT DEF OnSearch
    <3>7. ActiveView(u) = ActiveView(ui)
      <4>1. CASE OnSearch(ui)
        <5>1. ui.at - ui.dialogs \in 1..Len(ui.searches)
          BY <1>3, <1>4, <4>1, SMT DEF OnSearch
        <5> QED
          BY <1>3, <3>6, <4>1, <5>1 DEF ActiveView
      <4>2. CASE ~OnSearch(ui)
        BY <3>6, <4>2 DEF ActiveView
      <4> QED
        BY <4>1, <4>2
    <3>8. StackSurface(u) = StackSurface(ui)
      BY <1>3, <3>6, <3>7 DEF StackSurface
    <3> QED
      BY <3>1, <3>2, <3>4, <3>5, <3>6, <3>7, <3>8, Zenon
  <2>7. Plain' => Agrees(u)
    <3>1. ASSUME Plain' PROVE Agrees(u)
      <4>1. Agrees(ui)
        BY <2>6, <3>1 DEF IInv
      <4> QED
        BY <1>3, <2>6, <3>1, <4>1, Zenon DEF Agrees
    <3> QED
      BY <3>1
  <2>8. Screened' => Pointed(u)
    <3>1. Screened' => Plain'
      BY DEF Screened, Plain
    <3> QED
      BY <2>6, <3>1 DEF Pointed
  <2>9. Faithful' => Owned(asked', u)
    <3>1. ASSUME Faithful' PROVE Owned(asked', u)
      <4>1. Plain'
        BY <3>1 DEF Plain, Faithful
      <4>2. Faithful
        BY <2>6, <3>1, <4>1 DEF Faithful
      <4>3. Owned(asked, ui)
        BY <4>2 DEF IInv
      <4>4. (Displaced(u) <=> Displaced(ui)) /\ HomeView(u) = HomeView(ui)
        BY <1>3 DEF Displaced, HasSummary, HomeView
      <4>5. ~OnSummary(ui) /\ ActiveView(u) = ActiveView(ui) /\ StackSurface(u) = StackSurface(ui)
        BY <2>6, <4>1
      <4>6. Owned(asked, u)
        BY <1>3, <4>3, <4>4, <4>5, Zenon DEF Owned
      <4> QED
        BY <1>1, <4>6
    <3> QED
      BY <3>1
  <2> QED
    BY <2>1, <2>2, <2>3, <2>4, <2>5, <2>7, <2>8, <2>9, Zenon DEF IInv
<1> QED
  BY <1>5, <1>6

(* The screen is untouched but for the mode of a list. *)
LEMMA BackKeeps == ASSUME IInv, Back PROVE IInv'
<1>1. /\ ~ui.preview.on /\ ui.mode = "pager"
      /\ ui' = IF HasSummary(ui) THEN CloseSummary(ui) ELSE [ui EXCEPT !.mode = "index"]
  BY DEF Back, Becomes, Free
<1>2. /\ loads' = loads /\ nloads' = nloads /\ njobs' = njobs /\ nsearch' = nsearch
      /\ asked' = asked /\ met' = met
  BY DEF Back, Strip
<1>3. ASSUME HasSummary(ui) PROVE IInv'
  <2>1. Settles(ui, ui') /\ ui'.dialogs = ui.dialogs
    BY <1>1, <1>3, InvFacts, CloseSummaryIs
  <2> QED
    BY <1>1, <1>2, <2>1, InvFacts, StripStep
<1>4. ASSUME ~HasSummary(ui) PROVE IInv'
  <2> DEFINE w == [ui EXCEPT !.mode = "index"]
  <2>1. ui' = w
    BY <1>1, <1>4
  <2>2. /\ w \in UIs /\ Lays(ui, w) /\ w.mode = "index"
        /\ w.sum = ui.sum /\ w.at = ui.at /\ w.crmOpen = ui.crmOpen /\ w.rows = ui.rows /\ w.pager = ui.pager
        /\ w.home = ui.home /\ w.open = ui.open /\ w.preview = ui.preview
    <3>1. "index" \in Modes
      BY DEF Modes
    <3> QED
      BY <3>1, InvFacts, ModeReplaced
  <2> HIDE DEF w
  <2>3. /\ ~HasSummary(w) /\ TabCount(w) = TabCount(ui) /\ (\A v : Live(w, v) <=> Live(ui, v))
        /\ OnCrm(w) <=> OnCrm(ui)
        /\ ~OnSummary(w) /\ ~OnSummary(ui)
        /\ ActiveView(w) = ActiveView(ui) /\ StackSurface(w) = StackSurface(ui)
    BY <1>4, <2>2, SameLayout DEF OnSummary
  <2>4. HomeView(w) = HomeView(ui) /\ ~Displaced(w) /\ ~Displaced(ui) /\ w.dialogs = ui.dialogs
    BY <1>4, <2>2, <2>3 DEF HomeView, Displaced, Lays
  <2>5. Types'
    BY <1>2, <2>1, <2>2, <2>4 DEF IInv, Types
  <2>6. w.at < TabCount(w)
    BY <2>2, <2>3, InvFacts
  <2>7. Housed(w)
    <3>1. Housed(ui)
      BY DEF IInv
    <3> QED
      BY <2>2, <2>3, <2>4, <3>1, Zenon DEF Housed
  <2>8. Plain' => Agrees(w)
    <3>1. ASSUME Plain' PROVE Agrees(w)
      <4>1. Agrees(ui)
        BY <1>2, <3>1, Encounters DEF IInv
      <4>2. w.mode # "compose" /\ ~(w.at \in 1..w.dialogs)
        BY <1>1, <2>2, <2>4, <4>1 DEF Agrees
      <4> QED
        BY <2>2, <2>3, <4>1, <4>2, Zenon DEF Agrees
    <3> QED
      BY <3>1
  <2>9. Pointed(w)
    BY <2>3 DEF Pointed
  <2>10. Faithful' => Owned(asked', w)
    <3>1. ASSUME Faithful' PROVE Owned(asked', w)
      <4>1. Owned(asked, ui) /\ asked' = asked
        BY <1>2, <3>1, Encounters DEF IInv
      <4>2. w.mode # "pager"
        BY <2>2
      <4> QED
        BY <1>1, <2>2, <2>3, <2>4, <4>1, <4>2, Zenon DEF Owned
    <3> QED
      BY <3>1
  <2>11. \A l \in loads' : l.msg \in asked'[l.origin]
    BY <1>2 DEF IInv
  <2> QED
    BY <2>1, <2>5, <2>6, <2>7, <2>8, <2>9, <2>10, <2>11, Zenon DEF IInv
<1> QED
  BY <1>3, <1>4

(* The summary of the n-th job. *)
NewSummary(n) == [NoSummary EXCEPT !.job = n, !.done = FALSE]

LEMMA NewSummaryIs ==
  ASSUME NEW n \in 0..MaxJobs, n # 0
  PROVE  NewSummary(n) \in Sums /\ NewSummary(n).saved = NoPager /\ NewSummary(n).job # 0
<1> DEFINE a == [NoSummary EXCEPT !.job = n]
           s == [a EXCEPT !.done = FALSE]
<1>1. NewSummary(n) = s
  BY DEF NewSummary
<1>2. a \in Sums /\ a.job = n /\ a.saved = NoPager
  BY NoSummaryIs, JobReplaced, Zenon
<1> HIDE DEF a
<1>3. FALSE \in BOOLEAN
  OBVIOUS
<1>4. s \in Sums /\ s.job = a.job /\ s.saved = a.saved
  BY <1>2, <1>3, DoneReplaced, Zenon
<1> QED
  BY <1>1, <1>2, <1>4, Zenon

LEMMA OnAiStartedKeeps == ASSUME IInv, OnAiStarted PROVE IInv'
<1> DEFINE s == NewSummary(njobs + 1)
           u == [Restored(ui) EXCEPT !.sum = s]
<1>1. ui' = Go(u, SummaryIdx(u)) /\ njobs < MaxJobs /\ njobs' = njobs + 1
  BY DEF OnAiStarted, Becomes, NewSummary
<1>2. /\ loads' = loads /\ nloads' = nloads /\ nsearch' = nsearch
      /\ asked' = asked /\ met \subseteq met' /\ (ui.preview.on => "covered" \in met')
  BY DEF OnAiStarted, Arrives
<1>3. njobs' \in 0..MaxJobs /\ njobs + 1 # 0 /\ njobs + 1 \in 0..MaxJobs
  BY <1>1, InvFacts, SurfacesAssumption, SMT
<1>4. s \in Sums /\ s.saved = NoPager /\ s.job # 0
  BY <1>3, NewSummaryIs
<1> HIDE DEF s
<1>5. /\ u \in UIs /\ u.sum = s /\ u.preview = ui.preview
      /\ u.dialogs = ui.dialogs
      /\ Housed(ui) => Housed(u)
      /\ \A A : Ready(A, ui) => Ready(A, u)
  BY <1>4, InvFacts, Replaced
<1> HIDE DEF u
<1>6. SummaryIdx(u) \in Nat /\ SummaryIdx(u) < TabCount(u)
  BY <1>4, <1>5, StripIs DEF HasSummary
<1>7. Leads(u, ui')
  BY <1>1, <1>5, <1>6, GoLeads
<1>8. u.preview = ui.preview /\ (Housed(ui) => Housed(u)) /\ \A A : Ready(A, ui) => Ready(A, u)
  BY <1>5
<1>9. Settles(ui, ui') /\ ui'.dialogs = u.dialogs
  BY <1>7, <1>8, ThenLeads, Zenon
<1> QED
  BY <1>2, <1>3, <1>5, <1>9, InvFacts, StripStep

(* Only the summary's progress differs. *)
LEMMA Alike ==
  ASSUME NEW u \in UIs, NEW w \in UIs, Lays(u, w), w.at = u.at, w.mode = u.mode, w.crmOpen = u.crmOpen,
         w.rows = u.rows, w.pager = u.pager, w.home = u.home, w.open = u.open, w.preview = u.preview,
         w.sum.saved = u.sum.saved, w.sum.savedHome = u.sum.savedHome
  PROVE  /\ Housed(u) => Housed(w)
         /\ Agrees(u) => Agrees(w)
         /\ Pointed(u) => Pointed(w)
         /\ \A A : (Ready(A, u) => Ready(A, w)) /\ (Owned(A, u) => Owned(A, w))
<1>1. /\ HasSummary(w) <=> HasSummary(u)
      /\ \A v : Live(w, v) <=> Live(u, v)
      /\ OnCrm(w) <=> OnCrm(u)
      /\ OnSummary(w) <=> OnSummary(u)
      /\ ActiveView(w) = ActiveView(u) /\ StackSurface(w) = StackSurface(u)
      /\ w.sum.job = u.sum.job /\ w.dialogs = u.dialogs
  BY SameLayout DEF Lays
<1>2. (Displaced(w) <=> Displaced(u)) /\ HomeView(w) = HomeView(u)
  BY <1>1 DEF Displaced, HomeView
<1>3. Housed(u) => Housed(w)
  BY <1>1, <1>2, Zenon DEF Housed
<1>4. Agrees(u) => Agrees(w)
  BY <1>1, Zenon DEF Agrees
<1>5. Pointed(u) => Pointed(w)
  BY <1>1 DEF Pointed
<1>6. \A A : Ready(A, u) => Ready(A, w)
  BY <1>1, <1>2, Zenon DEF Ready
<1>7. \A A : Owned(A, u) => Owned(A, w)
  BY <1>1, <1>2, Zenon DEF Owned
<1> QED
  BY <1>3, <1>4, <1>5, <1>6, <1>7

LEMMA OnAiResultKeeps == ASSUME IInv, NEW close \in BOOLEAN, OnAiResult(close) PROVE IInv'
<1> DEFINE s == [ui.sum EXCEPT !.done = TRUE]
           u == [ui EXCEPT !.sum = s]
<1>1. ui' = IF close THEN CloseSummary(u) ELSE u
  <2>1. u = [ui EXCEPT !.sum.done = TRUE]
    OBVIOUS
  <2> QED
    BY <2>1 DEF OnAiResult, Becomes
<1>2. /\ loads' = loads /\ nloads' = nloads /\ njobs' = njobs /\ nsearch' = nsearch
      /\ asked' = asked /\ met \subseteq met' /\ (ui.preview.on => "covered" \in met')
  BY DEF OnAiResult, Arrives
<1>3. s \in Sums /\ s.job = ui.sum.job /\ s.saved = ui.sum.saved /\ s.savedHome = ui.sum.savedHome
  <2>1. ui.sum \in Sums
    BY InvFacts, Fields
  <2> QED
    BY <2>1, DoneReplaced
<1> HIDE DEF s
<1>4. /\ u \in UIs /\ u.dialogs = ui.dialogs /\ u.searches = ui.searches /\ u.crm = ui.crm /\ u.sum = s
      /\ u.at = ui.at /\ u.mode = ui.mode /\ u.crmOpen = ui.crmOpen /\ u.rows = ui.rows /\ u.pager = ui.pager
      /\ u.home = ui.home /\ u.open = ui.open /\ u.preview = ui.preview
  BY <1>3, InvFacts, SumReplaced
<1> HIDE DEF u
<1>5. /\ Housed(ui) => Housed(u)
      /\ Agrees(ui) => Agrees(u)
      /\ Pointed(ui) => Pointed(u)
      /\ \A A : (Ready(A, ui) => Ready(A, u)) /\ (Owned(A, ui) => Owned(A, u))
  <2>1. Lays(ui, u)
    BY <1>3, <1>4 DEF Lays
  <2>2. u.sum.saved = ui.sum.saved /\ u.sum.savedHome = ui.sum.savedHome
    BY <1>3, <1>4
  <2> QED
    BY <1>4, <2>1, <2>2, InvFacts, Alike
<1>6. ASSUME close PROVE IInv'
  <2>1. Settles(u, ui') /\ ui'.dialogs = u.dialogs
    BY <1>1, <1>4, <1>6, CloseSummaryIs
  <2>2. Settles(ui, ui')
    BY <1>4, <1>5, <2>1, Zenon DEF Settles
  <2> QED
    BY <1>2, <1>4, <2>1, <2>2, InvFacts, StripStep
<1>7. ASSUME ~close PROVE IInv'
  <2>1. ui' = u
    BY <1>1, <1>7
  <2>2. Types'
    BY <1>2, <1>4, <2>1 DEF IInv, Types
  <2>3. u.at < TabCount(u)
    <3>1. TabCount(u) = TabCount(ui)
      BY <1>3, <1>4, SameLayout DEF Lays
    <3> QED
      BY <1>4, <3>1, InvFacts
  <2>4. \A l \in loads' : l.msg \in asked'[l.origin]
    BY <1>2 DEF IInv
  <2>5. Housed(u) /\ (Plain' => Agrees(u)) /\ (Screened' => Pointed(u)) /\ (Faithful' => Owned(asked', u))
    BY <1>2, <1>5, Encounters, Zenon DEF IInv
  <2> QED
    BY <2>1, <2>2, <2>3, <2>4, <2>5, Zenon DEF IInv
<1> QED
  BY <1>6, <1>7

-----------------------------------------------------------------------------
(* Loads. *)

(* Asking for more takes nothing away. *)
LEMMA MoreAsked ==
  ASSUME NEW A, NEW B, NEW u \in UIs, \A v \in Views : A[v] \subseteq B[v]
  PROVE  /\ \A g, v : v \in Views /\ OfAsked(A, g, v) => OfAsked(B, g, v)
         /\ Owned(A, u) => Owned(B, u)
<1>1. \A g, v : v \in Views /\ OfAsked(A, g, v) => OfAsked(B, g, v)
  BY DEF OfAsked
<1>2. HomeView(u) \in Views /\ ActiveView(u) \in Views
  BY HomeIs, SurfaceIs
<1>3. ASSUME Owned(A, u) PROVE Owned(B, u)
  BY <1>1, <1>2, <1>3, Zenon DEF Owned
<1> QED
  BY <1>1, <1>3

LEMMA LoadIs ==
  ASSUME IInv, NEW m \in Msgs, NEW preview \in BOOLEAN, Load(m, preview)
  PROVE  /\ loads' \subseteq LoadSet /\ nloads' \in Nat /\ asked' \in [Views -> SUBSET Msgs]
         /\ njobs' = njobs /\ nsearch' = nsearch
         /\ \A v \in Views : asked[v] \subseteq asked'[v]
         /\ m \in asked'[ActiveView(ui)]
         /\ \A l \in loads' : l.msg \in asked'[l.origin]
<1> DEFINE v == ActiveView(ui)
           l == [id |-> nloads, msg |-> m, preview |-> preview, origin |-> v]
<1>1. /\ loads' = loads \cup {l} /\ nloads' = nloads + 1 /\ njobs' = njobs /\ nsearch' = nsearch
      /\ asked' = [asked EXCEPT ![v] = @ \cup {m}]
  BY DEF Load
<1>2. v \in Views
  BY InvFacts, SurfaceIs
<1>3. loads \subseteq LoadSet /\ nloads \in Nat /\ asked \in [Views -> SUBSET Msgs]
      /\ \A k \in loads : k.msg \in asked[k.origin]
  BY DEF IInv, Types
<1>4. l \in LoadSet /\ l.msg = m /\ l.origin = v
  BY <1>2, <1>3 DEF LoadSet
<1>v. v = ActiveView(ui)
  OBVIOUS
<1> HIDE DEF v, l
<1>5. asked' \in [Views -> SUBSET Msgs] /\ (\A x \in Views : asked[x] \subseteq asked'[x]) /\ m \in asked'[v]
  <2> DEFINE z == asked[v] \cup {m}
  <2>1. z \in SUBSET Msgs /\ asked' = [asked EXCEPT ![v] = z]
    BY <1>1, <1>2, <1>3
  <2>2. asked[v] \subseteq z /\ m \in z
    OBVIOUS
  <2> HIDE DEF z
  <2> QED
    BY <1>2, <1>3, <2>1, <2>2
<1>6. \A k \in loads' : k.msg \in asked'[k.origin]
  <2> SUFFICES ASSUME NEW k \in loads' PROVE k.msg \in asked'[k.origin]
    OBVIOUS
  <2>1. CASE k \in loads
    <3>1. k.origin \in Views
      BY <1>3, <2>1 DEF LoadSet
    <3> QED
      BY <1>3, <1>5, <2>1, <3>1
  <2>2. CASE k = l
    BY <1>4, <1>5, <2>2
  <2> QED
    BY <1>1, <2>1, <2>2
<1>7. nloads' \in Nat
  BY <1>1, <1>3, SMT
<1> QED
  BY <1>1, <1>3, <1>4, <1>5, <1>6, <1>7, <1>v

(* A step that leaves the strip where it is. *)
LEMMA InPlaceStep ==
  ASSUME IInv, ui' \in UIs, Lays(ui, ui'), ui'.at = ui.at,
         loads' \subseteq LoadSet, nloads' \in Nat, asked' \in [Views -> SUBSET Msgs],
         njobs' = njobs, nsearch' = nsearch,
         \A l \in loads' : l.msg \in asked'[l.origin],
         Housed(ui'), Plain' => Agrees(ui'), Screened' => Pointed(ui'), Faithful' => Owned(asked', ui')
  PROVE  IInv'
<1>1. TabCount(ui') = TabCount(ui) /\ ui'.dialogs = ui.dialogs
  BY SameLayout DEF Lays
<1>2. Types'
  BY <1>1 DEF IInv, Types
<1>3. ui'.at < TabCount(ui')
  BY <1>1, InvFacts
<1> QED
  BY <1>2, <1>3, Zenon DEF IInv

LEMMA OpenKeeps == ASSUME IInv, NEW m \in Msgs, Open(m) PROVE IInv'
<1>1. Load(m, FALSE) /\ ui' = ui /\ met' = met
  BY DEF Open
<1>2. /\ loads' \subseteq LoadSet /\ nloads' \in Nat /\ asked' \in [Views -> SUBSET Msgs]
      /\ njobs' = njobs /\ nsearch' = nsearch
      /\ \A v \in Views : asked[v] \subseteq asked'[v]
      /\ \A l \in loads' : l.msg \in asked'[l.origin]
  BY <1>1, LoadIs
<1>3. Owned(asked, ui) => Owned(asked', ui)
  BY <1>2, InvFacts, MoreAsked
<1>4. /\ Housed(ui) /\ (Plain' => Agrees(ui)) /\ (Screened' => Pointed(ui))
      /\ (Faithful' => Owned(asked', ui)) /\ ui \in UIs /\ Lays(ui, ui)
  BY <1>1, <1>3, InvFacts, Encounters, Zenon DEF IInv, Lays
<1> QED
  BY <1>1, <1>2, <1>4, InPlaceStep, Zenon

LEMMA PreviewKeeps == ASSUME IInv, NEW m \in Msgs, Preview(m) PROVE IInv'
<1> DEFINE p == [on |-> TRUE, msg |-> m]
           a == [ui EXCEPT !.preview = p]
           b == [a EXCEPT !.pager = Box]
           c == [b EXCEPT !.home = NoView]
<1>1. /\ ui' = [ui EXCEPT !.preview = p, !.pager = Box, !.home = NoView]
      /\ ~ui.crmOpen /\ ui.mode = "index" /\ Load(m, TRUE) /\ met' = met
  BY DEF Preview, Becomes, Free
<1>c. ui' = c
  BY <1>1
<1>2. /\ loads' \subseteq LoadSet /\ nloads' \in Nat /\ asked' \in [Views -> SUBSET Msgs]
      /\ njobs' = njobs /\ nsearch' = nsearch
      /\ \A v \in Views : asked[v] \subseteq asked'[v]
      /\ m \in asked'[ActiveView(ui)]
      /\ \A l \in loads' : l.msg \in asked'[l.origin]
  BY <1>1, LoadIs
<1>p. p \in Previews /\ p.on /\ p.msg = m
  BY DEF Previews
<1> HIDE DEF p
<1>3. /\ a \in UIs /\ Lays(ui, a) /\ a.preview = p
      /\ a.sum = ui.sum /\ a.at = ui.at /\ a.mode = ui.mode /\ a.crmOpen = ui.crmOpen /\ a.rows = ui.rows
      /\ a.open = ui.open
  BY <1>p, InvFacts, PreviewReplaced
<1> HIDE DEF a
<1>4. /\ b \in UIs /\ Lays(a, b) /\ b.pager = Box
      /\ b.sum = a.sum /\ b.at = a.at /\ b.mode = a.mode /\ b.crmOpen = a.crmOpen /\ b.rows = a.rows
      /\ b.open = a.open /\ b.preview = a.preview
  BY <1>3, PagersAre, PagerReplaced
<1> HIDE DEF b
<1>5. /\ c \in UIs /\ Lays(b, c) /\ c.home = NoView
      /\ c.sum = b.sum /\ c.at = b.at /\ c.mode = b.mode /\ c.crmOpen = b.crmOpen /\ c.rows = b.rows
      /\ c.pager = b.pager /\ c.open = b.open /\ c.preview = b.preview
  BY <1>4, PlacesAre, HomeReplaced
<1> HIDE DEF c
<1>6. /\ c \in UIs /\ Lays(ui, c) /\ c.at = ui.at /\ c.sum = ui.sum /\ c.mode = "index"
      /\ c.crmOpen = ui.crmOpen /\ c.rows = ui.rows /\ c.pager = Box /\ c.home = NoView
      /\ c.open = ui.open /\ c.preview = p
  BY <1>1, <1>3, <1>4, <1>5 DEF Lays
<1>7. /\ OnCrm(c) <=> OnCrm(ui)
      /\ OnSummary(c) <=> OnSummary(ui)
      /\ ActiveView(c) = ActiveView(ui) /\ StackSurface(c) = StackSurface(ui) /\ c.dialogs = ui.dialogs
      /\ \A v : Live(c, v) <=> Live(ui, v)
  BY <1>6, SameLayout DEF Lays
<1>8. ~Displaced(c) /\ ~Displaced(ui)
  BY <1>1, <1>6, Kinds, NotSummary DEF IInv, Housed
<1>9. Housed(c)
  <2>1. Housed(ui)
    BY DEF IInv
  <2> QED
    BY <1>6, <1>7, <1>8, <2>1, Kinds, PlacesAre DEF Housed
<1>10. ASSUME Plain' PROVE Agrees(c) /\ ~OnSummary(c)
  <2>1. Agrees(ui)
    BY <1>1, <1>10, Encounters DEF IInv
  <2>2. ~OnCrm(ui) /\ ~OnSummary(ui) /\ ~(ui.at \in 1..ui.dialogs)
    BY <1>1, <2>1 DEF Agrees
  <2>3. StackSurface(ui) # NoView
    BY <2>2, InvFacts, Places, SurfaceIs
  <2> QED
    BY <1>1, <1>6, <1>7, <2>1, <2>2, <2>3, Zenon DEF Agrees
<1>11. Screened' => Pointed(c)
  BY <1>10 DEF Pointed, Screened, Plain
<1>12. ASSUME Faithful' PROVE Owned(asked', c)
  <2>1. Owned(asked, ui)
    BY <1>1, <1>12, Encounters DEF IInv
  <2>2. \A v \in Views : OfAsked(asked', c.open[v], v)
    <3>1. \A v \in Views : OfAsked(asked, ui.open[v], v)
      BY <2>1 DEF Owned
    <3>2. \A g, v : v \in Views /\ OfAsked(asked, g, v) => OfAsked(asked', g, v)
      BY <1>2, InvFacts, MoreAsked
    <3> QED
      BY <1>6, <3>1, <3>2
  <2>3. c.mode # "pager"
    BY <1>6
  <2> QED
    BY <1>2, <1>6, <1>7, <1>8, <1>p, <2>2, <2>3, Zenon DEF Owned
<1> QED
  BY <1>2, <1>6, <1>9, <1>10, <1>11, <1>12, <1>c, InPlaceStep, Zenon

LEMMA ClosedPreviewIs ==
  ASSUME NEW u \in UIs
  PROVE  LET w == ClosedPreview(u) IN
         /\ w \in UIs /\ Lays(u, w) /\ w.sum = u.sum /\ w.at = u.at /\ w.mode = u.mode
         /\ w.crmOpen = u.crmOpen /\ w.rows = u.rows /\ w.open = u.open
         /\ w.pager = NoPager /\ w.home = NoView /\ ~w.preview.on
<1> DEFINE a == [u EXCEPT !.preview = NoPreview]
           b == [a EXCEPT !.pager = NoPager]
           c == [b EXCEPT !.home = NoView]
<1>1. ClosedPreview(u) = c
  BY DEF ClosedPreview
<1>2. NoPreview \in Previews /\ ~NoPreview.on
  BY PreviewsAre
<1>3. /\ a \in UIs /\ Lays(u, a) /\ a.preview = NoPreview
      /\ a.sum = u.sum /\ a.at = u.at /\ a.mode = u.mode /\ a.crmOpen = u.crmOpen /\ a.rows = u.rows
      /\ a.open = u.open
  BY <1>2, PreviewReplaced
<1> HIDE DEF a
<1>4. /\ b \in UIs /\ Lays(a, b) /\ b.pager = NoPager
      /\ b.sum = a.sum /\ b.at = a.at /\ b.mode = a.mode /\ b.crmOpen = a.crmOpen /\ b.rows = a.rows
      /\ b.open = a.open /\ b.preview = a.preview
  BY <1>3, PagersAre, PagerReplaced
<1> HIDE DEF b
<1>5. /\ c \in UIs /\ Lays(b, c) /\ c.home = NoView
      /\ c.sum = b.sum /\ c.at = b.at /\ c.mode = b.mode /\ c.crmOpen = b.crmOpen /\ c.rows = b.rows
      /\ c.pager = b.pager /\ c.open = b.open /\ c.preview = b.preview
  BY <1>4, PlacesAre, HomeReplaced
<1> HIDE DEF c
<1> QED
  BY <1>1, <1>2, <1>3, <1>4, <1>5 DEF Lays

(* Nothing is open in w but what is parked. *)
LEMMA Emptied ==
  ASSUME NEW u \in UIs, NEW w \in UIs, Lays(u, w), w.sum = u.sum, w.at = u.at,
         w.mode \in {u.mode, "index"}, w.crmOpen = u.crmOpen, w.rows = u.rows, w.open = u.open,
         w.pager = NoPager, w.home = NoView, w.preview = u.preview \/ ~w.preview.on
  PROVE  /\ Housed(u) => Housed(w)
         /\ Agrees(u) /\ w.mode = u.mode => Agrees(w)
         /\ Agrees(u) /\ StackSurface(u) # NoView => Agrees(w)
         /\ ~OnSummary(u) => Pointed(w)
         /\ \A A : Owned(A, u) => Owned(A, w)
<1>1. /\ OnCrm(w) <=> OnCrm(u)
      /\ OnSummary(w) <=> OnSummary(u)
      /\ ActiveView(w) = ActiveView(u) /\ StackSurface(w) = StackSurface(u) /\ w.dialogs = u.dialogs
      /\ \A v : Live(w, v) <=> Live(u, v)
  BY SameLayout DEF Lays
<1>2. ~Displaced(w) /\ w.pager.kind # "summary"
  BY Kinds, NotSummary
<1>3. Housed(u) => Housed(w)
  BY <1>1, <1>2, PlacesAre DEF Housed
<1>6. ASSUME Agrees(u), w.mode = u.mode PROVE Agrees(w)
  BY <1>1, <1>6, Zenon DEF Agrees
<1>7. ~OnSummary(u) => Pointed(w)
  BY <1>1 DEF Pointed
<1>4. ASSUME Agrees(u), StackSurface(u) # NoView PROVE Agrees(w)
  <2>1. ~OnSummary(u) /\ u.at \notin 1..u.dialogs
    BY <1>4, Apart
  <2>2. u.mode # "compose" /\ w.mode # "compose"
    BY <1>4, <2>1 DEF Agrees
  <2> QED
    BY <1>1, <1>4, <2>1, <2>2, Zenon DEF Agrees
<1>5. ASSUME NEW A, Owned(A, u) PROVE Owned(A, w)
  <2>1. OfAsked(A, w.pager, HomeView(w))
    BY DEF OfAsked
  <2>2. \A v \in Views : OfAsked(A, w.open[v], v)
    BY <1>5 DEF Owned
  <2>3. ~w.preview.on => Displaced(w) \/ OfAsked(A, w.pager, HomeView(w))
    BY <2>1
  <2>4. ASSUME w.preview.on
        PROVE  /\ w.home \in {NoView, ActiveView(w)} /\ w.preview.msg \in A[ActiveView(w)]
               /\ OfAsked(A, w.pager, ActiveView(w))
    <3>1. u.preview.on /\ w.preview = u.preview
      BY <2>4
    <3>2. u.preview.msg \in A[ActiveView(u)]
      BY <1>5, <3>1 DEF Owned
    <3> QED
      BY <1>1, <3>1, <3>2 DEF OfAsked
  <2>5. w.mode = "pager" /\ StackSurface(w) # NoView /\ (w.pager # NoPager \/ w.home # NoView)
        => HomeView(w) = StackSurface(w)
    OBVIOUS
  <2> QED
    BY <1>2, <2>2, <2>3, <2>4, <2>5, Zenon DEF Owned
<1> QED
  BY <1>3, <1>4, <1>5, <1>6, <1>7, Zenon

LEMMA ClosePreviewKeeps == ASSUME IInv, ClosePreview PROVE IInv'
<1> DEFINE c == ClosedPreview(ui)
<1>1. /\ ui.preview.on /\ ui' = c /\ loads' = loads /\ nloads' = nloads /\ njobs' = njobs
      /\ nsearch' = nsearch /\ asked' = asked /\ met' = met
  BY DEF ClosePreview, Becomes, Strip
<1>2. /\ c \in UIs /\ Lays(ui, c) /\ c.sum = ui.sum /\ c.at = ui.at /\ c.mode = ui.mode
      /\ c.crmOpen = ui.crmOpen /\ c.rows = ui.rows /\ c.open = ui.open
      /\ c.pager = NoPager /\ c.home = NoView /\ ~c.preview.on
  BY InvFacts, ClosedPreviewIs
<1> HIDE DEF c
<1>3. /\ Housed(ui) => Housed(c)
      /\ Agrees(ui) => Agrees(c)
      /\ ~OnSummary(ui) => Pointed(c)
      /\ \A A : Owned(A, ui) => Owned(A, c)
  BY <1>2, InvFacts, Emptied
<1>4. Plain' => Agrees(c) /\ Pointed(c)
  <2>1. Agrees(ui) => ~OnSummary(ui)
    BY <1>1, InvFacts, Apart DEF Agrees
  <2> QED
    BY <1>1, <1>3, <2>1, Encounters, Zenon DEF IInv
<1>5. Housed(c) /\ (Faithful' => Owned(asked', c)) /\ (Screened' => Plain')
  BY <1>1, <1>3, Encounters, Zenon DEF IInv, Screened, Plain
<1>6. /\ loads' \subseteq LoadSet /\ nloads' \in Nat /\ asked' \in [Views -> SUBSET Msgs]
      /\ \A l \in loads' : l.msg \in asked'[l.origin]
  BY <1>1 DEF IInv, Types
<1> QED
  BY <1>1, <1>2, <1>4, <1>5, <1>6, InPlaceStep, Zenon

LEMMA PromoteKeeps == ASSUME IInv, Promote PROVE IInv'
<1> DEFINE c == ClosedPreview(ui)
           w == [ui EXCEPT !.preview = NoPreview]
<1>1. /\ ui.preview.on /\ Load(ui.preview.msg, FALSE)
      /\ ui' = IF ui.pager.kind = "msg" THEN w ELSE c
      /\ met' = IF OnSearch(ui) /\ ui.pager.kind = "msg" THEN met \cup {"promoted"} ELSE met
  BY DEF Promote, Becomes
<1>2. ui.preview.msg \in Msgs
  <2>1. ui.preview \in Previews
    BY InvFacts, Fields
  <2> QED
    BY <1>1, <2>1, PreviewsAre
<1>3. /\ loads' \subseteq LoadSet /\ nloads' \in Nat /\ asked' \in [Views -> SUBSET Msgs]
      /\ njobs' = njobs /\ nsearch' = nsearch
      /\ \A v \in Views : asked[v] \subseteq asked'[v]
      /\ \A l \in loads' : l.msg \in asked'[l.origin]
  BY <1>1, <1>2, LoadIs
<1>4. Owned(asked, ui) => Owned(asked', ui)
  BY <1>3, InvFacts, MoreAsked
<1>5. met \subseteq met'
  BY <1>1
<1>6. (Plain' => Agrees(ui)) /\ (Faithful' => Owned(asked', ui)) /\ Housed(ui) /\ (Faithful' => Plain')
      /\ (Screened' => Plain')
  BY <1>4, <1>5, Encounters, Zenon DEF IInv, Faithful, Screened, Plain
<1>7. Agrees(ui) => StackSurface(ui) # NoView /\ ~OnSummary(ui)
  BY <1>1, InvFacts, Apart DEF Agrees
<1>8. ASSUME ui.pager.kind # "msg" PROVE IInv'
  <2>1. ui' = c
    BY <1>1, <1>8
  <2>2. /\ c \in UIs /\ Lays(ui, c) /\ c.sum = ui.sum /\ c.at = ui.at /\ c.mode = ui.mode
        /\ c.crmOpen = ui.crmOpen /\ c.rows = ui.rows /\ c.open = ui.open
        /\ c.pager = NoPager /\ c.home = NoView /\ ~c.preview.on
    BY InvFacts, ClosedPreviewIs
  <2> HIDE DEF c
  <2>3. /\ Housed(ui) => Housed(c)
        /\ Agrees(ui) => Agrees(c)
        /\ ~OnSummary(ui) => Pointed(c)
        /\ \A A : Owned(A, ui) => Owned(A, c)
    BY <2>2, InvFacts, Emptied
  <2>4. Housed(c) /\ (Plain' => Agrees(c)) /\ (Screened' => Pointed(c)) /\ (Faithful' => Owned(asked', c))
    BY <1>6, <1>7, <2>3, Zenon
  <2> QED
    BY <1>3, <2>1, <2>2, <2>4, InPlaceStep, Zenon
<1>9. ASSUME ui.pager.kind = "msg" PROVE IInv'
  <2>1. ui' = w
    BY <1>1, <1>9
  <2>2. /\ w \in UIs /\ Lays(ui, w) /\ ~w.preview.on
        /\ w.sum = ui.sum /\ w.at = ui.at /\ w.mode = ui.mode /\ w.crmOpen = ui.crmOpen /\ w.rows = ui.rows
        /\ w.pager = ui.pager /\ w.home = ui.home /\ w.open = ui.open
    BY InvFacts, PreviewsAre, PreviewReplaced
  <2> HIDE DEF w
  <2>3. /\ HasSummary(w) <=> HasSummary(ui)
        /\ OnCrm(w) <=> OnCrm(ui)
        /\ OnSummary(w) <=> OnSummary(ui)
        /\ ActiveView(w) = ActiveView(ui) /\ StackSurface(w) = StackSurface(ui) /\ w.dialogs = ui.dialogs
        /\ \A v : Live(w, v) <=> Live(ui, v)
    BY <2>2, SameLayout DEF Lays
  <2>4. ~Displaced(ui) /\ ~Displaced(w) /\ HomeView(w) = HomeView(ui)
    BY <1>9, <2>2, NotSummary DEF HomeView
  <2>5. Housed(w)
    BY <1>6, <2>2, <2>3, <2>4, Zenon DEF Housed
  <2>6. Agrees(ui) => Agrees(w)
    BY <2>2, <2>3, Zenon DEF Agrees
  <2>7. ~OnSummary(ui) => Pointed(w)
    BY <2>3 DEF Pointed
  <2>8. ASSUME Faithful' PROVE Owned(asked', w)
    <3>1. ~OnSearch(ui)
      BY <1>1, <1>9, <2>8 DEF Faithful
    <3>2. StackSurface(ui) # NoView /\ ActiveView(ui) = Mail /\ StackSurface(ui) = Mail
      BY <1>6, <1>7, <2>8, <3>1, InvFacts, SurfaceIs
    <3>3. Owned(asked', ui)
      BY <1>6, <2>8
    <3>4. ui.home \in {NoView, Mail} /\ OfAsked(asked', ui.pager, Mail)
      BY <1>1, <1>9, <3>2, <3>3, Kinds DEF Owned
    <3>5. HomeView(ui) = Mail
      BY <3>4 DEF HomeView
    <3>6. OfAsked(asked', w.pager, HomeView(w)) /\ HomeView(w) = StackSurface(w)
      BY <2>2, <2>3, <2>4, <3>2, <3>4, <3>5
    <3>7. \A v \in Views : OfAsked(asked', w.open[v], v)
      BY <2>2, <3>3 DEF Owned
    <3> QED
      BY <2>2, <2>4, <3>6, <3>7, Zenon DEF Owned
  <2>9. (Plain' => Agrees(w)) /\ (Screened' => Pointed(w))
    BY <1>6, <1>7, <2>6, <2>7, Zenon
  <2> QED
    BY <1>3, <2>1, <2>2, <2>5, <2>8, <2>9, InPlaceStep, Zenon
<1> QED
  BY <1>8, <1>9

(* A load's step ends in w. *)
Answer(l, w) ==
  /\ l \in loads /\ loads' = loads \ {l} /\ nloads' = nloads /\ njobs' = njobs /\ nsearch' = nsearch
  /\ asked' = asked /\ met \subseteq met' /\ ui' = w

LEMMA AnswerStep ==
  ASSUME IInv, NEW l, NEW w \in UIs, Answer(l, w), Lays(ui, w), w.at = ui.at,
         Housed(w), Plain' => Agrees(w), Screened' => Pointed(w), Faithful' => Owned(asked, w)
  PROVE  IInv'
<1>1. /\ ui' = w /\ loads' = loads \ {l} /\ nloads' = nloads /\ njobs' = njobs /\ nsearch' = nsearch
      /\ asked' = asked
  BY DEF Answer
<1>2. loads \subseteq LoadSet /\ nloads \in Nat /\ asked \in [Views -> SUBSET Msgs]
      /\ \A k \in loads : k.msg \in asked[k.origin]
  BY DEF IInv, Types
<1>3. loads' \subseteq LoadSet /\ nloads' \in Nat /\ asked' \in [Views -> SUBSET Msgs]
      /\ \A k \in loads' : k.msg \in asked'[k.origin]
  BY <1>1, <1>2
<1> QED
  BY <1>1, <1>3, InPlaceStep, Zenon

LEMMA AnswerFacts ==
  ASSUME IInv, NEW l, NEW w, Answer(l, w)
  PROVE  /\ ui \in UIs /\ Housed(ui)
         /\ Plain' => Agrees(ui)
         /\ Screened' => Pointed(ui)
         /\ Faithful' => Owned(asked, ui)
         /\ (Screened' => Plain') /\ (Faithful' => Plain')
         /\ l.msg \in Msgs /\ l.origin \in Views /\ l.preview \in BOOLEAN /\ l.msg \in asked[l.origin]
<1>1. met \subseteq met' /\ l \in loads
  BY DEF Answer
<1>2. l \in LoadSet /\ l.msg \in asked[l.origin]
  BY <1>1 DEF IInv, Types
<1>3. l.msg \in Msgs /\ l.origin \in Views /\ l.preview \in BOOLEAN
  BY <1>2 DEF LoadSet
<1>4. (Screened' => Plain') /\ (Faithful' => Plain')
  BY DEF Screened, Plain, Faithful
<1>5. ui \in UIs
  BY InvFacts
<1> QED
  BY <1>1, <1>2, <1>3, <1>4, <1>5, Encounters, Zenon DEF IInv

(* The message m is installed in w, the one of the surface v. *)
LEMMA Installed ==
  ASSUME NEW u \in UIs, NEW w \in UIs, NEW m, Lays(u, w), w.sum = u.sum, w.at = u.at,
         w.crmOpen = u.crmOpen, w.rows = u.rows, w.open = u.open, w.preview = u.preview,
         w.pager = Shows(m)
  PROVE  /\ Housed(u) /\ (w.home = u.home \/ Live(u, w.home)) => Housed(w)
         /\ Agrees(u) /\ w.mode = u.mode => Agrees(w)
         /\ Agrees(u) /\ StackSurface(u) # NoView /\ w.mode # "compose" => Agrees(w)
         /\ ~OnSummary(u) => Pointed(w)
         /\ ActiveView(w) = ActiveView(u) /\ StackSurface(w) = StackSurface(u) /\ ~Displaced(w)
<1>1. /\ OnCrm(w) <=> OnCrm(u)
      /\ OnSummary(w) <=> OnSummary(u)
      /\ ActiveView(w) = ActiveView(u) /\ StackSurface(w) = StackSurface(u) /\ w.dialogs = u.dialogs
      /\ \A v : Live(w, v) <=> Live(u, v)
  BY SameLayout DEF Lays
<1>2. ~Displaced(w) /\ w.pager.kind # "summary"
  BY Kinds, NotSummary
<1>3. ASSUME Housed(u), w.home = u.home \/ Live(u, w.home) PROVE Housed(w)
  BY <1>1, <1>2, <1>3, Zenon DEF Housed
<1>4. ASSUME Agrees(u), w.mode = u.mode PROVE Agrees(w)
  BY <1>1, <1>4, Zenon DEF Agrees
<1>5. ASSUME Agrees(u), StackSurface(u) # NoView, w.mode # "compose" PROVE Agrees(w)
  <2>1. ~OnSummary(u) /\ u.at \notin 1..u.dialogs
    BY <1>5, Apart
  <2> QED
    BY <1>1, <1>5, <2>1, Zenon DEF Agrees
<1>6. ~OnSummary(u) => Pointed(w)
  BY <1>1 DEF Pointed
<1> QED
  BY <1>1, <1>2, <1>3, <1>4, <1>5, <1>6

LEMMA PreviewLoadedKeeps ==
  ASSUME IInv, NEW l, NEW ok \in BOOLEAN, Answer(l, PreviewLoaded(l, ok))
  PROVE  IInv'
<1> DEFINE p == [on |-> TRUE, msg |-> l.msg]
           g == Shows(l.msg)
<1>0. /\ ui \in UIs /\ Housed(ui)
      /\ Plain' => Agrees(ui)
      /\ Screened' => Pointed(ui)
      /\ Faithful' => Owned(asked, ui)
      /\ (Screened' => Plain') /\ (Faithful' => Plain')
      /\ l.msg \in Msgs /\ l.origin \in Views /\ l.preview \in BOOLEAN /\ l.msg \in asked[l.origin]
  BY AnswerFacts
<1>m. "index" \in Modes
  BY DEF Modes
<1>1. ASSUME ui.preview # p PROVE IInv'
  <2>1. Answer(l, ui)
    BY <1>1 DEF PreviewLoaded
  <2>2. Lays(ui, ui)
    BY DEF Lays
  <2> QED
    BY <1>0, <2>1, <2>2, AnswerStep, Zenon
<1>2. ASSUME ui.preview = p, ~ok PROVE IInv'
  <2> DEFINE c == ClosedPreview(ui)
             w == [c EXCEPT !.mode = "index"]
  <2>1. Answer(l, w)
    BY <1>2 DEF PreviewLoaded
  <2>2. /\ c \in UIs /\ Lays(ui, c) /\ c.sum = ui.sum /\ c.at = ui.at
        /\ c.crmOpen = ui.crmOpen /\ c.rows = ui.rows /\ c.open = ui.open
        /\ c.pager = NoPager /\ c.home = NoView /\ ~c.preview.on
    BY <1>0, ClosedPreviewIs
  <2> HIDE DEF c
  <2>3. /\ w \in UIs /\ Lays(c, w) /\ w.mode = "index"
        /\ w.sum = c.sum /\ w.at = c.at /\ w.crmOpen = c.crmOpen /\ w.rows = c.rows
        /\ w.pager = c.pager /\ w.home = c.home /\ w.open = c.open /\ w.preview = c.preview
    BY <2>2, <1>m, ModeReplaced
  <2> HIDE DEF w
  <2>4. /\ w \in UIs /\ Lays(ui, w) /\ w.sum = ui.sum /\ w.at = ui.at /\ w.mode \in {ui.mode, "index"}
        /\ w.crmOpen = ui.crmOpen /\ w.rows = ui.rows /\ w.open = ui.open
        /\ w.pager = NoPager /\ w.home = NoView /\ ~w.preview.on
    BY <2>2, <2>3 DEF Lays
  <2>5. /\ Housed(ui) => Housed(w)
        /\ Agrees(ui) /\ StackSurface(ui) # NoView => Agrees(w)
        /\ ~OnSummary(ui) => Pointed(w)
        /\ \A A : Owned(A, ui) => Owned(A, w)
    BY <1>0, <2>4, Emptied
  <2>6. Agrees(ui) => StackSurface(ui) # NoView /\ ~OnSummary(ui)
    BY <1>0, <1>2, Apart DEF Agrees
  <2> QED
    BY <1>0, <2>1, <2>4, <2>5, <2>6, AnswerStep, Zenon
<1>3. ASSUME ui.preview = p, ok PROVE IInv'
  <2> DEFINE a == [ui EXCEPT !.mode = "index"]
             w == [a EXCEPT !.pager = g]
  <2>1. Answer(l, w)
    <3>1. PreviewLoaded(l, ok) = [ui EXCEPT !.mode = "index", !.pager = g]
      BY <1>3 DEF PreviewLoaded
    <3>2. w = [ui EXCEPT !.mode = "index", !.pager = g]
      OBVIOUS
    <3> HIDE DEF w, g
    <3> QED
      BY <3>1, <3>2
  <2>g. g \in Pagers /\ g = Shows(l.msg)
    BY <1>0, PagersAre
  <2> HIDE DEF g
  <2>2. /\ a \in UIs /\ Lays(ui, a) /\ a.mode = "index"
        /\ a.sum = ui.sum /\ a.at = ui.at /\ a.crmOpen = ui.crmOpen /\ a.rows = ui.rows
        /\ a.home = ui.home /\ a.open = ui.open /\ a.preview = ui.preview
    BY <1>0, <1>m, ModeReplaced
  <2> HIDE DEF a
  <2>3. /\ w \in UIs /\ Lays(a, w) /\ w.pager = g
        /\ w.sum = a.sum /\ w.at = a.at /\ w.mode = a.mode /\ w.crmOpen = a.crmOpen /\ w.rows = a.rows
        /\ w.home = a.home /\ w.open = a.open /\ w.preview = a.preview
    BY <2>2, <2>g, PagerReplaced
  <2> HIDE DEF w
  <2>4. /\ w \in UIs /\ Lays(ui, w) /\ w.sum = ui.sum /\ w.at = ui.at /\ w.mode = "index"
        /\ w.crmOpen = ui.crmOpen /\ w.rows = ui.rows /\ w.open = ui.open /\ w.home = ui.home
        /\ w.pager = Shows(l.msg) /\ w.preview = ui.preview
    BY <2>2, <2>3, <2>g DEF Lays
  <2>5. /\ Housed(w)
        /\ Agrees(ui) /\ StackSurface(ui) # NoView => Agrees(w)
        /\ ~OnSummary(ui) => Pointed(w)
        /\ ActiveView(w) = ActiveView(ui) /\ StackSurface(w) = StackSurface(ui) /\ ~Displaced(w)
    BY <1>0, <2>4, Installed
  <2>6. Agrees(ui) => StackSurface(ui) # NoView /\ ~OnSummary(ui)
    BY <1>0, <1>3, Apart DEF Agrees
  <2>7. ASSUME Faithful' PROVE Owned(asked, w)
    <3>0. ui.preview.on /\ ui.preview.msg = l.msg
      BY <1>3
    <3>1. Owned(asked, ui)
      BY <1>0, <2>7
    <3>2. ui.home \in {NoView, ActiveView(ui)} /\ l.msg \in asked[ActiveView(ui)]
      BY <3>0, <3>1 DEF Owned
    <3>3. OfAsked(asked, w.pager, ActiveView(w))
      BY <2>4, <2>5, <3>2 DEF OfAsked
    <3>4. \A v \in Views : OfAsked(asked, w.open[v], v)
      BY <2>4, <3>1 DEF Owned
    <3>5. w.home \in {NoView, ActiveView(w)} /\ w.preview.on /\ w.preview.msg \in asked[ActiveView(w)]
          /\ w.mode # "pager"
      BY <2>4, <2>5, <3>0, <3>2
    <3> QED
      BY <2>5, <3>3, <3>4, <3>5, Zenon DEF Owned
  <2> QED
    BY <1>0, <2>1, <2>4, <2>5, <2>6, <2>7, AnswerStep, Zenon
<1> QED
  BY <1>1, <1>2, <1>3

(* What is parked under the view o is replaced. *)
LEMMA Parked ==
  ASSUME NEW u \in UIs, NEW o \in Views, NEW g \in Pagers, g.kind # "summary", Live(u, o) \/ g = NoPager
  PROVE  LET w == [u EXCEPT !.open[o] = g] IN
         /\ w \in UIs /\ Lays(u, w) /\ w.at = u.at
         /\ Housed(u) => Housed(w)
         /\ Agrees(u) => Agrees(w)
         /\ Pointed(u) => Pointed(w)
         /\ \A A : Owned(A, u) /\ OfAsked(A, g, o) => Owned(A, w)
<1> DEFINE w == [u EXCEPT !.open[o] = g]
<1>1. /\ w \in UIs /\ Lays(u, w) /\ w.open = [u.open EXCEPT ![o] = g]
      /\ w.sum = u.sum /\ w.at = u.at /\ w.mode = u.mode /\ w.crmOpen = u.crmOpen /\ w.rows = u.rows
      /\ w.pager = u.pager /\ w.home = u.home /\ w.preview = u.preview
  BY OpenReplaced
<1> HIDE DEF w
<1>2. /\ HasSummary(w) <=> HasSummary(u)
      /\ OnCrm(w) <=> OnCrm(u)
      /\ OnSummary(w) <=> OnSummary(u)
      /\ ActiveView(w) = ActiveView(u) /\ StackSurface(w) = StackSurface(u) /\ w.dialogs = u.dialogs
      /\ w.sum.job = u.sum.job
      /\ \A v : Live(w, v) <=> Live(u, v)
  BY <1>1, SameLayout DEF Lays
<1>3. \A v \in Views : w.open[v] = IF v = o THEN g ELSE u.open[v]
  BY <1>1, Fields
<1>4. (Displaced(w) <=> Displaced(u)) /\ HomeView(w) = HomeView(u)
  BY <1>1, <1>2 DEF Displaced, HomeView
<1>5. ASSUME Housed(u) PROVE Housed(w)
  <2>1. \A v \in Views : ~Live(u, v) => w.open[v] = NoPager /\ u.home # v
    BY <1>3, <1>5 DEF Housed
  <2>2. \A v \in Views : w.open[v].kind # "summary"
    BY <1>3, <1>5 DEF Housed
  <2> QED
    BY <1>1, <1>2, <1>4, <1>5, <2>1, <2>2, Zenon DEF Housed
<1>6. Agrees(u) => Agrees(w)
  BY <1>1, <1>2, Zenon DEF Agrees
<1>7. Pointed(u) => Pointed(w)
  BY <1>1, <1>2 DEF Pointed
<1>8. ASSUME NEW A, Owned(A, u), OfAsked(A, g, o) PROVE Owned(A, w)
  <2>1. \A v \in Views : OfAsked(A, w.open[v], v)
    BY <1>3, <1>8 DEF Owned
  <2> QED
    BY <1>1, <1>2, <1>4, <1>8, <2>1, Zenon DEF Owned
<1> QED
  BY <1>1, <1>5, <1>6, <1>7, <1>8 DEF w

LEMMA LoadFailedKeeps ==
  ASSUME IInv, NEW l, Answer(l, LoadFailed(l.origin)),
         OnSummary(ui) /\ ui.home = l.origin => ~Screened'
  PROVE  IInv'
<1> DEFINE o == l.origin
<1>0. /\ ui \in UIs /\ Housed(ui)
      /\ Plain' => Agrees(ui)
      /\ Screened' => Pointed(ui)
      /\ Faithful' => Owned(asked, ui)
      /\ (Screened' => Plain') /\ (Faithful' => Plain')
      /\ o \in Views
  BY AnswerFacts
<1>m. "index" \in Modes /\ o # NoView
  BY <1>0, PlacesAre DEF Modes
<1>o. o = l.origin
  OBVIOUS
<1>1. ASSUME NEW u \in UIs, Lays(ui, u), u.sum = ui.sum, u.at = ui.at, u.mode \in {ui.mode, "index"},
             u.crmOpen = ui.crmOpen, u.rows = ui.rows, u.open = ui.open, u.preview = ui.preview,
             u.mode = ui.mode \/ StackSurface(ui) # NoView, OnSummary(ui) => ~Screened',
             LoadFailed(o) = [u EXCEPT !.pager = NoPager, !.home = NoView]
      PROVE  IInv'
  <2> DEFINE b == [u EXCEPT !.pager = NoPager]
             w == [b EXCEPT !.home = NoView]
  <2>1. Answer(l, w)
    BY <1>1
  <2>2. /\ b \in UIs /\ Lays(u, b) /\ b.pager = NoPager
        /\ b.sum = u.sum /\ b.at = u.at /\ b.mode = u.mode /\ b.crmOpen = u.crmOpen /\ b.rows = u.rows
        /\ b.home = u.home /\ b.open = u.open /\ b.preview = u.preview
    BY <1>1, PagersAre, PagerReplaced
  <2> HIDE DEF b
  <2>3. /\ w \in UIs /\ Lays(b, w) /\ w.home = NoView
        /\ w.sum = b.sum /\ w.at = b.at /\ w.mode = b.mode /\ w.crmOpen = b.crmOpen /\ w.rows = b.rows
        /\ w.pager = b.pager /\ w.open = b.open /\ w.preview = b.preview
    BY <2>2, PlacesAre, HomeReplaced
  <2> HIDE DEF w
  <2>4. /\ w \in UIs /\ Lays(ui, w) /\ w.sum = ui.sum /\ w.at = ui.at /\ w.mode \in {ui.mode, "index"}
        /\ w.crmOpen = ui.crmOpen /\ w.rows = ui.rows /\ w.open = ui.open
        /\ w.pager = NoPager /\ w.home = NoView /\ w.preview = ui.preview
        /\ (w.mode = ui.mode \/ StackSurface(ui) # NoView)
    BY <1>1, <2>2, <2>3, Zenon DEF Lays
  <2>5. /\ Housed(ui) => Housed(w)
        /\ Agrees(ui) /\ w.mode = ui.mode => Agrees(w)
        /\ Agrees(ui) /\ StackSurface(ui) # NoView => Agrees(w)
        /\ ~OnSummary(ui) => Pointed(w)
        /\ \A A : Owned(A, ui) => Owned(A, w)
    BY <1>0, <2>4, Emptied
  <2> QED
    BY <1>0, <1>1, <2>1, <2>4, <2>5, AnswerStep, Zenon
<1>2. CASE o = StackSurface(ui)
  <2> DEFINE a == [ui EXCEPT !.mode = "index"]
  <2>1. /\ a \in UIs /\ Lays(ui, a) /\ a.mode = "index"
        /\ a.sum = ui.sum /\ a.at = ui.at /\ a.crmOpen = ui.crmOpen /\ a.rows = ui.rows
        /\ a.open = ui.open /\ a.preview = ui.preview
    BY <1>0, <1>m, ModeReplaced
  <2>2. LoadFailed(o) = [a EXCEPT !.pager = NoPager, !.home = NoView]
    BY <1>2 DEF LoadFailed
  <2>3. ~OnSummary(ui) /\ StackSurface(ui) # NoView
    BY <1>0, <1>2, <1>m, Apart
  <2> HIDE DEF a, o
  <2> QED
    BY <1>1, <2>1, <2>2, <2>3
<1>3. CASE o # StackSurface(ui) /\ ui.home = o
  <2>1. LoadFailed(o) = [ui EXCEPT !.pager = NoPager, !.home = NoView]
    BY <1>3 DEF LoadFailed
  <2>2. Lays(ui, ui) /\ (OnSummary(ui) => ~Screened')
    BY <1>3 DEF Lays
  <2> HIDE DEF o
  <2> QED
    BY <1>0, <1>1, <2>1, <2>2
<1>4. CASE o # StackSurface(ui) /\ ui.home # o
  <2> DEFINE w == [ui EXCEPT !.open[o] = NoPager]
  <2>1. Answer(l, w)
    BY <1>4 DEF LoadFailed
  <2> HIDE DEF o
  <2>2. NoPager \in Pagers /\ NoPager.kind # "summary" /\ \A A : OfAsked(A, NoPager, o)
    BY PagersAre, Kinds DEF OfAsked
  <2>3. /\ w \in UIs /\ Lays(ui, w) /\ w.at = ui.at
        /\ Housed(ui) => Housed(w)
        /\ Agrees(ui) => Agrees(w)
        /\ Pointed(ui) => Pointed(w)
        /\ \A A : Owned(A, ui) /\ OfAsked(A, NoPager, o) => Owned(A, w)
    BY <1>0, <2>2, Parked
  <2> HIDE DEF w
  <2> QED
    BY <1>0, <2>1, <2>2, <2>3, AnswerStep, Zenon
<1> QED
  BY <1>2, <1>3, <1>4

LEMMA LoadedKeeps ==
  ASSUME IInv, NEW l, Answer(l, Loaded(l)),
         OnSummary(ui) /\ ui.home = l.origin => ~Screened'
  PROVE  IInv'
<1> DEFINE o == l.origin
           g == Shows(l.msg)
           shown == StackSurface(ui) = o
<1>0. /\ ui \in UIs /\ Housed(ui)
      /\ Plain' => Agrees(ui)
      /\ Screened' => Pointed(ui)
      /\ Faithful' => Owned(asked, ui)
      /\ (Screened' => Plain') /\ (Faithful' => Plain')
      /\ l.msg \in Msgs /\ o \in Views /\ l.msg \in asked[o]
  BY AnswerFacts
<1>g. g \in Pagers /\ g.kind # "summary" /\ g # NoPager /\ \A v : l.msg \in asked[v] => OfAsked(asked, g, v)
  BY <1>0, PagersAre, Kinds DEF OfAsked
<1>1. CASE ~shown /\ ui.home # o /\ ~Live(ui, o)
  <2>1. Answer(l, ui)
    BY <1>1 DEF Loaded
  <2>2. Lays(ui, ui)
    BY DEF Lays
  <2> QED
    BY <1>0, <2>1, <2>2, AnswerStep, Zenon
<1>2. CASE ~shown /\ ui.home # o /\ Live(ui, o)
  <2> DEFINE w == [ui EXCEPT !.open[o] = g]
  <2>1. Answer(l, w)
    BY <1>2 DEF Loaded
  <2> HIDE DEF o, g
  <2>2. /\ w \in UIs /\ Lays(ui, w) /\ w.at = ui.at
        /\ Housed(ui) => Housed(w)
        /\ Agrees(ui) => Agrees(w)
        /\ Pointed(ui) => Pointed(w)
        /\ \A A : Owned(A, ui) /\ OfAsked(A, g, o) => Owned(A, w)
    BY <1>0, <1>2, <1>g, Parked
  <2> HIDE DEF w
  <2> QED
    BY <1>0, <1>g, <2>1, <2>2, AnswerStep, Zenon
<1>3. CASE shown \/ ui.home = o
  <2> DEFINE x == IF shown THEN "pager" ELSE ui.mode
             a == [ui EXCEPT !.pager = g]
             b == [a EXCEPT !.home = o]
             w == [b EXCEPT !.mode = x]
  <2>1. Answer(l, w)
    <3>1. Loaded(l) = [ui EXCEPT !.pager = g, !.home = o, !.mode = IF shown THEN "pager" ELSE @]
      BY <1>3 DEF Loaded
    <3>2. w = [ui EXCEPT !.pager = g, !.home = o, !.mode = IF shown THEN "pager" ELSE @]
      OBVIOUS
    <3> HIDE DEF w
    <3> QED
      BY <3>1, <3>2
  <2>x. x \in Modes /\ (shown => x = "pager") /\ (~shown => x = ui.mode)
    BY <1>0, Fields DEF Modes
  <2>o. (shown => StackSurface(ui) = o) /\ (~shown => StackSurface(ui) # o) /\ g = Shows(l.msg)
        /\ o \in Homes /\ o # NoView /\ o = l.origin
    BY <1>0, PlacesAre
  <2> HIDE DEF x
  <2>2. /\ a \in UIs /\ Lays(ui, a) /\ a.pager = g
        /\ a.sum = ui.sum /\ a.at = ui.at /\ a.mode = ui.mode /\ a.crmOpen = ui.crmOpen /\ a.rows = ui.rows
        /\ a.home = ui.home /\ a.open = ui.open /\ a.preview = ui.preview
    <3> HIDE DEF g
    <3> QED
      BY <1>0, <1>g, PagerReplaced
  <2> HIDE DEF a, o, g
  <2>3. /\ b \in UIs /\ Lays(a, b) /\ b.home = o
        /\ b.sum = a.sum /\ b.at = a.at /\ b.mode = a.mode /\ b.crmOpen = a.crmOpen /\ b.rows = a.rows
        /\ b.pager = a.pager /\ b.open = a.open /\ b.preview = a.preview
    BY <2>o, <2>2, HomeReplaced
  <2> HIDE DEF b
  <2>4. /\ w \in UIs /\ Lays(b, w) /\ w.mode = x
        /\ w.sum = b.sum /\ w.at = b.at /\ w.crmOpen = b.crmOpen /\ w.rows = b.rows
        /\ w.pager = b.pager /\ w.home = b.home /\ w.open = b.open /\ w.preview = b.preview
    BY <2>3, <2>x, ModeReplaced
  <2> HIDE DEF w
  <2>5. /\ w \in UIs /\ Lays(ui, w) /\ w.sum = ui.sum /\ w.at = ui.at /\ w.mode = x
        /\ w.crmOpen = ui.crmOpen /\ w.rows = ui.rows /\ w.open = ui.open /\ w.home = o
        /\ w.pager = Shows(l.msg) /\ w.preview = ui.preview
    BY <2>2, <2>3, <2>4, <2>o DEF Lays
  <2>6. /\ Housed(ui) /\ (w.home = ui.home \/ Live(ui, w.home)) => Housed(w)
        /\ Agrees(ui) /\ w.mode = ui.mode => Agrees(w)
        /\ Agrees(ui) /\ StackSurface(ui) # NoView /\ w.mode # "compose" => Agrees(w)
        /\ ~OnSummary(ui) => Pointed(w)
        /\ ActiveView(w) = ActiveView(ui) /\ StackSurface(w) = StackSurface(ui) /\ ~Displaced(w)
    BY <1>0, <2>5, Installed
  <2>7. shown => ActiveView(ui) = o /\ Live(ui, o) /\ StackSurface(ui) # NoView /\ ~OnSummary(ui)
    BY <1>0, <2>o, SurfaceIs, Apart
  <2>8. Housed(w)
    BY <1>0, <1>3, <2>5, <2>6, <2>7
  <2>9. Plain' => Agrees(w)
    BY <1>0, <2>5, <2>6, <2>7, <2>x
  <2>10. Screened' => Pointed(w)
    BY <1>3, <2>6, <2>7, <2>o
  <2>11. ASSUME Faithful' PROVE Owned(asked, w)
    <3>1. Owned(asked, ui)
      BY <1>0, <2>11
    <3>2. \A v \in Views : OfAsked(asked, w.open[v], v)
      BY <2>5, <3>1 DEF Owned
    <3>3. HomeView(w) = o /\ OfAsked(asked, w.pager, o)
      BY <1>0, <1>g, <2>5, <2>o DEF HomeView
    <3>4. ASSUME w.preview.on
          PROVE  /\ w.home \in {NoView, ActiveView(w)} /\ w.preview.msg \in asked[ActiveView(w)]
                 /\ OfAsked(asked, w.pager, ActiveView(w))
      <4>1. ui.preview.on
        BY <2>5, <3>4
      <4>2. ui.home \in {NoView, ActiveView(ui)} /\ ui.preview.msg \in asked[ActiveView(ui)]
        BY <3>1, <4>1 DEF Owned
      <4>3. ActiveView(ui) = o
        BY <1>3, <2>7, <2>o, <4>2
      <4> QED
        BY <2>5, <2>6, <3>3, <4>2, <4>3
    <3>5. ASSUME w.mode = "pager", StackSurface(w) # NoView PROVE HomeView(w) = StackSurface(w)
      <4>1. CASE shown
        BY <2>6, <2>o, <3>3, <4>1
      <4>2. CASE ~shown
        <5>1. ui.mode = "pager" /\ StackSurface(ui) # NoView /\ ui.home = o /\ ui.home # NoView
          BY <1>3, <2>5, <2>6, <2>o, <2>x, <3>5, <4>2
        <5>2. HomeView(ui) = StackSurface(ui)
          BY <3>1, <5>1 DEF Owned
        <5> QED
          BY <2>6, <3>3, <5>1, <5>2 DEF HomeView
      <4> QED
        BY <4>1, <4>2
    <3> QED
      BY <2>6, <3>2, <3>3, <3>4, <3>5, Zenon DEF Owned
  <2> HIDE DEF shown
  <2> QED
    BY <2>1, <2>5, <2>8, <2>9, <2>10, <2>11, AnswerStep, Zenon
<1> QED
  BY <1>1, <1>2, <1>3

LEMMA OnThreadLoadedKeeps ==
  ASSUME IInv, NEW l \in loads, NEW ok \in BOOLEAN, OnThreadLoaded(l, ok)
  PROVE  IInv'
<1> DEFINE w == IF l.preview THEN PreviewLoaded(l, ok) ELSE IF ok THEN Loaded(l) ELSE LoadFailed(l.origin)
<1>1. /\ ui' = w /\ loads' = loads \ {l} /\ nloads' = nloads /\ njobs' = njobs /\ nsearch' = nsearch
      /\ asked' = asked
      /\ met' = met \cup (IF ~l.preview /\ OnSummary(ui) /\ ui.home = l.origin
                          THEN {"clobbered"} ELSE {})
                    \cup (IF ~l.preview /\ ~ui'.preview.on /\ Twice(ui', l.origin)
                          THEN {"doubled"} ELSE {})
  BY DEF OnThreadLoaded, Becomes
<1>2. ASSUME NEW x, ui' = x PROVE Answer(l, x)
  BY <1>1, <1>2 DEF Answer
<1>3. ASSUME ~l.preview, OnSummary(ui), ui.home = l.origin PROVE ~Screened'
  BY <1>1, <1>3 DEF Screened
<1>4. ASSUME l.preview PROVE IInv'
  BY <1>1, <1>2, <1>4, PreviewLoadedKeeps
<1>5. ASSUME ~l.preview, ok PROVE IInv'
  BY <1>1, <1>2, <1>3, <1>5, LoadedKeeps
<1>6. ASSUME ~l.preview, ~ok PROVE IInv'
  BY <1>1, <1>2, <1>3, <1>6, LoadFailedKeeps
<1> QED
  BY <1>4, <1>5, <1>6

-----------------------------------------------------------------------------
(* The specification keeps the invariant. *)

LEMMA InitIInv == Init => IInv
<1> SUFFICES ASSUME Init PROVE IInv
  OBVIOUS
<1> DEFINE o == [v \in Views |-> NoPager]
           u == [dialogs |-> 0, searches |-> <<>>, crm |-> FALSE, sum |-> NoSummary,
                 at |-> 0, mode |-> "index", crmOpen |-> FALSE, rows |-> Mail,
                 pager |-> NoPager, home |-> NoView, open |-> o, preview |-> NoPreview]
<1>1. /\ ui = u /\ loads = {} /\ nloads = 0 /\ njobs = 0 /\ nsearch = 0
      /\ asked = [v \in Views |-> {}] /\ met = {}
  BY DEF Init
<1>2. o \in [Views -> Pagers] /\ \A v \in Views : o[v] = NoPager
  BY PagersAre
<1> HIDE DEF o
<1>3. <<>> \in Seq(Views) /\ Len(<<>>) = 0
  BY EmptySeq
<1>4. /\ u.dialogs = 0 /\ u.searches = <<>> /\ u.crm = FALSE /\ u.sum = NoSummary
      /\ u.at = 0 /\ u.mode = "index" /\ u.crmOpen = FALSE /\ u.rows = Mail
      /\ u.pager = NoPager /\ u.home = NoView /\ u.open = o /\ u.preview = NoPreview
  OBVIOUS
<1>5. u \in UIs
  <2>1. "index" \in Modes
    BY DEF Modes
  <2>2. NoSummary \in Sums /\ Mail \in Views /\ NoPager \in Pagers /\ NoView \in Homes /\ NoPreview \in Previews
    BY NoSummaryIs, PlacesAre, PagersAre, PreviewsAre
  <2>3. 0 \in Nat /\ FALSE \in BOOLEAN
    OBVIOUS
  <2> HIDE DEF u
  <2>4. u = [dialogs |-> 0, searches |-> <<>>, crm |-> FALSE, sum |-> NoSummary,
             at |-> 0, mode |-> "index", crmOpen |-> FALSE, rows |-> Mail,
             pager |-> NoPager, home |-> NoView, open |-> o, preview |-> NoPreview]
    BY DEF u
  <2> QED
    BY <1>2, <1>3, <2>1, <2>2, <2>3, <2>4, Zenon DEF UIs
<1> HIDE DEF u
<1>6. /\ ~HasSummary(u) /\ ~OnSummary(u) /\ ~OnSearch(u) /\ ~OnCrm(u) /\ ~Displaced(u)
  <2>1. ~HasSummary(u)
    BY <1>4, NoSummaryIs DEF HasSummary
  <2>2. ~OnSearch(u)
    BY <1>3, <1>4, SMT DEF OnSearch
  <2> QED
    BY <1>4, <2>1, <2>2 DEF OnSummary, OnCrm, Displaced
<1>7. ActiveView(u) = Mail /\ Live(u, Mail) /\ HomeView(u) = Mail
  BY <1>4, <1>6 DEF ActiveView, Live, HomeView
<1>8. Types
  <2>1. 0 \in 0..MaxSearch /\ 0 \in 0..MaxJobs /\ 0 <= MaxDialogs
    BY SurfacesAssumption, SMT
  <2>2. [v \in Views |-> {}] \in [Views -> SUBSET Msgs]
    OBVIOUS
  <2> QED
    BY <1>1, <1>4, <1>5, <2>1, <2>2 DEF Types
<1>9. u.at < TabCount(u)
  BY <1>4, <1>5, StripIs
<1>10. Housed(u)
  BY <1>2, <1>4, <1>6, Kinds, NoSummaryIs, PlacesAre DEF Housed
<1>11. Agrees(u)
  <2>1. u.at \notin 1..u.dialogs
    BY <1>4, SMT
  <2> QED
    BY <1>4, <1>6, <1>7, <2>1, PreviewsAre DEF Agrees
<1>12. Pointed(u)
  BY <1>6 DEF Pointed
<1>13. Owned(asked, u)
  <2>1. \A v : OfAsked(asked, NoPager, v)
    BY DEF OfAsked
  <2> QED
    BY <1>2, <1>4, <1>6, <2>1, PreviewsAre DEF Owned
<1> QED
  BY <1>1, <1>8, <1>9, <1>10, <1>11, <1>12, <1>13 DEF IInv

LEMMA NextIInv == IInv /\ [Next]_vars => IInv'
<1> SUFFICES ASSUME IInv, [Next]_vars PROVE IInv'
  OBVIOUS
<1>1. CASE UNCHANGED vars
  <2>1. /\ ui' = ui /\ loads' = loads /\ nloads' = nloads /\ njobs' = njobs /\ nsearch' = nsearch
        /\ asked' = asked /\ met' = met
    BY <1>1 DEF vars
  <2>2. /\ loads \subseteq LoadSet /\ nloads \in Nat /\ asked \in [Views -> SUBSET Msgs]
        /\ \A l \in loads : l.msg \in asked[l.origin]
    BY DEF IInv, Types
  <2>3. /\ Housed(ui) /\ (Plain' => Agrees(ui)) /\ (Screened' => Pointed(ui))
        /\ (Faithful' => Owned(asked, ui)) /\ ui \in UIs /\ Lays(ui, ui)
    BY <2>1, InvFacts, Encounters, Zenon DEF IInv, Lays
  <2> QED
    BY <2>1, <2>2, <2>3, InPlaceStep, Zenon
<1>2. CASE Key
  <2>1. ASSUME NEW active \in BOOLEAN, OpenSearch(active) PROVE IInv'
    BY <2>1, OpenSearchKeeps
  <2>2. ASSUME NEW m \in Msgs, Open(m) \/ Preview(m) PROVE IInv'
    BY <2>2, OpenKeeps, PreviewKeeps
  <2>3. ASSUME TabKey \/ OpenCrm \/ CrmKey \/ Goto \/ Quit \/ Back \/ ClosePreview \/ Promote PROVE IInv'
    BY <2>3, TabKeyShifts, OpenCrmShifts, CrmKeyShifts, ShiftStep, GotoKeeps, QuitKeeps, BackKeeps,
       ClosePreviewKeeps, PromoteKeeps
  <2> QED
    BY <1>2, <2>1, <2>2, <2>3 DEF Key
<1>3. CASE Event
  <2>1. ASSUME NEW l \in loads, NEW ok \in BOOLEAN, OnThreadLoaded(l, ok) PROVE IInv'
    BY <2>1, OnThreadLoadedKeeps
  <2>2. ASSUME NEW close \in BOOLEAN, OnAiResult(close) PROVE IInv'
    BY <2>2, OnAiResultKeeps
  <2>3. ASSUME NEW i \in 1..MaxDialogs, CloseDialog(i) PROVE IInv'
    BY <2>3, CloseDialogShifts, ShiftStep
  <2>4. ASSUME OnComposeOpened \/ OnAiStarted PROVE IInv'
    BY <2>4, OnComposeOpenedShifts, ShiftStep, OnAiStartedKeeps
  <2> QED
    BY <1>3, <2>1, <2>2, <2>3, <2>4 DEF Event
<1> QED
  BY <1>1, <1>2, <1>3 DEF Next

LEMMA SpecIInv == Spec => []IInv
<1>1. Init => IInv
  BY InitIInv
<1>2. IInv /\ [Next]_vars => IInv'
  BY NextIInv
<1> QED
  BY <1>1, <1>2, PTL DEF Spec

(* Every state of the terminal is well formed: the cursor is on a tab of *)
(* the strip, and what is open is open under a view (model.go's tab state). *)
THEOREM SpecTypeOK == Spec => []TypeOK
<1>1. IInv => TypeOK
  <2> SUFFICES ASSUME IInv PROVE TypeOK
    OBVIOUS
  <2>1. /\ ui.dialogs \in Nat /\ ui.searches \in Seq(Views)
        /\ ui.mode \in Modes /\ ui.pager \in Pagers /\ ui.home \in Homes
        /\ ui.open \in [Views -> Pagers] /\ ui.sum.saved \in Pagers
        /\ \A i \in 1..Len(ui.searches) : ui.searches[i] \in Views
    BY InvFacts, Fields
  <2>2. DOMAIN ui.searches = 1..Len(ui.searches)
    BY <2>1, LenProperties
  <2>3. ui.dialogs \in 0..MaxDialogs /\ ui.at < TabCount(ui)
    BY InvFacts, SurfacesAssumption, SMT
  <2> QED
    BY <2>1, <2>2, <2>3 DEF TypeOK, Modes, Homes
<1> QED
  BY <1>1, SpecIInv, PTL

(* What is open on a tab dies with it: neither the pager nor a parked *)
(* message belongs to a search tab that is closed (closeTab, model.go). *)
THEOREM SpecNoGhosts == Spec => []NoGhosts
<1>1. IInv => NoGhosts
  BY DEF IInv, Housed, NoGhosts
<1> QED
  BY <1>1, SpecIInv, PTL

(* The mode, the rows, the queue and the summary's pager are those of the *)
(* tab the strip is on (attachTab, model.go). *)
THEOREM SpecScreenAgrees == Spec => []ScreenAgrees
<1>1. IInv => ScreenAgrees
  <2> SUFFICES ASSUME IInv, met \cap {"shifted", "covered", "clobbered"} = {}
               PROVE  /\ ui.rows = ActiveView(ui)
                      /\ ui.crmOpen => OnCrm(ui)
                      /\ ui.mode = "compose" => ui.at \in 1..ui.dialogs
                      /\ ui.at \in 1..ui.dialogs => ui.mode = "compose"
                      /\ OnSummary(ui) => ui.mode = "pager" /\ ui.pager = SumPager(ui.sum.job)
    BY DEF ScreenAgrees
  <2>1. Screened /\ Plain
    BY DEF Screened, Plain
  <2>2. Agrees(ui) /\ Pointed(ui)
    BY <2>1 DEF IInv
  <2> QED
    BY <2>2, Zenon DEF Agrees, Pointed
<1> QED
  BY <1>1, SpecIInv, PTL

(* A surface shows a message it asked for: whatever the order of replies, *)
(* tabs, previews and summaries (onThreadLoaded and attachTab, model.go). *)
THEOREM SpecOwnSurface == Spec => []OwnSurface
<1>1. IInv => OwnSurface
  <2> SUFFICES ASSUME IInv, met \cap {"shifted", "promoted", "covered"} = {},
                      ui.mode = "pager", StackSurface(ui) # NoView, ui.pager # NoPager
               PROVE  ui.pager.kind = "msg" /\ ui.pager.msg \in asked[StackSurface(ui)]
    BY DEF OwnSurface
  <2>1. Owned(asked, ui) /\ ui \in UIs
    BY InvFacts DEF Faithful, IInv
  <2>2. HomeView(ui) = StackSurface(ui) /\ StackSurface(ui) = ActiveView(ui) /\ ~OnSummary(ui)
    BY <2>1, SurfaceIs, Apart DEF Owned
  <2>3. OfAsked(asked, ui.pager, StackSurface(ui))
    <3>1. CASE ui.preview.on
      BY <2>1, <2>2, <3>1 DEF Owned
    <3>2. CASE ~ui.preview.on
      BY <2>1, <2>2, <3>2 DEF Owned
    <3> QED
      BY <3>1, <3>2
  <2> QED
    BY <2>3, Kinds DEF OfAsked
<1> QED
  BY <1>1, SpecIInv, PTL

-----------------------------------------------------------------------------
(* What is open stays open. *)

(* The message of the view x, the pager p being at home on h and o parked. *)
Of(p, h, o, x) == IF h = x /\ p # NoPager THEN p ELSE o[x]

Holds(u, x) == Of(Restored(u).pager, HomeView(Restored(u)), u.open, x)

(* The surface the pager belongs to has no other message parked. *)
Alone(u) == Restored(u).pager # NoPager => u.open[HomeView(Restored(u))] = NoPager

(* Nothing is parked under the surface that has the screen. *)
Cleared(u) == StackSurface(u) # NoView => u.open[StackSurface(u)] = NoPager

(* From u to w no tab loses the message that is open on it. *)
Keeps(u, w) ==
  /\ Alone(w) /\ Cleared(w)
  /\ \A x \in Views : Live(u, x) /\ Live(w, x) => OpenOn(w, x) = OpenOn(u, x)

LEMMA RestoredReady ==
  ASSUME NEW A, NEW u \in UIs, Ready(A, u)
  PROVE  LET b == Restored(u) IN
         /\ b \in UIs /\ OfAsked(A, b.pager, HomeView(b))
         /\ Displaced(u) => b.pager = u.sum.saved /\ HomeView(b) = u.sum.savedHome /\ u.sum.savedHome \in Views
         /\ ~Displaced(u) => b.pager = u.pager /\ HomeView(b) = HomeView(u)
<1> DEFINE b == Restored(u)
<1>1. /\ b \in UIs
      /\ Displaced(u) => b.pager = u.sum.saved /\ b.home = u.sum.savedHome
      /\ ~Displaced(u) => b = u
  BY RestoredIs
<1> HIDE DEF b
<1>2. CASE Displaced(u)
  <2>1. u.sum.savedHome \in Views /\ OfAsked(A, u.sum.saved, u.sum.savedHome)
    BY <1>2 DEF Ready
  <2>2. HomeView(b) = u.sum.savedHome
    BY <1>1, <1>2, <2>1, HomeIs
  <2> QED
    BY <1>1, <1>2, <2>1, <2>2 DEF b
<1>3. CASE ~Displaced(u)
  <2>1. OfAsked(A, u.pager, HomeView(u))
    BY <1>3 DEF Ready
  <2> QED
    BY <1>1, <1>3, <2>1 DEF b
<1> QED
  BY <1>2, <1>3

LEMMA OpenOnIs ==
  ASSUME NEW A, NEW u \in UIs, Ready(A, u), NEW x \in Views
  PROVE  OpenOn(u, x) = Holds(u, x)
<1> DEFINE b == Restored(u)
<1>1. /\ OfAsked(A, b.pager, HomeView(b))
      /\ Displaced(u) => b.pager = u.sum.saved /\ HomeView(b) = u.sum.savedHome /\ u.sum.savedHome \in Views
      /\ ~Displaced(u) => b.pager = u.pager /\ HomeView(b) = HomeView(u)
  BY RestoredReady
<1>h. Holds(u, x) = IF HomeView(b) = x /\ b.pager # NoPager THEN b.pager ELSE u.open[x]
  BY DEF Holds, Of
<1> HIDE DEF b
<1>2. CASE Displaced(u)
  <2>1. HasSummary(u) /\ u.pager = SumPager(u.sum.job) /\ u.pager.kind = "summary"
    BY <1>2, NotSummary DEF Displaced
  <2>2. u.sum.savedHome # NoView
    BY <1>1, <1>2, PlacesAre
  <2>3. OpenOn(u, x) = IF u.sum.saved # NoPager /\ u.sum.savedHome = x THEN u.sum.saved ELSE u.open[x]
    BY <2>1, <2>2 DEF OpenOn
  <2> QED
    BY <1>1, <1>2, <1>h, <2>3
<1>3. CASE ~Displaced(u)
  <2>1. u.pager.kind = "msg" <=> u.pager # NoPager
    BY <1>1, <1>3, Kinds DEF OfAsked
  <2>2. OpenOn(u, x) = IF HomeView(u) = x /\ u.pager.kind = "msg" THEN u.pager ELSE u.open[x]
    BY <1>3 DEF OpenOn, Displaced
  <2> QED
    BY <1>1, <1>3, <1>h, <2>1, <2>2
<1> QED
  BY <1>2, <1>3

(* What is open is kept where it was. *)
SameMail(u, w) ==
  /\ w.sum.job = u.sum.job /\ w.sum.saved = u.sum.saved /\ w.sum.savedHome = u.sum.savedHome
  /\ w.pager = u.pager /\ w.home = u.home /\ w.open = u.open

LEMMA MailStays ==
  ASSUME NEW u \in UIs, NEW w \in UIs, SameMail(u, w)
  PROVE  (Alone(u) => Alone(w)) /\ \A x \in Views : OpenOn(w, x) = OpenOn(u, x)
<1>1. (HasSummary(w) <=> HasSummary(u)) /\ HomeView(w) = HomeView(u) /\ (Displaced(w) <=> Displaced(u))
  BY DEF SameMail, HasSummary, HomeView, Displaced
<1>2. \A x \in Views : OpenOn(w, x) = OpenOn(u, x)
  BY <1>1 DEF OpenOn, SameMail
<1>3. Restored(w).pager = Restored(u).pager /\ Restored(w).home = Restored(u).home
  <2>1. /\ Displaced(u) => Restored(u).pager = u.sum.saved /\ Restored(u).home = u.sum.savedHome
        /\ ~Displaced(u) => Restored(u) = u
    BY RestoredIs
  <2>2. /\ Displaced(w) => Restored(w).pager = w.sum.saved /\ Restored(w).home = w.sum.savedHome
        /\ ~Displaced(w) => Restored(w) = w
    BY RestoredIs
  <2> QED
    BY <1>1, <2>1, <2>2 DEF SameMail
<1>4. HomeView(Restored(w)) = HomeView(Restored(u))
  BY <1>3 DEF HomeView
<1> QED
  BY <1>2, <1>3, <1>4 DEF Alone, SameMail

LEMMA AttachKeeps ==
  ASSUME NEW A, NEW u \in UIs, Ready(A, u), Alone(u)
  PROVE  LET w == Attach(u) IN
         Alone(w) /\ Cleared(w) /\ \A x \in Views : Holds(w, x) = Holds(u, x)
<1> DEFINE w == Attach(u)
           r == Restored(u)
           p == Restored(u).pager
           h == HomeView(Restored(u))
           s == StackSurface(u)
           Goal == Alone(w) /\ Cleared(w) /\ \A x \in Views : Holds(w, x) = Holds(u, x)
<1>1. /\ w \in UIs /\ Lays(u, w) /\ w.at = u.at
      /\ OnCrm(u) => CrmScreen(u, w)
      /\ OnSummary(u) => SummaryScreen(u, w)
      /\ StackSurface(u) # NoView => StackScreen(u, w)
      /\ ~OnCrm(u) /\ ~OnSummary(u) /\ StackSurface(u) = NoView => ComposeScreen(u, w)
  BY AttachIs
<1>2. /\ r \in UIs /\ OfAsked(A, p, h)
      /\ Displaced(u) => p = u.sum.saved /\ h = u.sum.savedHome /\ u.sum.savedHome \in Views
      /\ ~Displaced(u) => p = u.pager /\ h = HomeView(u)
  BY RestoredReady
<1>3. /\ p # NoPager => u.open[h] = NoPager
      /\ \A x \in Views : Holds(u, x) = IF h = x /\ p # NoPager THEN p ELSE u.open[x]
  BY DEF Alone, Holds, Of
<1>4. ~OnSummary(u) => Back0(u) = r
  BY DEF Back0
<1>d. r = Restored(u) /\ p = r.pager /\ h = HomeView(r) /\ s = StackSurface(u)
  OBVIOUS
<1> HIDE DEF w, r, p, h, s
<1>5. /\ StackSurface(w) = s
      /\ (HasSummary(w) <=> HasSummary(u)) /\ w.sum.job = u.sum.job
  BY <1>1, <1>d, SameLayout DEF Lays
<1>6. h \in Views
  BY <1>2, <1>d, HomeIs
<1>7. ASSUME ~Displaced(w)
      PROVE  /\ (w.pager # NoPager => w.open[HomeView(w)] = NoPager) => Alone(w)
             /\ \A x : Holds(w, x) = IF HomeView(w) = x /\ w.pager # NoPager THEN w.pager ELSE w.open[x]
  <2>1. Restored(w) = w
    BY <1>1, <1>7, RestoredIs
  <2> QED
    BY <2>1 DEF Alone, Holds, Of
<1>8. ASSUME w.open = u.open, w.pager = Back0(u).pager, w.home = Back0(u).home,
             ~OnSummary(u), s = NoView
      PROVE  Goal
  <2>1. w.pager = p /\ HomeView(w) = h
    BY <1>4, <1>8, <1>d DEF HomeView
  <2>2. ~Displaced(w)
    BY <1>2, <2>1, NotSummary
  <2>3. Cleared(w)
    BY <1>5, <1>8 DEF Cleared
  <2> QED
    BY <1>3, <1>7, <1>8, <2>1, <2>2, <2>3
<1>9. ASSUME OnSummary(u) PROVE Goal
  <2>1. SummaryScreen(u, w) /\ HasSummary(u) /\ s = NoView
    BY <1>1, <1>9, <1>d, Apart DEF OnSummary
  <2>2. Displaced(w) /\ w.open = u.open
    BY <1>5, <2>1 DEF SummaryScreen, Displaced
  <2>3. w.sum.saved = p /\ w.sum.savedHome = h
    <3>1. CASE Displaced(u)
      BY <1>2, <2>1, <3>1 DEF SummaryScreen
    <3>2. CASE ~Displaced(u)
      BY <1>2, <2>1, <3>2 DEF SummaryScreen
    <3> QED
      BY <3>1, <3>2
  <2>4. Restored(w).pager = p /\ Restored(w).home = h /\ Restored(w) \in UIs
    BY <1>1, <2>2, <2>3, RestoredIs
  <2>5. HomeView(Restored(w)) = h
    BY <1>6, <2>4, HomeIs
  <2>6. Cleared(w)
    BY <1>5, <2>1 DEF Cleared
  <2>7. Alone(w)
    BY <1>3, <2>2, <2>4, <2>5 DEF Alone
  <2>8. \A x \in Views : Holds(w, x) = Holds(u, x)
    BY <1>3, <2>2, <2>4, <2>5 DEF Holds, Of
  <2> QED
    BY <2>6, <2>7, <2>8
<1>10. ASSUME s # NoView PROVE Goal
  <2>0. ~OnSummary(u) /\ StackScreen(u, w) /\ s \in Views
    BY <1>1, <1>10, <1>d, Apart, SurfaceIs
  <2>1. Back0(u).pager = p /\ HomeView(Back0(u)) = h
    BY <1>4, <1>d, <2>0
  <2>2. /\ w.home = s
        /\ w.pager = (IF u.open[s] # NoPager THEN u.open[s] ELSE IF h = s THEN p ELSE NoPager)
        /\ \A x \in Views : w.open[x] = Beneath(p, h, u.open, s, x)
    BY <1>d, <2>0, <2>1 DEF StackScreen
  <2>3. HomeView(w) = s
    BY <1>1, <2>0, <2>2, HomeIs
  <2>4. OfAsked(A, w.pager, s)
    <3>1. OfAsked(A, u.open[s], s) /\ OfAsked(A, NoPager, s)
      BY <2>0 DEF Ready, OfAsked
    <3> QED
      BY <1>2, <2>2, <3>1
  <2>5. ~Displaced(w)
    BY <2>4, NotSummary
  <2>6. w.open[s] = NoPager
    BY <2>0, <2>2 DEF Beneath
  <2>7. Cleared(w) /\ Alone(w)
    BY <1>5, <1>7, <2>3, <2>5, <2>6 DEF Cleared
  <2>8. ASSUME NEW x \in Views PROVE Holds(w, x) = Holds(u, x)
    <3>1. Holds(w, x) = IF s = x /\ w.pager # NoPager THEN w.pager ELSE w.open[x]
      BY <1>7, <2>3, <2>5
    <3>2. Holds(u, x) = IF h = x /\ p # NoPager THEN p ELSE u.open[x]
      BY <1>3
    <3>3. CASE x = s
      BY <1>3, <2>2, <2>6, <3>1, <3>2, <3>3
    <3>4. CASE x # s
      BY <2>2, <3>1, <3>2, <3>4 DEF Beneath
    <3> QED
      BY <3>3, <3>4
  <2> QED
    BY <2>7, <2>8
<1>11. ASSUME OnCrm(u) PROVE Goal
  BY <1>1, <1>8, <1>11, <1>d, Apart DEF CrmScreen
<1>12. ASSUME ~OnCrm(u), ~OnSummary(u), s = NoView PROVE Goal
  BY <1>1, <1>8, <1>12, <1>d DEF ComposeScreen
<1> QED
  BY <1>9, <1>10, <1>11, <1>12 DEF w

(* The screen goes to another tab. *)
LEMMA GoKeeps ==
  ASSUME NEW A, NEW u \in UIs, Ready(A, u), Alone(u), NEW i \in Nat
  PROVE  LET w == Go(u, i) IN
         Alone(w) /\ Cleared(w) /\ \A x \in Views : OpenOn(w, x) = OpenOn(u, x)
<1> DEFINE a == [u EXCEPT !.at = i]
           w == Attach(a)
<1>1. a \in UIs /\ SameOpens(u, a)
  BY AtReplaced DEF SameOpens, Lays
<1>2. Go(u, i) = w
  BY DEF Go
<1> HIDE DEF a
<1>3. SameMail(u, a)
  BY <1>1 DEF SameMail, SameOpens
<1>4. Ready(A, a) /\ Alone(a) /\ \A x \in Views : OpenOn(a, x) = OpenOn(u, x)
  BY <1>1, <1>3, OpensStay, MailStays
<1>5. Alone(w) /\ Cleared(w) /\ \A x \in Views : Holds(w, x) = Holds(a, x)
  BY <1>1, <1>4, AttachKeeps
<1>6. w \in UIs /\ Owned(A, w) /\ w.preview = a.preview
  BY <1>1, <1>4, AttachIs, AttachOwned
<1>7. Ready(A, w)
  <2>1. ~w.preview.on
    BY <1>4, <1>6 DEF Ready
  <2> QED
    BY <1>6, <2>1, OwnedReady
<1> HIDE DEF w
<1>8. \A x \in Views : OpenOn(w, x) = OpenOn(u, x)
  BY <1>1, <1>4, <1>5, <1>6, <1>7, OpenOnIs
<1> QED
  BY <1>2, <1>5, <1>8

(* What the summary displaced is back: the next may take its place. *)
LEMMA ReplacedKeeps ==
  ASSUME NEW A, NEW u \in UIs, Ready(A, u), Alone(u), NEW s \in Sums, s.saved = NoPager
  PROVE  LET w == [Restored(u) EXCEPT !.sum = s] IN
         /\ w \in UIs /\ Ready(A, w) /\ Alone(w) /\ w.searches = u.searches
         /\ \A x \in Views : OpenOn(w, x) = OpenOn(u, x)
<1> DEFINE r == Restored(u)
           w == [r EXCEPT !.sum = s]
<1>1. w \in UIs /\ Ready(A, w) /\ w.searches = u.searches
  BY Replaced
<1>2. r \in UIs /\ r.open = u.open /\ OfAsked(A, r.pager, HomeView(r))
  BY RestoredIs, RestoredReady
<1>3. /\ r.pager # NoPager => u.open[HomeView(r)] = NoPager
      /\ \A x \in Views : Holds(u, x) = IF HomeView(r) = x /\ r.pager # NoPager THEN r.pager ELSE u.open[x]
  BY DEF Alone, Holds, Of
<1> HIDE DEF r
<1>4. w.pager = r.pager /\ w.home = r.home /\ w.open = r.open
  BY <1>2, SumReplaced
<1> HIDE DEF w
<1>5. Restored(w) = w
  BY <1>1, <1>2, <1>4, NotSummary, RestoredIs
<1>6. HomeView(w) = HomeView(r)
  BY <1>4 DEF HomeView
<1>7. Alone(w)
  BY <1>2, <1>3, <1>4, <1>5, <1>6 DEF Alone
<1>8. ASSUME NEW x \in Views PROVE OpenOn(w, x) = OpenOn(u, x)
  <2>1. Holds(w, x) = Holds(u, x)
    BY <1>2, <1>3, <1>4, <1>5, <1>6 DEF Holds, Of
  <2> QED
    BY <1>1, <2>1, OpenOnIs
<1> QED
  BY <1>1, <1>7, <1>8 DEF w, r

LEMMA CloseSummaryKeeps ==
  ASSUME NEW A, NEW u \in UIs, Ready(A, u), Alone(u)
  PROVE  Keeps(u, CloseSummary(u))
<1> DEFINE c == [Restored(u) EXCEPT !.sum = NoSummary]
           x == IF c.at > TabCount(c) - 1 THEN TabCount(c) - 1 ELSE c.at
           w == Go(c, x)
<1>1. /\ c \in UIs /\ Ready(A, c) /\ Alone(c)
      /\ \A v \in Views : OpenOn(c, v) = OpenOn(u, v)
  BY NoSummaryIs, ReplacedKeeps
<1>2. CloseSummary(u) = w
  BY DEF CloseSummary
<1> HIDE DEF c
<1>3. c.at \in Nat /\ TabCount(c) \in Nat /\ TabCount(c) > 0
  BY <1>1, Fields, StripIs
<1>4. x \in Nat /\ x < TabCount(c)
  BY <1>3, SMT
<1> HIDE DEF x
<1>5. Alone(w) /\ Cleared(w) /\ \A v \in Views : OpenOn(w, v) = OpenOn(c, v)
  BY <1>1, <1>4, GoKeeps
<1> HIDE DEF w
<1> QED
  BY <1>1, <1>2, <1>5 DEF Keeps

LEMMA CloseSummaryTabs == ASSUME NEW u \in UIs PROVE CloseSummary(u).searches = u.searches
<1> DEFINE c == [Restored(u) EXCEPT !.sum = NoSummary]
           x == IF c.at > TabCount(c) - 1 THEN TabCount(c) - 1 ELSE c.at
<1>1. CloseSummary(u) = Go(c, x)
  BY DEF CloseSummary
<1>2. c \in UIs /\ c.searches = u.searches
  BY NoSummaryIs, Replaced
<1> HIDE DEF c
<1>3. c.at \in Nat /\ TabCount(c) \in Nat /\ TabCount(c) > 0
  BY <1>2, Fields, StripIs
<1>4. x \in Nat /\ x < TabCount(c)
  BY <1>3, SMT
<1> HIDE DEF x
<1> QED
  BY <1>1, <1>2, <1>4, GoLeads DEF Leads, Lays

-----------------------------------------------------------------------------
(* The search tabs q, of the n opened, are different ones. *)

Numbered(q, n) == \A i, j \in 1..Len(q) : q[i] \in 1..n /\ (q[i] = q[j] => i = j)

LEMMA NumberedCut ==
  ASSUME NEW q \in Seq(Views), NEW n \in Nat, Numbered(q, n), NEW k \in 1..Len(q)
  PROVE  /\ Numbered(RemoveAt(q, k), n)
         /\ \A i \in 1..Len(RemoveAt(q, k)) : RemoveAt(q, k)[i] # q[k]
<1> DEFINE r == RemoveAt(q, k)
<1>1. /\ Len(r) = Len(q) - 1
      /\ \A i \in 1..(Len(q) - 1) : r[i] = IF i < k THEN q[i] ELSE q[i + 1]
  BY Cut
<1>2. Len(q) \in Nat /\ k \in Nat
  BY LenProperties
<1> HIDE DEF r
<1> DEFINE past(i) == IF i < k THEN i ELSE i + 1
<1>3. ASSUME NEW i \in 1..Len(r) PROVE r[i] = q[past(i)] /\ past(i) \in 1..Len(q) /\ past(i) # k
  <2>1. i \in 1..(Len(q) - 1)
    BY <1>1
  <2>2. r[i] = IF i < k THEN q[i] ELSE q[i + 1]
    BY <1>1, <2>1
  <2> QED
    BY <1>2, <2>1, <2>2, SMT
<1>4. ASSUME NEW i \in 1..Len(r), NEW j \in 1..Len(r), past(i) = past(j) PROVE i = j
  BY <1>1, <1>2, <1>4, SMT
<1> HIDE DEF past
<1>5. ASSUME NEW i \in 1..Len(r), NEW j \in 1..Len(r) PROVE r[i] \in 1..n /\ (r[i] = r[j] => i = j)
  BY <1>3, <1>4 DEF Numbered
<1>6. ASSUME NEW i \in 1..Len(r) PROVE r[i] # q[k]
  BY <1>3 DEF Numbered
<1> QED
  BY <1>5, <1>6 DEF Numbered, r

LEMMA NumberedMore ==
  ASSUME NEW q \in Seq(Views), NEW n \in Nat, Numbered(q, n)
  PROVE  Numbered(Append(q, n + 1), n + 1)
<1> DEFINE r == Append(q, n + 1)
<1>1. /\ Len(r) = Len(q) + 1 /\ Len(q) \in Nat /\ r[Len(q) + 1] = n + 1
      /\ \A i \in 1..Len(q) : r[i] = q[i]
  BY AppendProperties, LenProperties
<1> HIDE DEF r
<1>2. ASSUME NEW i \in 1..Len(r) PROVE i \in 1..Len(q) \/ i = Len(q) + 1
  BY <1>1, SMT
<1>3. ASSUME NEW i \in 1..Len(q) PROVE r[i] \in 1..n
  BY <1>1 DEF Numbered
<1>4. ASSUME NEW i \in 1..Len(r) PROVE r[i] \in 1..(n + 1)
  BY <1>1, <1>2, <1>3, SMT
<1>5. ASSUME NEW i \in 1..Len(r), NEW j \in 1..Len(r), r[i] = r[j] PROVE i = j
  <2>1. CASE i \in 1..Len(q) /\ j \in 1..Len(q)
    BY <1>1, <1>5, <2>1 DEF Numbered
  <2>2. CASE i \in 1..Len(q) /\ j = Len(q) + 1
    BY <1>1, <1>3, <1>5, <2>2, SMT
  <2>3. CASE i = Len(q) + 1 /\ j \in 1..Len(q)
    BY <1>1, <1>3, <1>5, <2>3, SMT
  <2> QED
    BY <1>2, <2>1, <2>2, <2>3
<1> QED
  BY <1>4, <1>5 DEF Numbered, r

LEMMA CloseSearchTabs ==
  ASSUME NEW u \in UIs, OnSearch(u), NEW n \in Nat, Numbered(u.searches, n)
  PROVE  LET w == CloseSearch(u) IN
         /\ Numbered(w.searches, n)
         /\ ActiveView(u) # Mail /\ ~Live(w, ActiveView(u))
<1> DEFINE b == SearchGone(u)
           v == ActiveView(u)
           k == u.at - u.dialogs
           w == CloseSearch(u)
<1>1. /\ w = Land(b, u.at) /\ b \in UIs
      /\ k \in 1..Len(u.searches) /\ v = u.searches[k] /\ b.searches = RemoveAt(u.searches, k)
  BY SearchGoneIs
<1> HIDE DEF b, v, k, w
<1>2. u.at \in Nat /\ u.searches \in Seq(Views)
  BY Fields
<1>3. PICK x \in Nat : x < TabCount(b) /\ w = Go(b, x)
  BY <1>1, <1>2, LandGoes
<1>4. w.searches = b.searches
  BY <1>1, <1>3, GoLeads DEF Leads, Lays
<1>5. v # Mail
  <2>1. v \in 1..n
    BY <1>1 DEF Numbered
  <2> QED
    BY <2>1, SMT DEF Mail
<1>6. DOMAIN b.searches = 1..Len(b.searches)
  BY <1>1, Fields, LenProperties
<1>7. /\ Numbered(b.searches, n)
      /\ \A i \in 1..Len(b.searches) : b.searches[i] # v
  BY <1>1, <1>2, NumberedCut
<1>8. Numbered(w.searches, n) /\ v # Mail /\ ~Live(w, v)
  BY <1>4, <1>5, <1>6, <1>7 DEF Live
<1> QED
  BY <1>8 DEF w, v

LEMMA CloseSearchKeeps ==
  ASSUME NEW A, NEW u \in UIs, Ready(A, u), Alone(u), Housed(u), OnSearch(u), u.mode = "index",
         NEW n \in Nat, Numbered(u.searches, n)
  PROVE  Keeps(u, CloseSearch(u))
<1> DEFINE b == SearchGone(u)
           v == ActiveView(u)
           k == u.at - u.dialogs
           w == Land(b, u.at)
<1>1. /\ CloseSearch(u) = w
      /\ k \in 1..Len(u.searches) /\ v = u.searches[k] /\ v \in Views
      /\ b \in UIs /\ b.searches = RemoveAt(u.searches, k) /\ b.open = [u.open EXCEPT ![v] = NoPager]
      /\ u.home = v => b.pager = NoPager /\ b.home = NoView
      /\ u.home # v => b.pager = u.pager /\ b.home = u.home
  BY SearchGoneIs
<1>2. Ready(A, b)
  BY SearchGoneStays
<1> HIDE DEF b, v, k, w
<1>3. v # Mail /\ ~Live(w, v) /\ u.at \in Nat /\ u.open \in [Views -> Pagers]
  BY <1>1, Fields, CloseSearchTabs DEF v
<1>4. ~Displaced(u)
  BY DEF Housed
<1>5. u.pager.kind # "summary"
  BY <1>4, NotSummary DEF Ready
<1>6. ~Displaced(b)
  BY <1>1, <1>5, Kinds, NotSummary
<1>7. Restored(u) = u /\ Restored(b) = b
  BY <1>1, <1>4, <1>6, RestoredIs
<1>8. \A x \in Views : b.open[x] = IF x = v THEN NoPager ELSE u.open[x]
  BY <1>1, <1>3
<1>9. HomeView(u) \in Views /\ (u.home = v => HomeView(u) = v)
      /\ (u.home # v => HomeView(u) # v /\ HomeView(b) = HomeView(u))
  BY <1>1, <1>3, PlacesAre, HomeIs DEF HomeView
<1>10. Alone(b)
  BY <1>1, <1>7, <1>8, <1>9 DEF Alone
<1>11. ASSUME NEW x \in Views, x # v PROVE OpenOn(b, x) = OpenOn(u, x)
  <2>1. Holds(b, x) = Holds(u, x)
    BY <1>1, <1>7, <1>8, <1>9, <1>11 DEF Holds, Of
  <2> QED
    BY <1>1, <1>2, <2>1, OpenOnIs
<1>12. PICK i \in Nat : i < TabCount(b) /\ w = Go(b, i)
  BY <1>1, <1>3, LandGoes DEF w
<1>13. Alone(w) /\ Cleared(w) /\ \A x \in Views : OpenOn(w, x) = OpenOn(b, x)
  BY <1>1, <1>2, <1>10, <1>12, GoKeeps
<1> QED
  BY <1>1, <1>3, <1>11, <1>13 DEF Keeps

-----------------------------------------------------------------------------
(* The inductive invariant of what is open, and what a step of the terminal *)
(* keeps of it. *)

Single ==
  /\ Numbered(ui.searches, nsearch)
  /\ met = {} => Cleared(ui) /\ (~ui.preview.on => Alone(ui))

Untouched ==
  \/ loads' # loads \/ ui.preview.on \/ ui'.preview.on \/ Goto
  \/ met # {}
  \/ \A v \in Views : Live(ui, v) /\ Live(ui', v) => OpenOn(ui', v) = OpenOn(ui, v)

LEMMA Quiet ==
  ASSUME IInv, met = {}
  PROVE  /\ Agrees(ui) /\ Owned(asked, ui)
         /\ ~ui.preview.on => Ready(asked, ui)
<1>1. Plain /\ Faithful
  BY DEF Plain, Faithful
<1>2. Agrees(ui) /\ Owned(asked, ui) /\ ui \in UIs
  BY <1>1, InvFacts DEF IInv
<1> QED
  BY <1>2, OwnedReady

(* A step of the strip. *)
LEMMA KeepStep ==
  ASSUME IInv, Single, met \subseteq met', ui.preview.on => "covered" \in met',
         ui'.preview = ui.preview, Numbered(ui'.searches, nsearch'),
         Ready(asked, ui) /\ Alone(ui) /\ Cleared(ui) =>
           /\ Alone(ui') /\ (met' = {} => Cleared(ui'))
           /\ \A v \in Views : Live(ui, v) /\ Live(ui', v) => OpenOn(ui', v) = OpenOn(ui, v)
  PROVE  Single' /\ Untouched
<1>1. ASSUME met = {}, ~ui.preview.on
      PROVE  /\ Alone(ui') /\ (met' = {} => Cleared(ui'))
             /\ \A v \in Views : Live(ui, v) /\ Live(ui', v) => OpenOn(ui', v) = OpenOn(ui, v)
  <2>1. Ready(asked, ui) /\ Alone(ui) /\ Cleared(ui)
    BY <1>1, Quiet DEF Single
  <2> QED
    BY <2>1
<1>2. met' = {} => met = {} /\ ~ui.preview.on
  OBVIOUS
<1>3. Untouched
  BY <1>1 DEF Untouched
<1>4. met' = {} => Cleared(ui') /\ Alone(ui')
  BY <1>1, <1>2
<1>5. Single'
  BY <1>4 DEF Single
<1> QED
  BY <1>3, <1>5

LEMMA ShiftSingle == ASSUME IInv, Single, Shifts PROVE Single' /\ Untouched
<1>1. /\ nsearch' = nsearch /\ met \subseteq met' /\ (ui.preview.on => "covered" \in met')
  BY DEF Shifts
<1>2. PICK v \in UIs, i \in Nat : SameOpens(ui, v) /\ i < TabCount(v) /\ ui' = Go(v, i)
  BY DEF Shifts, Moves
<1>3. SameMail(ui, v) /\ v.searches = ui.searches /\ v.preview = ui.preview
  BY <1>2 DEF SameOpens, SameMail
<1>4. ui'.searches = ui.searches /\ ui'.preview = ui.preview
  BY <1>2, <1>3, GoLeads DEF Leads, Lays
<1>5. ASSUME Ready(asked, ui), Alone(ui)
      PROVE  Alone(ui') /\ Cleared(ui') /\ \A x \in Views : OpenOn(ui', x) = OpenOn(ui, x)
  <2>1. Ready(asked, v) /\ Alone(v) /\ \A x \in Views : OpenOn(v, x) = OpenOn(ui, x)
    BY <1>2, <1>3, <1>5, InvFacts, OpensStay, MailStays
  <2>2. Alone(ui') /\ Cleared(ui') /\ \A x \in Views : OpenOn(ui', x) = OpenOn(v, x)
    BY <1>2, <2>1, GoKeeps
  <2> QED
    BY <2>1, <2>2
<1>6. Numbered(ui'.searches, nsearch')
  BY <1>1, <1>4 DEF Single
<1> QED
  BY <1>1, <1>4, <1>5, <1>6, KeepStep

LEMMA QuitSingle == ASSUME IInv, Single, Quit PROVE Single' /\ Untouched
<1>1. ui' = CloseSearch(ui) /\ ~ui.preview.on /\ ui.mode = "index" /\ OnSearch(ui)
      /\ nsearch' = nsearch /\ met' = met
  BY DEF Quit, Becomes, Free, Strip
<1>2. Housed(ui) /\ ui \in UIs /\ nsearch \in Nat
  BY InvFacts, SurfacesAssumption, SMT DEF IInv
<1>3. Settles(ui, ui')
  BY <1>1, <1>2, CloseSearchIs
<1>4. ui'.preview = ui.preview
  BY <1>3 DEF Settles
<1>5. Ready(asked, ui) /\ Alone(ui) => Keeps(ui, ui')
  BY <1>1, <1>2, CloseSearchKeeps DEF Single
<1>6. Numbered(ui'.searches, nsearch')
  BY <1>1, <1>2, CloseSearchTabs DEF Single
<1> QED
  BY <1>1, <1>4, <1>5, <1>6, KeepStep DEF Keeps

LEMMA GotoSingle == ASSUME IInv, Single, Goto PROVE Single' /\ Untouched
<1>1. nsearch' = nsearch /\ met' = met /\ ~ui.preview.on
  BY DEF Goto, Strip, Free
<1>2. PICK u \in UIs :
        /\ ui' = Go(u, 0) /\ u.searches = ui.searches /\ u.preview = ui.preview
        /\ ~Displaced(u) /\ ~Displaced(ui)
        /\ \A A : Ready(A, ui) => Ready(A, u)
        /\ HomeView(u) = HomeView(ui)
        /\ \A x \in Views : u.open[x] = IF x = Mail THEN NoPager ELSE ui.open[x]
        /\ u.pager = NoPager \/ u.pager = ui.pager
  BY GotoGoes
<1>3. ui'.searches = ui.searches /\ ui'.preview = ui.preview
  <2>1. 0 \in Nat /\ 0 < TabCount(u)
    BY <1>2, StripIs
  <2> QED
    BY <1>2, <2>1, GoLeads DEF Leads, Lays
<1>4. ASSUME met = {} PROVE Alone(ui') /\ Cleared(ui')
  <2>1. Ready(asked, u) /\ Alone(ui)
    BY <1>1, <1>2, <1>4, Quiet DEF Single
  <2>2. Restored(u) = u /\ Restored(ui) = ui
    BY <1>2, InvFacts, RestoredIs
  <2>3. HomeView(u) \in Views
    BY HomeIs
  <2>4. Alone(u)
    BY <1>2, <2>1, <2>2, <2>3 DEF Alone
  <2> QED
    BY <1>2, <2>1, <2>4, GoKeeps
<1>5. Single'
  BY <1>1, <1>3, <1>4 DEF Single
<1> QED
  BY <1>5 DEF Untouched

(* The same tab, and what is open the same. *)
LEMMA StillCleared ==
  ASSUME NEW u, NEW w, Lays(u, w), w.at = u.at, w.open = u.open, Cleared(u)
  PROVE  Cleared(w)
  BY SameLayout DEF Cleared

LEMMA BackSingle == ASSUME IInv, Single, Back PROVE Single' /\ Untouched
<1>1. /\ ~ui.preview.on /\ nsearch' = nsearch /\ met' = met
      /\ ui' = IF HasSummary(ui) THEN CloseSummary(ui) ELSE [ui EXCEPT !.mode = "index"]
  BY DEF Back, Becomes, Free, Strip
<1>2. ASSUME HasSummary(ui) PROVE Single' /\ Untouched
  <2>1. ui' = CloseSummary(ui) /\ ui'.preview = ui.preview
    BY <1>1, <1>2, InvFacts, CloseSummaryIs DEF Settles
  <2>2. Ready(asked, ui) /\ Alone(ui) => Keeps(ui, ui')
    BY <2>1, InvFacts, CloseSummaryKeeps
  <2>3. ui'.searches = ui.searches
    BY <2>1, InvFacts, CloseSummaryTabs
  <2>4. Numbered(ui'.searches, nsearch')
    BY <1>1, <2>3 DEF Single
  <2> QED
    BY <1>1, <2>1, <2>2, <2>4, KeepStep DEF Keeps
<1>3. ASSUME ~HasSummary(ui) PROVE Single' /\ Untouched
  <2> DEFINE w == [ui EXCEPT !.mode = "index"]
  <2>1. ui' = w
    BY <1>1, <1>3
  <2>2. /\ w \in UIs /\ Lays(ui, w) /\ w.sum = ui.sum /\ w.at = ui.at /\ w.pager = ui.pager
        /\ w.home = ui.home /\ w.open = ui.open /\ w.preview = ui.preview
    <3>1. "index" \in Modes
      BY DEF Modes
    <3> QED
      BY <3>1, InvFacts, ModeReplaced
  <2> HIDE DEF w
  <2>3. Alone(ui) => Alone(w) /\ \A x \in Views : OpenOn(w, x) = OpenOn(ui, x)
    BY <2>2, InvFacts, MailStays DEF SameMail
  <2>4. Cleared(ui) => Cleared(w)
    BY <2>2, StillCleared
  <2>5. Numbered(ui'.searches, nsearch')
    BY <1>1, <2>1, <2>2 DEF Single, Lays
  <2> QED
    BY <1>1, <2>1, <2>2, <2>3, <2>4, <2>5, KeepStep
<1> QED
  BY <1>2, <1>3

LEMMA OnAiStartedSingle == ASSUME IInv, Single, OnAiStarted PROVE Single' /\ Untouched
<1> DEFINE s == NewSummary(njobs + 1)
           u == [Restored(ui) EXCEPT !.sum = s]
<1>1. ui' = Go(u, SummaryIdx(u)) /\ njobs < MaxJobs
  BY DEF OnAiStarted, Becomes, NewSummary
<1>2. nsearch' = nsearch /\ met \subseteq met' /\ (ui.preview.on => "covered" \in met')
  BY DEF OnAiStarted, Arrives
<1>3. njobs + 1 # 0 /\ njobs + 1 \in 0..MaxJobs
  BY <1>1, InvFacts, SurfacesAssumption, SMT
<1>4. s \in Sums /\ s.saved = NoPager /\ s.job # 0
  BY <1>3, NewSummaryIs
<1> HIDE DEF s
<1>5. u \in UIs /\ u.sum = s /\ u.preview = ui.preview /\ u.searches = ui.searches
  BY <1>4, InvFacts, Replaced
<1>6. ASSUME Ready(asked, ui), Alone(ui)
      PROVE  /\ Ready(asked, u) /\ Alone(u) /\ \A x \in Views : OpenOn(u, x) = OpenOn(ui, x)
  BY <1>4, <1>6, InvFacts, ReplacedKeeps
<1> HIDE DEF u
<1>7. SummaryIdx(u) \in Nat /\ SummaryIdx(u) < TabCount(u)
  BY <1>4, <1>5, StripIs DEF HasSummary
<1>8. ui'.searches = ui.searches /\ ui'.preview = ui.preview
  BY <1>1, <1>5, <1>7, GoLeads DEF Leads, Lays
<1>9. ASSUME Ready(asked, ui), Alone(ui)
      PROVE  Alone(ui') /\ Cleared(ui') /\ \A x \in Views : OpenOn(ui', x) = OpenOn(ui, x)
  <2>1. Alone(ui') /\ Cleared(ui') /\ \A x \in Views : OpenOn(ui', x) = OpenOn(u, x)
    BY <1>1, <1>5, <1>6, <1>7, <1>9, GoKeeps
  <2> QED
    BY <1>6, <1>9, <2>1
<1>10. Numbered(ui'.searches, nsearch')
  BY <1>2, <1>8 DEF Single
<1> QED
  BY <1>2, <1>8, <1>9, <1>10, KeepStep

LEMMA OnAiResultSingle ==
  ASSUME IInv, Single, NEW close \in BOOLEAN, OnAiResult(close)
  PROVE  Single' /\ Untouched
<1> DEFINE s == [ui.sum EXCEPT !.done = TRUE]
           u == [ui EXCEPT !.sum = s]
<1>1. ui' = IF close THEN CloseSummary(u) ELSE u
  <2>1. u = [ui EXCEPT !.sum.done = TRUE]
    OBVIOUS
  <2> QED
    BY <2>1 DEF OnAiResult, Becomes
<1>2. nsearch' = nsearch /\ met \subseteq met' /\ (ui.preview.on => "covered" \in met')
  BY DEF OnAiResult, Arrives
<1>3. s \in Sums /\ s.job = ui.sum.job /\ s.saved = ui.sum.saved /\ s.savedHome = ui.sum.savedHome
  <2>1. ui.sum \in Sums
    BY InvFacts, Fields
  <2> QED
    BY <2>1, DoneReplaced
<1> HIDE DEF s
<1>4. /\ u \in UIs /\ u.dialogs = ui.dialogs /\ u.searches = ui.searches /\ u.crm = ui.crm /\ u.sum = s
      /\ u.at = ui.at /\ u.mode = ui.mode /\ u.crmOpen = ui.crmOpen /\ u.rows = ui.rows /\ u.pager = ui.pager
      /\ u.home = ui.home /\ u.open = ui.open /\ u.preview = ui.preview
  BY <1>3, InvFacts, SumReplaced
<1> HIDE DEF u
<1>5. Lays(ui, u) /\ SameMail(ui, u) /\ u.sum.saved = ui.sum.saved /\ u.sum.savedHome = ui.sum.savedHome
  BY <1>3, <1>4 DEF Lays, SameMail
<1>6. /\ Ready(asked, ui) => Ready(asked, u)
      /\ Alone(ui) => Alone(u)
      /\ \A x \in Views : OpenOn(u, x) = OpenOn(ui, x)
      /\ \A v : Live(u, v) <=> Live(ui, v)
  BY <1>4, <1>5, InvFacts, Alike, MailStays, SameLayout
<1>7. ASSUME close PROVE Single' /\ Untouched
  <2>1. ui' = CloseSummary(u) /\ ui'.preview = ui.preview /\ ui'.searches = ui.searches
    BY <1>1, <1>4, <1>7, CloseSummaryIs, CloseSummaryTabs DEF Settles
  <2>2. Ready(asked, ui) /\ Alone(ui) => Keeps(u, ui')
    BY <1>4, <1>6, <2>1, CloseSummaryKeeps
  <2>3. Numbered(ui'.searches, nsearch')
    BY <1>2, <2>1 DEF Single
  <2> QED
    BY <1>2, <1>6, <2>1, <2>2, <2>3, KeepStep DEF Keeps
<1>8. ASSUME ~close PROVE Single' /\ Untouched
  <2>1. ui' = u
    BY <1>1, <1>8
  <2>2. Cleared(ui) => Cleared(u)
    BY <1>4, <1>5, StillCleared
  <2>3. Numbered(ui'.searches, nsearch')
    BY <1>2, <1>4, <2>1 DEF Single
  <2> QED
    BY <1>2, <1>4, <1>6, <2>1, <2>2, <2>3, KeepStep
<1> QED
  BY <1>7, <1>8

LEMMA OpenSearchSingle ==
  ASSUME IInv, Single, NEW active \in BOOLEAN, OpenSearch(active)
  PROVE  Single' /\ Untouched
<1> DEFINE x == nsearch + 1
           u == [ui EXCEPT !.searches = Append(@, x)]
           i == u.dialogs + Len(u.searches)
<1>1. /\ ui' = IF active THEN Go(u, i) ELSE u
      /\ ~ui.preview.on /\ nsearch < MaxSearch /\ nsearch' = x
      /\ met' = IF ~active /\ ui.at > ui.dialogs + Len(ui.searches) THEN met \cup {"shifted"} ELSE met
  BY DEF OpenSearch, Becomes, Free
<1>2. x \in Views /\ nsearch \in Nat
  BY <1>1, InvFacts, SurfacesAssumption, SMT DEF Views
<1>n. Numbered(u.searches, nsearch') /\ u.searches = Append(ui.searches, x)
  <2>1. u.searches = Append(ui.searches, x)
    BY InvFacts, SMT DEF UIs
  <2>2. Numbered(Append(ui.searches, nsearch + 1), nsearch + 1)
    BY <1>2, InvFacts, Fields, NumberedMore DEF Single
  <2> QED
    BY <1>1, <2>1, <2>2
<1> HIDE DEF x
<1>3. /\ u \in UIs /\ Len(u.searches) = Len(ui.searches) + 1 /\ u.sum = ui.sum
      /\ \A k \in 1..Len(ui.searches) : u.searches[k] = ui.searches[k]
      /\ u.dialogs = ui.dialogs /\ u.at = ui.at /\ u.pager = ui.pager /\ u.home = ui.home
      /\ u.open = ui.open /\ u.preview = ui.preview
      /\ \A A : Ready(A, ui) => Ready(A, u)
  BY <1>2, InvFacts, SearchAdded
<1> HIDE DEF u
<1>4. u.dialogs \in Nat /\ Len(u.searches) \in Nat /\ Len(ui.searches) \in Nat /\ ui.at \in Nat
  BY <1>3, InvFacts, Fields
<1>5. (Alone(ui) => Alone(u)) /\ \A v \in Views : OpenOn(u, v) = OpenOn(ui, v)
  <2>1. SameMail(ui, u)
    BY <1>3 DEF SameMail
  <2> QED
    BY <1>3, <2>1, InvFacts, MailStays
<1>6. met \subseteq met'
  BY <1>1
<1>7. ASSUME active PROVE Single' /\ Untouched
  <2>1. i \in Nat
    BY <1>4, SMT
  <2>2. i < TabCount(u)
    <3>1. /\ CrmIdx(u) \in Nat /\ SummaryIdx(u) \in Nat /\ TabCount(u) \in Nat
          /\ i < CrmIdx(u) /\ CrmIdx(u) <= SummaryIdx(u) /\ SummaryIdx(u) <= TabCount(u)
      BY <1>3, StripIs
    <3> QED
      BY <2>1, <3>1, SMT
  <2> HIDE DEF i
  <2>3. ui' = Go(u, i) /\ ui'.searches = u.searches /\ ui'.preview = ui.preview
    BY <1>1, <1>3, <1>7, <2>1, <2>2, GoLeads DEF Leads, Lays
  <2>4. ASSUME Ready(asked, ui), Alone(ui)
        PROVE  Alone(ui') /\ Cleared(ui') /\ \A v \in Views : OpenOn(ui', v) = OpenOn(ui, v)
    <3>1. Alone(ui') /\ Cleared(ui') /\ \A v \in Views : OpenOn(ui', v) = OpenOn(u, v)
      BY <1>3, <1>5, <2>1, <2>3, <2>4, GoKeeps
    <3> QED
      BY <1>5, <3>1
  <2>5. Numbered(ui'.searches, nsearch')
    BY <1>n, <2>3
  <2> QED
    BY <1>1, <1>6, <2>3, <2>4, <2>5, KeepStep
<1>8. ASSUME ~active PROVE Single' /\ Untouched
  <2>1. ui' = u
    BY <1>1, <1>8
  <2>2. ASSUME met' = {}, Cleared(ui) PROVE Cleared(u)
    <3>1. ~(ui.at > ui.dialogs + Len(ui.searches))
      BY <1>1, <1>8, <2>2
    <3>2. OnSearch(u) <=> OnSearch(ui)
      BY <1>3, <1>4, <3>1, SMT DEF OnSearch
    <3>3. OnSearch(ui) => ui.at - ui.dialogs \in 1..Len(ui.searches)
      BY <1>3, <1>4, SMT DEF OnSearch
    <3>4. ActiveView(u) = ActiveView(ui)
      BY <1>3, <3>2, <3>3 DEF ActiveView
    <3>5. StackSurface(u) = StackSurface(ui)
      BY <1>3, <3>2, <3>4 DEF StackSurface
    <3> QED
      BY <1>3, <2>2, <3>5 DEF Cleared
  <2>3. Numbered(ui'.searches, nsearch')
    BY <1>n, <2>1
  <2> QED
    BY <1>1, <1>3, <1>5, <1>6, <2>1, <2>2, <2>3, KeepStep
<1> QED
  BY <1>7, <1>8

(* The strip stays, and nothing is parked under the surface on the screen. *)
LEMMA InPlaceSingle ==
  ASSUME IInv, Single, Lays(ui, ui'), ui'.at = ui.at, nsearch' = nsearch, met \subseteq met',
         \A x \in Views : x = StackSurface(ui) => ui'.open[x] \in {NoPager, ui.open[x]},
         met' = {} /\ ~ui'.preview.on => Alone(ui')
  PROVE  Single'
<1>1. StackSurface(ui') = StackSurface(ui) /\ ui'.searches = ui.searches
  BY SameLayout DEF Lays
<1>2. Numbered(ui'.searches, nsearch')
  BY <1>1 DEF Single
<1>3. ASSUME met' = {} PROVE Cleared(ui')
  <2>1. Cleared(ui)
    BY <1>3 DEF Single
  <2>2. StackSurface(ui) # NoView => StackSurface(ui) \in Views
    BY InvFacts, SurfaceIs
  <2> QED
    BY <1>1, <2>1, <2>2 DEF Cleared
<1> QED
  BY <1>2, <1>3 DEF Single

LEMMA NothingOpen == ASSUME NEW w \in UIs, w.pager = NoPager PROVE Alone(w)
<1>1. ~Displaced(w)
  BY Kinds, NotSummary
<1>2. Restored(w) = w
  BY <1>1, RestoredIs
<1> QED
  BY <1>2 DEF Alone

(* What the history calls doubled is a surface with two messages. *)
LEMMA NotTwice ==
  ASSUME NEW w \in UIs, Displaced(w) => w.sum.savedHome \in Views,
         ~Twice(w, HomeView(Restored(w)))
  PROVE  Alone(w)
<1> DEFINE b == Restored(w)
           v == HomeView(b)
<1>1. /\ b \in UIs
      /\ Displaced(w) => b.pager = w.sum.saved /\ b.home = w.sum.savedHome
      /\ ~Displaced(w) => b = w
  BY RestoredIs
<1>2. v = HomeView(b) /\ ~Twice(w, v)
  OBVIOUS
<1>3. SUFFICES ASSUME b.pager # NoPager, w.open[v] # NoPager PROVE FALSE
  BY DEF Alone
<1> HIDE DEF b, v
<1>4. CASE Displaced(w)
  <2>1. b.home \in Views /\ w.sum.savedHome = v /\ w.sum.saved # NoPager
    BY <1>1, <1>2, <1>3, <1>4, HomeIs
  <2> QED
    BY <1>2, <1>3, <1>4, <2>1 DEF Twice, Displaced
<1>5. CASE ~Displaced(w)
  <2>1. w.pager # NoPager /\ HomeView(w) = v
    BY <1>1, <1>2, <1>3, <1>5
  <2> QED
    BY <1>2, <1>3, <1>5, <2>1 DEF Twice, Displaced
<1> QED
  BY <1>4, <1>5

LEMMA OpenSingle == ASSUME IInv, Single, NEW m \in Msgs, Open(m) PROVE Single' /\ Untouched
<1>1. ui' = ui /\ met' = met /\ nsearch' = nsearch
  BY DEF Open, Load
<1> QED
  BY <1>1 DEF Single, Untouched

LEMMA PreviewSingle == ASSUME IInv, Single, NEW m \in Msgs, Preview(m) PROVE Single' /\ Untouched
<1> DEFINE p == [on |-> TRUE, msg |-> m]
           w == [ui EXCEPT !.preview = p, !.pager = Box, !.home = NoView]
<1>1. ui' = w /\ met' = met /\ nsearch' = nsearch
  BY DEF Preview, Becomes, Load
<1>2. Lays(ui, w) /\ w.at = ui.at /\ w.open = ui.open /\ w.preview.on
  BY InvFacts, SMT DEF UIs, Lays
<1> HIDE DEF w
<1>3. Untouched
  BY <1>1, <1>2 DEF Untouched
<1>4. Single'
  BY <1>1, <1>2, InPlaceSingle
<1> QED
  BY <1>3, <1>4

LEMMA ClosePreviewSingle == ASSUME IInv, Single, ClosePreview PROVE Single' /\ Untouched
<1> DEFINE c == ClosedPreview(ui)
<1>1. ui.preview.on /\ ui' = c /\ nsearch' = nsearch /\ met' = met
  BY DEF ClosePreview, Becomes, Strip
<1>2. c \in UIs /\ Lays(ui, c) /\ c.at = ui.at /\ c.open = ui.open /\ c.pager = NoPager
  BY InvFacts, ClosedPreviewIs
<1> HIDE DEF c
<1>3. Untouched
  BY <1>1 DEF Untouched
<1>4. Alone(c)
  BY <1>2, NothingOpen
<1>5. Single'
  BY <1>1, <1>2, <1>4, InPlaceSingle
<1> QED
  BY <1>3, <1>5

LEMMA PromoteSingle == ASSUME IInv, Single, Promote PROVE Single' /\ Untouched
<1> DEFINE c == ClosedPreview(ui)
           w == [ui EXCEPT !.preview = NoPreview]
<1>1. /\ ui.preview.on /\ nsearch' = nsearch
      /\ ui' = IF ui.pager.kind = "msg" THEN w ELSE c
      /\ met' = IF OnSearch(ui) /\ ui.pager.kind = "msg" THEN met \cup {"promoted"} ELSE met
  BY DEF Promote, Becomes, Load
<1>2. Untouched /\ met \subseteq met'
  BY <1>1 DEF Untouched
<1>3. ASSUME ui.pager.kind # "msg" PROVE Single'
  <2>1. ui' = c
    BY <1>1, <1>3
  <2>2. c \in UIs /\ Lays(ui, c) /\ c.at = ui.at /\ c.open = ui.open /\ c.pager = NoPager
    BY InvFacts, ClosedPreviewIs
  <2> HIDE DEF c
  <2>3. Alone(c)
    BY <2>2, NothingOpen
  <2> QED
    BY <1>1, <1>2, <2>1, <2>2, <2>3, InPlaceSingle
<1>4. ASSUME ui.pager.kind = "msg" PROVE Single'
  <2>1. ui' = w
    BY <1>1, <1>4
  <2>2. /\ w \in UIs /\ Lays(ui, w) /\ w.at = ui.at
        /\ w.pager = ui.pager /\ w.home = ui.home /\ w.open = ui.open
    BY InvFacts, PreviewsAre, PreviewReplaced
  <2> HIDE DEF w
  <2>3. ASSUME met' = {} PROVE Alone(w)
    <3>1. met = {} /\ ~OnSearch(ui) /\ Agrees(ui) /\ Owned(asked, ui) /\ Cleared(ui)
      BY <1>1, <1>4, <2>3, Quiet DEF Single
    <3>2. StackSurface(ui) # NoView
      BY <1>1, <3>1 DEF Agrees
    <3>3. StackSurface(ui) = Mail /\ ActiveView(ui) = Mail
      BY <3>1, <3>2, InvFacts, SurfaceIs
    <3>4. HomeView(ui) = Mail /\ ui.open[Mail] = NoPager
      BY <1>1, <3>1, <3>2, <3>3 DEF Owned, HomeView, Cleared
    <3>5. ~Displaced(w)
      BY <1>4, <2>2, NotSummary
    <3>6. Restored(w) = w
      BY <2>2, <3>5, RestoredIs
    <3> QED
      BY <2>2, <3>4, <3>6 DEF Alone, HomeView
  <2> QED
    BY <1>1, <1>2, <2>1, <2>2, <2>3, InPlaceSingle
<1> QED
  BY <1>2, <1>3, <1>4

LEMMA OnThreadLoadedSingle ==
  ASSUME IInv, Single, NEW l \in loads, NEW ok \in BOOLEAN, OnThreadLoaded(l, ok)
  PROVE  Single' /\ Untouched
<1> DEFINE o == l.origin
           g == Shows(l.msg)
           p == [on |-> TRUE, msg |-> l.msg]
<1>1. /\ ui' = IF l.preview THEN PreviewLoaded(l, ok) ELSE IF ok THEN Loaded(l) ELSE LoadFailed(o)
      /\ nsearch' = nsearch /\ loads' = loads \ {l} /\ met \subseteq met'
      /\ ~l.preview /\ ~ui'.preview.on /\ Twice(ui', o) => met' # {}
  BY DEF OnThreadLoaded, Becomes
<1>2. IInv' /\ ui' \in UIs
  BY OnThreadLoadedKeeps DEF IInv, Types
<1>3. o \in Views /\ ui \in UIs /\ ui.open \in [Views -> Pagers] /\ NoView \notin Views
  BY InvFacts, Fields, PlacesAre DEF IInv, Types, LoadSet
<1>4. Untouched
  <2>1. loads' # loads
    BY <1>1
  <2> QED
    BY <2>1 DEF Untouched
<1>5. ASSUME met' = {}
      PROVE  /\ ~ui'.preview.on => Ready(asked', ui')
             /\ met = {} /\ (~ui.preview.on => Ready(asked, ui) /\ Alone(ui))
  <2>1. met = {} /\ Faithful'
    BY <1>1, <1>5 DEF Faithful
  <2>2. Owned(asked', ui')
    BY <1>2, <2>1 DEF IInv
  <2>3. ~ui.preview.on => Ready(asked, ui) /\ Alone(ui)
    BY <2>1, Quiet DEF Single
  <2> QED
    BY <1>2, <2>1, <2>2, <2>3, OwnedReady
<1>6. ASSUME ~l.preview, met' = {}, ~ui'.preview.on, HomeView(Restored(ui')) = o PROVE Alone(ui')
  <2>1. Displaced(ui') => ui'.sum.savedHome \in Views
    BY <1>5, <1>6 DEF Ready
  <2> QED
    BY <1>1, <1>2, <1>6, <2>1, NotTwice
<1>7. ASSUME ui' = ui PROVE Single'
  <2>1. Lays(ui, ui') /\ ui'.at = ui.at /\ ui'.open = ui.open /\ ui'.preview = ui.preview
    BY <1>7 DEF Lays
  <2>2. met' = {} /\ ~ui'.preview.on => Alone(ui')
    BY <1>5, <1>7
  <2> QED
    BY <1>1, <1>7, <2>1, <2>2, InPlaceSingle
<1>8. ASSUME NEW w, ui' = w, Lays(ui, w), w.at = ui.at, w.open = ui.open, w.pager = NoPager PROVE Single'
  <2>1. Alone(ui')
    BY <1>2, <1>8, NothingOpen
  <2> QED
    BY <1>1, <1>8, <2>1, InPlaceSingle
(* one of the surfaces out of sight gets or loses its message *)
<1>9. ASSUME NEW x, ~l.preview, ui' = [ui EXCEPT !.open[o] = x], x = NoPager \/ StackSurface(ui) # o
      PROVE  Single'
  <2> DEFINE w == [ui EXCEPT !.open[o] = x]
  <2>1. /\ Lays(ui, w) /\ w.at = ui.at /\ w.sum = ui.sum /\ w.pager = ui.pager /\ w.home = ui.home
        /\ w.open = [ui.open EXCEPT ![o] = x] /\ w.preview = ui.preview
    BY <1>3, SMT DEF UIs, Lays
  <2> HIDE DEF w, o
  <2>2. \A v \in Views : w.open[v] = IF v = o THEN x ELSE ui.open[v]
    BY <1>3, <2>1
  <2>3. ui' = w
    BY <1>9 DEF w
  <2>4. ASSUME met' = {}, ~w.preview.on, HomeView(Restored(w)) # o PROVE Alone(w)
    <3>1. Ready(asked, ui) /\ Alone(ui)
      BY <1>5, <2>1, <2>4
    <3>2. Restored(w).pager = Restored(ui).pager /\ Restored(w).home = Restored(ui).home /\ Restored(w) \in UIs
      <4>1. Displaced(w) <=> Displaced(ui)
        BY <2>1 DEF Displaced, HasSummary
      <4>2. /\ Displaced(ui) => Restored(ui).pager = ui.sum.saved /\ Restored(ui).home = ui.sum.savedHome
            /\ ~Displaced(ui) => Restored(ui) = ui
        BY <1>3, RestoredIs
      <4>3. /\ Displaced(w) => Restored(w).pager = w.sum.saved /\ Restored(w).home = w.sum.savedHome
            /\ ~Displaced(w) => Restored(w) = w
            /\ Restored(w) \in UIs
        BY <1>2, <2>3, RestoredIs
      <4> QED
        BY <2>1, <4>1, <4>2, <4>3
    <3>3. HomeView(Restored(w)) = HomeView(Restored(ui)) /\ HomeView(Restored(w)) \in Views
      BY <3>2, HomeIs DEF HomeView
    <3> QED
      BY <2>2, <2>4, <3>1, <3>2, <3>3 DEF Alone
  <2>5. met' = {} /\ ~ui'.preview.on => Alone(ui')
    BY <1>6, <1>9, <2>3, <2>4 DEF o
  <2>6. \A v \in Views : v = StackSurface(ui) => w.open[v] \in {NoPager, ui.open[v]}
    BY <1>9, <2>2 DEF o
  <2> QED
    BY <1>1, <2>1, <2>3, <2>5, <2>6, InPlaceSingle
<1>10. ASSUME l.preview PROVE Single'
  <2>1. CASE ui.preview # p
    BY <1>1, <1>7, <1>10, <2>1 DEF PreviewLoaded
  <2>2. CASE ui.preview = p /\ ~ok
    <3> DEFINE w == [ClosedPreview(ui) EXCEPT !.mode = "index"]
    <3>1. ui' = w
      BY <1>1, <1>10, <2>2 DEF PreviewLoaded
    <3>2. Lays(ui, w) /\ w.at = ui.at /\ w.open = ui.open /\ w.pager = NoPager
      BY <1>3, SMT DEF UIs, Lays, ClosedPreview
    <3> QED
      BY <1>8, <3>1, <3>2
  <2>3. CASE ui.preview = p /\ ok
    <3> DEFINE w == [ui EXCEPT !.mode = "index", !.pager = g]
    <3>1. ui' = w
      BY <1>1, <1>10, <2>3 DEF PreviewLoaded
    <3>2. Lays(ui, w) /\ w.at = ui.at /\ w.open = ui.open /\ w.preview = ui.preview
      BY <1>3, SMT DEF UIs, Lays
    <3> HIDE DEF w
    <3>3. w.preview.on
      BY <2>3, <3>2
    <3> QED
      BY <1>1, <3>1, <3>2, <3>3, InPlaceSingle
  <2> QED
    BY <2>1, <2>2, <2>3
<1>11. ASSUME ~l.preview, ok PROVE Single'
  <2>1. CASE StackSurface(ui) # o /\ ui.home # o
    BY <1>1, <1>7, <1>9, <1>11, <2>1 DEF Loaded
  <2>2. CASE StackSurface(ui) = o \/ ui.home = o
    <3> DEFINE x == IF StackSurface(ui) = o THEN "pager" ELSE ui.mode
               w == [ui EXCEPT !.pager = g, !.home = o, !.mode = x]
    <3>1. ui' = w
      BY <1>1, <1>11, <2>2 DEF Loaded
    <3>2. Lays(ui, w) /\ w.at = ui.at /\ w.open = ui.open /\ w.pager = g /\ w.home = o
      BY <1>3, SMT DEF UIs, Lays
    <3> HIDE DEF w
    <3>3. Restored(w) = w
      BY <1>2, <3>1, <3>2, Kinds, NotSummary, RestoredIs
    <3>4. HomeView(Restored(w)) = o
      BY <1>3, <3>2, <3>3 DEF HomeView
    <3> QED
      BY <1>1, <1>6, <1>11, <3>1, <3>2, <3>4, InPlaceSingle
  <2> QED
    BY <2>1, <2>2
<1>12. ASSUME ~l.preview, ~ok PROVE Single'
  <2>1. CASE o = StackSurface(ui)
    <3> DEFINE w == [ui EXCEPT !.mode = "index", !.pager = NoPager, !.home = NoView]
    <3>1. ui' = w
      BY <1>1, <1>12, <2>1 DEF LoadFailed
    <3>2. Lays(ui, w) /\ w.at = ui.at /\ w.open = ui.open /\ w.pager = NoPager
      BY <1>3, SMT DEF UIs, Lays
    <3> QED
      BY <1>8, <3>1, <3>2
  <2>2. CASE o # StackSurface(ui) /\ ui.home = o
    <3> DEFINE w == [ui EXCEPT !.pager = NoPager, !.home = NoView]
    <3>1. ui' = w
      BY <1>1, <1>12, <2>2 DEF LoadFailed
    <3>2. Lays(ui, w) /\ w.at = ui.at /\ w.open = ui.open /\ w.pager = NoPager
      BY <1>3, SMT DEF UIs, Lays
    <3> QED
      BY <1>8, <3>1, <3>2
  <2>3. CASE o # StackSurface(ui) /\ ui.home # o
    BY <1>1, <1>9, <1>12, <2>3 DEF LoadFailed
  <2> QED
    BY <2>1, <2>2, <2>3
<1> QED
  BY <1>4, <1>10, <1>11, <1>12

LEMMA InitSingle == Init => Single
<1> SUFFICES ASSUME Init PROVE Single
  OBVIOUS
<1>1. IInv
  BY InitIInv
<1>2. /\ ui.searches = <<>> /\ ui.pager = NoPager
      /\ ui.open = [v \in Views |-> NoPager]
  BY SMT DEF Init
<1>3. Len(ui.searches) = 0
  BY <1>2, EmptySeq
<1>4. Numbered(ui.searches, nsearch)
  BY <1>3, SMT DEF Numbered
<1>5. Alone(ui)
  BY <1>1, <1>2, InvFacts, NothingOpen
<1>6. Cleared(ui)
  BY <1>1, <1>2, InvFacts, SurfaceIs DEF Cleared
<1> QED
  BY <1>4, <1>5, <1>6 DEF Single

LEMMA NextSingle == IInv /\ Single /\ [Next]_vars => Single' /\ [Untouched]_vars
<1> SUFFICES ASSUME IInv, Single, [Next]_vars PROVE Single' /\ [Untouched]_vars
  OBVIOUS
<1>1. CASE UNCHANGED vars
  BY <1>1 DEF vars, Single
<1>2. CASE Key
  <2>1. ASSUME NEW active \in BOOLEAN, OpenSearch(active) PROVE Single' /\ Untouched
    BY <2>1, OpenSearchSingle
  <2>2. ASSUME NEW m \in Msgs, Open(m) \/ Preview(m) PROVE Single' /\ Untouched
    BY <2>2, OpenSingle, PreviewSingle
  <2>3. ASSUME TabKey \/ OpenCrm \/ CrmKey PROVE Single' /\ Untouched
    BY <2>3, TabKeyShifts, OpenCrmShifts, CrmKeyShifts, ShiftSingle
  <2>4. ASSUME Goto \/ Quit \/ Back \/ ClosePreview \/ Promote PROVE Single' /\ Untouched
    BY <2>4, GotoSingle, QuitSingle, BackSingle, ClosePreviewSingle, PromoteSingle
  <2> QED
    BY <1>2, <2>1, <2>2, <2>3, <2>4 DEF Key
<1>3. CASE Event
  <2>1. ASSUME NEW l \in loads, NEW ok \in BOOLEAN, OnThreadLoaded(l, ok) PROVE Single' /\ Untouched
    BY <2>1, OnThreadLoadedSingle
  <2>2. ASSUME NEW close \in BOOLEAN, OnAiResult(close) PROVE Single' /\ Untouched
    BY <2>2, OnAiResultSingle
  <2>3. ASSUME NEW i \in 1..MaxDialogs, CloseDialog(i) PROVE Single' /\ Untouched
    BY <2>3, CloseDialogShifts, ShiftSingle
  <2>4. ASSUME OnComposeOpened \/ OnAiStarted PROVE Single' /\ Untouched
    BY <2>4, OnComposeOpenedShifts, ShiftSingle, OnAiStartedSingle
  <2> QED
    BY <1>3, <2>1, <2>2, <2>3, <2>4 DEF Event
<1> QED
  BY <1>1, <1>2, <1>3 DEF Next

(* "Each surface keeps its own open across tab switches": the terminal *)
(* parks the message of the surface that loses the screen, brings back the *)
(* one of the surface that gets it (attachTab and its callers in model.go), *)
(* and gives back what a summary displaced; no tab, dialogue, search or *)
(* summary that comes or goes costs a surface its message. *)
THEOREM SpecOpensKept == Spec => OpensKept
<1>1. Init => Single
  BY InitSingle
<1>2. IInv /\ Single /\ [Next]_vars => Single' /\ [Untouched]_vars
  BY NextSingle
<1>3. [Untouched]_vars =>
        [\/ loads' # loads \/ ui.preview.on \/ ui'.preview.on \/ Goto
         \/ met # {}
         \/ \A v \in Views : Live(ui, v) /\ Live(ui', v) => OpenOn(ui', v) = OpenOn(ui, v)]_vars
  BY DEF Untouched
<1> QED
  BY <1>1, <1>2, <1>3, SpecIInv, PTL DEF Spec, OpensKept

-----------------------------------------------------------------------------
(* The loop and the Lua runs that ask through it (Scripts): LuaInv follows a *)
(* question from the run that asks to the answer that comes back. *)

(* What is asked carries an id; what a run leaves at its end, and a tab, *)
(* do not matter to who asks. *)
AskIds == Runs \X Nat
Queries == [kind : Lua!Questions \cup Lua!Answers, id : AskIds]
Notes == [kind : {"attach", "tags", "result"}, id : AskIds] \cup {[kind |-> "tab", id |-> <<0, 0>>]}
LuaEvents == Queries \cup Notes
Prompts == [kind : {"prompt"}, id : AskIds]

LuaTypes ==
  /\ pc \in [Runs -> {"none", "running", "asking", "ending", "ended"}]
  /\ asks \in [Runs -> Nat] /\ out \in [Runs -> Seq(Notes)]
  /\ DOMAIN effects = Runs
  /\ waiters \subseteq [kind : Lua!Questions, id : AskIds] /\ box \subseteq AskIds
  /\ tuiCh \in Seq(LuaEvents) /\ appCh \in Seq(LuaEvents) /\ held \in Seq(LuaEvents)
  /\ readers \in Nat /\ tabs \in Nat /\ execs \subseteq AskIds /\ IsFiniteSet(execs)
  /\ dialogue \in {Lua!None, Lua!Attach} \cup Prompts

(* The ids a run has used: a question gets one that is not among them. *)
Used(id) == id[2] > 0 /\ (pc[id[1]] \in {"none", "running", "asking"} => id[2] <= asks[id[1]])

InFlight == ToSet(tuiCh) \cup ToSet(held)
Fresh ==
  /\ \A e \in InFlight \cup ToSet(appCh) : e \in Queries => Used(e.id)
  /\ \A id \in execs \cup box \cup Lua!Asked : Used(id)
  /\ dialogue \in Prompts => Used(dialogue.id)

(* A picker's request is in one place at a time, and the chooser it starts *)
(* is not running yet. *)
Distinct(s) == \A i, j \in DOMAIN s : s[i] = s[j] /\ s[i].kind = "picker" => i = j
OneChooser ==
  /\ Distinct(tuiCh) /\ Distinct(held)
  /\ \A e \in InFlight : e.kind = "picker" => e.id \notin execs
  /\ \A e \in ToSet(tuiCh) \cap ToSet(held) : e.kind # "picker"

(* What is under way about a question that is still asked, is of its kind. *)
OfItsKind ==
  \A w \in waiters :
    /\ \A e \in InFlight : e.id = w.id /\ e.kind \in Lua!Questions => e.kind = w.kind
    /\ \A e \in ToSet(appCh) : e.id = w.id /\ e.kind \in Lua!Answers => Lua!Resolves(w, e)
    /\ dialogue \in Prompts /\ dialogue.id = w.id => w.kind = "prompt"
    /\ w.id \in execs => w.kind = "picker"

(* A run that waits has its waiter, or its answer. *)
Waits == \A r \in Runs : pc[r] = "asking" => Lua!Ask(r) \in box \cup Lua!Asked

(* The two properties, over the sets of what the channels hold. *)
Somewhere(id) ==
  \/ id \in box \cup execs \/ dialogue = [kind |-> "prompt", id |-> id]
  \/ \E e \in InFlight : e.id = id /\ e.kind \in Lua!Questions
  \/ \E e \in ToSet(appCh) : e.id = id /\ e.kind \in Lua!Answers
Kept == \A r \in Runs : pc[r] = "asking" /\ Lua!Ask(r) \notin lost => Somewhere(Lua!Ask(r))
Armed == readers + Len(held) + Cardinality(execs) = 1 + tabs

LuaInv == LuaTypes /\ Fresh /\ OneChooser /\ OfItsKind /\ Waits /\ Kept /\ Armed

-----------------------------------------------------------------------------
(* The channels, as the sets of what is in them. *)

LEMMA Choosers == ASSUME NEW S PROVE Lua!Cardinality(S) = Cardinality(S)
  BY DEF Lua!Cardinality, Cardinality, IsFiniteSet, Lua!IsFiniteSet

\* an event at the end of a channel
LEMMA Appended ==
  ASSUME NEW S, NEW s \in Seq(S), NEW e \in S
  PROVE  /\ Append(s, e) \in Seq(S) /\ Len(Append(s, e)) = Len(s) + 1 /\ Len(s) \in Nat
         /\ ToSet(Append(s, e)) = ToSet(s) \cup {e}
         /\ Distinct(s) /\ (e.kind # "picker" \/ e \notin ToSet(s)) => Distinct(Append(s, e))
<1> DEFINE t == Append(s, e)
<1>1. /\ t \in Seq(S) /\ Len(t) = Len(s) + 1 /\ t[Len(s) + 1] = e
      /\ \A i \in 1..Len(s) : t[i] = s[i]
  BY AppendProperties
<1>2. Len(s) \in Nat /\ DOMAIN s = 1..Len(s) /\ DOMAIN t = 1..(Len(s) + 1)
  BY <1>1, LenProperties
<1> HIDE DEF t
<1>3. \A i \in 1..Len(s) : s[i] \in ToSet(s)
  BY <1>2 DEF ToSet
<1>4. ToSet(t) = ToSet(s) \cup {e}
  <2>1. ASSUME NEW i \in DOMAIN t PROVE t[i] \in ToSet(s) \cup {e}
    <3>1. CASE i \in 1..Len(s)
      BY <3>1, <1>1, <1>3
    <3>2. CASE i = Len(s) + 1
      BY <3>2, <1>1
    <3> QED
      BY <3>1, <3>2, <1>2, SMT
  <2>2. ASSUME NEW i \in DOMAIN s PROVE s[i] \in ToSet(t)
    <3>1. i \in DOMAIN t /\ t[i] = s[i]
      BY <1>1, <1>2, SMT
    <3> QED
      BY <3>1 DEF ToSet
  <2>3. e \in ToSet(t)
    <3>1. Len(s) + 1 \in DOMAIN t
      BY <1>2, SMT
    <3> QED
      BY <3>1, <1>1 DEF ToSet
  <2> QED
    BY <2>1, <2>2, <2>3 DEF ToSet
<1>5. ASSUME Distinct(s), e.kind # "picker" \/ e \notin ToSet(s),
             NEW i \in DOMAIN t, NEW j \in DOMAIN t, t[i] = t[j], t[i].kind = "picker"
      PROVE  i = j
  <2>1. CASE i \in 1..Len(s) /\ j \in 1..Len(s)
    BY <2>1, <1>1, <1>2, <1>5 DEF Distinct
  <2>2. CASE i \in 1..Len(s) /\ j = Len(s) + 1
    BY <2>2, <1>1, <1>3, <1>5
  <2>3. CASE j \in 1..Len(s) /\ i = Len(s) + 1
    BY <2>3, <1>1, <1>3, <1>5
  <2> QED
    BY <2>1, <2>2, <2>3, <1>2, SMT
<1>6. Distinct(s) /\ (e.kind # "picker" \/ e \notin ToSet(s)) => Distinct(t)
  BY <1>5 DEF Distinct
<1> QED
  BY <1>1, <1>2, <1>4, <1>6 DEF t

\* an offered event is appended, or the channel stays
LEMMA Offered ==
  ASSUME NEW S, NEW s \in Seq(S), NEW e \in S
  PROVE  /\ Lua!Offer(s, e) \in Seq(S)
         /\ \/ Lua!Offer(s, e) = s
            \/ Lua!Offer(s, e) # s /\ ToSet(Lua!Offer(s, e)) = ToSet(s) \cup {e}
         /\ Distinct(s) /\ (e.kind # "picker" \/ e \notin ToSet(s)) => Distinct(Lua!Offer(s, e))
<1>1. Append(s, e) # s
  <2>1. Len(Append(s, e)) # Len(s)
    BY Appended, SMT
  <2> QED
    BY <2>1
<1> QED
  BY <1>1, Appended DEF Lua!Offer

\* a sequence without one of its elements, and the sets of both
LEMMA WithoutSet ==
  ASSUME NEW S, NEW s \in Seq(S), NEW i \in 1..Len(s), NEW t \in Seq(S), Len(t) = Len(s) - 1,
         \A k \in 1..(Len(s) - 1) : t[k] = IF k < i THEN s[k] ELSE s[k + 1]
  PROVE  /\ ToSet(s) = ToSet(t) \cup {s[i]}
         /\ Distinct(s) => Distinct(t) /\ (s[i].kind = "picker" => s[i] \notin ToSet(t))
<1>1. Len(s) \in Nat /\ DOMAIN s = 1..Len(s) /\ DOMAIN t = 1..(Len(s) - 1)
  BY LenProperties
<1>2. ASSUME NEW k \in DOMAIN t
      PROVE \E j \in DOMAIN s : j # i /\ t[k] = s[j] /\ j = IF k < i THEN k ELSE k + 1
  BY <1>1, <1>2, SMT
<1>3. ASSUME NEW j \in DOMAIN s, j # i PROVE \E k \in DOMAIN t : t[k] = s[j]
  <2>1. CASE j < i
    BY <2>1, <1>1, SMT
  <2>2. CASE j > i
    <3>1. j - 1 \in DOMAIN t /\ ~(j - 1 < i) /\ (j - 1) + 1 = j
      BY <2>2, <1>1, SMT
    <3>2. t[j - 1] = s[(j - 1) + 1]
      BY <3>1, <1>1
    <3> QED
      BY <3>1, <3>2
  <2> QED
    BY <2>1, <2>2, <1>1, <1>3, SMT
<1>4. ToSet(s) = ToSet(t) \cup {s[i]}
  <2>1. ASSUME NEW k \in DOMAIN t PROVE t[k] \in ToSet(s)
    BY <1>2 DEF ToSet
  <2>2. ASSUME NEW j \in DOMAIN s PROVE s[j] \in ToSet(t) \cup {s[i]}
    BY <1>3 DEF ToSet
  <2>3. s[i] \in ToSet(s)
    BY <1>1 DEF ToSet
  <2> QED
    BY <2>1, <2>2, <2>3 DEF ToSet
<1>5. ASSUME Distinct(s), NEW k \in DOMAIN t, NEW l \in DOMAIN t, t[k] = t[l], t[k].kind = "picker" PROVE k = l
  <2>1. PICK a \in DOMAIN s : t[k] = s[a] /\ a = IF k < i THEN k ELSE k + 1
    BY <1>2
  <2>2. PICK b \in DOMAIN s : t[l] = s[b] /\ b = IF l < i THEN l ELSE l + 1
    BY <1>2
  <2>3. a = b
    BY <2>1, <2>2, <1>5 DEF Distinct
  <2> QED
    BY <2>1, <2>2, <2>3, <1>1, SMT
<1>6. ASSUME Distinct(s), s[i].kind = "picker" PROVE s[i] \notin ToSet(t)
  <2>1. ASSUME NEW k \in DOMAIN t, t[k] = s[i] PROVE FALSE
    <3>1. PICK a \in DOMAIN s : a # i /\ t[k] = s[a]
      BY <1>2
    <3>2. i \in DOMAIN s
      BY <1>1
    <3> QED
      BY <3>1, <3>2, <2>1, <1>6 DEF Distinct
  <2> QED
    BY <2>1 DEF ToSet
<1>7. Distinct(s) => Distinct(t)
  BY <1>5 DEF Distinct
<1> QED
  BY <1>4, <1>6, <1>7

LEMMA Taken ==
  ASSUME NEW S, NEW s \in Seq(S), s # <<>>
  PROVE  /\ Tail(s) \in Seq(S) /\ Head(s) \in S /\ Len(s) = Len(Tail(s)) + 1 /\ Len(Tail(s)) \in Nat
         /\ ToSet(s) = ToSet(Tail(s)) \cup {Head(s)}
         /\ Distinct(s) => Distinct(Tail(s)) /\ (Head(s).kind = "picker" => Head(s) \notin ToSet(Tail(s)))
<1>1. /\ Tail(s) \in Seq(S) /\ Head(s) \in S /\ Len(Tail(s)) = Len(s) - 1
      /\ \A i \in 1..Len(Tail(s)) : Tail(s)[i] = s[i + 1]
  BY HeadTailProperties
<1>2. Len(s) \in Nat /\ Len(s) > 0 /\ Head(s) = s[1]
  BY EmptySeq, LenProperties, SMT
<1>3. 1 \in 1..Len(s) /\ \A k \in 1..(Len(s) - 1) : Tail(s)[k] = IF k < 1 THEN s[k] ELSE s[k + 1]
  BY <1>1, <1>2, SMT
<1>4. /\ ToSet(s) = ToSet(Tail(s)) \cup {s[1]}
      /\ Distinct(s) => Distinct(Tail(s)) /\ (s[1].kind = "picker" => s[1] \notin ToSet(Tail(s)))
  BY <1>1, <1>3, WithoutSet
<1> QED
  BY <1>1, <1>2, <1>4, SMT

LEMMA Removed ==
  ASSUME NEW S, NEW s \in Seq(S), NEW i \in DOMAIN s
  PROVE  /\ Lua!Without(s, i) \in Seq(S) /\ s[i] \in S
         /\ Len(s) = Len(Lua!Without(s, i)) + 1 /\ Len(Lua!Without(s, i)) \in Nat
         /\ ToSet(s) = ToSet(Lua!Without(s, i)) \cup {s[i]}
         /\ Distinct(s) => /\ Distinct(Lua!Without(s, i))
                           /\ s[i].kind = "picker" => s[i] \notin ToSet(Lua!Without(s, i))
<1> DEFINE t == Lua!Without(s, i)
<1>1. i \in 1..Len(s) /\ Len(s) \in Nat /\ s[i] \in S
  BY LenProperties, ElementOfSeq
<1>2. t = RemoveAt(s, i)
  BY DEF Lua!Without, RemoveAt
<1>3. /\ t \in Seq(S) /\ Len(t) = Len(s) - 1
      /\ \A k \in 1..(Len(s) - 1) : t[k] = IF k < i THEN s[k] ELSE s[k + 1]
  BY <1>1, <1>2, Cut
<1> HIDE DEF t
<1>4. ToSet(s) = ToSet(t) \cup {s[i]} /\ (Distinct(s) => Distinct(t) /\ (s[i].kind = "picker" => s[i] \notin ToSet(t)))
  BY <1>1, <1>3, WithoutSet
<1>5. Len(s) = Len(t) + 1 /\ Len(t) \in Nat
  BY <1>1, <1>3, SMT
<1> QED
  BY <1>1, <1>3, <1>4, <1>5 DEF t

LEMMA Published ==
  ASSUME LuaTypes, NEW e \in LuaEvents, e.kind # "picker", Lua!Publish(e)
  PROVE  /\ tuiCh' \in Seq(LuaEvents) /\ appCh' \in Seq(LuaEvents)
         /\ ToSet(tuiCh') = ToSet(tuiCh) \/ ToSet(tuiCh') = ToSet(tuiCh) \cup {e}
         /\ ToSet(appCh') = ToSet(appCh) \/ ToSet(appCh') = ToSet(appCh) \cup {e}
         /\ Distinct(tuiCh) => Distinct(tuiCh')
         /\ lost \subseteq lost'
         /\ e.kind \in Lua!Answers /\ e.id \in Lua!Asked => e.id \in lost' \/ e \in ToSet(appCh')
<1>1. tuiCh \in Seq(LuaEvents) /\ appCh \in Seq(LuaEvents)
  BY DEF LuaTypes
<1>2. tuiCh' = Lua!Offer(tuiCh, e) /\ appCh' = Lua!Offer(appCh, e)
      /\ lost' = IF e.kind \in Lua!Answers /\ appCh' = appCh THEN lost \cup ({e.id} \cap Lua!Asked) ELSE lost
  BY DEF Lua!Publish
<1>3. tuiCh' \in Seq(LuaEvents) /\ (ToSet(tuiCh') = ToSet(tuiCh) \/ ToSet(tuiCh') = ToSet(tuiCh) \cup {e})
      /\ (Distinct(tuiCh) => Distinct(tuiCh'))
  <2>1. /\ Lua!Offer(tuiCh, e) \in Seq(LuaEvents)
        /\ \/ Lua!Offer(tuiCh, e) = tuiCh
           \/ Lua!Offer(tuiCh, e) # tuiCh /\ ToSet(Lua!Offer(tuiCh, e)) = ToSet(tuiCh) \cup {e}
        /\ Distinct(tuiCh) => Distinct(Lua!Offer(tuiCh, e))
    BY <1>1, Offered
  <2> QED
    BY <2>1, <1>2
<1>4. appCh' \in Seq(LuaEvents) /\ (appCh' = appCh \/ (appCh' # appCh /\ ToSet(appCh') = ToSet(appCh) \cup {e}))
  BY <1>1, <1>2, Offered
<1> QED
  BY <1>2, <1>3, <1>4

(* What the ids and kinds of events are. *)
LEMMA LuaKinds ==
  /\ \A e \in LuaEvents : /\ e.kind \in Lua!Questions \cup Lua!Answers <=> e \in Queries
                          /\ e.kind \in Lua!Questions \cup Lua!Answers => e.id \in AskIds
                          /\ e.kind = "prompt" => [kind |-> "prompt", id |-> e.id] \in Prompts
  /\ \A k \in Lua!Questions \cup Lua!Answers, id \in AskIds : [kind |-> k, id |-> id] \in Queries \cap LuaEvents
  /\ \A d \in {Lua!None, Lua!Attach} \cup Prompts : d.kind = "prompt" <=> d \in Prompts
  /\ Lua!None \notin Prompts /\ Lua!Attach \notin Prompts
  /\ \A d \in Prompts : d.id \in AskIds /\ d = [kind |-> "prompt", id |-> d.id]
  /\ Notes \subseteq LuaEvents /\ \A e \in Notes : e.kind \notin Lua!Questions \cup Lua!Answers /\ e.kind # "picker"
  /\ [kind |-> "tab", id |-> <<0, 0>>] \in Notes
  /\ "picker" \in Lua!Questions /\ "prompt" \in Lua!Questions /\ "picked" \in Lua!Answers /\ "answered" \in Lua!Answers
<1> USE DEF LuaEvents, Queries, Notes, Prompts, Lua!Questions, Lua!Answers
<1>1. \A e \in LuaEvents :
                          /\ e.kind \in Lua!Questions \cup Lua!Answers <=> e \in Queries
                          /\ e.kind \in Lua!Questions \cup Lua!Answers => e.id \in AskIds
                          /\ e.kind = "prompt" => [kind |-> "prompt", id |-> e.id] \in Prompts
  BY SMT
<1>2. \A k \in Lua!Questions \cup Lua!Answers, id \in AskIds : [kind |-> k, id |-> id] \in Queries \cap LuaEvents
  BY SMT
<1>3. /\ \A d \in {Lua!None, Lua!Attach} \cup Prompts : d.kind = "prompt" <=> d \in Prompts
      /\ Lua!None \notin Prompts /\ Lua!Attach \notin Prompts
  BY SMT DEF Lua!None, Lua!Attach
<1>4. \A d \in Prompts : d.id \in AskIds /\ d = [kind |-> "prompt", id |-> d.id]
  BY SMT
<1>5. Notes \subseteq LuaEvents /\ \A e \in Notes : e.kind \notin Lua!Questions \cup Lua!Answers /\ e.kind # "picker"
  BY SMT
<1> QED
  BY <1>1, <1>2, <1>3, <1>4, <1>5, SMT

-----------------------------------------------------------------------------
(* The steps of a run. *)

LEMMA LuaInit == Lua!Init => LuaInv
<1> SUFFICES ASSUME Lua!Init PROVE LuaInv
  OBVIOUS
<1> USE DEF Lua!Init
<1>1. tuiCh = <<>> /\ appCh = <<>> /\ held = <<>> /\ ToSet(tuiCh) = {} /\ ToSet(appCh) = {} /\ ToSet(held) = {}
  BY SMT DEF ToSet
<1>2. LuaTypes
  <2>1. IsFiniteSet(execs)
    BY FS_EmptySet
  <2> QED
    BY <2>1, SMT DEF LuaTypes
<1>3. Fresh
  BY <1>1, LuaKinds DEF Fresh, InFlight, Lua!Asked
<1>4. OneChooser
  BY <1>1, SMT DEF OneChooser, InFlight, Distinct
<1>5. OfItsKind /\ Waits /\ Kept
  BY SMT DEF OfItsKind, Waits, Kept
<1>6. Armed
  BY FS_EmptySet, SMT DEF Armed
<1> QED
  BY <1>2, <1>3, <1>4, <1>5, <1>6 DEF LuaInv

LEMMA Id == ASSUME NEW r \in Runs, LuaTypes
            PROVE  /\ Lua!Ask(r) \in AskIds /\ Lua!Ask(r)[1] = r /\ Lua!Ask(r)[2] = asks[r]
                   /\ <<r, asks[r] + 1>> \in AskIds
  BY SMT DEF Lua!Ask, LuaTypes, AskIds

LEMMA RequestStep ==
  ASSUME LuaInv, NEW r \in Runs, NEW what \in {"prompt", "picker"}, Lua!Request(r, what)
  PROVE  LuaInv'
<1> USE DEF LuaInv
<1>0. PICK id : id = <<r, asks[r] + 1>>
  OBVIOUS
<1> DEFINE new == [kind |-> what, id |-> id]
<1>1. /\ pc[r] = "running" /\ waiters' = waiters \cup {new}
      /\ tuiCh' = Lua!Offer(tuiCh, new) /\ appCh' = Lua!Offer(appCh, new)
      /\ lost' = IF tuiCh' = tuiCh THEN lost \cup {id} ELSE lost
      /\ asks' = [asks EXCEPT ![r] = @ + 1] /\ pc' = [pc EXCEPT ![r] = "asking"]
      /\ effects' = effects /\ out' = out /\ box' = box /\ readers' = readers /\ held' = held /\ execs' = execs
      /\ dialogue' = dialogue /\ tabs' = tabs
  BY <1>0 DEF Lua!Request, Lua!loopVars, Lua!uiVars
<1>2. id \in AskIds /\ new \in Queries /\ new \in LuaEvents /\ what \in Lua!Questions /\ id[1] = r /\ id[2] = asks[r] + 1
  BY <1>0, Id, LuaKinds DEF Lua!Questions
<1>3. ~Used(id) /\ \A i \in AskIds : Used(i) => Used(i)'
  <2>1. asks \in [Runs -> Nat] /\ pc \in [Runs -> {"none", "running", "asking", "ending", "ended"}]
    BY DEF LuaTypes
  <2>2. ~Used(id)
    BY <1>1, <1>2, <2>1, SMT DEF Used
  <2>3. ASSUME NEW i \in AskIds, Used(i) PROVE Used(i)'
    <3>1. i[1] \in Runs /\ i[2] \in Nat
      BY SMT DEF AskIds
    <3> QED
      BY <1>1, <2>1, <2>3, <3>1, SMT DEF Used
  <2> QED
    BY <2>2, <2>3
<1>4. Used(id)'
  <2>1. asks \in [Runs -> Nat] /\ pc \in [Runs -> {"none", "running", "asking", "ending", "ended"}]
    BY DEF LuaTypes
  <2> QED
    BY <1>1, <1>2, <2>1, SMT DEF Used
<1>5. /\ tuiCh' \in Seq(LuaEvents) /\ appCh' \in Seq(LuaEvents)
      /\ tuiCh' = tuiCh \/ ToSet(tuiCh') = ToSet(tuiCh) \cup {new}
      /\ ToSet(appCh') = ToSet(appCh) \/ ToSet(appCh') = ToSet(appCh) \cup {new}
  <2>1. tuiCh \in Seq(LuaEvents) /\ appCh \in Seq(LuaEvents)
    BY DEF LuaTypes
  <2>2. /\ Lua!Offer(tuiCh, new) \in Seq(LuaEvents) /\ Lua!Offer(appCh, new) \in Seq(LuaEvents)
        /\ Lua!Offer(tuiCh, new) = tuiCh \/ ToSet(Lua!Offer(tuiCh, new)) = ToSet(tuiCh) \cup {new}
        /\ Lua!Offer(appCh, new) = appCh \/ ToSet(Lua!Offer(appCh, new)) = ToSet(appCh) \cup {new}
    BY <2>1, <1>2, Offered
  <2> QED
    BY <2>2, <1>1
<1>6. LuaTypes'
  BY <1>1, <1>2, <1>5, SMT DEF LuaTypes, AskIds, Lua!Questions
<1>7. new \notin InFlight /\ id \notin execs
  BY <1>2, <1>3, LuaKinds DEF Fresh
<1>8. Fresh'
  <2>1. \A e \in (InFlight \cup ToSet(appCh))' : e \in InFlight \cup ToSet(appCh) \/ e = new
    BY <1>1, <1>5 DEF InFlight
  <2>2. \A i \in (execs \cup box \cup Lua!Asked)' : i \in execs \cup box \cup Lua!Asked \/ i = id
    BY <1>1 DEF Lua!Asked
  <2>3. \A i \in execs \cup box \cup Lua!Asked : i \in AskIds
    BY SMT DEF LuaTypes, Lua!Asked
  <2>4. \A e \in Queries : e.id \in AskIds
    BY SMT DEF Queries
  <2>5. (dialogue \in Prompts => Used(dialogue.id))'
    BY <1>1, <1>3, LuaKinds DEF Fresh, Used
  <2>6. \A e \in (InFlight \cup ToSet(appCh))' : e \in Queries => Used(e.id)'
    BY <2>1, <2>4, <1>2, <1>3, <1>4 DEF Fresh
  <2>7. \A i \in (execs \cup box \cup Lua!Asked)' : Used(i)'
    BY <2>2, <2>3, <1>3, <1>4 DEF Fresh
  <2> QED
    BY <2>5, <2>6, <2>7 DEF Fresh
<1>9. OneChooser'
  <2>1. Distinct(Lua!Offer(tuiCh, new))
    BY <1>2, <1>7, Offered DEF LuaTypes, OneChooser, InFlight
  <2> QED
    BY <2>1, <1>1, <1>5, <1>7 DEF OneChooser, InFlight
<1>10. OfItsKind'
  <2> SUFFICES ASSUME NEW w \in waiters'
               PROVE  /\ \A e \in InFlight' : e.id = w.id /\ e.kind \in Lua!Questions => e.kind = w.kind
                      /\ \A e \in ToSet(appCh') : e.id = w.id /\ e.kind \in Lua!Answers => Lua!Resolves(w, e)
                      /\ dialogue' \in Prompts /\ dialogue'.id = w.id => w.kind = "prompt"
                      /\ w.id \in execs' => w.kind = "picker"
    BY DEF OfItsKind
  <2>0. new.kind \notin Lua!Answers /\ new.id = id /\ new.kind = what
    BY SMT DEF Lua!Answers
  <2>1. InFlight \cup ToSet(appCh) \subseteq LuaEvents
    BY ElementOfSeq, LenProperties DEF InFlight, ToSet, LuaTypes
  <2>2. CASE w \in waiters
    <3>1. w.id # id
      BY <2>2, <1>3 DEF Fresh, Lua!Asked
    <3> QED
      BY <3>1, <2>2, <2>0, <1>1, <1>5 DEF OfItsKind, InFlight
  <2>3. CASE w = new
    <3>1. \A e \in InFlight \cup ToSet(appCh) : e.kind \in Lua!Questions \cup Lua!Answers => e.id # id
      BY <2>1, <1>3, LuaKinds DEF Fresh
    <3>2. ~(dialogue \in Prompts /\ dialogue.id = id)
      BY <1>3 DEF Fresh
    <3> QED
      BY <3>1, <3>2, <2>3, <2>0, <1>1, <1>5, <1>7 DEF InFlight
  <2> QED
    BY <2>2, <2>3, <1>1
<1>11. \A x \in Runs \ {r} : Lua!Ask(x)' = Lua!Ask(x) /\ pc'[x] = pc[x] /\ Lua!Ask(x) # id
  BY <1>1, <1>2, Id, SMT DEF Lua!Ask, LuaTypes
<1>12. Lua!Ask(r)' = id
  BY <1>0, <1>1, SMT DEF Lua!Ask, LuaTypes
<1>13. Waits'
  BY <1>1, <1>11, <1>12 DEF Waits, Lua!Asked
<1>14. Kept'
  <2> SUFFICES ASSUME NEW x \in Runs, pc'[x] = "asking", (Lua!Ask(x) \notin lost)' PROVE Somewhere(Lua!Ask(x))'
    BY DEF Kept
  <2>1. CASE x # r
    <3>1. Somewhere(Lua!Ask(x))
      BY <2>1, <1>1, <1>11 DEF Kept
    <3> QED
      BY <3>1, <2>1, <1>11, <1>1, <1>5 DEF Somewhere, InFlight
  <2>2. CASE x = r
    <3>1. new \in InFlight' /\ new.id = id /\ new.kind \in Lua!Questions
      BY <2>2, <1>1, <1>2, <1>5, <1>12 DEF InFlight
    <3> QED
      BY <3>1, <2>2, <1>12 DEF Somewhere
  <2> QED
    BY <2>1, <2>2
<1>15. Armed'
  BY <1>1 DEF Armed
<1> QED
  BY <1>6, <1>8, <1>9, <1>10, <1>13, <1>14, <1>15

\* what is in a channel is an event
LEMMA Events == LuaTypes => InFlight \cup ToSet(appCh) \subseteq LuaEvents
  BY ElementOfSeq, LenProperties DEF InFlight, ToSet, LuaTypes

\* a step of one run that does not ask: it leaves the channels, the chooser and
\* what is on the screen alone, and drops at most what concerns its own question
LEMMA RunStep ==
  ASSUME LuaInv, NEW r \in Runs, LuaTypes', Armed',
         tuiCh' = tuiCh, appCh' = appCh, held' = held, execs' = execs,
         dialogue' = dialogue \/ (dialogue \notin Prompts /\ dialogue' \notin Prompts),
         waiters' \subseteq waiters, \A w \in waiters \ waiters' : w.id = Lua!Ask(r),
         box' \subseteq box, box \ box' \subseteq {Lua!Ask(r)},
         pc'[r] # "asking",
         pc'[r] \in {"none", "running", "asking"} => pc[r] \in {"none", "running", "asking"} /\ asks'[r] = asks[r],
         \A x \in Runs \ {r} : pc'[x] = pc[x] /\ asks'[x] = asks[x] /\ (Lua!Ask(x) \in lost => Lua!Ask(x) \in lost')
  PROVE  LuaInv'
<1> USE DEF LuaInv
<1>1. \A i \in AskIds : Used(i) => Used(i)'
  <2> SUFFICES ASSUME NEW i \in AskIds, Used(i) PROVE Used(i)'
    OBVIOUS
  <2>1. i[1] \in Runs /\ i[2] \in Nat
    BY SMT DEF AskIds
  <2>2. CASE i[1] = r
    BY <2>1, <2>2 DEF Used
  <2>3. CASE i[1] # r
    BY <2>1, <2>3 DEF Used
  <2> QED
    BY <2>2, <2>3
<1>2. Fresh'
  <2>1. \A e \in (InFlight \cup ToSet(appCh))' : e \in Queries => Used(e.id)'
    BY <1>1 DEF Fresh, InFlight, Queries
  <2>2. \A i \in (execs \cup box \cup Lua!Asked)' : i \in execs \cup box \cup Lua!Asked
    BY DEF Lua!Asked
  <2>3. \A i \in execs \cup box \cup Lua!Asked : i \in AskIds
    BY SMT DEF LuaTypes, Lua!Asked
  <2>4. \A i \in (execs \cup box \cup Lua!Asked)' : Used(i)'
    BY <2>2, <2>3, <1>1 DEF Fresh
  <2>5. (dialogue \in Prompts => Used(dialogue.id))'
    BY <1>1, LuaKinds DEF Fresh, Used
  <2> QED
    BY <2>1, <2>4, <2>5 DEF Fresh
<1>3. OneChooser'
  BY DEF OneChooser, InFlight
<1>4. OfItsKind'
  BY DEF OfItsKind, InFlight
<1>5. \A x \in Runs \ {r} : Lua!Ask(x)' = Lua!Ask(x) /\ Lua!Ask(x) # Lua!Ask(r)
  BY Id DEF Lua!Ask
<1>6. Waits'
  <2> SUFFICES ASSUME NEW x \in Runs, pc'[x] = "asking" PROVE (Lua!Ask(x) \in box \cup Lua!Asked)'
    BY DEF Waits
  <2>1. x # r /\ pc[x] = "asking" /\ Lua!Ask(x)' = Lua!Ask(x) /\ Lua!Ask(x) # Lua!Ask(r)
    BY <1>5
  <2>2. Lua!Ask(x) \in box \cup Lua!Asked
    BY <2>1 DEF Waits
  <2> QED
    BY <2>1, <2>2 DEF Lua!Asked
<1>7. Kept'
  <2> SUFFICES ASSUME NEW x \in Runs, pc'[x] = "asking", (Lua!Ask(x) \notin lost)' PROVE Somewhere(Lua!Ask(x))'
    BY DEF Kept
  <2>1. x # r /\ pc[x] = "asking" /\ Lua!Ask(x)' = Lua!Ask(x) /\ Lua!Ask(x) # Lua!Ask(r)
    BY <1>5
  <2>2. Somewhere(Lua!Ask(x))
    BY <2>1 DEF Kept
  <2>3. \A i : [kind |-> "prompt", id |-> i] \in Prompts <=> i \in AskIds
    BY SMT DEF Prompts
  <2>4. Lua!Ask(x) \in AskIds
    BY Id
  <2> QED
    BY <2>1, <2>2, <2>3, <2>4 DEF Somewhere, InFlight
<1> QED
  BY <1>2, <1>3, <1>4, <1>6, <1>7

LEMMA StartStep == ASSUME LuaInv, NEW r \in Runs, Lua!Start(r) PROVE LuaInv'
<1>1. /\ pc[r] = "none" /\ pc' = [pc EXCEPT ![r] = "running"] /\ DOMAIN effects' = DOMAIN effects
      /\ UNCHANGED <<asks, out, waiters, box, tuiCh, appCh, lost, readers, held, execs, dialogue, tabs>>
  BY DEF Lua!Start, Lua!Begin, Lua!busVars, Lua!loopVars, Lua!uiVars
<1>2. LuaTypes' /\ Armed'
  BY <1>1, SMT DEF LuaInv, LuaTypes, Armed
<1>3. pc'[r] = "running" /\ \A x \in Runs \ {r} : pc'[x] = pc[x]
  BY <1>1, SMT DEF LuaInv, LuaTypes
<1> QED
  BY <1>1, <1>2, <1>3, RunStep

LEMMA TabStep == ASSUME LuaInv, NEW r \in Runs, Lua!Tab(r) PROVE LuaInv'
<1>1. /\ pc[r] = "none" /\ pc' = [pc EXCEPT ![r] = "running"] /\ DOMAIN effects' = DOMAIN effects
      /\ readers' = readers + 1 /\ tabs' = tabs + 1
      /\ UNCHANGED <<asks, out, waiters, box, tuiCh, appCh, lost, held, execs, dialogue>>
  BY DEF Lua!Tab, Lua!Begin, Lua!busVars, Lua!Rearm
<1>2. LuaTypes'
  BY <1>1, SMT DEF LuaInv, LuaTypes
<1>3. Armed'
  <2>1. Len(held) \in Nat /\ Cardinality(execs) \in Nat /\ readers \in Nat /\ tabs \in Nat
    BY FS_CardinalityType, LenProperties DEF LuaInv, LuaTypes
  <2>2. Len(held') = Len(held) /\ Cardinality(execs') = Cardinality(execs)
    BY <1>1
  <2> QED
    BY <2>1, <2>2, <1>1, SMT DEF LuaInv, Armed
<1>4. pc'[r] = "running" /\ \A x \in Runs \ {r} : pc'[x] = pc[x]
  BY <1>1, SMT DEF LuaInv, LuaTypes
<1> QED
  BY <1>1, <1>2, <1>3, <1>4, RunStep

LEMMA ResumeStep == ASSUME LuaInv, NEW r \in Runs, Lua!Resume(r) PROVE LuaInv'
<1>1. /\ pc[r] = "asking" /\ pc' = [pc EXCEPT ![r] = "running"]
      /\ box' = box \ {Lua!Ask(r)} /\ waiters' = waiters \ Lua!Waiting(r)
      /\ UNCHANGED <<asks, effects, out, tuiCh, appCh, lost, readers, held, execs, dialogue, tabs>>
  BY DEF Lua!Resume, Lua!busVars, Lua!loopVars, Lua!uiVars
<1>2. LuaTypes' /\ Armed'
  BY <1>1, SMT DEF LuaInv, LuaTypes, Armed
<1>3. pc'[r] = "running" /\ \A x \in Runs \ {r} : pc'[x] = pc[x]
  BY <1>1, SMT DEF LuaInv, LuaTypes
<1>4. \A w \in waiters \ waiters' : w.id = Lua!Ask(r)
  BY <1>1 DEF Lua!Waiting
<1> QED
  BY <1>1, <1>2, <1>3, <1>4, RunStep

LEMMA OutcomeType == ASSUME NEW r \in Runs PROVE Lua!Outcome(r) \in Seq(Notes)
<1>1. [kind |-> "attach", id |-> <<r, 0>>] \in Notes /\ [kind |-> "tags", id |-> <<r, 0>>] \in Notes
      /\ [kind |-> "result", id |-> <<r, 0>>] \in Notes
  BY SMT DEF Notes, AskIds
<1>2. <<[kind |-> "attach", id |-> <<r, 0>>]>> \in Seq(Notes) /\ <<[kind |-> "tags", id |-> <<r, 0>>]>> \in Seq(Notes)
      /\ <<[kind |-> "result", id |-> <<r, 0>>]>> \in Seq(Notes) /\ <<>> \in Seq(Notes)
  BY <1>1
<1>3. \A s, t \in Seq(Notes) : s \o t \in Seq(Notes)
  BY ConcatProperties
<1> QED
  BY <1>2, <1>3 DEF Lua!Outcome

LEMMA EndStep == ASSUME LuaInv, NEW r \in Runs, Lua!End(r) PROVE LuaInv'
<1>1. /\ pc' = [pc EXCEPT ![r] = "ending"]
      /\ box' = box \ {Lua!Ask(r)} /\ waiters' = waiters \ Lua!Waiting(r)
      /\ out' = [out EXCEPT ![r] = Lua!Outcome(r)] /\ asks' = [asks EXCEPT ![r] = 0]
      /\ effects' = [effects EXCEPT ![r] = {}] /\ lost' = {x \in lost : x[1] # r}
      /\ UNCHANGED <<tuiCh, appCh, readers, held, execs, dialogue, tabs>>
  BY DEF Lua!End, Lua!busVars, Lua!loopVars, Lua!uiVars
<1>2. LuaTypes'
  <2> HIDE DEF LuaInv
  <2>1. Lua!Outcome(r) \in Seq(Notes)
    BY OutcomeType
  <2>2. waiters' \subseteq waiters
    BY <1>1
  <2> QED
    BY <1>1, <2>1, <2>2, SMT DEF LuaInv, LuaTypes
<1>3. Armed'
  BY <1>1, SMT DEF LuaInv, Armed
<1>4. pc'[r] = "ending" /\ \A x \in Runs \ {r} : pc'[x] = pc[x] /\ asks'[x] = asks[x]
  BY <1>1, SMT DEF LuaInv, LuaTypes
<1>5. \A w \in waiters \ waiters' : w.id = Lua!Ask(r)
  BY <1>1 DEF Lua!Waiting
<1>6. \A x \in Runs \ {r} : Lua!Ask(x) \in lost => Lua!Ask(x) \in lost'
  BY <1>1, <1>4, Id DEF LuaInv
<1> QED
  BY <1>1, <1>2, <1>3, <1>4, <1>5, <1>6, RunStep

(* What a step may add to a channel: a note, or the answer to a question *)
(* that has one of its kind coming. *)
Harmless(e) ==
  \/ e \notin Queries
  \/ e.kind \in Lua!Answers /\ Used(e.id) /\ \A w \in waiters : w.id = e.id => Lua!Resolves(w, e)

\* a step of the terminal's loop, of a key or of the app: no run moves, and a
\* question that is still asked is as much somewhere as before, or is lost
LEMMA LoopStep ==
  ASSUME LuaInv, LuaTypes', Armed', OneChooser',
         pc' = pc, asks' = asks, waiters' = waiters, box' = box, lost \subseteq lost',
         \A e \in InFlight' : e \in InFlight \/ Harmless(e),
         \A e \in ToSet(appCh') : e \in ToSet(appCh) \/ Harmless(e),
         dialogue' \in Prompts =>
           dialogue' = dialogue \/ \E e \in InFlight : e.kind = "prompt" /\ e.id = dialogue'.id,
         \A i \in execs' : i \in execs \/ \E e \in InFlight : e.kind = "picker" /\ e.id = i,
         \A i \in Lua!Asked : Somewhere(i) => i \in lost' \/ Somewhere(i)'
  PROVE  LuaInv'
<1> USE DEF LuaInv
<1>1. \A i : Used(i)' <=> Used(i)
  BY DEF Used
<1>2. InFlight \cup ToSet(appCh) \subseteq LuaEvents /\ (InFlight \cup ToSet(appCh))' \subseteq LuaEvents
  <2>1. (LuaTypes => InFlight \cup ToSet(appCh) \subseteq LuaEvents)'
    BY Events, PTL
  <2> QED
    BY <2>1, Events
<1>3. \A e \in LuaEvents : e.kind \in Lua!Questions \/ e.kind \in Lua!Answers <=> e \in Queries
  BY LuaKinds
<1>4. \A e : e.kind \in Lua!Questions => e.kind \notin Lua!Answers
  BY SMT DEF Lua!Questions, Lua!Answers
<1>5. \A e \in InFlight : e.kind \in {"prompt", "picker"} => Used(e.id)
  BY <1>2, <1>3, LuaKinds DEF Fresh
<1>6. PICK d : d = dialogue'
  OBVIOUS
<1>7. Fresh'
  <2>1. \A e \in (InFlight \cup ToSet(appCh))' : e \in Queries => Used(e.id)
    BY DEF Fresh, Harmless
  <2>2. \A i \in (execs \cup box \cup Lua!Asked)' : Used(i)
    BY <1>5 DEF Fresh, Lua!Asked
  <2>3. d \in Prompts => Used(d.id)
    BY <1>5, <1>6 DEF Fresh
  <2>4. (dialogue \in Prompts => Used(dialogue.id))'
    BY <2>3, <1>6 DEF Used
  <2> QED
    BY <2>1, <2>2, <2>4, <1>1 DEF Fresh
<1>8. OfItsKind'
  <2> SUFFICES ASSUME NEW w \in waiters
               PROVE  /\ \A e \in InFlight' : e.id = w.id /\ e.kind \in Lua!Questions => e.kind = w.kind
                      /\ \A e \in ToSet(appCh') : e.id = w.id /\ e.kind \in Lua!Answers => Lua!Resolves(w, e)
                      /\ d \in Prompts /\ d.id = w.id => w.kind = "prompt"
                      /\ w.id \in execs' => w.kind = "picker"
    BY <1>6 DEF OfItsKind
  <2>1. \A e \in InFlight' : e.id = w.id /\ e.kind \in Lua!Questions => e.kind = w.kind
    BY <1>2, <1>3, <1>4 DEF OfItsKind, Harmless
  <2>2. \A e \in ToSet(appCh') : e.id = w.id /\ e.kind \in Lua!Answers => Lua!Resolves(w, e)
    BY <1>2, <1>3 DEF OfItsKind, Harmless
  <2>3. d \in Prompts /\ d.id = w.id => w.kind = "prompt"
    BY <1>6, LuaKinds DEF OfItsKind
  <2>4. w.id \in execs' => w.kind = "picker"
    BY LuaKinds DEF OfItsKind
  <2> QED
    BY <2>1, <2>2, <2>3, <2>4
<1>9. \A x \in Runs : Lua!Ask(x)' = Lua!Ask(x)
  BY DEF Lua!Ask
<1>10. Waits'
  BY <1>9 DEF Waits, Lua!Asked
<1>11. Kept'
  <2> SUFFICES ASSUME NEW x \in Runs, pc[x] = "asking", Lua!Ask(x) \notin lost' PROVE Somewhere(Lua!Ask(x))'
    BY <1>9 DEF Kept
  <2>1. PICK i : i = Lua!Ask(x)
    OBVIOUS
  <2>2. Somewhere(i) /\ i \notin lost' /\ i \in box \cup Lua!Asked
    BY <2>1 DEF Kept, Waits
  <2>3. Somewhere(i)'
    BY <2>2 DEF Somewhere
  <2> QED
    BY <2>1, <2>3, <1>9 DEF Somewhere, InFlight
<1> QED
  BY <1>7, <1>8, <1>10, <1>11

LEMMA DrainStep == ASSUME LuaInv, NEW r \in Runs, Lua!Drain(r) PROVE LuaInv'
<1>1. /\ pc[r] = "ending"
      /\ UNCHANGED <<asks, effects, waiters, box, readers, held, execs, dialogue, tabs>>
  BY DEF Lua!Drain, Lua!loopVars, Lua!uiVars
<1>2. CASE out[r] = <<>>
  <2>1. pc' = [pc EXCEPT ![r] = "ended"] /\ UNCHANGED <<out, tuiCh, appCh, lost>>
    BY <1>2 DEF Lua!Drain, Lua!busVars
  <2>2. LuaTypes' /\ Armed'
    BY <1>1, <2>1, SMT DEF LuaInv, LuaTypes, Armed
  <2>3. pc'[r] = "ended" /\ \A x \in Runs \ {r} : pc'[x] = pc[x]
    BY <2>1, SMT DEF LuaInv, LuaTypes
  <2> QED
    BY <1>1, <2>1, <2>2, <2>3, RunStep
<1>3. CASE out[r] # <<>>
  <2>1. Lua!Publish(Head(out[r])) /\ out' = [out EXCEPT ![r] = Tail(@)] /\ UNCHANGED pc
    BY <1>3 DEF Lua!Drain
  <2>2. out[r] \in Seq(Notes) /\ out \in [Runs -> Seq(Notes)]
    BY DEF LuaInv, LuaTypes
  <2>3. Head(out[r]) \in Notes /\ Tail(out[r]) \in Seq(Notes)
    BY <2>2, <1>3, HeadTailProperties
  <2>4. PICK e : e = Head(out[r])
    OBVIOUS
  <2>5. e \in LuaEvents /\ e.kind # "picker" /\ e \notin Queries /\ Lua!Publish(e)
    BY <2>1, <2>3, <2>4, LuaKinds
  <2>6. LuaTypes
    BY DEF LuaInv
  <2>7. /\ tuiCh' \in Seq(LuaEvents) /\ appCh' \in Seq(LuaEvents)
        /\ ToSet(tuiCh') = ToSet(tuiCh) \/ ToSet(tuiCh') = ToSet(tuiCh) \cup {e}
        /\ ToSet(appCh') = ToSet(appCh) \/ ToSet(appCh') = ToSet(appCh) \cup {e}
        /\ lost \subseteq lost'
        /\ Distinct(tuiCh) => Distinct(tuiCh')
    BY <2>5, <2>6, Published
  <2>8. out' \in [Runs -> Seq(Notes)]
    BY <2>1, <2>2, <2>3
  <2>9. LuaTypes' /\ Armed'
    BY <1>1, <2>1, <2>7, <2>8, SMT DEF LuaInv, LuaTypes, Armed
  <2>10. OneChooser'
    BY <1>1, <2>5, <2>7 DEF LuaInv, OneChooser, InFlight
  <2>11. \A i : Somewhere(i) => Somewhere(i)'
    BY <1>1, <2>7 DEF Somewhere, InFlight
  <2>12. /\ \A x \in InFlight' : x \in InFlight \/ Harmless(x)
         /\ \A x \in ToSet(appCh') : x \in ToSet(appCh) \/ Harmless(x)
    BY <1>1, <2>5, <2>7 DEF InFlight, Harmless
  <2>13. \A i \in Lua!Asked : Somewhere(i) => i \in lost' \/ Somewhere(i)'
    BY <2>11
  <2>14. /\ \A i \in execs' : i \in execs \/ \E x \in InFlight : x.kind = "picker" /\ x.id = i
         /\ dialogue' \in Prompts =>
              dialogue' = dialogue \/ \E x \in InFlight : x.kind = "prompt" /\ x.id = dialogue'.id
    BY <1>1
  <2> QED
    BY <1>1, <2>1, <2>7, <2>9, <2>10, <2>12, <2>13, <2>14, LoopStep
<1> QED
  BY <1>2, <1>3

LEMMA OpenStep == ASSUME LuaInv, Lua!Open PROVE LuaInv'
<1>1. UNCHANGED <<pc, asks, effects, out, waiters, box, readers, held, execs, dialogue, tabs>>
  BY DEF Lua!Open, Lua!runVars, Lua!loopVars
<1>2. PICK e : e = [kind |-> "tab", id |-> <<0, 0>>]
  OBVIOUS
<1>3. e \in LuaEvents /\ e.kind # "picker" /\ e \notin Queries /\ Lua!Publish(e)
  BY <1>2, LuaKinds DEF Lua!Open
<1>4. LuaTypes
  BY DEF LuaInv
<1>5. /\ tuiCh' \in Seq(LuaEvents) /\ appCh' \in Seq(LuaEvents)
      /\ ToSet(tuiCh') = ToSet(tuiCh) \/ ToSet(tuiCh') = ToSet(tuiCh) \cup {e}
      /\ ToSet(appCh') = ToSet(appCh) \/ ToSet(appCh') = ToSet(appCh) \cup {e}
      /\ lost \subseteq lost'
      /\ Distinct(tuiCh) => Distinct(tuiCh')
  BY <1>3, <1>4, Published
<1>6. LuaTypes' /\ Armed'
  BY <1>1, <1>5, SMT DEF LuaInv, LuaTypes, Armed
<1>7. OneChooser'
  BY <1>1, <1>3, <1>5 DEF LuaInv, OneChooser, InFlight
<1>8. \A i : Somewhere(i) => Somewhere(i)'
  BY <1>1, <1>5 DEF Somewhere, InFlight
<1>9. /\ \A x \in InFlight' : x \in InFlight \/ Harmless(x)
      /\ \A x \in ToSet(appCh') : x \in ToSet(appCh) \/ Harmless(x)
  BY <1>1, <1>3, <1>5 DEF InFlight, Harmless
<1>10. \A i \in Lua!Asked : Somewhere(i) => i \in lost' \/ Somewhere(i)'
  BY <1>8
<1>11. /\ \A i \in execs' : i \in execs \/ \E x \in InFlight : x.kind = "picker" /\ x.id = i
       /\ dialogue' \in Prompts =>
            dialogue' = dialogue \/ \E x \in InFlight : x.kind = "prompt" /\ x.id = dialogue'.id
  BY <1>1
<1> QED
  BY <1>1, <1>5, <1>6, <1>7, <1>9, <1>10, <1>11, LoopStep

LEMMA DeliverStep == ASSUME LuaInv, Lua!Deliver PROVE LuaInv'
<1> USE DEF LuaInv
<1>1. PICK e, found : e = Head(appCh) /\ found = {w \in waiters : Lua!Resolves(w, e)}
  OBVIOUS
<1>2. /\ appCh # <<>> /\ appCh' = Tail(appCh) /\ waiters' = waiters \ found /\ box' = box \cup {w.id : w \in found}
      /\ UNCHANGED <<pc, asks, effects, out, tuiCh, lost, readers, held, execs, dialogue, tabs>>
  BY <1>1 DEF Lua!Deliver, Lua!runVars, Lua!loopVars, Lua!uiVars
<1>3. /\ appCh' \in Seq(LuaEvents) /\ ToSet(appCh) = ToSet(appCh') \cup {e}
  BY <1>1, <1>2, Taken DEF LuaTypes
<1>4. found \subseteq waiters /\ \A w \in found : w.id \in AskIds /\ w.id \in Lua!Asked
  BY <1>1, SMT DEF LuaTypes, Lua!Asked
<1>5. LuaTypes'
  <2>1. waiters' \subseteq waiters /\ box' \subseteq AskIds
    BY <1>2, <1>4 DEF LuaTypes
  <2> QED
    BY <1>2, <1>3, <2>1 DEF LuaTypes
<1>6. Fresh'
  <2>1. \A i : Used(i)' <=> Used(i)
    BY <1>2 DEF Used
  <2>2. \A x \in (InFlight \cup ToSet(appCh))' : x \in InFlight \cup ToSet(appCh)
    BY <1>2, <1>3 DEF InFlight
  <2>3. \A i \in (execs \cup box \cup Lua!Asked)' : i \in execs \cup box \cup Lua!Asked
    BY <1>2, <1>4 DEF Lua!Asked
  <2>4. (dialogue \in Prompts => Used(dialogue.id))'
    BY <1>2 DEF Fresh, Used
  <2> QED
    BY <2>1, <2>2, <2>3, <2>4 DEF Fresh
<1>7. OneChooser' /\ Armed'
  BY <1>2 DEF OneChooser, InFlight, Armed
<1>8. OfItsKind'
  BY <1>2, <1>3 DEF OfItsKind, InFlight
<1>9. \A x \in Runs : Lua!Ask(x)' = Lua!Ask(x)
  BY <1>2 DEF Lua!Ask
<1>10. \A i : i \in box \cup Lua!Asked => (i \in box \cup Lua!Asked)'
  BY <1>2 DEF Lua!Asked
<1>11. Waits'
  BY <1>2, <1>9, <1>10 DEF Waits
<1>12. Kept'
  <2> SUFFICES ASSUME NEW x \in Runs, pc[x] = "asking", Lua!Ask(x) \notin lost PROVE Somewhere(Lua!Ask(x))'
    BY <1>2, <1>9 DEF Kept
  <2>1. PICK i : i = Lua!Ask(x)
    OBVIOUS
  <2>2. Somewhere(i) /\ i \in box \cup Lua!Asked
    BY <2>1 DEF Kept, Waits
  <2>3. Somewhere(i)'
    <3>1. CASE i \in box
      BY <3>1, <1>2 DEF Somewhere
    <3>2. CASE e.id = i /\ e.kind \in Lua!Answers /\ i \in Lua!Asked
      <4>1. PICK w \in waiters : w.id = i
        BY <3>2 DEF Lua!Asked
      <4>2. e \in ToSet(appCh)
        BY <1>3
      <4>3. w \in found
        BY <4>1, <4>2, <3>2, <1>1 DEF OfItsKind
      <4> QED
        BY <4>1, <4>3, <1>2 DEF Somewhere
    <3>3. CASE i \notin box /\ ~(e.id = i /\ e.kind \in Lua!Answers)
      BY <3>3, <2>2, <1>2, <1>3 DEF Somewhere, InFlight
    <3> QED
      BY <3>1, <3>2, <3>3, <2>2
  <2> QED
    BY <2>1, <2>3, <1>9 DEF Somewhere, InFlight
<1> QED
  BY <1>5, <1>6, <1>7, <1>8, <1>11, <1>12

-----------------------------------------------------------------------------
(* The terminal's loop, and its keys. *)

LEMMA TakeStep == ASSUME LuaInv, Lua!Take PROVE LuaInv'
<1> USE DEF LuaInv
<1>1. PICK e : e = Head(tuiCh)
  OBVIOUS
<1>2. /\ readers > 0 /\ tuiCh # <<>> /\ readers' = readers - 1 /\ held' = Append(held, e) /\ tuiCh' = Tail(tuiCh)
      /\ UNCHANGED <<pc, asks, effects, out, waiters, box, appCh, lost, execs, dialogue, tabs>>
  BY <1>1 DEF Lua!Take, Lua!runVars, Lua!uiVars
<1>3. /\ tuiCh' \in Seq(LuaEvents) /\ e \in LuaEvents /\ ToSet(tuiCh) = ToSet(tuiCh') \cup {e}
      /\ Distinct(tuiCh) => Distinct(tuiCh') /\ (e.kind = "picker" => e \notin ToSet(tuiCh'))
  BY <1>1, <1>2, Taken DEF LuaTypes
<1>4. e.kind # "picker" \/ e \notin ToSet(held)
  BY <1>3 DEF OneChooser
<1>5. /\ held' \in Seq(LuaEvents) /\ Len(held') = Len(held) + 1 /\ Len(held) \in Nat
      /\ ToSet(held') = ToSet(held) \cup {e}
      /\ Distinct(held) => Distinct(held')
  BY <1>2, <1>3, <1>4, Appended DEF LuaTypes
<1>6. LuaTypes'
  <2>1. readers' \in Nat
    BY <1>2, SMT DEF LuaTypes
  <2> QED
    BY <1>2, <1>3, <1>5, <2>1 DEF LuaTypes
<1>7. Armed'
  <2>1. Cardinality(execs) \in Nat /\ Cardinality(execs') = Cardinality(execs) /\ readers \in Nat /\ tabs \in Nat
    BY <1>2, FS_CardinalityType DEF LuaTypes
  <2> QED
    BY <2>1, <1>2, <1>5, SMT DEF Armed
<1>8. InFlight' = InFlight
  BY <1>3, <1>5 DEF InFlight
<1>9. OneChooser'
  BY <1>2, <1>3, <1>5, <1>8 DEF OneChooser
<1>10. \A i \in Lua!Asked : Somewhere(i) => i \in lost' \/ Somewhere(i)'
  BY <1>2, <1>8 DEF Somewhere
<1>11. /\ \A x \in InFlight' : x \in InFlight \/ Harmless(x)
       /\ \A x \in ToSet(appCh') : x \in ToSet(appCh) \/ Harmless(x)
       /\ \A i \in execs' : i \in execs \/ \E x \in InFlight : x.kind = "picker" /\ x.id = i
       /\ dialogue' \in Prompts =>
            dialogue' = dialogue \/ \E x \in InFlight : x.kind = "prompt" /\ x.id = dialogue'.id
  BY <1>2, <1>8
<1> QED
  BY <1>2, <1>6, <1>7, <1>9, <1>10, <1>11, LoopStep

\* an answer to a question of its kind is published: it reaches the app, or is lost
LEMMA AnswerPublished ==
  ASSUME LuaInv, NEW i \in AskIds, NEW k \in Lua!Answers, Lua!Publish([kind |-> k, id |-> i]), Used(i),
         UNCHANGED <<waiters>>, \A w \in waiters : w.id = i => Lua!Resolves(w, [kind |-> k, id |-> i])
  PROVE  /\ tuiCh' \in Seq(LuaEvents) /\ appCh' \in Seq(LuaEvents)
         /\ Distinct(tuiCh')
         /\ lost \subseteq lost'
         /\ ToSet(tuiCh) \subseteq ToSet(tuiCh') /\ ToSet(appCh) \subseteq ToSet(appCh')
         /\ \A e \in ToSet(tuiCh') : e \in ToSet(tuiCh) \/ (Harmless(e) /\ e.kind # "picker")
         /\ \A e \in ToSet(appCh') : e \in ToSet(appCh) \/ Harmless(e)
         /\ i \in Lua!Asked => i \in lost' \/ \E e \in ToSet(appCh') : e.id = i /\ e.kind \in Lua!Answers
<1> DEFINE e == [kind |-> k, id |-> i]
<1>1. e \in LuaEvents /\ e.kind # "picker" /\ e.kind = k /\ e.id = i
  BY LuaKinds, SMT DEF Lua!Answers
<1>2. Harmless(e)
  BY <1>1 DEF Harmless
<1>3. LuaTypes /\ Distinct(tuiCh)
  BY DEF LuaInv, OneChooser
<1> HIDE DEF e
<1>4. Lua!Publish(e)
  BY DEF e
<1>5. /\ tuiCh' \in Seq(LuaEvents) /\ appCh' \in Seq(LuaEvents)
      /\ ToSet(tuiCh') = ToSet(tuiCh) \/ ToSet(tuiCh') = ToSet(tuiCh) \cup {e}
      /\ ToSet(appCh') = ToSet(appCh) \/ ToSet(appCh') = ToSet(appCh) \cup {e}
      /\ Distinct(tuiCh) => Distinct(tuiCh')
      /\ lost \subseteq lost'
      /\ e.kind \in Lua!Answers /\ e.id \in Lua!Asked => e.id \in lost' \/ e \in ToSet(appCh')
  BY <1>1, <1>3, <1>4, Published
<1> QED
  BY <1>1, <1>2, <1>3, <1>5

LEMMA PickedStep == ASSUME LuaInv, NEW id \in execs, Lua!Picked(id) PROVE LuaInv'
<1> USE DEF LuaInv
<1>1. /\ execs' = execs \ {id} /\ Lua!Publish([kind |-> "picked", id |-> id]) /\ readers' = readers + 1
      /\ UNCHANGED <<pc, asks, effects, out, waiters, box, held, dialogue, tabs>>
  BY DEF Lua!Picked, Lua!Rearm, Lua!runVars, Lua!uiVars
<1>2. id \in AskIds /\ Used(id) /\ "picked" \in Lua!Answers
  BY SMT DEF LuaTypes, Fresh, Lua!Answers
<1>3. \A w \in waiters : w.id = id => Lua!Resolves(w, [kind |-> "picked", id |-> id])
  BY SMT DEF OfItsKind, Lua!Resolves
<1>4. /\ tuiCh' \in Seq(LuaEvents) /\ appCh' \in Seq(LuaEvents)
      /\ Distinct(tuiCh')
      /\ lost \subseteq lost'
      /\ ToSet(tuiCh) \subseteq ToSet(tuiCh') /\ ToSet(appCh) \subseteq ToSet(appCh')
      /\ \A e \in ToSet(tuiCh') : e \in ToSet(tuiCh) \/ (Harmless(e) /\ e.kind # "picker")
      /\ \A e \in ToSet(appCh') : e \in ToSet(appCh) \/ Harmless(e)
      /\ id \in Lua!Asked => id \in lost' \/ \E e \in ToSet(appCh') : e.id = id /\ e.kind \in Lua!Answers
  BY <1>1, <1>2, <1>3, AnswerPublished
<1>5. Cardinality(execs) \in Nat /\ Cardinality(execs') = Cardinality(execs) - 1 /\ IsFiniteSet(execs')
  BY <1>1, FS_RemoveElement, FS_CardinalityType, SMT DEF LuaTypes
<1>6. LuaTypes'
  <2>1. readers' \in Nat
    BY <1>1, SMT DEF LuaTypes
  <2> QED
    BY <1>1, <1>4, <1>5, <2>1 DEF LuaTypes
<1>7. Armed'
  <2>1. Len(held') = Len(held) /\ Len(held) \in Nat /\ readers \in Nat /\ tabs \in Nat
    BY <1>1, LenProperties DEF LuaTypes
  <2> QED
    BY <2>1, <1>1, <1>5, SMT DEF Armed
<1>8. OneChooser'
  BY <1>1, <1>4 DEF OneChooser, InFlight
<1>9. \A i \in Lua!Asked : Somewhere(i) => i \in lost' \/ Somewhere(i)'
  <2> SUFFICES ASSUME NEW i \in Lua!Asked, Somewhere(i), i \notin lost' PROVE Somewhere(i)'
    OBVIOUS
  <2>1. CASE i = id
    BY <2>1, <1>4 DEF Somewhere
  <2>2. CASE i # id
    BY <2>2, <1>1, <1>4 DEF Somewhere, InFlight
  <2> QED
    BY <2>1, <2>2
<1>10. /\ \A x \in InFlight' : x \in InFlight \/ Harmless(x)
       /\ \A i \in execs' : i \in execs \/ \E x \in InFlight : x.kind = "picker" /\ x.id = i
       /\ dialogue' \in Prompts =>
            dialogue' = dialogue \/ \E x \in InFlight : x.kind = "prompt" /\ x.id = dialogue'.id
  BY <1>1, <1>4 DEF InFlight
<1> QED
  BY <1>1, <1>4, <1>6, <1>7, <1>8, <1>9, <1>10, LoopStep

LEMMA AnswerAsked == ASSUME LuaInv, Lua!Answer PROVE LuaInv'
<1> USE DEF LuaInv
<1>1. PICK id : id = dialogue.id
  OBVIOUS
<1>2. /\ dialogue.kind = "prompt" /\ Lua!Publish([kind |-> "answered", id |-> id]) /\ dialogue' = Lua!None
      /\ UNCHANGED <<pc, asks, effects, out, waiters, box, readers, held, execs, tabs>>
  BY <1>1 DEF Lua!Answer, Lua!runVars, Lua!loopVars
<1>3. dialogue \in Prompts
  BY <1>2, LuaKinds DEF LuaTypes
<1>4. id \in AskIds /\ Used(id) /\ "answered" \in Lua!Answers /\ dialogue = [kind |-> "prompt", id |-> id]
  BY <1>1, <1>3, LuaKinds DEF Fresh
<1>5. \A w \in waiters : w.id = id => Lua!Resolves(w, [kind |-> "answered", id |-> id])
  BY <1>1, <1>3, SMT DEF OfItsKind, Lua!Resolves
<1>6. /\ tuiCh' \in Seq(LuaEvents) /\ appCh' \in Seq(LuaEvents)
      /\ Distinct(tuiCh')
      /\ lost \subseteq lost'
      /\ ToSet(tuiCh) \subseteq ToSet(tuiCh') /\ ToSet(appCh) \subseteq ToSet(appCh')
      /\ \A e \in ToSet(tuiCh') : e \in ToSet(tuiCh) \/ (Harmless(e) /\ e.kind # "picker")
      /\ \A e \in ToSet(appCh') : e \in ToSet(appCh) \/ Harmless(e)
      /\ id \in Lua!Asked => id \in lost' \/ \E e \in ToSet(appCh') : e.id = id /\ e.kind \in Lua!Answers
  BY <1>2, <1>4, <1>5, AnswerPublished
<1>7. LuaTypes' /\ Armed'
  BY <1>2, <1>6 DEF LuaTypes, Armed
<1>8. OneChooser'
  BY <1>2, <1>6 DEF OneChooser, InFlight
<1>9. \A i \in Lua!Asked : Somewhere(i) => i \in lost' \/ Somewhere(i)'
  <2> SUFFICES ASSUME NEW i \in Lua!Asked, Somewhere(i), i \notin lost' PROVE Somewhere(i)'
    OBVIOUS
  <2>1. CASE i = id
    BY <2>1, <1>6 DEF Somewhere
  <2>2. CASE i # id
    <3>1. dialogue # [kind |-> "prompt", id |-> i]
      BY <2>2, <1>1, SMT
    <3> QED
      BY <2>2, <3>1, <1>2, <1>6 DEF Somewhere, InFlight
  <2> QED
    BY <2>1, <2>2
<1>10. /\ \A x \in InFlight' : x \in InFlight \/ Harmless(x)
       /\ \A i \in execs' : i \in execs \/ \E x \in InFlight : x.kind = "picker" /\ x.id = i
       /\ dialogue' \notin Prompts
  BY <1>2, <1>6, LuaKinds DEF InFlight
<1> QED
  BY <1>2, <1>6, <1>7, <1>8, <1>9, <1>10, LoopStep

\* the attach prompt and the tabs: no question is on the screen, before or after
LEMMA KeyStep == ASSUME LuaInv, Lua!AttachPrompt \/ Lua!SwitchTab PROVE LuaInv'
<1> USE DEF LuaInv
<1>1. /\ dialogue \notin Prompts /\ dialogue' \in {Lua!None, Lua!Attach} /\ dialogue' \notin Prompts
      /\ UNCHANGED <<pc, asks, effects, out, waiters, box, tuiCh, appCh, lost, readers, held, execs, tabs>>
  BY LuaKinds DEF Lua!AttachPrompt, Lua!SwitchTab, Lua!runVars, Lua!busVars, Lua!loopVars
<1>2. LuaTypes' /\ Armed'
  BY <1>1 DEF LuaTypes, Armed
<1>3. OneChooser' /\ InFlight' = InFlight
  BY <1>1 DEF OneChooser, InFlight
<1>4. \A i \in Lua!Asked : i \in AskIds
  BY SMT DEF LuaTypes, Lua!Asked
<1>5. \A i \in Lua!Asked : Somewhere(i) => i \in lost' \/ Somewhere(i)'
  BY <1>1, <1>3, <1>4 DEF Somewhere, Prompts
<1>6. /\ \A x \in InFlight' : x \in InFlight \/ Harmless(x)
      /\ \A x \in ToSet(appCh') : x \in ToSet(appCh) \/ Harmless(x)
      /\ \A i \in execs' : i \in execs \/ \E x \in InFlight : x.kind = "picker" /\ x.id = i
  BY <1>1, <1>3
<1> QED
  BY <1>1, <1>2, <1>3, <1>5, <1>6, LoopStep

\* what an update takes from its hand
LEMMA InHand ==
  ASSUME LuaInv, NEW i \in DOMAIN held, held' = Lua!Without(held, i)
  PROVE  /\ held' \in Seq(LuaEvents) /\ held[i] \in LuaEvents /\ held[i] \in ToSet(held)
         /\ Len(held) = Len(held') + 1 /\ Len(held') \in Nat
         /\ ToSet(held) = ToSet(held') \cup {held[i]} /\ Distinct(held')
         /\ held[i].kind = "picker" => held[i] \notin ToSet(held') /\ held[i] \notin ToSet(tuiCh)
<1>1. held \in Seq(LuaEvents) /\ Distinct(held) /\ \A e \in ToSet(tuiCh) \cap ToSet(held) : e.kind # "picker"
  BY DEF LuaInv, LuaTypes, OneChooser
<1>2. /\ Lua!Without(held, i) \in Seq(LuaEvents) /\ held[i] \in LuaEvents
      /\ Len(held) = Len(Lua!Without(held, i)) + 1 /\ Len(Lua!Without(held, i)) \in Nat
      /\ ToSet(held) = ToSet(Lua!Without(held, i)) \cup {held[i]}
      /\ Distinct(Lua!Without(held, i))
      /\ held[i].kind = "picker" => held[i] \notin ToSet(Lua!Without(held, i))
  BY <1>1, Removed
<1> QED
  BY <1>1, <1>2

LEMMA ChooserStarts ==
  ASSUME LuaInv, NEW i \in DOMAIN held, held' = Lua!Without(held, i), held[i].kind = "picker",
         execs' = execs \cup {held[i].id},
         UNCHANGED <<pc, asks, effects, out, waiters, box, tuiCh, appCh, lost, readers, dialogue, tabs>>
  PROVE  LuaInv'
<1> USE DEF LuaInv
<1>1. PICK e : e = held[i]
  OBVIOUS
<1>2. /\ held' \in Seq(LuaEvents) /\ e \in LuaEvents /\ e \in InFlight
      /\ Len(held) = Len(held') + 1 /\ Len(held') \in Nat
      /\ ToSet(held) = ToSet(held') \cup {e} /\ Distinct(held')
      /\ e \notin ToSet(held') /\ e \notin ToSet(tuiCh)
      /\ e.kind = "picker" /\ execs' = execs \cup {e.id}
  BY <1>1, InHand DEF InFlight
<1>3. e.id \in AskIds /\ e.id \notin execs
  <2>1. e.id \in AskIds
    BY <1>2, SMT DEF LuaEvents, Queries, Notes
  <2>2. e.id \notin execs
    BY <1>2 DEF OneChooser
  <2> QED
    BY <2>1, <2>2
<1>4. IsFiniteSet(execs') /\ Cardinality(execs) \in Nat /\ Cardinality(execs') = Cardinality(execs) + 1
  <2>1. IsFiniteSet(execs)
    BY DEF LuaTypes
  <2>2. IsFiniteSet(execs \cup {e.id}) /\ Cardinality(execs \cup {e.id}) = Cardinality(execs) + 1
    BY <2>1, <1>3, FS_AddElement
  <2> QED
    BY <2>1, <2>2, <1>2, FS_CardinalityType
<1>5. LuaTypes'
  BY <1>2, <1>3, <1>4 DEF LuaTypes
<1>6. Armed'
  BY <1>2, <1>4, SMT DEF LuaTypes, Armed
<1>7. OneChooser'
  <2>1. \A x \in InFlight' : x \in InFlight /\ x # e /\ x \in LuaEvents
    BY <1>2, Events DEF InFlight
  <2>2. \A x, y \in LuaEvents : x.kind = "picker" /\ y.kind = "picker" /\ x.id = y.id => x = y
    BY SMT DEF LuaEvents, Queries, Notes
  <2>3. \A x \in InFlight' : x.kind = "picker" => x.id \notin execs'
    BY <2>1, <2>2, <1>2 DEF OneChooser
  <2> QED
    BY <2>3, <1>2 DEF OneChooser
<1>8. \A j \in Lua!Asked : Somewhere(j) => j \in lost' \/ Somewhere(j)'
  BY <1>2 DEF Somewhere, InFlight
<1>9. /\ \A x \in InFlight' : x \in InFlight \/ Harmless(x)
      /\ \A x \in ToSet(appCh') : x \in ToSet(appCh) \/ Harmless(x)
      /\ \A j \in execs' : j \in execs \/ \E x \in InFlight : x.kind = "picker" /\ x.id = j
      /\ dialogue' \in Prompts =>
           dialogue' = dialogue \/ \E x \in InFlight : x.kind = "prompt" /\ x.id = dialogue'.id
  BY <1>2 DEF InFlight
<1> QED
  BY <1>5, <1>6, <1>7, <1>8, <1>9, LoopStep

LEMMA ChooserFails ==
  ASSUME LuaInv, NEW i \in DOMAIN held, held' = Lua!Without(held, i), held[i].kind = "picker",
         readers' = readers + 1, Lua!Publish([kind |-> "picked", id |-> held[i].id]),
         UNCHANGED <<pc, asks, effects, out, waiters, box, execs, dialogue, tabs>>
  PROVE  LuaInv'
<1> USE DEF LuaInv
<1>1. PICK e : e = held[i]
  OBVIOUS
<1>2. /\ held' \in Seq(LuaEvents) /\ e \in LuaEvents /\ e \in InFlight
      /\ Len(held) = Len(held') + 1 /\ Len(held') \in Nat
      /\ ToSet(held) = ToSet(held') \cup {e} /\ Distinct(held')
      /\ e.kind = "picker" /\ Lua!Publish([kind |-> "picked", id |-> e.id])
  BY <1>1, InHand DEF InFlight
<1>3. e.id \in AskIds /\ Used(e.id) /\ "picked" \in Lua!Answers /\ e.kind \in Lua!Questions
  BY <1>2, LuaKinds DEF Fresh
<1>4. \A w \in waiters : w.id = e.id => Lua!Resolves(w, [kind |-> "picked", id |-> e.id])
  BY <1>2, <1>3, SMT DEF OfItsKind, Lua!Resolves
<1>5. /\ tuiCh' \in Seq(LuaEvents) /\ appCh' \in Seq(LuaEvents)
      /\ Distinct(tuiCh')
      /\ lost \subseteq lost'
      /\ ToSet(tuiCh) \subseteq ToSet(tuiCh') /\ ToSet(appCh) \subseteq ToSet(appCh')
      /\ \A x \in ToSet(tuiCh') : x \in ToSet(tuiCh) \/ (Harmless(x) /\ x.kind # "picker")
      /\ \A x \in ToSet(appCh') : x \in ToSet(appCh) \/ Harmless(x)
      /\ e.id \in Lua!Asked => e.id \in lost' \/ \E x \in ToSet(appCh') : x.id = e.id /\ x.kind \in Lua!Answers
  BY <1>2, <1>3, <1>4, AnswerPublished
<1>6. LuaTypes'
  <2>1. readers' \in Nat
    BY SMT DEF LuaTypes
  <2> QED
    BY <1>2, <1>5, <2>1 DEF LuaTypes
<1>7. Armed'
  <2>1. Cardinality(execs) \in Nat /\ Cardinality(execs') = Cardinality(execs) /\ readers \in Nat /\ tabs \in Nat
    BY FS_CardinalityType DEF LuaTypes
  <2> QED
    BY <1>2, <2>1, SMT DEF Armed
<1>8. OneChooser'
  BY <1>2, <1>5 DEF OneChooser, InFlight
<1>9. \A j \in Lua!Asked : Somewhere(j) => j \in lost' \/ Somewhere(j)'
  <2> SUFFICES ASSUME NEW j \in Lua!Asked, Somewhere(j), j \notin lost' PROVE Somewhere(j)'
    OBVIOUS
  <2>1. CASE j = e.id
    BY <2>1, <1>5 DEF Somewhere
  <2>2. CASE j # e.id
    BY <2>2, <1>2, <1>5 DEF Somewhere, InFlight
  <2> QED
    BY <2>1, <2>2
<1>10. /\ \A x \in InFlight' : x \in InFlight \/ Harmless(x)
       /\ \A j \in execs' : j \in execs \/ \E x \in InFlight : x.kind = "picker" /\ x.id = j
       /\ dialogue' \in Prompts =>
            dialogue' = dialogue \/ \E x \in InFlight : x.kind = "prompt" /\ x.id = dialogue'.id
  BY <1>2, <1>5 DEF InFlight
<1> QED
  BY <1>5, <1>6, <1>7, <1>8, <1>9, <1>10, LoopStep

\* every other event arms the reader again
LEMMA Handled ==
  ASSUME LuaInv, NEW i \in DOMAIN held, held' = Lua!Without(held, i), held[i].kind # "picker",
         readers' = readers + 1,
         UNCHANGED <<pc, asks, effects, out, waiters, box, tuiCh, appCh, execs, tabs>>,
         dialogue' \in {Lua!None, Lua!Attach} \cup Prompts, lost \subseteq lost',
         dialogue' \in Prompts => \/ dialogue' = dialogue /\ held[i].kind # "prompt"
                                  \/ held[i].kind = "prompt" /\ dialogue' = [kind |-> "prompt", id |-> held[i].id],
         held[i].kind = "prompt" => dialogue' \in Prompts,
         dialogue \in Prompts /\ dialogue.id \in Lua!Asked => dialogue.id \in lost' \/ dialogue' = dialogue
  PROVE  LuaInv'
<1> USE DEF LuaInv
<1>1. PICK e, d : e = held[i] /\ d = dialogue
  OBVIOUS
<1>2. /\ held' \in Seq(LuaEvents) /\ e \in LuaEvents /\ e \in InFlight
      /\ Len(held) = Len(held') + 1 /\ Len(held') \in Nat
      /\ ToSet(held) = ToSet(held') \cup {e} /\ Distinct(held')
      /\ e.kind # "picker"
  BY <1>1, InHand DEF InFlight
<1>3. LuaTypes'
  <2>1. readers' \in Nat
    BY SMT DEF LuaTypes
  <2> QED
    BY <1>2, <2>1 DEF LuaTypes
<1>4. Armed'
  <2>1. Cardinality(execs) \in Nat /\ Cardinality(execs') = Cardinality(execs) /\ readers \in Nat /\ tabs \in Nat
    BY FS_CardinalityType DEF LuaTypes
  <2> QED
    BY <1>2, <2>1, SMT DEF Armed
<1>5. OneChooser'
  BY <1>2 DEF OneChooser, InFlight
<1>6. \A j \in Lua!Asked : Somewhere(j) => j \in lost' \/ Somewhere(j)'
  <2> SUFFICES ASSUME NEW j \in Lua!Asked, Somewhere(j), j \notin lost' PROVE Somewhere(j)'
    OBVIOUS
  <2>1. CASE j = e.id /\ e.kind \in Lua!Questions
    <3>1. e.kind = "prompt"
      BY <2>1, <1>2 DEF Lua!Questions
    <3>2. dialogue' = [kind |-> "prompt", id |-> j]
      BY <3>1, <2>1, <1>1
    <3> QED
      BY <3>2 DEF Somewhere
  <2>2. CASE d = [kind |-> "prompt", id |-> j]
    <3>1. j \in AskIds
      BY SMT DEF LuaTypes, Lua!Asked
    <3>2. d \in Prompts /\ d.id = j
      BY <3>1, <2>2, SMT DEF Prompts
    <3>3. dialogue' = d
      BY <3>2, <1>1
    <3> QED
      BY <3>3, <2>2 DEF Somewhere
  <2>3. CASE ~(j = e.id /\ e.kind \in Lua!Questions) /\ d # [kind |-> "prompt", id |-> j]
    BY <2>3, <1>1, <1>2 DEF Somewhere, InFlight
  <2> QED
    BY <2>1, <2>2, <2>3
<1>7. /\ \A x \in InFlight' : x \in InFlight \/ Harmless(x)
      /\ \A x \in ToSet(appCh') : x \in ToSet(appCh) \/ Harmless(x)
      /\ \A j \in execs' : j \in execs \/ \E x \in InFlight : x.kind = "picker" /\ x.id = j
      /\ dialogue' \in Prompts =>
           dialogue' = dialogue \/ \E x \in InFlight : x.kind = "prompt" /\ x.id = dialogue'.id
  BY <1>1, <1>2 DEF InFlight
<1> QED
  BY <1>3, <1>4, <1>5, <1>6, <1>7, LoopStep

LEMMA UpdateStep == ASSUME LuaInv, NEW i \in DOMAIN held, Lua!Update(i) PROVE LuaInv'
<1>1. PICK e, d : e = held[i] /\ d = dialogue
  OBVIOUS
<1>2. held' = Lua!Without(held, i) /\ UNCHANGED <<pc, asks, effects, out, waiters, box, tabs>>
  BY DEF Lua!Update, Lua!runVars
<1>3. d \in {Lua!None, Lua!Attach} \cup Prompts /\ (d.kind = "prompt" <=> d \in Prompts)
  BY <1>1, LuaKinds DEF LuaInv, LuaTypes
<1>4. e \in LuaEvents /\ (e.kind = "prompt" => [kind |-> "prompt", id |-> e.id] \in Prompts)
  BY <1>1, <1>2, InHand, LuaKinds
<1>5. Lua!None \notin Prompts /\ Lua!Attach \notin Prompts
  BY LuaKinds
<1>6. CASE e.kind = "picker" /\ Lua!OnPicker(e)
  <2>1. CASE execs' = execs \cup {e.id} /\ UNCHANGED <<readers, tuiCh, appCh, lost>>
    BY <2>1, <1>1, <1>2, <1>6, ChooserStarts DEF Lua!OnPicker
  <2>2. CASE Lua!Rearm /\ Lua!Publish([kind |-> "picked", id |-> e.id]) /\ UNCHANGED execs
    BY <2>2, <1>1, <1>2, <1>6, ChooserFails DEF Lua!OnPicker, Lua!Rearm
  <2> QED
    BY <2>1, <2>2, <1>6 DEF Lua!OnPicker, Lua!busVars
<1>7. CASE Lua!Rearm /\ UNCHANGED <<execs, tuiCh, appCh>>
  <2>0. readers' = readers + 1
    BY <1>7 DEF Lua!Rearm
  <2>1. ASSUME NEW n, Lua!Show(n) PROVE /\ dialogue' = n /\ lost \subseteq lost'
                                        /\ d \in Prompts /\ d.id \in Lua!Asked => d.id \in lost'
    BY <2>1, <1>1, <1>3 DEF Lua!Show
  <2>2. CASE e.kind = "prompt" /\ Lua!Show([kind |-> "prompt", id |-> e.id])
    <3>1. dialogue' = [kind |-> "prompt", id |-> e.id] /\ lost \subseteq lost' /\ (d \in Prompts /\ d.id \in Lua!Asked => d.id \in lost')
      BY <2>1, <2>2
    <3> QED
      BY <3>1, <2>0, <2>2, <1>1, <1>2, <1>4, <1>7, Handled
  <2>3. CASE e.kind = "tab" /\ Lua!Show(Lua!None)
    <3>1. dialogue' = Lua!None /\ lost \subseteq lost' /\ (d \in Prompts /\ d.id \in Lua!Asked => d.id \in lost')
      BY <2>1, <2>3
    <3> QED
      BY <3>1, <2>0, <2>3, <1>1, <1>2, <1>5, <1>7, Handled
  <2>4. CASE e.kind = "attach" /\ Lua!OnAttach /\ UNCHANGED lost
    <3>1. dialogue' = d \/ (dialogue' = Lua!None /\ d = Lua!Attach)
      BY <2>4, <1>1 DEF Lua!OnAttach
    <3> QED
      BY <3>1, <2>0, <2>4, <1>1, <1>2, <1>3, <1>5, <1>7, Handled
  <2>5. CASE e.kind \notin {"picker", "prompt", "tab", "attach"} /\ UNCHANGED <<lost, dialogue>>
    BY <2>0, <2>5, <1>1, <1>2, <1>3, <1>7, Handled
  <2> QED
    BY <2>2, <2>3, <2>4, <2>5, <1>6, <1>7, <1>1 DEF Lua!Update, Lua!OnTab
<1> QED
  BY <1>6, <1>7, <1>1 DEF Lua!Update

-----------------------------------------------------------------------------
(* The theorems. *)

LEMMA LuaNext == LuaInv /\ [Lua!Next]_(Lua!vars) => LuaInv'
<1> SUFFICES ASSUME LuaInv, [Lua!Next]_(Lua!vars) PROVE LuaInv'
  OBVIOUS
<1>1. CASE UNCHANGED Lua!vars
  BY <1>1 DEF Lua!vars, Lua!runVars, Lua!busVars, Lua!loopVars, Lua!uiVars, LuaInv, LuaTypes, Fresh, Used, InFlight, OneChooser, OfItsKind, Waits, Kept, Somewhere, Armed,
     Lua!Ask, Lua!Asked
<1>2. ASSUME NEW r \in Runs, Lua!Run(r) \/ Lua!Start(r) PROVE LuaInv'
  BY <1>2, RequestStep, ResumeStep, EndStep, DrainStep, StartStep DEF Lua!Run
<1>3. CASE Lua!Loop
  BY <1>3, TakeStep, UpdateStep, PickedStep DEF Lua!Loop
<1>4. CASE Lua!Keys
  BY <1>4, AnswerAsked, KeyStep, TabStep DEF Lua!Keys
<1>5. CASE Lua!Deliver \/ Lua!Open
  BY <1>5, DeliverStep, OpenStep
<1> QED
  BY <1>1, <1>2, <1>3, <1>4, <1>5 DEF Lua!Next

LEMMA LuaKept == LuaInv => Lua!OneReader /\ Lua!QuestionHeld
<1> SUFFICES ASSUME LuaInv PROVE Lua!OneReader /\ Lua!QuestionHeld
  OBVIOUS
<1>1. Lua!OneReader
  BY Choosers DEF LuaInv, Armed, Lua!OneReader
<1>2. Lua!QuestionHeld
  BY DEF LuaInv, Kept, Somewhere, InFlight, ToSet, Lua!QuestionHeld
<1> QED
  BY <1>1, <1>2

\* The terminal reads one event at a time, plus one for each chooser its tab key
\* started, whatever the runs, the channels and the user do.
THEOREM SpecOneReader == Lua!Spec => []OneReader
<1>1. Lua!Spec => []LuaInv
  BY LuaInit, LuaNext, PTL DEF Lua!Spec
<1>2. LuaInv => OneReader
  BY LuaKept DEF OneReader
<1> QED
  BY <1>1, <1>2, PTL

\* No question is forgotten silently, however many runs ask at once.
THEOREM SpecQuestionHeld == Lua!Spec => []QuestionHeld
<1>1. Lua!Spec => []LuaInv
  BY LuaInit, LuaNext, PTL DEF Lua!Spec
<1>2. LuaInv => QuestionHeld
  BY LuaKept DEF QuestionHeld
<1> QED
  BY <1>1, <1>2, PTL

-----------------------------------------------------------------------------
(* The pictures (Images): what the program takes for painted is what the *)
(* terminal has. *)

Looks == [mode : {"pager", "index", "compose"}, height : Nat, offset : Nat, images : BOOLEAN, imgMode : {0, 1},
          remote : SUBSET Urls, fetching : SUBSET Urls, refine : BOOLEAN, hold : BOOLEAN, seen : Nat, crop : BOOLEAN]
Contents == [gen : Nat, images : BOOLEAN, rows : [Pics!Pictures -> Nat], data : SUBSET Pics!Pictures]
Layouts == [gen : Nat, on : BOOLEAN, refine : BOOLEAN]
Objects == Nat \X Pics!Pictures
Rects == [y : Nat, h : Int]
Spots == [rect : Rects, top : Nat]

ImgTypes ==
  /\ proto \in {"kitty", "sixel"} /\ content \in Contents /\ look \in Looks
  /\ nextLoad \in Nat /\ layouts \subseteq Layouts
  /\ DOMAIN painted \subseteq Objects /\ DOMAIN kimg \subseteq Objects
  /\ painted \in [DOMAIN painted -> Rects]
  /\ term = [stored |-> term.stored, placed |-> term.placed, pixels |-> term.pixels]

(* A picture has the window's height at most, and the offset is in range. *)
Seated ==
  /\ \A i \in Pics!Pictures : content.rows[i] <= look.height
  /\ look.offset = Pics!Clamped(content, look.offset, look.height)

(* A reply that comes brings objects nothing has painted or transmitted. *)
Unused ==
  /\ content.gen < nextLoad
  /\ \A x \in DOMAIN painted \cup DOMAIN kimg : x[1] < nextLoad
  /\ \A l \in layouts :
       /\ l.gen < nextLoad /\ l.gen # content.gen
       /\ \A x \in DOMAIN painted \cup DOMAIN kimg : x[1] # l.gen
       /\ \A m \in layouts : l.gen = m.gen => l = m

(* A place of a picture of so many rows: rows above the window are cut. *)
Fits(pl, rows) == (pl.rect.y > 1 => pl.top = 0) /\ (pl.rect.y = 1 => pl.rect.h = rows - pl.top)

KittyHas ==
  /\ IsFiniteSet(DOMAIN kimg) /\ DOMAIN painted \subseteq DOMAIN kimg
  /\ \A x \in DOMAIN kimg :
       /\ kimg[x] \in 1..Cardinality(DOMAIN kimg)
       /\ kimg[x] \in DOMAIN term.stored /\ term.stored[kimg[x]] = x
  /\ DOMAIN term.placed = {kimg[x] : x \in DOMAIN painted}
  /\ \A x \in DOMAIN painted :
       /\ term.placed[kimg[x]] \in Spots /\ term.placed[kimg[x]].rect = painted[x]
       /\ x[1] = content.gen => content.rows[x[2]] > 0 /\ Fits(term.placed[kimg[x]], content.rows[x[2]])

SixelHas ==
  /\ \A q \in term.pixels : q.pic \in DOMAIN painted /\ q.rect = painted[q.pic]
  /\ look.hold => term.pixels = {}

ImgInv ==
  /\ ImgTypes /\ Seated /\ Unused
  /\ (proto = "kitty" => KittyHas) /\ (proto = "sixel" => SixelHas)
  /\ Pics!PicturesAgree

-----------------------------------------------------------------------------
(* The layout. *)

LEMMA PicsCounts == \A S : Pics!Cardinality(S) = Cardinality(S)
  BY Zenon DEF Pics!Cardinality, Cardinality

LEMMA PicturesAre ==
  /\ Pics!Pictures \subseteq Nat \ {0} /\ IsFiniteSet(Pics!Pictures)
  /\ Len(Items) \in Nat /\ DOMAIN Items = 1..Len(Items)
  /\ \A i \in Pics!Pictures : Size[Items[i]] \in Nat
<1>1. Items \in Seq(STRING) /\ \A i \in DOMAIN Items : Items[i] # "" => Size[Items[i]] \in Nat
  BY TerminalAssumption
<1>2. Len(Items) \in Nat /\ DOMAIN Items = 1..Len(Items)
  BY <1>1, LenProperties
<1>3. Pics!Pictures \in SUBSET (1..Len(Items))
  BY <1>2 DEF Pics!Pictures
<1>4. IsFiniteSet(1..Len(Items))
  <2>1. 1 \in Int /\ Len(Items) \in Int
    BY <1>2
  <2> QED
    BY <2>1, FS_Interval
<1>5. IsFiniteSet(Pics!Pictures)
  BY <1>3, <1>4, FS_Subset
<1>6. Pics!Pictures \subseteq Nat \ {0}
  BY <1>2, <1>3
<1> QED
  BY <1>1, <1>2, <1>5, <1>6 DEF Pics!Pictures

LEMMA AboveIs ==
  ASSUME NEW k \in Contents, NEW i \in Nat
  PROVE  Pics!Above(k, i) \in Nat
<1> DEFINE B(j) == {j} \X (1..Pics!Rows(k, j))
           S == {B(j) : j \in 1..(i - 1)}
<1>1. \A j \in 1..(i - 1) : Pics!Rows(k, j) \in Nat
  BY DEF Pics!Rows, Pics!Expanded, Contents
<1>2. \A j \in 1..(i - 1) : IsFiniteSet(B(j))
  <2> TAKE j \in 1..(i - 1)
  <2>1. IsFiniteSet({j})
    BY FS_Singleton
  <2>2. Pics!Rows(k, j) \in Int
    BY <1>1
  <2>3. IsFiniteSet(1..Pics!Rows(k, j))
    BY <2>2, FS_Interval
  <2> QED
    BY <2>1, <2>3, FS_Product
<1>3. IsFiniteSet(1..(i - 1))
  BY FS_Interval
<1>4. IsFiniteSet(S)
  <2> DEFINE f == [j \in 1..(i - 1) |-> B(j)]
  <2>1. f \in Surjection(1..(i - 1), S)
    <3> HIDE DEF B
    <3> QED
      BY DEF Surjection
  <2> HIDE DEF f, B, S
  <2> QED
    BY <1>3, <2>1, FS_Surjection
<1>5. IsFiniteSet(UNION S)
  <2>1. \A T \in S : IsFiniteSet(T)
    BY <1>2
  <2> HIDE DEF S
  <2> QED
    BY <1>4, <2>1, FS_UNION
<1>6. Cardinality(UNION S) \in Nat
  <2> HIDE DEF S
  <2> QED
    BY <1>5, FS_CardinalityType
<1>7. Pics!Above(k, i) = Cardinality(UNION S)
  BY PicsCounts DEF Pics!Above
<1> QED
  BY <1>6, <1>7

\* an offset that was put in range stays where it is
LEMMA InRange ==
  ASSUME NEW k \in Contents, NEW o \in Int, NEW h \in Nat
  PROVE  /\ Pics!Clamped(k, o, h) \in Nat
         /\ Pics!Clamped(k, Pics!Clamped(k, o, h), h) = Pics!Clamped(k, o, h)
<1>1. Pics!Total(k) \in Nat
  <2>1. Len(Items) + 1 \in Nat
    BY PicturesAre
  <2> QED
    BY <2>1, AboveIs DEF Pics!Total
<1> DEFINE t == Pics!Total(k)
<1>2. \A o1 \in Int : Pics!Clamped(k, o1, h) = IF (IF o1 < t - h THEN o1 ELSE t - h) > 0
                                             THEN (IF o1 < t - h THEN o1 ELSE t - h) ELSE 0
  BY DEF Pics!Clamped, Pics!Max0, Pics!Min2
<1> HIDE DEF t
<1>3. t \in Nat
  BY <1>1 DEF t
<1>4. \A o1 \in Int : Pics!Clamped(k, o1, h) \in Nat
  BY <1>2, <1>3
<1>5. Pics!Clamped(k, o, h) \in Int
  BY <1>4
<1> DEFINE d == Pics!Clamped(k, o, h)
<1>6. Pics!Clamped(k, d, h) = IF (IF d < t - h THEN d ELSE t - h) > 0 THEN (IF d < t - h THEN d ELSE t - h) ELSE 0
  BY <1>2, <1>5
<1>7. d = IF (IF o < t - h THEN o ELSE t - h) > 0 THEN (IF o < t - h THEN o ELSE t - h) ELSE 0
  BY <1>2
<1> HIDE DEF d
<1>8. Pics!Clamped(k, d, h) = d
  BY <1>3, <1>6, <1>7
<1> QED
  BY <1>4, <1>8 DEF d

\* the rows of the content decide where everything is
LEMMA SameRows ==
  ASSUME NEW j, NEW k, j.images = k.images, j.rows = k.rows
  PROVE  /\ \A i : Pics!Above(j, i) = Pics!Above(k, i)
         /\ \A o, h : Pics!Clamped(j, o, h) = Pics!Clamped(k, o, h)
<1>1. \A i : Pics!Rows(j, i) = Pics!Rows(k, i)
  BY DEF Pics!Rows, Pics!Expanded
<1>2. \A i : Pics!Above(j, i) = Pics!Above(k, i)
  <2> TAKE i
  <2> DEFINE B(n) == {n} \X (1..Pics!Rows(j, n))
             D(n) == {n} \X (1..Pics!Rows(k, n))
  <2>1. \A n : B(n) = D(n)
    BY <1>1
  <2>2. {B(n) : n \in 1..(i - 1)} = {D(n) : n \in 1..(i - 1)}
    <3> HIDE DEF B, D
    <3> QED
      BY <2>1
  <2> QED
    BY <2>2, Zenon DEF Pics!Above
<1> QED
  BY <1>2, Zenon DEF Pics!Clamped, Pics!Total

LEMMA RelayoutIs ==
  ASSUME NEW k \in Contents, NEW u \in Looks
  PROVE  /\ Pics!Relayout(u, k) = [u EXCEPT !.offset = Pics!Clamped(k, u.offset, u.height)]
         /\ Pics!Relayout(u, k) \in Looks
         /\ Pics!Relayout(u, k).height = u.height /\ Pics!Relayout(u, k).mode = u.mode
         /\ Pics!Relayout(u, k).hold = u.hold
         /\ Pics!Relayout(u, k).offset = Pics!Clamped(k, Pics!Relayout(u, k).offset, u.height)
         /\ Pics!Relayout(u, k).offset = Pics!Clamped(k, u.offset, u.height)
<1>1. Pics!Relayout(u, k) = [u EXCEPT !.offset = Pics!Clamped(k, u.offset, u.height)]
  BY DEF Pics!Relayout
<1>2. u.offset \in Nat /\ u.height \in Nat
  BY DEF Looks
<1>3. /\ Pics!Clamped(k, u.offset, u.height) \in Nat
      /\ Pics!Clamped(k, Pics!Clamped(k, u.offset, u.height), u.height) = Pics!Clamped(k, u.offset, u.height)
  <2>1. u.offset \in Int
    BY <1>2
  <2> QED
    BY <1>2, <2>1, InRange
<1> DEFINE o == Pics!Clamped(k, u.offset, u.height)
<1>4. o \in Nat
  BY <1>3
<1> HIDE DEF o
<1>5. [u EXCEPT !.offset = o] \in Looks
  BY <1>4 DEF Looks
<1>6. [u EXCEPT !.offset = o].height = u.height /\ [u EXCEPT !.offset = o].mode = u.mode
      /\ [u EXCEPT !.offset = o].hold = u.hold /\ [u EXCEPT !.offset = o].offset = o
  BY DEF Looks
<1> QED
  BY <1>1, <1>3, <1>5, <1>6 DEF o

\* decoding gives rows to what is due, and the window's height at most
LEMMA DecodedIs ==
  ASSUME NEW k \in Contents, NEW h \in Nat, NEW due \in SUBSET Pics!Pictures,
         \A i \in due : k.rows[i] = 0, \A i \in Pics!Pictures : k.rows[i] <= h
  PROVE  /\ Pics!Decoded(k, due, h) \in Contents
         /\ Pics!Decoded(k, due, h).gen = k.gen /\ Pics!Decoded(k, due, h).images = k.images
         /\ \A i \in Pics!Pictures : /\ Pics!Decoded(k, due, h).rows[i] <= h
                                     /\ k.rows[i] > 0 => Pics!Decoded(k, due, h).rows[i] = k.rows[i]
         /\ due = {} => Pics!Decoded(k, due, h) = k
<1>1. \A i \in Pics!Pictures : Size[Items[i]] \in Nat /\ k.rows[i] \in Nat
  BY PicturesAre DEF Contents
<1> DEFINE r == [i \in DOMAIN k.rows |-> IF i \in due THEN Pics!Min2(Size[Items[i]], h) ELSE k.rows[i]]
<1>2. Pics!Decoded(k, due, h) = [k EXCEPT !.rows = r]
  BY DEF Pics!Decoded
<1>3. DOMAIN k.rows = Pics!Pictures
  BY DEF Contents
<1>4. \A i \in Pics!Pictures : r[i] \in Nat /\ r[i] <= h /\ (k.rows[i] > 0 => r[i] = k.rows[i])
  <2> TAKE i \in Pics!Pictures
  <2>1. r[i] = IF i \in due THEN Pics!Min2(Size[Items[i]], h) ELSE k.rows[i]
    BY <1>3
  <2>2. Size[Items[i]] \in Nat /\ k.rows[i] \in Nat /\ k.rows[i] <= h /\ (i \in due => k.rows[i] = 0)
    BY <1>1
  <2> HIDE DEF r
  <2> QED
    BY <2>1, <2>2 DEF Pics!Min2
<1>5. r \in [Pics!Pictures -> Nat]
  <2>1. r = [i \in Pics!Pictures |-> r[i]]
    BY <1>3
  <2> HIDE DEF r
  <2> QED
    BY <1>4, <2>1
<1>6. due = {} => r = k.rows
  BY <1>3 DEF Contents
<1> HIDE DEF r
<1>7. [k EXCEPT !.rows = r] \in Contents
  BY <1>5 DEF Contents
<1>8. [k EXCEPT !.rows = r].gen = k.gen /\ [k EXCEPT !.rows = r].images = k.images /\ [k EXCEPT !.rows = r].rows = r
  BY DEF Contents
<1>9. r = k.rows => [k EXCEPT !.rows = r] = k
  BY DEF Contents
<1> QED
  BY <1>2, <1>4, <1>6, <1>7, <1>8, <1>9

-----------------------------------------------------------------------------
(* What an action leaves as it was. *)

\* a decoded picture keeps its rows, or the content is a new one
KeepsRows ==
  \/ /\ content'.gen = content.gen
     /\ \A i \in Pics!Pictures : content.rows[i] > 0 => content'.rows[i] = content.rows[i]
  \/ \A x \in DOMAIN painted \cup DOMAIN kimg : x[1] # content'.gen

TtyTypes ==
  /\ proto \in {"kitty", "sixel"}
  /\ DOMAIN painted \subseteq Objects /\ DOMAIN kimg \subseteq Objects
  /\ painted \in [DOMAIN painted -> Rects]
  /\ term = [stored |-> term.stored, placed |-> term.placed, pixels |-> term.pixels]

\* the terminal's side of the invariant
TtyHas == TtyTypes /\ (proto = "kitty" => KittyHas) /\ (proto = "sixel" => SixelHas)

LEMMA TtyKept ==
  ASSUME ImgInv, proto' = proto, painted' = painted, kimg' = kimg, term' = term,
         KeepsRows, look'.hold => look.hold
  PROVE  TtyHas'
<1>1. TtyTypes'
  BY DEF ImgInv, ImgTypes, TtyTypes
<1>2. proto = "kitty" => KittyHas'
  <2> SUFFICES ASSUME proto = "kitty" PROVE KittyHas'
    OBVIOUS
  <2>1. KittyHas
    BY DEF ImgInv
  <2>2. ASSUME NEW x \in DOMAIN painted, x[1] = content'.gen
        PROVE  content'.rows[x[2]] > 0 /\ Fits(term.placed[kimg[x]], content'.rows[x[2]])
    <3>1. x[2] \in Pics!Pictures
      BY DEF ImgInv, ImgTypes, Objects
    <3>2. content'.gen = content.gen /\ (content.rows[x[2]] > 0 => content'.rows[x[2]] = content.rows[x[2]])
      BY <2>2, <3>1 DEF KeepsRows
    <3>3. content.rows[x[2]] > 0 /\ Fits(term.placed[kimg[x]], content.rows[x[2]])
      BY <2>1, <2>2, <3>2 DEF KittyHas
    <3> QED
      BY <3>2, <3>3
  <2> QED
    BY <2>1, <2>2 DEF KittyHas
<1>3. proto = "sixel" => SixelHas'
  BY DEF ImgInv, SixelHas
<1> QED
  BY <1>1, <1>2, <1>3 DEF TtyHas

LEMMA TtyCleared ==
  ASSUME ImgInv, proto' = proto, Pics!ClearRects
  PROVE  TtyHas' /\ DOMAIN painted' = {} /\ DOMAIN kimg' = {} /\ (proto = "sixel" => term'.pixels = {})
<1>1. painted' = <<>> /\ kimg' = <<>>
      /\ term' = IF proto = "kitty" THEN Pics!FreeAll(term) ELSE Pics!Erase(term, Pics!RangeOf(painted))
  BY DEF Pics!ClearRects
<1>2. DOMAIN painted' = {} /\ DOMAIN kimg' = {}
  BY <1>1
<1>3. term = [stored |-> term.stored, placed |-> term.placed, pixels |-> term.pixels] /\ proto \in {"kitty", "sixel"}
  BY DEF ImgInv, ImgTypes
<1>4. proto = "kitty" => term' = [stored |-> <<>>, placed |-> <<>>, pixels |-> term.pixels]
  BY <1>1, <1>3 DEF Pics!FreeAll
<1>5. proto = "sixel" => term' = [stored |-> term.stored, placed |-> term.placed, pixels |-> {}]
  <2> SUFFICES ASSUME proto = "sixel" PROVE term' = [stored |-> term.stored, placed |-> term.placed, pixels |-> {}]
    OBVIOUS
  <2>1. {x \in term.pixels : x.rect \notin Pics!RangeOf(painted)} = {}
    BY DEF ImgInv, SixelHas, Pics!RangeOf
  <2>2. term' = [term EXCEPT !.pixels = {x \in @ : x.rect \notin Pics!RangeOf(painted)}]
    BY <1>1 DEF Pics!Erase
  <2> QED
    BY <1>3, <2>1, <2>2
<1>6. TtyTypes'
  <2>1. painted' \in [DOMAIN painted' -> Rects]
    BY <1>1, <1>2
  <2>2. term' = [stored |-> term'.stored, placed |-> term'.placed, pixels |-> term'.pixels]
    BY <1>3, <1>4, <1>5
  <2> QED
    BY <1>2, <1>3, <2>1, <2>2 DEF TtyTypes
<1>7. proto = "kitty" => KittyHas'
  <2>1. IsFiniteSet(DOMAIN kimg')
    BY <1>2, FS_EmptySet
  <2> SUFFICES ASSUME proto = "kitty" PROVE KittyHas'
    OBVIOUS
  <2>2. DOMAIN term'.placed = {}
    BY <1>4
  <2> QED
    BY <1>2, <2>1, <2>2 DEF KittyHas
<1>8. proto = "sixel" => SixelHas'
  BY <1>5 DEF SixelHas
<1> QED
  BY <1>2, <1>5, <1>6, <1>7, <1>8 DEF TtyHas

\* what is asked for is numbered anew; what was painted or asked for is not
LEMMA UnusedKept ==
  ASSUME ImgInv, content'.gen = content.gen,
         \A x \in DOMAIN painted' \cup DOMAIN kimg' : x \in DOMAIN painted \cup DOMAIN kimg \/ x[1] = content.gen,
         \/ UNCHANGED nextLoad /\ layouts' \subseteq layouts
         \/ \E on \in BOOLEAN, refine \in BOOLEAN : Pics!Ask(on, refine)
  PROVE  Unused' /\ nextLoad' \in Nat /\ layouts' \subseteq Layouts
<1>1. /\ content.gen \in Nat /\ nextLoad \in Nat /\ layouts \subseteq Layouts /\ Unused
      /\ \A x \in DOMAIN painted \cup DOMAIN kimg : x[1] \in Nat
  BY DEF ImgInv, ImgTypes, Contents, Objects
<1>2. CASE UNCHANGED nextLoad /\ layouts' \subseteq layouts
  BY <1>1, <1>2 DEF Unused
<1>3. CASE \E on \in BOOLEAN, refine \in BOOLEAN : Pics!Ask(on, refine)
  <2>1. PICK on \in BOOLEAN, refine \in BOOLEAN : Pics!Ask(on, refine)
    BY <1>3
  <2> DEFINE a == [gen |-> nextLoad, on |-> on, refine |-> refine]
  <2>2. nextLoad' = nextLoad + 1 /\ layouts' = layouts \cup {a}
    BY <2>1 DEF Pics!Ask
  <2>3. a \in Layouts /\ a.gen = nextLoad
    BY <1>1 DEF Layouts
  <2>4. \A l \in layouts : l.gen \in Nat /\ l.gen < nextLoad
    BY <1>1 DEF Unused, Layouts
  <2> HIDE DEF a
  <2>5. content'.gen < nextLoad' /\ \A x \in DOMAIN painted' \cup DOMAIN kimg' : x[1] < nextLoad /\ x[1] < nextLoad'
    BY <1>1, <2>2 DEF Unused
  <2>6. ASSUME NEW l \in layouts'
        PROVE  /\ l.gen < nextLoad' /\ l.gen # content'.gen
               /\ \A x \in DOMAIN painted' \cup DOMAIN kimg' : x[1] # l.gen
               /\ \A m \in layouts' : l.gen = m.gen => l = m
    <3>1. CASE l = a
      BY <1>1, <2>2, <2>3, <2>4, <2>5, <3>1 DEF Unused
    <3>2. CASE l \in layouts
      <4>1. l.gen < nextLoad /\ l.gen # content.gen /\ \A x \in DOMAIN painted \cup DOMAIN kimg : x[1] # l.gen
        BY <1>1, <3>2 DEF Unused
      <4>2. \A m \in layouts' : l.gen = m.gen => l = m
        BY <1>1, <2>2, <2>3, <2>4, <3>2 DEF Unused
      <4> QED
        BY <1>1, <2>2, <2>4, <3>2, <4>1, <4>2
    <3> QED
      BY <2>2, <3>1, <3>2
  <2> QED
    BY <1>1, <2>2, <2>3, <2>5, <2>6 DEF Unused
<1> QED
  BY <1>2, <1>3

-----------------------------------------------------------------------------
(* A frame. *)

LEMMA PaintsSame ==
  ASSUME NEW u, NEW v, NEW k, u.height = v.height, u.offset = v.offset, u.mode = v.mode
  PROVE  Pics!PaintsOf(u, k) = Pics!PaintsOf(v, k)
<1>1. Pics!Paintable(u, k) = Pics!Paintable(v, k)
  BY DEF Pics!Paintable, Pics!Live, Pics!Visible
<1>2. \A i : Pics!Rect(u, k, i) = Pics!Rect(v, k, i) /\ Pics!CropOf(u, k, i) = Pics!CropOf(v, k, i)
  BY DEF Pics!Rect, Pics!CropOf
<1> QED
  BY <1>1, <1>2 DEF Pics!PaintsOf

\* what a frame paints: decoded pictures of the content, each where it fits
LEMMA PaintsAre ==
  ASSUME NEW k \in Contents, NEW u \in Looks, \A i \in Pics!Pictures : k.rows[i] <= u.height
  PROVE  LET paint == Pics!PaintsOf(u, k)
         IN /\ DOMAIN paint = {<<k.gen, i>> : i \in Pics!Paintable(u, k)}
            /\ DOMAIN paint \subseteq Objects
            /\ \A x \in DOMAIN paint : /\ x = <<k.gen, x[2]>> /\ x[1] = k.gen /\ x[2] \in Pics!Pictures
                                       /\ paint[x] = [rect |-> paint[x].rect, top |-> paint[x].top]
                                       /\ paint[x] \in Spots /\ paint[x].rect.y > 0
                                       /\ k.rows[x[2]] > 0 /\ Fits(paint[x], k.rows[x[2]])
<1> DEFINE paint == Pics!PaintsOf(u, k)
           D == {<<k.gen, i>> : i \in Pics!Paintable(u, k)}
<1>1. paint = [x \in D |-> [rect |-> Pics!Rect(u, k, x[2]), top |-> Pics!CropOf(u, k, x[2])]]
  BY DEF Pics!PaintsOf
<1>2. \A i \in Pics!Paintable(u, k) : i \in Pics!Pictures /\ k.rows[i] > 0
  BY DEF Pics!Paintable, Pics!Visible
<1>3. \A x \in D : x = <<k.gen, x[2]>> /\ x[1] = k.gen /\ x[2] \in Pics!Pictures /\ k.rows[x[2]] > 0
  BY <1>2
<1>4. D \subseteq Objects
  BY <1>2 DEF Objects, Contents
<1>5. ASSUME NEW i \in Pics!Pictures, k.rows[i] > 0
      PROVE  LET pl == [rect |-> Pics!Rect(u, k, i), top |-> Pics!CropOf(u, k, i)]
             IN pl \in Spots /\ pl.rect.y > 0 /\ Fits(pl, k.rows[i])
  <2>1. i \in Nat /\ k.rows[i] \in Nat /\ u.height \in Nat /\ u.offset \in Nat /\ k.rows[i] <= u.height
    BY PicturesAre DEF Contents, Looks
  <2>2. Pics!Above(k, i) \in Nat
    BY <2>1, AboveIs
  <2> DEFINE a == Pics!Above(k, i)
             top == a - u.offset
             yy == 1 + Pics!Max0(top)
             hh == Pics!Min2(k.rows[i], u.height - top) - Pics!Max0(0 - top)
             cr == Pics!Max0(u.offset - a)
  <2>3. Pics!Rect(u, k, i) = [y |-> yy, h |-> hh] /\ Pics!CropOf(u, k, i) = cr
    BY DEF Pics!Rect, Pics!CropOf
  <2> HIDE DEF a
  <2>4. a \in Nat
    BY <2>2 DEF a
  <2>5. yy \in Nat /\ hh \in Int /\ cr \in Nat /\ yy > 0 /\ (yy > 1 => cr = 0) /\ (yy = 1 => hh = k.rows[i] - cr)
    BY <2>1, <2>4 DEF Pics!Max0, Pics!Min2
  <2> HIDE DEF yy, hh, cr
  <2> QED
    BY <2>3, <2>5 DEF Spots, Rects, Fits
<1> HIDE DEF D
<1>6. \A x \in D : /\ paint[x] = [rect |-> Pics!Rect(u, k, x[2]), top |-> Pics!CropOf(u, k, x[2])]
                   /\ paint[x] = [rect |-> paint[x].rect, top |-> paint[x].top]
  BY <1>1
<1>7. DOMAIN paint = D
  BY <1>1
<1> HIDE DEF paint
<1>8. \A x \in D : paint[x] \in Spots /\ paint[x].rect.y > 0 /\ Fits(paint[x], k.rows[x[2]])
  BY <1>3, <1>5, <1>6
<1> QED
  BY <1>3, <1>4, <1>6, <1>7, <1>8 DEF D, paint

\* the text's decoding keeps what is decoded; a frame that decodes nothing
\* leaves content and place as they are
LEMMA TextKeeps ==
  ASSUME ImgInv, NEW u \in Looks, u.height = look.height, u.offset = look.offset, u.mode = look.mode, Pics!Text(u)
  PROVE  /\ content' \in Contents /\ content'.gen = content.gen
         /\ \A i \in Pics!Pictures : content.rows[i] > 0 => content'.rows[i] = content.rows[i]
         /\ look' \in Looks /\ look'.hold = u.hold /\ Seated'
         /\ fresh' => Pics!PaintsOf(look', content') = Pics!PaintsOf(look, content)
<1> DEFINE due == Pics!DecodeDue(u, content)
<1>1. content' = Pics!Decoded(content, due, u.height) /\ look' = Pics!Relayout(u, content') /\ fresh' = (due = {})
  BY DEF Pics!Text
<1>2. content \in Contents /\ Seated /\ u.height \in Nat
  BY DEF ImgInv, ImgTypes, Looks
<1>3. due \in SUBSET Pics!Pictures /\ \A i \in due : content.rows[i] = 0
  BY DEF Pics!DecodeDue, Pics!Visible
<1>4. \A i \in Pics!Pictures : content.rows[i] <= u.height
  BY <1>2 DEF Seated
<1> HIDE DEF due
<1>5. /\ content' \in Contents /\ content'.gen = content.gen
      /\ \A i \in Pics!Pictures : /\ content'.rows[i] <= u.height
                                  /\ content.rows[i] > 0 => content'.rows[i] = content.rows[i]
      /\ due = {} => content' = content
  BY <1>1, <1>2, <1>3, <1>4, DecodedIs
<1>6. /\ look' \in Looks /\ look'.height = u.height /\ look'.mode = u.mode /\ look'.hold = u.hold
      /\ look'.offset = Pics!Clamped(content', look'.offset, u.height)
      /\ look'.offset = Pics!Clamped(content', u.offset, u.height)
  BY <1>1, <1>5, RelayoutIs
<1>7. Seated'
  BY <1>5, <1>6 DEF Seated
<1>8. due = {} => Pics!PaintsOf(look', content') = Pics!PaintsOf(look, content)
  <2> SUFFICES ASSUME due = {} PROVE Pics!PaintsOf(look', content') = Pics!PaintsOf(look, content)
    OBVIOUS
  <2>1. content' = content
    BY <1>5
  <2>2. look'.offset = look.offset /\ look'.height = look.height /\ look'.mode = look.mode
    BY <1>2, <1>6, <2>1 DEF Seated
  <2>3. Pics!PaintsOf(look', content) = Pics!PaintsOf(look, content)
    BY <2>2, PaintsSame
  <2> QED
    BY <2>1, <2>3
<1> QED
  BY <1>1, <1>5, <1>6, <1>7, <1>8

\* new numbers follow the old ones, in the order of the pictures
LEMMA NewIdsAre ==
  ASSUME IsFiniteSet(DOMAIN kimg), NEW new, IsFiniteSet(new), NEW g,
         \A x \in new : x = <<g, x[2]>> /\ x[2] \in Nat
  PROVE  LET ids == Pics!NewIds(new)
             n == Cardinality(DOMAIN kimg)
         IN /\ DOMAIN ids = new /\ n \in Nat /\ Cardinality(new) \in Nat
            /\ \A x \in new : ids[x] \in Nat /\ ids[x] > n /\ ids[x] <= n + Cardinality(new)
            /\ \A x, y \in new : ids[x] = ids[y] => x = y
<1> DEFINE ids == Pics!NewIds(new)
           n == Cardinality(DOMAIN kimg)
           R(x) == {y \in new : y[2] <= x[2]}
           r(x) == Cardinality(R(x))
<1>1. n \in Nat /\ Cardinality(new) \in Nat
  BY FS_CardinalityType
<1>2. ids = [x \in new |-> n + r(x)]
  BY PicsCounts, Zenon DEF Pics!NewIds
<1>3. \A x \in new : IsFiniteSet(R(x)) /\ r(x) \in Nat /\ r(x) <= Cardinality(new) /\ r(x) > 0
  <2> TAKE x \in new
  <2>1. R(x) \in SUBSET new
    OBVIOUS
  <2>2. IsFiniteSet(R(x)) /\ r(x) <= Cardinality(new)
    <3> HIDE DEF R
    <3> QED
      BY <2>1, FS_Subset
  <2>3. x \in R(x)
    OBVIOUS
  <2>4. r(x) \in Nat /\ r(x) # 0
    <3> HIDE DEF R
    <3> QED
      BY <2>2, <2>3, FS_CardinalityType, FS_EmptySet
  <2> HIDE DEF r
  <2> QED
    BY <2>2, <2>4
<1>4. \A x, y \in new : x[2] < y[2] => r(x) < r(y)
  <2> SUFFICES ASSUME NEW x \in new, NEW y \in new, x[2] < y[2] PROVE r(x) < r(y)
    OBVIOUS
  <2>1. x[2] \in Nat /\ y[2] \in Nat
    OBVIOUS
  <2>2. R(x) \in SUBSET R(y) /\ y \in R(y) /\ y \notin R(x)
    BY <2>1
  <2>3. IsFiniteSet(R(y)) /\ r(x) \in Nat /\ r(y) \in Nat
    BY <1>3
  <2>4. r(x) <= r(y) /\ r(x) # r(y)
    <3> HIDE DEF R
    <3> QED
      BY <2>2, <2>3, FS_Subset
  <2> HIDE DEF r
  <2> QED
    BY <2>3, <2>4
<1> HIDE DEF r
<1>5. \A x, y \in new : r(x) = r(y) => x = y
  <2> SUFFICES ASSUME NEW x \in new, NEW y \in new, r(x) = r(y) PROVE x = y
    OBVIOUS
  <2>1. x[2] \in Nat /\ y[2] \in Nat /\ r(x) \in Nat /\ x = <<g, x[2]>> /\ y = <<g, y[2]>>
    BY <1>3
  <2>2. (x[2] < y[2] => r(x) < r(y)) /\ (y[2] < x[2] => r(y) < r(x))
    BY <1>4
  <2> DEFINE a == r(x)
  <2>3. a \in Nat /\ a = r(y) /\ (x[2] < y[2] => a < a) /\ (y[2] < x[2] => a < a)
    BY <2>1, <2>2, Zenon
  <2> HIDE DEF a
  <2>4. x[2] = y[2]
    BY <2>1, <2>3
  <2> QED
    BY <2>1, <2>4
<1>6. \A x \in new : ids[x] = n + r(x)
  BY <1>2
<1>7. DOMAIN ids = new
  BY <1>2
<1> HIDE DEF ids, n
<1>8. \A x \in new : ids[x] \in Nat /\ ids[x] > n /\ ids[x] <= n + Cardinality(new)
  <2> TAKE x \in new
  <2> DEFINE a == r(x)
  <2>1. ids[x] = n + a /\ a \in Nat /\ a <= Cardinality(new) /\ a > 0
    BY <1>3, <1>6, Zenon
  <2> HIDE DEF a
  <2> QED
    BY <1>1, <2>1 DEF n
<1>9. \A x, y \in new : ids[x] = ids[y] => x = y
  <2> SUFFICES ASSUME NEW x \in new, NEW y \in new, ids[x] = ids[y] PROVE x = y
    OBVIOUS
  <2> DEFINE a == r(x)
             b == r(y)
  <2>1. ids[x] = n + a /\ ids[y] = n + b /\ a \in Nat /\ b \in Nat /\ (a = b => x = y)
    BY <1>3, <1>5, <1>6, Zenon
  <2> HIDE DEF a, b
  <2>2. n \in Nat
    BY <1>1 DEF n
  <2>3. n + a = n + b
    BY <2>1
  <2>4. a = b
    BY <2>1, <2>2, <2>3
  <2> QED
    BY <2>1, <2>4
<1> QED
  BY <1>1, <1>7, <1>8, <1>9 DEF ids, n

\* kitty: one frame puts every picture of the window at its place, and no other
LEMMA KittyFrame ==
  ASSUME ImgInv, proto = "kitty", proto' = proto, Pics!Kitty(Pics!PaintsOf(look, content)), Pics!Text(look)
  PROVE  TtyHas' /\ Pics!PicturesAgree'
<1> DEFINE paint == Pics!PaintsOf(look, content)
           D == DOMAIN paint
           new == D \ DOMAIN kimg
           ids == Pics!NewIds(new)
           n == Cardinality(DOMAIN kimg)
           due == Pics!Moved(paint)
<1>1. /\ content \in Contents /\ look \in Looks /\ KittyHas /\ TtyTypes
      /\ \A i \in Pics!Pictures : content.rows[i] <= look.height
  BY DEF ImgInv, ImgTypes, Seated, TtyTypes
<1>2. /\ D = {<<content.gen, i>> : i \in Pics!Paintable(look, content)} /\ D \subseteq Objects
      /\ \A x \in D : /\ x = <<content.gen, x[2]>> /\ x[1] = content.gen /\ x[2] \in Pics!Pictures
                      /\ paint[x] \in Spots /\ paint[x].rect.y > 0
                      /\ content.rows[x[2]] > 0 /\ Fits(paint[x], content.rows[x[2]])
  <2> HIDE DEF paint
  <2> QED
    BY <1>1, PaintsAre DEF paint
<1>3. /\ painted' = [x \in D |-> paint[x].rect] /\ kimg' = Pics!Over(kimg, ids)
      /\ term' = Pics!Place(Pics!Transmit(Pics!Unplace(term, DOMAIN painted \ D), ids), Pics!Over(kimg, ids), paint, due)
  BY DEF Pics!Kitty, Pics!PaintKitty
<1>4. due = {x \in D : x \notin DOMAIN painted \/ painted[x] # paint[x].rect}
  BY DEF Pics!Moved
<1> HIDE DEF paint, due
<1>5. IsFiniteSet(D)
  <2> DEFINE P == Pics!Paintable(look, content)
             f == [i \in P |-> <<content.gen, i>>]
  <2>1. P \in SUBSET Pics!Pictures
    BY DEF Pics!Paintable, Pics!Visible
  <2>2. IsFiniteSet(P)
    BY <2>1, PicturesAre, FS_Subset
  <2> HIDE DEF P
  <2>3. f \in Surjection(P, D)
    BY <1>2 DEF Surjection, P
  <2> HIDE DEF f
  <2> QED
    BY <2>2, <2>3, FS_Surjection
<1>6. IsFiniteSet(new) /\ \A x \in new : x = <<content.gen, x[2]>> /\ x[2] \in Nat
  BY <1>2, <1>5, FS_Subset, PicturesAre
<1>7. IsFiniteSet(DOMAIN kimg)
  BY <1>1 DEF KittyHas
<1> HIDE DEF new
<1>8. /\ DOMAIN ids = new /\ n \in Nat /\ Cardinality(new) \in Nat
      /\ \A x \in new : ids[x] \in Nat /\ ids[x] > n /\ ids[x] <= n + Cardinality(new)
      /\ \A x, y \in new : ids[x] = ids[y] => x = y
  BY <1>6, <1>7, NewIdsAre
<1> HIDE DEF ids
<1>9. \A x \in new : x \notin DOMAIN kimg
  BY DEF new
<1>10. /\ DOMAIN kimg' = DOMAIN kimg \cup new
       /\ \A x \in DOMAIN kimg : kimg'[x] = kimg[x]
       /\ \A x \in new : kimg'[x] = ids[x]
  BY <1>3, <1>8, <1>9 DEF Pics!Over
<1>11. IsFiniteSet(DOMAIN kimg') /\ Cardinality(DOMAIN kimg') = n + Cardinality(new)
  <2>1. DOMAIN kimg \cap new = {}
    BY <1>9
  <2>2. Cardinality(DOMAIN kimg \cap new) = 0
    BY <2>1, FS_EmptySet
  <2>3. IsFiniteSet(DOMAIN kimg \cup new)
        /\ Cardinality(DOMAIN kimg \cup new) = n + Cardinality(new) - Cardinality(DOMAIN kimg \cap new)
    BY <1>6, <1>7, FS_Union
  <2> QED
    BY <1>8, <1>10, <2>2, <2>3
<1>12. \A x \in DOMAIN kimg : /\ kimg[x] \in Nat /\ kimg[x] > 0 /\ kimg[x] <= n
                              /\ kimg[x] \in DOMAIN term.stored /\ term.stored[kimg[x]] = x
  BY <1>1, <1>8 DEF KittyHas
<1> HIDE DEF n
<1> DEFINE gone == DOMAIN painted \ D
           t1 == Pics!Unplace(term, gone)
           t2 == Pics!Transmit(t1, ids)
           sto == Pics!Over(term.stored, [m \in Pics!RangeOf(ids) |-> CHOOSE x \in DOMAIN ids : ids[x] = m])
           pla1 == Pics!Without(term.placed, {kimg[x] : x \in gone})
           put == [m \in {kimg'[x] : x \in due} |-> paint[CHOOSE x \in due : kimg'[x] = m]]
           pla == Pics!Over(pla1, put)
<1>13. term' = [stored |-> sto, placed |-> pla, pixels |-> term.pixels]
  <2>1. term = [stored |-> term.stored, placed |-> term.placed, pixels |-> term.pixels]
    BY <1>1 DEF TtyTypes
  <2>2. t1 = [term EXCEPT !.placed = pla1]
    BY DEF Pics!Unplace
  <2>3. t2 = [t1 EXCEPT !.stored = Pics!Over(t1.stored, [m \in Pics!RangeOf(ids) |-> CHOOSE x \in DOMAIN ids : ids[x] = m])]
    BY DEF Pics!Transmit
  <2>4. term' = [t2 EXCEPT !.placed = Pics!Over(t2.placed, put)]
    BY <1>3 DEF Pics!Place
  <2> HIDE DEF pla1, put, t1, t2
  <2>5. t1 = [stored |-> term.stored, placed |-> pla1, pixels |-> term.pixels]
    BY <2>1, <2>2
  <2>6. t2 = [stored |-> sto, placed |-> pla1, pixels |-> term.pixels]
    BY <2>3, <2>5
  <2> QED
    BY <2>4, <2>6
<1>14. \A x \in DOMAIN kimg' : kimg'[x] \in DOMAIN sto /\ sto[kimg'[x]] = x
  <2> DEFINE tr == [m \in Pics!RangeOf(ids) |-> CHOOSE x \in DOMAIN ids : ids[x] = m]
  <2>1. \A x \in new : ids[x] \in DOMAIN tr /\ tr[ids[x]] = x
    BY <1>8 DEF Pics!RangeOf
  <2>2. \A m \in DOMAIN tr : m \in Nat /\ m > n
    BY <1>8 DEF Pics!RangeOf
  <2>3. n \in Nat
    BY <1>8 DEF n
  <2> HIDE DEF tr
  <2>4. \A x \in DOMAIN kimg : kimg[x] \notin DOMAIN tr
    BY <1>12, <2>2, <2>3
  <2>5. sto = Pics!Over(term.stored, tr)
    BY DEF tr
  <2> HIDE DEF sto
  <2>6. \A m : m \in DOMAIN sto <=> m \in DOMAIN term.stored \cup DOMAIN tr
    BY <2>5 DEF Pics!Over
  <2>7. \A m \in DOMAIN sto : sto[m] = IF m \in DOMAIN tr THEN tr[m] ELSE term.stored[m]
    BY <2>5 DEF Pics!Over
  <2>8. \A x \in new : kimg'[x] \in DOMAIN sto /\ sto[kimg'[x]] = x
    BY <1>10, <2>1, <2>6, <2>7
  <2>9. \A x \in DOMAIN kimg : kimg'[x] \in DOMAIN sto /\ sto[kimg'[x]] = x
    BY <1>10, <1>12, <2>4, <2>6, <2>7
  <2> QED
    BY <1>10, <2>8, <2>9
<1> HIDE DEF sto
<1>15. \A x, y \in DOMAIN kimg' : kimg'[x] = kimg'[y] => x = y
  BY <1>14
<1>16. D \subseteq DOMAIN kimg' /\ DOMAIN painted \subseteq DOMAIN kimg /\ due \subseteq D
  BY <1>1, <1>4, <1>10 DEF KittyHas, new
<1> HIDE DEF D
<1>17. \A m : m \in DOMAIN pla1 <=> \E x \in DOMAIN painted : x \in D /\ m = kimg'[x]
  <2>1. DOMAIN pla1 = DOMAIN term.placed \ {kimg[x] : x \in gone}
    BY DEF Pics!Without
  <2>2. DOMAIN term.placed = {kimg[x] : x \in DOMAIN painted}
    BY <1>1 DEF KittyHas
  <2>3. \A x \in DOMAIN painted : kimg[x] = kimg'[x] /\ x \in DOMAIN kimg'
    BY <1>10, <1>16
  <2> HIDE DEF pla1
  <2>4. \A m : m \in DOMAIN pla1 <=> (\E x \in DOMAIN painted : m = kimg'[x]) /\ ~(\E x \in gone : m = kimg'[x])
    BY <2>1, <2>2, <2>3
  <2> QED
    BY <1>15, <2>3, <2>4
<1>18. \A m \in DOMAIN pla1 : pla1[m] = term.placed[m]
  BY DEF Pics!Without
<1>19. /\ DOMAIN put = {kimg'[x] : x \in due}
       /\ \A x \in due : put[kimg'[x]] = paint[x]
  <2>1. \A x \in due : (CHOOSE y \in due : kimg'[y] = kimg'[x]) = x
    BY <1>15, <1>16
  <2> QED
    BY <2>1
<1> HIDE DEF pla1, put
<1>20. /\ pla = [m \in DOMAIN pla |-> pla[m]]
       /\ DOMAIN pla = DOMAIN pla1 \cup DOMAIN put
       /\ \A m \in DOMAIN pla : pla[m] = IF m \in DOMAIN put THEN put[m] ELSE pla1[m]
  BY DEF Pics!Over
<1> HIDE DEF pla
<1>21. \A x \in D : x \notin due => x \in DOMAIN painted /\ painted[x] = paint[x].rect
  BY <1>4 DEF D
<1>22. DOMAIN pla = {kimg'[x] : x \in D}
  BY <1>16, <1>17, <1>19, <1>20, <1>21
<1>23. \A x \in D : pla[kimg'[x]] = paint[x]
  <2> TAKE x \in D
  <2>1. CASE x \in due
    BY <1>19, <1>20, <2>1
  <2>2. CASE x \notin due
    <3>1. x \in DOMAIN painted /\ painted[x] = paint[x].rect
      BY <1>21, <2>2
    <3>2. kimg'[x] = kimg[x]
      BY <1>10, <1>16, <3>1
    <3>3. kimg'[x] \notin DOMAIN put
      BY <1>15, <1>16, <1>19, <2>2
    <3>4. pla[kimg'[x]] = term.placed[kimg[x]]
      BY <1>17, <1>18, <1>20, <3>1, <3>2, <3>3
    <3> DEFINE q == term.placed[kimg[x]]
               pp == paint[x]
    <3>5. q \in Spots /\ q.rect = pp.rect /\ Fits(q, content.rows[x[2]])
      BY <1>1, <1>2, <3>1 DEF KittyHas, D
    <3>6. pp \in Spots /\ pp.rect.y > 0 /\ Fits(pp, content.rows[x[2]]) /\ content.rows[x[2]] \in Nat
      BY <1>1, <1>2 DEF D, Contents
    <3> HIDE DEF q, pp
    <3>7. q.top = pp.top
      BY <3>5, <3>6 DEF Fits, Spots, Rects
    <3>8. q = pp
      BY <3>5, <3>6, <3>7 DEF Spots
    <3> QED
      BY <3>4, <3>8 DEF q, pp
  <2> QED
    BY <2>1, <2>2
<1>24. term'.stored = sto /\ term'.placed = pla
  BY <1>13
<1>25. DOMAIN painted' = D /\ \A x \in D : painted'[x] = paint[x].rect
  BY <1>3 DEF D
<1>26. /\ content'.gen = content.gen
       /\ \A i \in Pics!Pictures : content.rows[i] > 0 => content'.rows[i] = content.rows[i]
       /\ fresh' => Pics!PaintsOf(look', content') = paint
  BY <1>1, TextKeeps DEF paint
<1>27. TtyTypes'
  <2>1. DOMAIN kimg' \subseteq Objects
    BY <1>1, <1>2, <1>10 DEF TtyTypes, new, D
  <2>2. painted' \in [DOMAIN painted' -> Rects]
    <3>1. \A x \in D : paint[x].rect \in Rects
      BY <1>2 DEF D, Spots
    <3> QED
      BY <1>3, <1>25, <3>1 DEF D
  <2>3. term' = [stored |-> term'.stored, placed |-> term'.placed, pixels |-> term'.pixels]
    BY <1>13
  <2> QED
    BY <1>1, <1>2, <1>25, <2>1, <2>2, <2>3 DEF TtyTypes, D
<1>28. KittyHas'
  <2>1. \A x \in DOMAIN kimg' : kimg'[x] \in 1..Cardinality(DOMAIN kimg')
    BY <1>8, <1>10, <1>11, <1>12 DEF n
  <2>2. \A x \in DOMAIN painted' :
          /\ term'.placed[kimg'[x]] \in Spots /\ term'.placed[kimg'[x]].rect = painted'[x]
          /\ content'.rows[x[2]] > 0 /\ Fits(term'.placed[kimg'[x]], content'.rows[x[2]])
    <3> TAKE x \in DOMAIN painted'
    <3>1. x \in D /\ painted'[x] = paint[x].rect /\ term'.placed[kimg'[x]] = paint[x]
      BY <1>23, <1>24, <1>25
    <3>2. paint[x] \in Spots /\ x[2] \in Pics!Pictures /\ content.rows[x[2]] > 0 /\ Fits(paint[x], content.rows[x[2]])
      BY <1>2, <3>1 DEF D
    <3> QED
      BY <1>26, <3>1, <3>2
  <2>3. DOMAIN term'.placed = {kimg'[x] : x \in DOMAIN painted'}
    BY <1>22, <1>24, <1>25
  <2>4. DOMAIN painted' \subseteq DOMAIN kimg'
    BY <1>16, <1>25
  <2> QED
    BY <1>11, <1>14, <1>24, <2>1, <2>2, <2>3, <2>4 DEF KittyHas
<1>29. Pics!PicturesAgree'
  <2> SUFFICES ASSUME fresh' PROVE
        LET pt == Pics!PaintsOf(look', content')
        IN /\ \A x \in DOMAIN pt : term'.stored[kimg'[x]] = x
           /\ term'.placed = [m \in {kimg'[x] : x \in DOMAIN pt} |-> pt[CHOOSE x \in DOMAIN pt : kimg'[x] = m]]
    BY DEF Pics!PicturesAgree
  <2>1. Pics!PaintsOf(look', content') = paint
    BY <1>26
  <2>2. \A x \in D : term'.stored[kimg'[x]] = x
    BY <1>14, <1>16, <1>24
  <2>3. term'.placed = [m \in {kimg'[x] : x \in D} |-> paint[CHOOSE x \in D : kimg'[x] = m]]
    <3>1. \A x \in D : (CHOOSE y \in D : kimg'[y] = kimg'[x]) = x
      BY <1>15, <1>16
    <3> QED
      BY <1>20, <1>22, <1>23, <1>24, <3>1
  <2> QED
    BY <2>1, <2>2, <2>3 DEF D
<1> QED
  BY <1>1, <1>27, <1>28, <1>29 DEF TtyHas

\* sixel: a frame erases all it has painted, so what it paints is all there is
LEMMA SixelFrame ==
  ASSUME ImgInv, proto = "sixel", proto' = proto,
         Pics!FrameSixel(Pics!PaintsOf(look, content), Pics!Moved(Pics!PaintsOf(look, content)))
  PROVE  /\ TtyHas' /\ Pics!PicturesAgree'
         /\ content' \in Contents /\ content'.gen = content.gen /\ look' \in Looks /\ Seated'
         /\ DOMAIN painted' \subseteq DOMAIN painted \cup DOMAIN Pics!PaintsOf(look, content)
         /\ DOMAIN kimg' \subseteq DOMAIN kimg
<1> DEFINE paint == Pics!PaintsOf(look, content)
           due == Pics!Moved(paint)
<1>1. /\ content \in Contents /\ look \in Looks /\ SixelHas /\ TtyTypes /\ Seated
      /\ \A i \in Pics!Pictures : content.rows[i] <= look.height
  BY DEF ImgInv, ImgTypes, Seated, TtyTypes
<1>2. due \subseteq DOMAIN paint
  BY DEF Pics!Moved
<1> HIDE DEF due
<1>a. CASE look.hold /\ Pics!Live(look, content) /\ UNCHANGED Pics!tty /\ Pics!Text(look)
  <2>1. UNCHANGED <<painted, kimg, term>>
    BY <1>a DEF Pics!tty
  <2>2. /\ content' \in Contents /\ content'.gen = content.gen /\ look' \in Looks /\ look'.hold = look.hold /\ Seated'
        /\ \A i \in Pics!Pictures : content.rows[i] > 0 => content'.rows[i] = content.rows[i]
    BY <1>1, <1>a, TextKeeps
  <2>3. KeepsRows
    BY <2>2 DEF KeepsRows
  <2>4. TtyHas'
    BY <2>1, <2>2, <2>3, TtyKept
  <2>5. term'.pixels = {}
    BY <1>1, <1>a, <2>1 DEF SixelHas
  <2> QED
    BY <2>1, <2>2, <2>4, <2>5 DEF Pics!PicturesAgree
<1>b. ASSUME Pics!ClearRects, Pics!Text([look EXCEPT !.hold = TRUE, !.crop = FALSE, !.seen = look.offset])
      PROVE  /\ TtyHas' /\ Pics!PicturesAgree'
             /\ content' \in Contents /\ content'.gen = content.gen /\ look' \in Looks /\ Seated'
             /\ DOMAIN painted' = {} /\ DOMAIN kimg' = {}
  <2> DEFINE u == [look EXCEPT !.hold = TRUE, !.crop = FALSE, !.seen = look.offset]
  <2>1. u \in Looks /\ u.height = look.height /\ u.offset = look.offset /\ u.mode = look.mode /\ Pics!Text(u)
    BY <1>1, <1>b DEF Looks
  <2> HIDE DEF u
  <2>2. content' \in Contents /\ content'.gen = content.gen /\ look' \in Looks /\ Seated'
    BY <2>1, TextKeeps
  <2>3. TtyHas' /\ DOMAIN painted' = {} /\ DOMAIN kimg' = {} /\ term'.pixels = {}
    BY <1>b, TtyCleared
  <2> QED
    BY <2>2, <2>3 DEF Pics!PicturesAgree
<1>c. ASSUME ~(look.hold /\ Pics!Live(look, content)), Pics!PaintSixel(paint, due),
             Pics!Text([look EXCEPT !.crop = @ \/ Pics!Same(due)])
      PROVE  /\ TtyHas' /\ Pics!PicturesAgree'
             /\ content' \in Contents /\ content'.gen = content.gen /\ look' \in Looks /\ Seated'
             /\ DOMAIN painted' \subseteq DOMAIN painted \cup due /\ kimg' = kimg
  <2> DEFINE b == look.crop \/ Pics!Same(due)
             u == [look EXCEPT !.crop = b]
  <2>1. b \in BOOLEAN
    BY <1>1 DEF Looks, Pics!Same
  <2>2. Pics!Text(u)
    BY <1>c, Zenon
  <2> HIDE DEF b
  <2>3. u \in Looks /\ u.height = look.height /\ u.offset = look.offset /\ u.mode = look.mode /\ u.hold = look.hold
    BY <1>1, <2>1 DEF Looks
  <2> HIDE DEF u
  <2>4. /\ content' \in Contents /\ content'.gen = content.gen /\ look' \in Looks /\ look'.hold = look.hold /\ Seated'
        /\ fresh' => Pics!PaintsOf(look', content') = paint
    BY <2>2, <2>3, TextKeeps
  <2>5. /\ painted' = IF due = {} THEN painted ELSE [x \in due |-> paint[x].rect]
        /\ term' = [term EXCEPT !.pixels = {x \in @ : x.rect \notin Pics!RangeOf(painted)}
                                 \cup {[pic |-> x, rect |-> paint[x].rect, top |-> paint[x].top] : x \in due}]
        /\ kimg' = kimg
    BY <1>c DEF Pics!PaintSixel
  <2>6. term = [stored |-> term.stored, placed |-> term.placed, pixels |-> term.pixels]
    BY <1>1 DEF TtyTypes
  <2>7. {x \in term.pixels : x.rect \notin Pics!RangeOf(painted)} = {}
    BY <1>1 DEF SixelHas, Pics!RangeOf
  <2>8. /\ DOMAIN paint = {<<content.gen, i>> : i \in Pics!Paintable(look, content)} /\ DOMAIN paint \subseteq Objects
        /\ \A x \in DOMAIN paint : paint[x] = [rect |-> paint[x].rect, top |-> paint[x].top] /\ paint[x] \in Spots
    <3> HIDE DEF paint
    <3> QED
      BY <1>1, PaintsAre DEF paint
  <2> HIDE DEF paint
  <2> DEFINE px == {[pic |-> x, rect |-> paint[x].rect, top |-> paint[x].top] : x \in due}
  <2>9. term' = [stored |-> term.stored, placed |-> term.placed, pixels |-> px]
    <3> HIDE DEF px
    <3>1. term' = [term EXCEPT !.pixels = {x \in term.pixels : x.rect \notin Pics!RangeOf(painted)} \cup px]
      BY <2>5 DEF px
    <3>2. term' = [term EXCEPT !.pixels = px]
      BY <2>7, <3>1
    <3> QED
      BY <2>6, <3>2
  <2>10. TtyTypes'
    <3>1. DOMAIN painted' \subseteq Objects
      BY <1>1, <1>2, <2>5, <2>8 DEF TtyTypes
    <3>2. painted' \in [DOMAIN painted' -> Rects]
      <4>1. CASE due = {}
        BY <1>1, <2>5, <4>1 DEF TtyTypes
      <4>2. CASE due # {}
        <5>1. \A x \in due : paint[x].rect \in Rects
          BY <1>2, <2>8 DEF Spots
        <5> QED
          BY <2>5, <4>2, <5>1
      <4> QED
        BY <4>1, <4>2
    <3>3. term' = [stored |-> term'.stored, placed |-> term'.placed, pixels |-> term'.pixels]
      BY <2>9
    <3> QED
      BY <1>1, <2>5, <3>1, <3>2, <3>3 DEF TtyTypes
  <2>11. \A q \in term'.pixels : q.pic \in due /\ q.rect = paint[q.pic].rect /\ q.top = paint[q.pic].top
    BY <2>9
  <2>12. SixelHas'
    <3>1. \A q \in term'.pixels : q.pic \in DOMAIN painted' /\ q.rect = painted'[q.pic]
      BY <2>5, <2>11
    <3>2. look.hold => due = {}
      BY <1>2, <1>c, <2>8 DEF Pics!Paintable
    <3>3. look'.hold => term'.pixels = {}
      BY <2>4, <2>11, <3>2
    <3> QED
      BY <3>1, <3>3 DEF SixelHas
  <2>13. Pics!PicturesAgree'
    <3> SUFFICES ASSUME fresh' PROVE
          LET pt == Pics!PaintsOf(look', content')
          IN \A q \in term'.pixels : q.pic \in DOMAIN pt /\ pt[q.pic] = [rect |-> q.rect, top |-> q.top]
      BY DEF Pics!PicturesAgree
    <3>1. Pics!PaintsOf(look', content') = paint
      BY <2>4
    <3>2. \A q \in term'.pixels : q.pic \in DOMAIN paint /\ paint[q.pic] = [rect |-> q.rect, top |-> q.top]
      BY <1>2, <2>8, <2>11
    <3> QED
      BY <3>1, <3>2
  <2> QED
    BY <2>4, <2>5, <2>10, <2>12, <2>13 DEF TtyHas
<1> QED
  <2>1. CASE Pics!ClearRects /\ Pics!Text([look EXCEPT !.hold = TRUE, !.crop = FALSE, !.seen = look.offset])
    BY <1>b, <2>1
  <2>2. CASE ~(look.hold /\ Pics!Live(look, content)) /\ Pics!PaintSixel(paint, due)
             /\ Pics!Text([look EXCEPT !.crop = @ \/ Pics!Same(due)])
    BY <1>2, <1>c, <2>2
  <2>3. CASE look.hold /\ Pics!Live(look, content) /\ UNCHANGED Pics!tty /\ Pics!Text(look)
    <3>1. DOMAIN painted' = DOMAIN painted /\ DOMAIN kimg' = DOMAIN kimg
      BY <2>3 DEF Pics!tty
    <3> QED
      BY <1>a, <2>3, <3>1
  <2> QED
    BY <2>1, <2>2, <2>3 DEF Pics!FrameSixel, due

LEMMA ImgFrame ==
  ASSUME ImgInv, Pics!Frame
  PROVE  ImgInv'
<1>1. proto' = proto /\ UNCHANGED <<layouts, nextLoad>> /\ proto \in {"kitty", "sixel"}
  BY DEF Pics!Frame, Pics!netVars, ImgInv, ImgTypes
<1>2. /\ content \in Contents /\ look \in Looks
      /\ \A i \in Pics!Pictures : content.rows[i] <= look.height
  BY DEF ImgInv, ImgTypes, Seated
<1> DEFINE paint == Pics!PaintsOf(look, content)
<1>3. \A x \in DOMAIN paint : x[1] = content.gen
  <2> HIDE DEF paint
  <2> QED
    BY <1>2, PaintsAre DEF paint
<1>4. /\ TtyHas' /\ Pics!PicturesAgree'
      /\ content' \in Contents /\ content'.gen = content.gen /\ look' \in Looks /\ Seated'
      /\ \A x \in DOMAIN painted' \cup DOMAIN kimg' : x \in DOMAIN painted \cup DOMAIN kimg \/ x \in DOMAIN paint
  <2>1. CASE proto = "kitty"
    <3>1. Pics!Kitty(paint) /\ Pics!Text(look)
      BY <2>1 DEF Pics!Frame
    <3>2. TtyHas' /\ Pics!PicturesAgree'
      BY <1>1, <2>1, <3>1, KittyFrame
    <3>3. content' \in Contents /\ content'.gen = content.gen /\ look' \in Looks /\ Seated'
      BY <1>2, <3>1, TextKeeps
    <3> HIDE DEF paint
    <3>4. DOMAIN painted' = DOMAIN paint
      BY <3>1 DEF Pics!Kitty, Pics!PaintKitty
    <3>5. DOMAIN kimg' = DOMAIN kimg \cup (DOMAIN paint \ DOMAIN kimg)
      BY <3>1 DEF Pics!Kitty, Pics!PaintKitty, Pics!Over, Pics!NewIds
    <3> QED
      BY <3>2, <3>3, <3>4, <3>5
  <2>2. CASE proto = "sixel"
    <3>1. Pics!FrameSixel(paint, Pics!Moved(paint))
      BY <2>2 DEF Pics!Frame
    <3>2. /\ TtyHas' /\ Pics!PicturesAgree'
          /\ content' \in Contents /\ content'.gen = content.gen /\ look' \in Looks /\ Seated'
          /\ DOMAIN painted' \subseteq DOMAIN painted \cup DOMAIN paint
          /\ DOMAIN kimg' \subseteq DOMAIN kimg
      BY <1>1, <2>2, <3>1, SixelFrame
    <3> HIDE DEF paint
    <3> QED
      BY <3>2
  <2> QED
    BY <1>1, <2>1, <2>2
<1> HIDE DEF paint
<1>5. Unused' /\ nextLoad' \in Nat /\ layouts' \subseteq Layouts
  <2>1. \A x \in DOMAIN painted' \cup DOMAIN kimg' : x \in DOMAIN painted \cup DOMAIN kimg \/ x[1] = content.gen
    BY <1>3, <1>4
  <2> QED
    BY <1>1, <1>4, <2>1, UnusedKept
<1> QED
  BY <1>4, <1>5 DEF ImgInv, ImgTypes, TtyHas, TtyTypes

-----------------------------------------------------------------------------
(* The other actions: none claims that the screen is as it should be. *)

\* an action that paints nothing
LEMMA NotFresh ==
  ASSUME ImgInv, proto' = proto, fresh' = FALSE, content' \in Contents, look' \in Looks, Seated',
         Unused' /\ nextLoad' \in Nat /\ layouts' \subseteq Layouts,
         \/ Pics!ClearRects
         \/ UNCHANGED <<painted, kimg, term>> /\ KeepsRows /\ (look'.hold => look.hold)
  PROVE  ImgInv'
<1>1. TtyHas'
  BY TtyKept, TtyCleared
<1>2. Pics!PicturesAgree'
  BY DEF Pics!PicturesAgree
<1> QED
  BY <1>1, <1>2 DEF ImgInv, ImgTypes, TtyHas, TtyTypes

\* the pictures numbered below, when nothing is painted
LEMMA NoneNew ==
  ASSUME ImgInv, Pics!ClearRects \/ UNCHANGED <<painted, kimg, term>>, proto' = proto
  PROVE  \A x \in DOMAIN painted' \cup DOMAIN kimg' : x \in DOMAIN painted \cup DOMAIN kimg \/ x[1] = content.gen
<1>1. CASE Pics!ClearRects
  BY <1>1, TtyCleared
<1>2. CASE UNCHANGED <<painted, kimg, term>>
  BY <1>2
<1> QED
  BY <1>1, <1>2

\* a layout in range, of a content that may have changed
LEMMA Reseated ==
  ASSUME NEW u \in Looks, content' \in Contents, look' = Pics!Relayout(u, content'),
         \A i \in Pics!Pictures : content'.rows[i] <= u.height
  PROVE  look' \in Looks /\ Seated' /\ look'.hold = u.hold
<1>1. /\ look' \in Looks /\ look'.height = u.height /\ look'.hold = u.hold
      /\ look'.offset = Pics!Clamped(content', look'.offset, u.height)
  BY RelayoutIs
<1> QED
  BY <1>1 DEF Seated

LEMMA ImgScroll ==
  ASSUME ImgInv, Pics!Scroll
  PROVE  ImgInv'
<1>1. content \in Contents /\ look \in Looks /\ look.offset \in Nat /\ look.height \in Nat /\ Seated
  BY DEF ImgInv, ImgTypes, Looks
<1>2. PICK n \in {1, 0 - 1, look.height} :
        look' = [look EXCEPT !.offset = Pics!Clamped(content, look.offset + n, look.height)]
  BY DEF Pics!Scroll
<1>3. UNCHANGED <<proto, content, painted, kimg, term, fetches, layouts, nextLoad>> /\ fresh' = FALSE
  BY DEF Pics!Scroll, Pics!tty, Pics!netVars
<1>4. look.offset + n \in Int
  BY <1>1
<1> DEFINE d == Pics!Clamped(content, look.offset + n, look.height)
<1>5. d \in Nat /\ Pics!Clamped(content, d, look.height) = d
  BY <1>1, <1>4, InRange
<1> HIDE DEF d
<1>6. look' = [look EXCEPT !.offset = d]
  BY <1>2 DEF d
<1>7. look' \in Looks /\ look'.offset = d /\ look'.height = look.height /\ look'.hold = look.hold
  BY <1>1, <1>5, <1>6 DEF Looks
<1>8. Seated'
  BY <1>1, <1>3, <1>5, <1>7 DEF Seated
<1>9. Unused' /\ nextLoad' \in Nat /\ layouts' \subseteq Layouts
  BY <1>3, UnusedKept
<1>10. KeepsRows
  BY <1>3 DEF KeepsRows
<1> QED
  BY <1>1, <1>3, <1>7, <1>8, <1>9, <1>10, NotFresh

LEMMA ImgToggle ==
  ASSUME ImgInv, Pics!Toggle
  PROVE  ImgInv'
<1>1. /\ content \in Contents /\ look \in Looks /\ look.offset \in Nat /\ look.height \in Nat /\ Seated
      /\ \A i \in Pics!Pictures : content.rows[i] <= look.height
  BY DEF ImgInv, ImgTypes, Looks, Seated
<1>2. proto' = proto /\ fresh' = FALSE
  BY DEF Pics!Toggle, Pics!Act
<1>3. CASE Pics!ToggleOn
  <2>1. /\ Pics!Ask(TRUE, FALSE) /\ content' = [content EXCEPT !.images = TRUE]
        /\ UNCHANGED <<painted, kimg, term>>
    BY <1>3 DEF Pics!ToggleOn, Pics!tty
  <2> DEFINE fs == look.fetching \cup Pics!Missing
             u == [look EXCEPT !.hold = FALSE, !.imgMode = 1, !.fetching = fs]
  <2>2. look' = Pics!Relayout(u, content')
    BY <1>3 DEF Pics!ToggleOn
  <2>3. fs \in SUBSET Urls
    BY <1>1 DEF Pics!Missing, Pics!Online, Looks
  <2> HIDE DEF fs
  <2>4. u \in Looks /\ u.height = look.height /\ u.hold = FALSE
    BY <1>1, <2>3 DEF Looks
  <2> HIDE DEF u
  <2>5. content' \in Contents /\ content'.gen = content.gen /\ content'.rows = content.rows
    BY <1>1, <2>1 DEF Contents
  <2>6. look' \in Looks /\ Seated' /\ look'.hold = FALSE
    BY <1>1, <2>2, <2>4, <2>5, Reseated
  <2>7. Unused' /\ nextLoad' \in Nat /\ layouts' \subseteq Layouts
    BY <2>1, <2>5, UnusedKept
  <2>8. KeepsRows
    BY <2>5 DEF KeepsRows
  <2> QED
    BY <1>2, <2>1, <2>5, <2>6, <2>7, <2>8, NotFresh
<1>4. CASE Pics!ToggleOff
  <2>1. Pics!Ask(FALSE, FALSE) /\ Pics!ClearRects
    BY <1>4 DEF Pics!ToggleOff
  <2> DEFINE u == [look EXCEPT !.hold = FALSE, !.imgMode = 0, !.remote = {}, !.refine = FALSE]
             ds == {i \in content.data : ~Pics!Online(i)}
             rs == [i \in DOMAIN content.rows |-> IF Pics!Online(i) THEN 0 ELSE content.rows[i]]
  <2>2. look' = Pics!Relayout(u, content') /\ content' = [content EXCEPT !.images = FALSE, !.data = ds, !.rows = rs]
    BY <1>4 DEF Pics!ToggleOff
  <2>3. u \in Looks /\ u.height = look.height
    BY <1>1 DEF Looks
  <2>4. /\ ds \in SUBSET Pics!Pictures /\ rs \in [Pics!Pictures -> Nat]
        /\ \A i \in Pics!Pictures : rs[i] <= look.height
    BY <1>1 DEF Contents
  <2> HIDE DEF u, ds, rs
  <2>5. content' \in Contents /\ content'.gen = content.gen /\ content'.rows = rs
    BY <1>1, <2>2, <2>4 DEF Contents
  <2>6. look' \in Looks /\ Seated'
    BY <2>2, <2>3, <2>4, <2>5, Reseated
  <2>7. Unused' /\ nextLoad' \in Nat /\ layouts' \subseteq Layouts
    BY <1>2, <2>1, <2>5, NoneNew, UnusedKept
  <2> QED
    BY <1>2, <2>1, <2>5, <2>6, <2>7, NotFresh
<1> QED
  BY <1>3, <1>4 DEF Pics!Toggle

\* the keys that change the mode and nothing of the layout
LEMMA ImgModes ==
  ASSUME ImgInv, Pics!Back \/ Pics!SwitchTab \/ Pics!Open
  PROVE  ImgInv'
<1>1. content \in Contents /\ look \in Looks /\ Seated
  BY DEF ImgInv, ImgTypes
<1>2. proto' = proto /\ fresh' = FALSE /\ content' = content
  BY DEF Pics!Back, Pics!SwitchTab, Pics!Open, Pics!Act
<1>3. look' \in Looks /\ look'.height = look.height /\ look'.offset = look.offset /\ look'.hold = look.hold
  <2>1. CASE Pics!Back
    BY <1>1, <2>1 DEF Pics!Back, Looks
  <2>2. CASE Pics!SwitchTab
    <3>1. look' = [look EXCEPT !.mode = IF look.mode = "pager" THEN "compose" ELSE "pager"]
      BY <2>2 DEF Pics!SwitchTab
    <3> QED
      BY <1>1, <3>1 DEF Looks
  <2>3. CASE Pics!Open
    BY <1>1, <2>3 DEF Pics!Open
  <2> QED
    BY <2>1, <2>2, <2>3
<1>4. Seated'
  BY <1>1, <1>2, <1>3 DEF Seated
<1>5. Pics!ClearRects \/ UNCHANGED <<painted, kimg, term>>
  BY DEF Pics!Back, Pics!SwitchTab, Pics!Open, Pics!tty
<1>6. (UNCHANGED nextLoad /\ layouts' \subseteq layouts) \/ Pics!Ask(FALSE, FALSE)
  BY DEF Pics!Back, Pics!SwitchTab, Pics!Open, Pics!netVars
<1>7. Unused' /\ nextLoad' \in Nat /\ layouts' \subseteq Layouts
  BY <1>2, <1>5, <1>6, NoneNew, UnusedKept
<1>8. KeepsRows
  BY <1>2 DEF KeepsRows
<1> QED
  BY <1>1, <1>2, <1>3, <1>4, <1>5, <1>7, <1>8, NotFresh

LEMMA ImgResize ==
  ASSUME ImgInv, Pics!Resize
  PROVE  ImgInv'
<1>1. content \in Contents /\ look \in Looks
  BY DEF ImgInv, ImgTypes
<1> DEFINE rs == [i \in DOMAIN content.rows |-> 0]
<1>2. /\ proto' = proto /\ fresh' = FALSE /\ Pics!ClearRects /\ UNCHANGED <<layouts, nextLoad>>
      /\ content' = [content EXCEPT !.rows = rs]
  BY DEF Pics!Resize, Pics!Act, Pics!netVars
<1>3. PICK h \in Heights : look' = Pics!Relayout([look EXCEPT !.height = h, !.hold = FALSE], content')
  BY DEF Pics!Resize
<1>4. h \in Nat
  BY TerminalAssumption
<1> DEFINE u == [look EXCEPT !.height = h, !.hold = FALSE]
<1>5. u \in Looks /\ u.height = h
  BY <1>1, <1>4 DEF Looks
<1>6. rs \in [Pics!Pictures -> Nat] /\ \A i \in Pics!Pictures : rs[i] = 0
  BY <1>1 DEF Contents
<1> HIDE DEF u, rs
<1>7. content' \in Contents /\ content'.gen = content.gen /\ content'.rows = rs
  BY <1>1, <1>2, <1>6 DEF Contents
<1>8. look' \in Looks /\ Seated'
  <2>1. \A i \in Pics!Pictures : content'.rows[i] <= u.height
    BY <1>4, <1>5, <1>6, <1>7
  <2> QED
    BY <1>3, <1>5, <1>7, <2>1, Reseated DEF u
<1>9. Unused' /\ nextLoad' \in Nat /\ layouts' \subseteq Layouts
  BY <1>2, <1>7, NoneNew, UnusedKept
<1> QED
  BY <1>2, <1>7, <1>8, <1>9, NotFresh

LEMMA ImgSettle ==
  ASSUME ImgInv, Pics!Settle
  PROVE  ImgInv'
<1>1. /\ content \in Contents /\ look \in Looks /\ look.offset \in Nat /\ look.height \in Nat /\ Seated
      /\ \A i \in Pics!Pictures : content.rows[i] <= look.height
  BY DEF ImgInv, ImgTypes, Looks, Seated
<1>2. proto' = proto /\ fresh' = FALSE /\ look.hold /\ UNCHANGED <<painted, kimg, term, layouts, nextLoad>>
  BY DEF Pics!Settle, Pics!tty, Pics!netVars
<1>3. content' \in Contents /\ look' \in Looks /\ Seated' /\ KeepsRows /\ content'.gen = content.gen
  <2>1. CASE content' = content /\ (look' = [look EXCEPT !.hold = FALSE] \/ look' = [look EXCEPT !.seen = look.offset])
    <3>1. look' \in Looks /\ look'.height = look.height /\ look'.offset = look.offset
      BY <1>1, <2>1 DEF Looks
    <3> QED
      BY <1>1, <2>1, <3>1 DEF Seated, KeepsRows
  <2> DEFINE u == [look EXCEPT !.hold = FALSE]
             due == Pics!DecodeDue(u, content)
  <2>2. CASE content' = Pics!Decoded(content, due, look.height) /\ look' = Pics!Relayout(u, content')
    <3>1. u \in Looks /\ u.height = look.height
      BY <1>1 DEF Looks
    <3>2. due \in SUBSET Pics!Pictures /\ \A i \in due : content.rows[i] = 0
      BY DEF Pics!DecodeDue, Pics!Visible
    <3> HIDE DEF u, due
    <3>3. /\ content' \in Contents /\ content'.gen = content.gen
          /\ \A i \in Pics!Pictures : /\ content'.rows[i] <= look.height
                                      /\ content.rows[i] > 0 => content'.rows[i] = content.rows[i]
      BY <1>1, <2>2, <3>2, DecodedIs
    <3>4. look' \in Looks /\ Seated'
      BY <2>2, <3>1, <3>3, Reseated
    <3> QED
      BY <3>3, <3>4 DEF KeepsRows
  <2> QED
    BY <2>1, <2>2 DEF Pics!Settle
<1>4. Unused' /\ nextLoad' \in Nat /\ layouts' \subseteq Layouts
  BY <1>2, <1>3, UnusedKept
<1> QED
  BY <1>2, <1>3, <1>4, NotFresh

LEMMA ImgFetched ==
  ASSUME ImgInv, NEW url \in Urls, Pics!Fetched(url)
  PROVE  ImgInv'
<1>1. /\ content \in Contents /\ look \in Looks /\ look.height \in Nat /\ Seated
      /\ \A i \in Pics!Pictures : content.rows[i] <= look.height
  BY DEF ImgInv, ImgTypes, Looks, Seated
<1>2. proto' = proto /\ fresh' = FALSE /\ UNCHANGED <<painted, kimg, term>>
  BY DEF Pics!Fetched, Pics!tty
<1>3. /\ content' \in Contents /\ content'.gen = content.gen /\ content'.rows = content.rows
      /\ look' \in Looks /\ Seated' /\ look'.hold = look.hold
      /\ (UNCHANGED nextLoad /\ layouts' \subseteq layouts) \/ Pics!Ask(TRUE, TRUE)
  <2>1. CASE Pics!FetchOk(url)
    <3> DEFINE ds == content.data \cup {i \in Pics!Pictures : Items[i] = url}
               u == [look EXCEPT !.fetching = look.fetching \ {url}, !.remote = look.remote \cup {url}]
               w == [u EXCEPT !.refine = TRUE]
    <3>1. content' = [content EXCEPT !.data = ds]
      BY <2>1 DEF Pics!FetchOk
    <3>2. ds \in SUBSET Pics!Pictures
      BY <1>1 DEF Contents
    <3>3. \/ Pics!Ask(TRUE, TRUE) /\ look' = Pics!Relayout(w, content')
          \/ UNCHANGED <<layouts, nextLoad>> /\ look' = Pics!Relayout(u, content')
      BY <2>1 DEF Pics!FetchOk
    <3>4. /\ u \in Looks /\ u.height = look.height /\ u.hold = look.hold
          /\ w \in Looks /\ w.height = look.height /\ w.hold = look.hold
      BY <1>1 DEF Looks
    <3> HIDE DEF ds, u, w
    <3>5. content' \in Contents /\ content'.gen = content.gen /\ content'.rows = content.rows
      BY <1>1, <3>1, <3>2 DEF Contents
    <3>6. look' \in Looks /\ Seated' /\ look'.hold = look.hold
      <4>1. CASE look' = Pics!Relayout(w, content')
        BY <1>1, <3>4, <3>5, <4>1, Reseated
      <4>2. CASE look' = Pics!Relayout(u, content')
        BY <1>1, <3>4, <3>5, <4>2, Reseated
      <4> QED
        BY <3>3, <4>1, <4>2
    <3> QED
      BY <3>3, <3>5, <3>6
  <2>2. CASE look' = [look EXCEPT !.fetching = look.fetching \ {url}] /\ UNCHANGED <<content, layouts, nextLoad>>
    <3>1. look' \in Looks /\ look'.height = look.height /\ look'.offset = look.offset /\ look'.hold = look.hold
      BY <1>1, <2>2 DEF Looks
    <3> QED
      BY <1>1, <2>2, <3>1 DEF Seated
  <2>3. CASE UNCHANGED <<content, look, layouts, nextLoad>>
    BY <1>1, <2>3 DEF Seated
  <2> QED
    BY <2>1, <2>2, <2>3 DEF Pics!Fetched
<1>4. Unused' /\ nextLoad' \in Nat /\ layouts' \subseteq Layouts
  BY <1>2, <1>3, UnusedKept
<1>5. KeepsRows
  BY <1>3 DEF KeepsRows
<1> QED
  BY <1>2, <1>3, <1>4, <1>5, NotFresh

\* a reply that replaces the content brings objects nobody has painted
LEMMA ImgReplaced ==
  ASSUME ImgInv, NEW l \in layouts, NEW have \in SUBSET Urls, layouts' = layouts \ {l}, UNCHANGED nextLoad,
         proto' = proto, fresh' = FALSE, UNCHANGED <<painted, kimg, term>>, Pics!Replace(l, have)
  PROVE  ImgInv'
<1>1. /\ look \in Looks /\ l \in Layouts /\ look.height \in Nat /\ Unused /\ layouts \subseteq Layouts
      /\ nextLoad \in Nat
  BY DEF ImgInv, ImgTypes, Looks
<1> DEFINE b == look.refine /\ ~l.refine
           n == IF l.on THEN 1 ELSE 0
           u == [look EXCEPT !.images = l.on, !.hold = FALSE, !.crop = FALSE, !.remote = have, !.imgMode = n, !.refine = b]
           w == Pics!Relayout(u, content')
<1>2. content' = Pics!Content(l.gen, l.on, have) /\ look' = Pics!Landed(w)
  BY DEF Pics!Replace
<1>3. content' \in Contents /\ content'.gen = l.gen /\ \A i \in Pics!Pictures : content'.rows[i] = 0
  BY <1>1, <1>2 DEF Pics!Content, Contents, Layouts
<1>4. b \in BOOLEAN /\ n \in {0, 1} /\ l.on \in BOOLEAN
  BY <1>1 DEF Looks, Layouts
<1> HIDE DEF b, n
<1>5. u \in Looks /\ u.height = look.height /\ u.hold = FALSE
  BY <1>1, <1>4 DEF Looks
<1> HIDE DEF u
<1>6. /\ w \in Looks /\ w.height = look.height /\ w.hold = FALSE
      /\ w.offset = Pics!Clamped(content', w.offset, look.height)
  BY <1>3, <1>5, RelayoutIs
<1> HIDE DEF w
<1>7. look' \in Looks /\ look'.height = look.height /\ look'.offset = w.offset /\ look'.hold = FALSE
  BY <1>2, <1>6 DEF Pics!Landed, Looks
<1>8. Seated'
  BY <1>1, <1>3, <1>6, <1>7 DEF Seated
<1>9. KeepsRows
  BY <1>1, <1>3 DEF KeepsRows, Unused
<1>10. Unused' /\ nextLoad' \in Nat /\ layouts' \subseteq Layouts
  BY <1>1, <1>3 DEF Unused
<1> QED
  BY <1>3, <1>7, <1>8, <1>9, <1>10, NotFresh

LEMMA ImgLoaded ==
  ASSUME ImgInv, NEW l \in layouts, Pics!Loaded(l)
  PROVE  ImgInv'
<1>1. content \in Contents /\ look \in Looks /\ Seated
  BY DEF ImgInv, ImgTypes
<1>2. /\ proto' = proto /\ fresh' = FALSE /\ layouts' = layouts \ {l} /\ UNCHANGED nextLoad
      /\ UNCHANGED <<painted, kimg, term>>
  BY DEF Pics!Loaded, Pics!tty
<1>3. CASE content' = content /\ (look' = [look EXCEPT !.refine = FALSE] \/ look' = Pics!Landed(look))
  <2>1. look' \in Looks /\ look'.height = look.height /\ look'.offset = look.offset /\ look'.hold = look.hold
    BY <1>1, <1>3 DEF Looks, Pics!Landed
  <2>2. Seated' /\ KeepsRows
    BY <1>1, <1>3, <2>1 DEF Seated, KeepsRows
  <2>3. Unused' /\ nextLoad' \in Nat /\ layouts' \subseteq Layouts
    BY <1>2, <1>3, UnusedKept
  <2> QED
    BY <1>1, <1>2, <1>3, <2>1, <2>2, <2>3, NotFresh
<1>4. CASE Pics!Replace(l, IF l.on THEN look.remote ELSE {})
  <2> DEFINE have == IF l.on THEN look.remote ELSE {}
  <2>1. have \in SUBSET Urls
    BY <1>1 DEF Looks
  <2> HIDE DEF have
  <2> QED
    BY <1>2, <1>4, <2>1, ImgReplaced DEF have
<1> QED
  BY <1>3, <1>4 DEF Pics!Loaded

\* a reply that is lost, or nothing at all
LEMMA ImgLost ==
  ASSUME ImgInv, UNCHANGED <<proto, content, look, painted, kimg, term, nextLoad, fresh>>, layouts' \subseteq layouts
  PROVE  ImgInv'
<1>1. /\ UNCHANGED <<proto, content, look, painted, kimg, term, nextLoad, fresh>>
      /\ layouts' \subseteq layouts
  OBVIOUS
<1>2. Unused' /\ nextLoad' \in Nat /\ layouts' \subseteq Layouts
  BY <1>1, UnusedKept
<1>3. KeepsRows
  BY <1>1 DEF KeepsRows
<1>4. TtyHas'
  BY <1>1, <1>3, TtyKept
<1>5. Seated'
  BY <1>1 DEF ImgInv, Seated
<1>6. Pics!PicturesAgree'
  BY <1>1 DEF ImgInv, Pics!PicturesAgree
<1> QED
  BY <1>1, <1>2, <1>4, <1>5, <1>6 DEF ImgInv, ImgTypes, TtyHas, TtyTypes

LEMMA ImgStarts ==
  ASSUME Pics!Init
  PROVE  ImgInv
<1>1. PICK h \in Heights :
        look = [mode |-> "pager", height |-> h, offset |-> 0, images |-> FALSE, imgMode |-> 0, remote |-> {},
                fetching |-> {}, refine |-> FALSE, hold |-> FALSE, seen |-> 0, crop |-> FALSE]
  BY DEF Pics!Init
<1>2. h \in Nat /\ Protocols \subseteq {"kitty", "sixel"}
  BY TerminalAssumption
<1>3. look \in Looks /\ look.height \in Nat /\ look.offset = 0 /\ look.hold = FALSE
  BY <1>1, <1>2 DEF Looks
<1>4. content \in Contents /\ content.gen = 0 /\ \A i \in Pics!Pictures : content.rows[i] = 0
  <2>1. content = Pics!Content(0, FALSE, {})
    BY DEF Pics!Init
  <2> QED
    BY <2>1 DEF Pics!Content, Contents
<1>5. /\ proto \in {"kitty", "sixel"} /\ painted = <<>> /\ kimg = <<>>
      /\ term = [stored |-> <<>>, placed |-> <<>>, pixels |-> {}]
      /\ layouts = {} /\ nextLoad = 1 /\ fresh = FALSE
  BY <1>2 DEF Pics!Init
<1>6. Seated
  <2>1. Pics!Total(content) \in Nat
    <3>1. Len(Items) + 1 \in Nat
      BY PicturesAre
    <3> QED
      BY <1>4, <3>1, AboveIs DEF Pics!Total
  <2> DEFINE t == Pics!Total(content)
  <2>2. Pics!Clamped(content, 0, look.height) = Pics!Max0(Pics!Min2(0, t - look.height))
    BY DEF Pics!Clamped
  <2> HIDE DEF t
  <2>3. t \in Nat
    BY <2>1 DEF t
  <2>4. Pics!Clamped(content, 0, look.height) = 0
    BY <1>3, <2>2, <2>3 DEF Pics!Max0, Pics!Min2
  <2> QED
    BY <1>3, <1>4, <2>4 DEF Seated
<1>7. Unused
  BY <1>4, <1>5 DEF Unused
<1>8. DOMAIN painted = {} /\ DOMAIN kimg = {} /\ painted \in [DOMAIN painted -> Rects]
  BY <1>5
<1>9. ImgTypes
  BY <1>3, <1>4, <1>5, <1>8 DEF ImgTypes
<1>10. KittyHas
  <2>1. IsFiniteSet(DOMAIN kimg)
    BY <1>8, FS_EmptySet
  <2>2. DOMAIN term.placed = {}
    BY <1>5
  <2> QED
    BY <1>8, <2>1, <2>2 DEF KittyHas
<1>11. SixelHas /\ Pics!PicturesAgree
  BY <1>5 DEF SixelHas, Pics!PicturesAgree
<1> QED
  BY <1>6, <1>7, <1>9, <1>10, <1>11 DEF ImgInv

LEMMA ImgNext ==
  ASSUME ImgInv, [Pics!Next]_Pics!vars
  PROVE  ImgInv'
<1>1. CASE UNCHANGED Pics!vars
  <2>1. UNCHANGED <<proto, content, look, painted, kimg, term, layouts, nextLoad, fresh>>
    BY <1>1 DEF Pics!vars
  <2> QED
    BY <2>1, ImgLost
<1>2. CASE Pics!Key
  BY <1>2, ImgScroll, ImgToggle, ImgModes, ImgResize DEF Pics!Key
<1>3. ASSUME NEW url \in Urls, Pics!Fetched(url) PROVE ImgInv'
  BY <1>3, ImgFetched
<1>4. ASSUME NEW l \in layouts, Pics!Loaded(l) \/ Pics!Lost(l) PROVE ImgInv'
  <2>1. CASE Pics!Loaded(l)
    BY <2>1, ImgLoaded
  <2>2. CASE Pics!Lost(l)
    <3>1. UNCHANGED <<proto, content, look, painted, kimg, term, nextLoad, fresh>> /\ layouts' \subseteq layouts
      BY <2>2 DEF Pics!Lost, Pics!tty
    <3> QED
      BY <3>1, ImgLost
  <2> QED
    BY <1>4, <2>1, <2>2
<1> QED
  BY <1>1, <1>2, <1>3, <1>4, ImgFrame, ImgSettle DEF Pics!Next

(* Whenever a frame has decoded nothing, kitty shows each decoded picture of *)
(* the window at its rows and cut as they are, and no other, and no sixel *)
(* pixel is out of place, whatever was toggled, scrolled, resized, fetched, *)
(* laid out anew or lost before: paintKitty and paintSixel of img.go trust *)
(* m.img.rects for what the terminal has, and it is right to. *)
THEOREM SpecPicturesAgree == Pics!Spec => []PicturesAgree
<1>1. Pics!Init => ImgInv
  BY ImgStarts
<1>2. ImgInv /\ [Pics!Next]_Pics!vars => ImgInv'
  BY ImgNext
<1>3. ImgInv => PicturesAgree
  BY DEF ImgInv, PicturesAgree
<1> QED
  BY <1>1, <1>2, <1>3, PTL DEF Pics!Spec

-----------------------------------------------------------------------------
(* The pager: its document and its rows are recursive functions of its lines. *)

(* Counting up to a bound. *)
LEMMA CountUp ==
  ASSUME NEW n \in Nat, NEW B, 0 \in B, \A k \in 1..n : k - 1 \in B => k \in B
  PROVE  \A k \in 0..n : k \in B
<1> DEFINE Bad == {k \in 0..n : k \notin B}
           R == {ss \in Nat \X Nat : ss[1] < ss[2]}
<1>1. SUFFICES ASSUME Bad # {} PROVE FALSE
  OBVIOUS
<1>2. Bad \subseteq Nat
  OBVIOUS
<1>3. IsWellFoundedOn(R, Nat)
  BY NatLessThanWellFounded, Zenon DEF OpToRel
<1>4. PICK k \in Bad : \A j \in Bad : ~(<<j, k>> \in R)
  <2> HIDE DEF Bad, R
  <2> QED
    BY <1>1, <1>2, <1>3, WFMin
<1>5. k # 0 /\ k \in 1..n
  OBVIOUS
<1>6. k - 1 \in 0..n /\ k - 1 < k /\ k - 1 \in Nat /\ k \in Nat
  BY <1>5
<1>7. k - 1 \notin Bad
  BY <1>4, <1>6
<1> QED
  BY <1>5, <1>6, <1>7

(* What is defined from the value before it exists. *)
Follows(n, A) == [1..n -> [A -> A]]
Chains(n, A, a, F) ==
  {g \in [0..n -> A] : g[0] = a /\ \A k \in 1..n : g[k - 1] \in A /\ g[k] = F[k][g[k - 1]]}

LEMMA Iterates ==
  ASSUME NEW n \in Nat, NEW A, NEW a \in A, NEW F \in Follows(n, A)
  PROVE  Chains(n, A, a, F) # {}
<1> USE DEF Follows
<1> DEFINE Upto(g, m) == g[0] = a /\ \A k \in 1..m : g[k] = F[k][g[k - 1]]
           B == {m \in 0..n : \E g \in [0..m -> A] : Upto(g, m)}
<1>1. 0 \in B
  <2> DEFINE g == [k \in 0..0 |-> a]
  <2>1. g \in [0..0 -> A] /\ g[0] = a
    OBVIOUS
  <2>2. Upto(g, 0)
    BY <2>1
  <2>3. 0 \in 0..n
    OBVIOUS
  <2> HIDE DEF g, Upto
  <2> QED
    BY <2>1, <2>2, <2>3
<1>2. ASSUME NEW k \in 1..n, k - 1 \in B PROVE k \in B
  <2>1. PICK g \in [0..(k - 1) -> A] : Upto(g, k - 1)
    BY <1>2
  <2> DEFINE h == [j \in 0..k |-> IF j = k THEN F[k][g[k - 1]] ELSE g[j]]
  <2>2. h \in [0..k -> A]
    <3>1. g[k - 1] \in A
      OBVIOUS
    <3>2. F[k][g[k - 1]] \in A
      BY <3>1
    <3> QED
      BY <3>2
  <2>3. h[0] = a
    BY <2>1
  <2>4. ASSUME NEW j \in 1..k PROVE h[j] = F[j][h[j - 1]]
    <3>1. h[j - 1] = g[j - 1]
      OBVIOUS
    <3>2. CASE j = k
      BY <3>1, <3>2
    <3>3. CASE j # k
      <4>1. j \in 1..(k - 1) /\ j \in 0..k
        BY <3>3
      <4> QED
        BY <2>1, <3>1, <3>3, <4>1
    <3> QED
      BY <3>2, <3>3
  <2>5. Upto(h, k)
    <3> HIDE DEF h
    <3> QED
      BY <2>3, <2>4
  <2>6. k \in 0..n
    OBVIOUS
  <2> HIDE DEF h, Upto
  <2> QED
    BY <2>2, <2>5, <2>6
<1>3. \A k \in 0..n : k \in B
  <2> HIDE DEF B
  <2> QED
    BY <1>1, <1>2, CountUp
<1>4. n \in B
  BY <1>3
<1>5. PICK g \in [0..n -> A] : Upto(g, n)
  BY <1>4
<1>6. g \in Chains(n, A, a, F)
  BY <1>5 DEF Chains
<1> QED
  BY <1>6

(* Where it is a function of its own, its values are in the set. *)
LEMMA IteratesIn ==
  ASSUME NEW n \in Nat, NEW A, NEW h, h[0] \in A, \A k \in 1..n : h[k - 1] \in A => h[k] \in A
  PROVE  \A k \in 0..n : h[k] \in A
<1> DEFINE B == {k \in 0..n : h[k] \in A}
<1>1. 0 \in B
  OBVIOUS
<1>2. \A k \in 1..n : k - 1 \in B => k \in B
  OBVIOUS
<1>3. \A k \in 0..n : k \in B
  <2> HIDE DEF B
  <2> QED
    BY <1>1, <1>2, CountUp
<1> QED
  BY <1>3

(* What a pager is. *)
Marks == Themes \cup {""}
Entries == [text : Text, pad : Int, theme : Marks, sel : BOOLEAN, blank : BOOLEAN]
DocRows == [line : Nat, picture : BOOLEAN, entry : Entries]
NewRows(n) == [line : 1..n, picture : BOOLEAN, entry : {Page!Unstyled}]
PagerStates ==
  [kind : {"mail", "summary"}, lines : Seq(Line), styled : Seq(Entries), doc : Seq(DocRows),
   images : BOOLEAN, sel : BOOLEAN, width : Nat, height : Nat, x : Nat, maxX : Nat, offset : Nat,
   rows : Nat, theme : Marks, styledAt : [pad : Nat, theme : Marks], kept : BOOLEAN]

LEMMA UnstyledType == Page!Unstyled \in Entries
BY DEF Page!Unstyled, Entries, Marks, Text

LEMMA RowsOfType ==
  ASSUME NEW q, q.lines \in Seq(Line), q.images \in BOOLEAN, NEW i \in 1..Len(q.lines)
  PROVE  Page!RowsOf(q, i) \in Seq(NewRows(Len(q.lines)))
<1>1. q.lines[i].rows \in Nat /\ q.lines[i].picture \in {"none", "block", "inline"}
  <2>1. q.lines[i] \in Line
    OBVIOUS
  <2> QED
    BY <2>1 DEF Line
<1> DEFINE m == IF Page!Spans(q, q.lines[i]) THEN q.lines[i].rows ELSE 1
           row(r) == [line |-> i, picture |-> Page!Spans(q, q.lines[i]) /\ (q.lines[i].picture = "block" \/ r > 1),
                      entry |-> Page!Unstyled]
<1>2. m \in Nat
  BY <1>1
<1>3. \A r \in 1..m : row(r) \in NewRows(Len(q.lines))
  BY <1>1 DEF NewRows, Page!Spans
<1>4. Page!RowsOf(q, i) = [r \in 1..m |-> row(r)]
  BY DEF Page!RowsOf
<1> HIDE DEF m, row
<1> QED
  BY <1>2, <1>3, <1>4

(* The document is the rows of the first lines, then those of the next. *)
Docs(q) ==
  {g \in [0..Len(q.lines) -> Seq(NewRows(Len(q.lines)))] :
     /\ g[0] = <<>> /\ \A k \in 1..Len(q.lines) : g[k] = g[k - 1] \o Page!RowsOf(q, k)
     /\ Page!Doc(q) = g[Len(q.lines)]}

LEMMA DocIs ==
  ASSUME NEW q, q.lines \in Seq(Line), q.images \in BOOLEAN
  PROVE  Docs(q) # {}
<1> DEFINE n == Len(q.lines)
           A == Seq(NewRows(n))
           go(k, s) == s \o Page!RowsOf(q, k)
           F == [k \in 1..n |-> [s \in A |-> go(k, s)]]
           step(d) == [k \in 0..n |-> IF k = 0 THEN <<>> ELSE go(k, d[k - 1])]
           d == CHOOSE d : d = step(d)
<1>1. n \in Nat
  OBVIOUS
<1>2. \A k \in 1..n : Page!RowsOf(q, k) \in A
  BY RowsOfType
<1>3. F \in [1..n -> [A -> A]]
  <2> HIDE DEF n
  <2>1. \A k \in 1..n : \A s \in A : s \o Page!RowsOf(q, k) \in A
    BY <1>2, ConcatProperties
  <2> HIDE DEF A
  <2> QED
    BY <2>1
<1>4. <<>> \in A
  OBVIOUS
<1>5. PICK g \in Chains(n, A, <<>>, F) : TRUE
  <2> HIDE DEF n, A, F
  <2>1. F \in Follows(n, A)
    BY <1>3 DEF Follows
  <2> QED
    BY <1>1, <1>4, <2>1, Iterates
<1>6. g = step(g)
  <2>1. \A k \in 1..n, s \in A : F[k][s] = go(k, s)
    OBVIOUS
  <2> HIDE DEF n, A, F, go
  <2> QED
    BY <1>1, <1>5, <2>1 DEF Chains
<1>7. d = step(d)
  <2> HIDE DEF step
  <2> QED
    BY <1>6
<1>8. d[0] = <<>> /\ \A k \in 1..n : d[k] = go(k, d[k - 1])
  <2> HIDE DEF d, n, go
  <2> QED
    BY <1>1, <1>7
<1>9. d \in [0..n -> A]
  <2> HIDE DEF n, d
  <2>1. \A k \in 1..n : d[k - 1] \in A => d[k] \in A
    BY <1>2, <1>8, ConcatProperties
  <2> HIDE DEF A
  <2>2. \A k \in 0..n : d[k] \in A
    BY <1>1, <1>4, <1>8, <2>1, IteratesIn
  <2> QED
    BY <1>7, <2>2
<1>10. Page!Doc(q) = d[n]
  BY DEF Page!Doc
<1> HIDE DEF d
<1> QED
  BY <1>8, <1>9, <1>10 DEF Docs

LEMMA DocType ==
  ASSUME NEW q, q.lines \in Seq(Line), q.images \in BOOLEAN
  PROVE  Page!Doc(q) \in Seq(NewRows(Len(q.lines)))
<1>1. Len(q.lines) \in 0..Len(q.lines)
  OBVIOUS
<1> QED
  BY <1>1, DocIs DEF Docs

(* SameLines up to a line, the document is the same up to it. *)
SameLines(q, r) ==
  /\ r.images = q.images /\ Len(q.lines) <= Len(r.lines)
  /\ \A i \in 1..Len(q.lines) : r.lines[i].picture = q.lines[i].picture /\ r.lines[i].rows = q.lines[i].rows

LEMMA SameLinesRows ==
  ASSUME NEW q, NEW r, SameLines(q, r), NEW i \in 1..Len(q.lines)
  PROVE  Page!RowsOf(r, i) = Page!RowsOf(q, i)
<1>1. r.images = q.images /\ r.lines[i].picture = q.lines[i].picture /\ r.lines[i].rows = q.lines[i].rows
  BY DEF SameLines
<1>2. Page!Spans(r, r.lines[i]) = Page!Spans(q, q.lines[i])
  BY <1>1 DEF Page!Spans
<1> QED
  BY <1>1, <1>2, Zenon DEF Page!RowsOf

LEMMA DocUpTo ==
  ASSUME NEW q, q.lines \in Seq(Line), q.images \in BOOLEAN,
         NEW r, r.lines \in Seq(Line), r.images \in BOOLEAN, SameLines(q, r),
         NEW h \in Docs(r)
  PROVE  h[Len(q.lines)] = Page!Doc(q)
<1>1. PICK g \in Docs(q) : TRUE
  BY DocIs
<1> DEFINE n == Len(q.lines)
           B == {k \in 0..n : h[k] = g[k]}
<1>2. n \in Nat /\ Len(r.lines) \in Nat /\ n <= Len(r.lines)
  BY DEF SameLines
<1>3. 0 \in B
  BY <1>1, <1>2 DEF Docs
<1>4. ASSUME NEW k \in 1..n, k - 1 \in B PROVE k \in B
  <2>1. k \in 1..Len(r.lines) /\ k \in 0..n
    BY <1>2
  <2>2. Page!RowsOf(r, k) = Page!RowsOf(q, k)
    BY SameLinesRows
  <2>3. h[k - 1] = g[k - 1]
    BY <1>4
  <2>4. h[k] = h[k - 1] \o Page!RowsOf(r, k) /\ g[k] = g[k - 1] \o Page!RowsOf(q, k)
    BY <1>1, <2>1 DEF Docs
  <2>5. h[k] = g[k]
    BY <2>2, <2>3, <2>4, Zenon
  <2> QED
    BY <2>1, <2>5
<1>5. \A k \in 0..n : k \in B
  <2> HIDE DEF B, n
  <2> QED
    BY <1>2, <1>3, <1>4, CountUp
<1>6. h[n] = g[n]
  <2>1. n \in 0..n
    BY <1>2
  <2> QED
    BY <1>5, <2>1
<1> QED
  BY <1>1, <1>6 DEF Docs

LEMMA DocSame ==
  ASSUME NEW q, q.lines \in Seq(Line), q.images \in BOOLEAN,
         NEW r, r.lines \in Seq(Line), r.images \in BOOLEAN, SameLines(q, r), Len(r.lines) = Len(q.lines)
  PROVE  Page!Doc(r) = Page!Doc(q)
<1>1. PICK h \in Docs(r) : TRUE
  BY DocIs
<1>2. h[Len(q.lines)] = Page!Doc(q)
  BY <1>1, DocUpTo
<1> QED
  BY <1>1, <1>2 DEF Docs

LEMMA DocMore ==
  ASSUME NEW q, q.lines \in Seq(Line), q.images \in BOOLEAN, NEW t \in Text,
         NEW r, r.images = q.images, r.lines = Append(q.lines, Page!Plain(t))
  PROVE  /\ r.lines \in Seq(Line)
         /\ Page!Doc(r) = Append(Page!Doc(q), Page!NewRow(Len(q.lines) + 1))
<1>0. Page!Plain(t) \in Line
  BY DEF Page!Plain, Line
<1>1. r.lines \in Seq(Line) /\ Len(r.lines) = Len(q.lines) + 1 /\ r.lines[Len(q.lines) + 1] = Page!Plain(t)
  BY <1>0
<1>2. SameLines(q, r)
  <2>1. \A i \in 1..Len(q.lines) : r.lines[i] = q.lines[i]
    BY <1>0
  <2> QED
    BY <1>1, <2>1 DEF SameLines
<1>3. PICK h \in Docs(r) : TRUE
  BY <1>1, DocIs
<1>4. h[Len(q.lines)] = Page!Doc(q)
  BY <1>1, <1>2, <1>3, DocUpTo
<1>5. Page!RowsOf(r, Len(q.lines) + 1) = <<Page!NewRow(Len(q.lines) + 1)>>
  <2>1. Page!Plain(t).rows = 0
    BY DEF Page!Plain
  <2>2. Page!Spans(r, r.lines[Len(q.lines) + 1]) = FALSE
    BY <1>1, <2>1 DEF Page!Spans
  <2>3. Page!RowsOf(r, Len(q.lines) + 1) = [x \in 1..1 |-> Page!NewRow(Len(q.lines) + 1)]
    BY <2>2 DEF Page!RowsOf, Page!NewRow
  <2>4. ASSUME NEW e PROVE [x \in 1..1 |-> e] = <<e>>
    OBVIOUS
  <2> QED
    BY <2>3, <2>4
<1>6. Page!Doc(r) = Page!Doc(q) \o <<Page!NewRow(Len(q.lines) + 1)>>
  <2>1. Len(q.lines) + 1 \in 1..Len(r.lines) /\ (Len(q.lines) + 1) - 1 = Len(q.lines)
    BY <1>1
  <2>2. h[Len(q.lines) + 1] = h[(Len(q.lines) + 1) - 1] \o Page!RowsOf(r, Len(q.lines) + 1)
    BY <1>3, <2>1 DEF Docs
  <2> QED
    BY <1>1, <1>3, <1>4, <1>5, <2>1, <2>2 DEF Docs
<1>7. Page!Doc(q) \in Seq(NewRows(Len(q.lines)))
  BY DocType
<1> QED
  BY <1>1, <1>6, <1>7

(* The caches agree with what they were made from: the rows are those of *)
(* the document, a picture's row has no entry, an entry is what its line *)
(* would be styled to, and the boundary it was styled for is the one now. *)
RowsAgree(d, e) ==
  Len(d) = Len(e) /\ \A i \in 1..Len(e) : d[i].line = e[i].line /\ d[i].picture = e[i].picture
InView(q) == q.offset <= Page!High(0, Len(q.doc) - q.height)
NoneSpans(q) == \A i \in 1..Len(q.doc) : q.doc[i].picture => q.doc[i].entry = Page!Unstyled
Laid(q) ==
  \/ q.doc = Page!NoDoc /\ q.styled = <<>>
  \/ RowsAgree(q.doc, Page!Doc(q)) /\ NoneSpans(q) /\ InView(q)
StyledAs(q, i) == q.kept \/ q.styled[i] \in {Page!Unstyled, Page!StyleLine(q, i)}
AllStyled(q) == Len(q.styled) <= Len(q.lines) /\ \A i \in 1..Len(q.styled) : StyledAs(q, i)
Edged(q) == q.kept \/ q.styledAt = [pad |-> Page!Pad(q), theme |-> q.theme]
Sound(q) == q \in PagerStates /\ Laid(q) /\ AllStyled(q) /\ Edged(q)
Counted(q) == q.doc # Page!NoDoc => q.rows = Len(q.doc)

(* What a cache does not change. *)
Steady(q, r) ==
  /\ r.kind = q.kind /\ r.lines = q.lines /\ r.images = q.images /\ r.sel = q.sel /\ r.width = q.width
  /\ r.height = q.height /\ r.x = q.x /\ r.maxX = q.maxX /\ r.theme = q.theme
  /\ r.styledAt = q.styledAt /\ r.kept = q.kept

(* An entry depends on its line, the theme, the selection, the boundary and, *)
(* where there is a picture, on whether pictures are shown. *)
Padded(q) == IF q.width > 0 THEN Page!Pad(q) ELSE 0

LEMMA StyleAt ==
  ASSUME NEW q, NEW r, NEW i, r.lines[i] = q.lines[i], r.theme = q.theme, r.sel = q.sel, Padded(r) = Padded(q),
         r.images = q.images \/ q.lines[i].picture = "none"
  PROVE  Page!StyleLine(r, i) = Page!StyleLine(q, i)
<1> DEFINE l == q.lines[i]
           b == l.picture = "inline" /\ Page!Spans(q, l)
           d == l.picture = "inline" /\ Page!Spans(r, l)
<1>1. b = d
  BY DEF Page!Spans
<1>2. Page!StyleLine(q, i)
      = [text |-> l.text, pad |-> Padded(q), theme |-> q.theme, sel |-> l.label /\ q.sel, blank |-> b]
  BY Zenon DEF Page!StyleLine, Padded
<1>3. Page!StyleLine(r, i)
      = [text |-> l.text, pad |-> Padded(q), theme |-> q.theme, sel |-> l.label /\ q.sel, blank |-> d]
  BY Zenon DEF Page!StyleLine, Padded
<1> QED
  BY <1>1, <1>2, <1>3, Zenon

LEMMA StyleSteady ==
  ASSUME NEW q, NEW r, Steady(q, r), NEW i
  PROVE  Page!StyleLine(r, i) = Page!StyleLine(q, i) /\ Page!Pad(r) = Page!Pad(q)
<1>1. Page!Pad(r) = Page!Pad(q) /\ Padded(r) = Padded(q)
  BY DEF Steady, Page!Pad, Padded
<1> QED
  BY <1>1, StyleAt DEF Steady

LEMMA DocLines ==
  ASSUME NEW q \in PagerStates, NEW r \in PagerStates, r.lines = q.lines, r.images = q.images
  PROVE  Page!Doc(r) = Page!Doc(q)
<1>1. q.lines \in Seq(Line) /\ q.images \in BOOLEAN
  BY DEF PagerStates
<1>2. SameLines(q, r)
  <2>1. Len(q.lines) \in Nat
    BY <1>1
  <2> QED
    BY <2>1 DEF SameLines
<1> QED
  BY <1>1, <1>2, DocSame

LEMMA DocSteady ==
  ASSUME NEW q \in PagerStates, NEW r \in PagerStates, Steady(q, r)
  PROVE  Page!Doc(r) = Page!Doc(q)
BY DocLines DEF Steady

LEMMA StyleType ==
  ASSUME NEW q \in PagerStates, NEW i \in 1..Len(q.lines)
  PROVE  Page!StyleLine(q, i) \in Entries
<1>1. q.lines[i] \in Line
  BY DEF PagerStates
<1>2. q.width \in Nat /\ q.x \in Nat /\ q.theme \in Marks /\ q.sel \in BOOLEAN /\ q.images \in BOOLEAN
  BY DEF PagerStates
<1> DEFINE l == q.lines[i]
<1>3. l.text \in Text /\ l.label \in BOOLEAN
  BY <1>1 DEF Line
<1>4. (IF q.width > 0 THEN Page!Pad(q) ELSE 0) \in Int
  BY <1>2 DEF Page!Pad
<1>5. (l.label /\ q.sel) \in BOOLEAN /\ (l.picture = "inline" /\ Page!Spans(q, l)) \in BOOLEAN
  BY <1>2, <1>3
<1> HIDE DEF l
<1>6. Page!StyleLine(q, i)
      = [text |-> l.text, pad |-> IF q.width > 0 THEN Page!Pad(q) ELSE 0, theme |-> q.theme,
         sel |-> l.label /\ q.sel, blank |-> l.picture = "inline" /\ Page!Spans(q, l)]
  BY DEF Page!StyleLine, l
<1> QED
  BY <1>2, <1>3, <1>4, <1>5, <1>6 DEF Entries

(* The offset kept in the document. *)
Fitted(o, n, h) == Page!High(0, Page!Low(o, n - h))

LEMMA FittedIs ==
  ASSUME NEW o \in Int, NEW n \in Nat, NEW h \in Nat
  PROVE  /\ Fitted(o, n, h) \in Nat /\ Fitted(o, n, h) <= Page!High(0, n - h)
         /\ o \in Nat /\ o <= Page!High(0, n - h) => Fitted(o, n, h) = o
BY DEF Fitted, Page!High, Page!Low

LEMMA ClampIs ==
  ASSUME NEW q, q.rows \in Nat, q.height \in Nat, q.offset \in Int
  PROVE  Page!Clamp(q) = [q EXCEPT !.offset = Fitted(q.offset, q.rows, q.height)]
BY DEF Page!Clamp, Fitted

LEMMA IsSeq ==
  ASSUME NEW n \in Nat, NEW S, NEW f, f = [i \in 1..n |-> f[i]], \A i \in 1..n : f[i] \in S
  PROVE  f \in Seq(S) /\ Len(f) = n /\ DOMAIN f = 1..n
<1>1. f \in [1..n -> S]
  OBVIOUS
<1> QED
  BY <1>1, SeqDef, LenProperties

LEMMA SubSeqSame ==
  ASSUME NEW s, NEW t, NEW m \in Int, NEW n \in Int, \A i \in m..n : s[i] = t[i]
  PROVE  SubSeq(s, m, n) = SubSeq(t, m, n)
<1>1. SubSeq(s, m, n) = [i \in 1..(n - m + 1) |-> s[i + m - 1]]
  OBVIOUS
<1>2. SubSeq(t, m, n) = [i \in 1..(n - m + 1) |-> t[i + m - 1]]
  OBVIOUS
<1>3. \A i \in 1..(n - m + 1) : i + m - 1 \in m..n
  OBVIOUS
<1>4. \A i \in 1..(n - m + 1) : s[i + m - 1] = t[i + m - 1]
  BY <1>3
<1> QED
  BY <1>1, <1>2, <1>4

LEMMA DocRowsType ==
  ASSUME NEW q \in PagerStates
  PROVE  /\ Page!Doc(q) \in Seq(DocRows) /\ Page!Doc(q) # Page!NoDoc
         /\ \A i \in 1..Len(Page!Doc(q)) : /\ Page!Doc(q)[i].line \in 1..Len(q.lines)
                                           /\ Page!Doc(q)[i].entry = Page!Unstyled
<1>1. q.lines \in Seq(Line) /\ q.images \in BOOLEAN
  BY DEF PagerStates
<1>2. Page!Doc(q) \in Seq(NewRows(Len(q.lines)))
  BY <1>1, DocType
<1> DEFINE n == Len(q.lines)
           d == Page!Doc(q)
<1>3. n \in Nat
  BY <1>1
<1>4. NewRows(n) \subseteq DocRows
  <2> HIDE DEF n
  <2> QED
    BY <1>3, UnstyledType DEF NewRows, DocRows
<1> HIDE DEF n, d
<1>5. d \in Seq(NewRows(n))
  BY <1>2 DEF n, d
<1>6. d \in Seq(DocRows)
  BY <1>4, <1>5
<1>7. \A i \in 1..Len(d) : d[i] \in NewRows(n)
  BY <1>5
<1>8. \A i \in 1..Len(d) : d[i].line \in 1..n /\ d[i].entry = Page!Unstyled
  BY <1>7 DEF NewRows
<1>9. d # Page!NoDoc
  <2>1. Page!NoDoc[1].line = 0 /\ Len(Page!NoDoc) = 1
    BY DEF Page!NoDoc
  <2> QED
    BY <1>3, <1>8, <2>1
<1> QED
  BY <1>6, <1>8, <1>9 DEF n, d

LEMMA LaidOutIs ==
  ASSUME NEW q \in PagerStates, Len(q.styled) <= Len(q.lines), Edged(q),
         \A i \in 1..Len(q.styled) : q.lines[i].picture = "none" => StyledAs(q, i)
  PROVE  /\ Sound(Page!Relayout(q)) /\ Steady(q, Page!Relayout(q))
         /\ Page!Relayout(q).doc = Page!Doc(q) /\ Page!Relayout(q).rows = Len(Page!Doc(q))
         /\ Page!Relayout(q).offset = Fitted(q.offset, Len(Page!Doc(q)), q.height)
<1> DEFINE d == Page!Doc(q)
           s == [i \in DOMAIN q.styled |-> IF q.lines[i].picture = "none" THEN q.styled[i] ELSE Page!Unstyled]
           m == [q EXCEPT !.doc = d, !.styled = s, !.rows = Len(d)]
           o == Fitted(q.offset, Len(d), q.height)
           r == [m EXCEPT !.offset = o]
<1>1. d \in Seq(DocRows) /\ d # Page!NoDoc
      /\ \A i \in 1..Len(d) : d[i].line \in 1..Len(q.lines) /\ d[i].entry = Page!Unstyled
  BY DocRowsType
<1>2. s \in Seq(Entries) /\ Len(s) = Len(q.styled)
      /\ \A i \in 1..Len(s) : s[i] = IF q.lines[i].picture = "none" THEN q.styled[i] ELSE Page!Unstyled
  <2>1. q.styled \in Seq(Entries)
    BY DEF PagerStates
  <2>2. DOMAIN q.styled = 1..Len(q.styled) /\ Len(q.styled) \in Nat
    BY <2>1
  <2>3. \A i \in 1..Len(q.styled) : s[i] \in Entries
    BY <2>1, <2>2, UnstyledType
  <2>4. s = [i \in 1..Len(q.styled) |-> s[i]]
    BY <2>2
  <2> HIDE DEF s
  <2>5. s \in Seq(Entries) /\ Len(s) = Len(q.styled)
    BY <2>2, <2>3, <2>4
  <2> QED
    BY <2>2, <2>5 DEF s
<1> HIDE DEF s, d
<1>3. Len(d) \in Nat
  BY <1>1
<1>4. q.height \in Nat /\ q.offset \in Nat
  BY DEF PagerStates
<1>5. o \in Nat /\ o <= Page!High(0, Len(d) - q.height)
  <2>1. q.offset \in Int
    BY <1>4
  <2> QED
    BY <1>3, <1>4, <2>1, FittedIs, Zenon
<1> HIDE DEF o
<1>6. m \in PagerStates /\ m.rows = Len(d) /\ m.height = q.height /\ m.offset = q.offset
  BY <1>1, <1>2, <1>3 DEF PagerStates
<1>7. Page!Clamp(m) = r
  <2> HIDE DEF m
  <2> QED
    BY <1>3, <1>4, <1>6, ClampIs DEF o
<1>8. Page!Relayout(q) = r
  <2>1. Page!Relayout(q) = Page!Clamp(m)
    BY DEF Page!Relayout, s, d
  <2> QED
    BY <1>7, <2>1, Zenon
<1>9. r \in PagerStates
  BY <1>5, <1>6 DEF PagerStates
<1>10. r.doc = d /\ r.styled = s /\ r.rows = Len(d) /\ r.offset = o /\ Steady(q, r)
  BY DEF PagerStates, Steady
<1> HIDE DEF r, m
<1>11. Page!Doc(r) = d
  BY <1>9, <1>10, DocSteady DEF d
<1>12. Laid(r)
  <2>1. RowsAgree(r.doc, Page!Doc(r))
    BY <1>10, <1>11 DEF RowsAgree
  <2>2. NoneSpans(r)
    BY <1>1, <1>10 DEF NoneSpans
  <2>3. InView(r)
    BY <1>5, <1>10 DEF InView, Steady
  <2> QED
    BY <2>1, <2>2, <2>3 DEF Laid
<1>13. AllStyled(r)
  <2>1. r.lines = q.lines /\ r.kept = q.kept
    BY <1>10 DEF Steady
  <2>2. ASSUME NEW i \in 1..Len(s) PROVE StyledAs(r, i)
    <3>1. Page!StyleLine(r, i) = Page!StyleLine(q, i)
      BY <1>10, StyleSteady
    <3>2. CASE q.lines[i].picture = "none"
      <4>1. StyledAs(q, i) /\ r.styled[i] = q.styled[i]
        BY <1>2, <1>10, <3>2
      <4> QED
        BY <2>1, <3>1, <4>1 DEF StyledAs
    <3>3. CASE q.lines[i].picture # "none"
      BY <1>2, <1>10, <3>3 DEF StyledAs
    <3> QED
      BY <3>2, <3>3
  <2> QED
    BY <1>2, <1>10, <2>1, <2>2 DEF AllStyled
<1>14. Edged(r)
  <2>1. Page!Pad(r) = Page!Pad(q)
    BY <1>10, StyleSteady
  <2> QED
    BY <1>10, <2>1 DEF Edged, Steady
<1> QED
  BY <1>8, <1>9, <1>10, <1>12, <1>13, <1>14 DEF Sound, d, o

LEMMA HasDoc ==
  ASSUME NEW q \in PagerStates, RowsAgree(q.doc, Page!Doc(q))
  PROVE  q.doc # Page!NoDoc
<1>1. Len(Page!NoDoc) = 1 /\ Page!NoDoc[1].line = 0
  BY DEF Page!NoDoc
<1>2. \A i \in 1..Len(Page!Doc(q)) : Page!Doc(q)[i].line \in 1..Len(q.lines)
  BY DocRowsType
<1>3. Page!NoDoc[1].line \notin 1..Len(q.lines)
  BY <1>1
<1> QED
  BY <1>1, <1>2, <1>3 DEF RowsAgree

LEMMA LaidAs ==
  ASSUME NEW q \in PagerStates, Laid(q), NEW r \in PagerStates,
         r.lines = q.lines, r.images = q.images, r.doc = q.doc,
         q.doc = Page!NoDoc => r.styled \in {q.styled, <<>>}, q.doc # Page!NoDoc => InView(r)
  PROVE  Laid(r)
<1>1. Page!Doc(r) = Page!Doc(q)
  BY DocLines
<1>2. CASE q.doc = Page!NoDoc
  BY <1>2, HasDoc DEF Laid
<1>3. CASE q.doc # Page!NoDoc
  BY <1>1, <1>3 DEF Laid, NoneSpans
<1> QED
  BY <1>2, <1>3

(* Entries emptied, or the window moved, over the same layout. *)
LEMMA SoundAs ==
  ASSUME NEW q, Sound(q), NEW r \in PagerStates, Steady(q, r), r.doc = q.doc,
         q.doc = Page!NoDoc => r.styled \in {q.styled, <<>>}, q.doc # Page!NoDoc => InView(r),
         \/ r.styled = q.styled
         \/ Len(r.styled) <= Len(q.lines) /\ \A i \in 1..Len(r.styled) : r.styled[i] = Page!Unstyled
  PROVE  Sound(r)
<1>1. q \in PagerStates /\ Laid(q) /\ AllStyled(q) /\ Edged(q)
  BY DEF Sound
<1>2. r.lines = q.lines /\ r.images = q.images /\ r.kept = q.kept /\ r.styledAt = q.styledAt /\ r.theme = q.theme
  BY DEF Steady
<1>3. Laid(r)
  BY <1>1, <1>2, LaidAs
<1>4. Page!Pad(r) = Page!Pad(q) /\ \A i : Page!StyleLine(r, i) = Page!StyleLine(q, i)
  BY StyleSteady
<1>5. AllStyled(r)
  BY <1>1, <1>2, <1>4 DEF AllStyled, StyledAs
<1>6. Edged(r)
  BY <1>1, <1>2, <1>4 DEF Edged
<1> QED
  BY <1>3, <1>5, <1>6 DEF Sound

(* A row of the window as the document, styled anew, has it. *)
Rendered(q, r) ==
  \A i \in (r.offset + 1)..Page!Low(r.offset + r.height, r.rows) :
    q.kept \/ r.doc[i].entry = IF r.doc[i].picture THEN Page!Unstyled ELSE Page!StyleLine(q, r.doc[i].line)

LEMMA InBandIs ==
  ASSUME NEW q, Sound(q), q.doc # Page!NoDoc, Len(q.styled) = Len(q.lines)
  PROVE  /\ Sound(Page!InBand(q)) /\ Steady(q, Page!InBand(q)) /\ Page!InBand(q).rows = Len(Page!InBand(q).doc)
         /\ Page!InBand(q).offset = q.offset /\ RowsAgree(Page!InBand(q).doc, Page!Doc(q))
         /\ Page!InBand(q).doc # Page!NoDoc /\ Rendered(q, Page!InBand(q))
<1> DEFINE b == Page!Band(q)
           s == [i \in DOMAIN q.styled |-> IF q.styled[i] = Page!Unstyled /\ \E j \in b : q.doc[j].line = i
                                           THEN Page!StyleLine(q, i) ELSE q.styled[i]]
           u == [q EXCEPT !.styled = s]
           d == [i \in DOMAIN q.doc |-> IF i \in b THEN [q.doc[i] EXCEPT !.entry = s[q.doc[i].line]] ELSE q.doc[i]]
           m == [u EXCEPT !.doc = d, !.rows = Len(q.doc)]
           r == [m EXCEPT !.offset = q.offset]
<1>1. q \in PagerStates /\ AllStyled(q) /\ Edged(q)
      /\ RowsAgree(q.doc, Page!Doc(q)) /\ NoneSpans(q) /\ InView(q)
  BY DEF Sound, Laid
<1>2. /\ Page!Doc(q) \in Seq(DocRows)
      /\ \A i \in 1..Len(Page!Doc(q)) : Page!Doc(q)[i].line \in 1..Len(q.lines)
  BY <1>1, DocRowsType
<1>3. /\ q.doc \in Seq(DocRows) /\ q.styled \in Seq(Entries) /\ q.height \in Nat /\ q.offset \in Nat
      /\ Len(q.doc) \in Nat /\ Len(q.styled) \in Nat /\ DOMAIN q.doc = 1..Len(q.doc)
      /\ DOMAIN q.styled = 1..Len(q.styled)
  BY <1>1 DEF PagerStates
<1>4. \A i \in 1..Len(q.doc) : q.doc[i] \in DocRows /\ q.doc[i].line \in 1..Len(q.styled)
  <2>1. \A i \in 1..Len(q.doc) : q.doc[i] \in DocRows
    BY <1>3
  <2>2. \A i \in 1..Len(q.doc) : q.doc[i].line \in 1..Len(q.styled)
    BY <1>1, <1>2 DEF RowsAgree
  <2> QED
    BY <2>1, <2>2
<1>5. \A i \in 1..Len(q.styled) :
        s[i] = IF q.styled[i] = Page!Unstyled /\ \E j \in b : q.doc[j].line = i
               THEN Page!StyleLine(q, i) ELSE q.styled[i]
  BY <1>3
<1>6. s \in Seq(Entries) /\ Len(s) = Len(q.styled)
  <2>1. s = [i \in 1..Len(q.styled) |-> s[i]]
    BY <1>3
  <2>2. \A i \in 1..Len(q.styled) : q.styled[i] \in Entries /\ Page!StyleLine(q, i) \in Entries
    BY <1>1, <1>3, StyleType
  <2> HIDE DEF s, b
  <2>3. \A i \in 1..Len(q.styled) : s[i] \in Entries
    BY <1>5, <2>2
  <2> QED
    BY <1>3, <2>1, <2>3, IsSeq, Zenon
<1> HIDE DEF s, b
<1>7. /\ Len(d) = Len(q.doc) /\ d \in Seq(DocRows)
      /\ \A i \in 1..Len(q.doc) : /\ d[i].line = q.doc[i].line /\ d[i].picture = q.doc[i].picture
                                  /\ d[i].entry = IF i \in b THEN s[q.doc[i].line] ELSE q.doc[i].entry
  <2>1. \A i \in 1..Len(q.doc) : s[q.doc[i].line] \in Entries
    BY <1>4, <1>6
  <2>2. \A i \in 1..Len(q.doc) : d[i] = IF i \in b THEN [q.doc[i] EXCEPT !.entry = s[q.doc[i].line]] ELSE q.doc[i]
    BY <1>3
  <2>3. d = [i \in 1..Len(q.doc) |-> d[i]]
    BY <1>3
  <2> HIDE DEF d
  <2>4. ASSUME NEW i \in 1..Len(q.doc)
        PROVE  /\ d[i].line = q.doc[i].line /\ d[i].picture = q.doc[i].picture /\ d[i] \in DocRows
               /\ d[i].entry = IF i \in b THEN s[q.doc[i].line] ELSE q.doc[i].entry
    <3>1. q.doc[i] \in DocRows /\ s[q.doc[i].line] \in Entries
      BY <1>4, <2>1
    <3>2. d[i] = IF i \in b THEN [q.doc[i] EXCEPT !.entry = s[q.doc[i].line]] ELSE q.doc[i]
      BY <2>2
    <3> QED
      BY <3>1, <3>2 DEF DocRows
  <2>5. d \in Seq(DocRows) /\ Len(d) = Len(q.doc)
    BY <1>3, <2>3, <2>4, IsSeq, Zenon
  <2> QED
    BY <2>4, <2>5
<1> HIDE DEF d
<1>8. m \in PagerStates /\ m.rows = Len(q.doc) /\ m.height = q.height /\ m.offset = q.offset
  BY <1>1, <1>3, <1>6, <1>7 DEF PagerStates
<1>9. Page!Clamp(m) = r
  <2>1. Fitted(q.offset, Len(q.doc), q.height) = q.offset
    <3>1. q.offset \in Int
      BY <1>3
    <3> QED
      BY <1>1, <1>3, <3>1, FittedIs, Zenon DEF InView
  <2> HIDE DEF m
  <2>2. Page!Clamp(m) = [m EXCEPT !.offset = Fitted(m.offset, m.rows, m.height)]
    BY <1>3, <1>8, ClampIs
  <2> QED
    BY <1>8, <2>1, <2>2
<1>10. Page!InBand(q) = r
  <2>1. Page!StyleBand(q, b) = u
    BY DEF Page!StyleBand, s
  <2>2. u.doc = q.doc /\ u.styled = s
    BY <1>1 DEF PagerStates
  <2>3. Page!FillBand(u, b) = m
    <3> HIDE DEF u
    <3> QED
      BY <2>2, Zenon DEF Page!FillBand, d
  <2>4. Page!InBand(q) = Page!Clamp(Page!FillBand(Page!StyleBand(q, b), b))
    BY DEF Page!InBand, Page!Styled, b
  <2> QED
    BY <1>9, <2>1, <2>3, <2>4, Zenon
<1>11. r \in PagerStates
  BY <1>3, <1>8 DEF PagerStates
<1>12. r.doc = d /\ r.styled = s /\ r.rows = Len(q.doc) /\ r.offset = q.offset /\ Steady(q, r)
  BY <1>1 DEF PagerStates, Steady
<1> HIDE DEF r, m, u
<1>13. Page!Doc(r) = Page!Doc(q)
  BY <1>1, <1>11, <1>12, DocSteady
<1>14. RowsAgree(d, Page!Doc(q))
  BY <1>1, <1>7 DEF RowsAgree
<1>15. Laid(r)
  <2>1. RowsAgree(r.doc, Page!Doc(r))
    BY <1>12, <1>13, <1>14
  <2>2. NoneSpans(r)
    <3>1. \A i \in 1..Len(q.doc) : q.doc[i].picture => i \notin b
      BY DEF b, Page!Band
    <3> QED
      BY <1>1, <1>7, <1>12, <3>1 DEF NoneSpans
  <2>3. InView(r)
    BY <1>1, <1>7, <1>12 DEF InView, Steady
  <2> QED
    BY <2>1, <2>2, <2>3 DEF Laid
<1>16. \A i \in 1..Len(q.styled) : q.kept \/ s[i] \in {Page!Unstyled, Page!StyleLine(q, i)}
  BY <1>1, <1>5 DEF AllStyled, StyledAs
<1>17. AllStyled(r)
  <2>1. r.lines = q.lines /\ r.kept = q.kept
    BY <1>12 DEF Steady
  <2>2. \A i \in 1..Len(q.styled) : Page!StyleLine(r, i) = Page!StyleLine(q, i)
    BY <1>12, StyleSteady
  <2> QED
    BY <1>1, <1>6, <1>12, <1>16, <2>1, <2>2 DEF AllStyled, StyledAs
<1>18. Edged(r)
  <2>1. Page!Pad(r) = Page!Pad(q)
    BY <1>12, StyleSteady
  <2> QED
    BY <1>1, <1>12, <2>1 DEF Edged, Steady
<1>19. r.doc # Page!NoDoc
  <2>1. Page!NoDoc[1].line = 0 /\ Len(Page!NoDoc) = 1
    BY DEF Page!NoDoc
  <2>2. \A i \in 1..Len(d) : d[i].line \in 1..Len(q.styled)
    BY <1>4, <1>7
  <2>3. r.doc = d /\ Len(q.styled) \in Nat
    BY <1>3, <1>12
  <2> QED
    BY <2>1, <2>2, <2>3
<1>20. Rendered(q, r)
  <2>1. SUFFICES ASSUME NEW i \in (q.offset + 1)..Page!Low(q.offset + q.height, Len(q.doc)), ~q.kept
                 PROVE  d[i].entry = IF d[i].picture THEN Page!Unstyled ELSE Page!StyleLine(q, d[i].line)
    BY <1>12, Zenon DEF Rendered, Steady
  <2>2. i \in 1..Len(q.doc) /\ i \in (q.offset - Margin + 1)..(q.offset + q.height + Margin)
    BY <1>3, PagerAssumption DEF Page!Low
  <2>3. CASE q.doc[i].picture
    <3>1. i \notin b
      BY <2>3 DEF b, Page!Band
    <3> QED
      BY <1>1, <1>7, <2>2, <2>3, <3>1 DEF NoneSpans
  <2>4. CASE ~q.doc[i].picture
    <3>1. i \in b
      BY <1>3, <2>2, <2>4 DEF b, Page!Band
    <3>2. q.doc[i].line \in 1..Len(q.styled)
      BY <1>4, <2>2
    <3>3. s[q.doc[i].line] = Page!StyleLine(q, q.doc[i].line)
      BY <1>5, <1>16, <2>1, <3>1, <3>2, Zenon
    <3> QED
      BY <1>7, <2>2, <2>4, <3>1, <3>3
  <2> QED
    BY <2>3, <2>4
<1> QED
  BY <1>7, <1>10, <1>11, <1>12, <1>14, <1>15, <1>17, <1>18, <1>19, <1>20 DEF Sound

LEMMA BlanksAre ==
  ASSUME NEW n \in Nat
  PROVE  /\ Page!Blanks(n) \in Seq(Entries) /\ Len(Page!Blanks(n)) = n
         /\ \A i \in 1..n : Page!Blanks(n)[i] = Page!Unstyled
         /\ n = 0 => Page!Blanks(n) = <<>>
<1>1. \A i \in 1..n : Page!Blanks(n)[i] = Page!Unstyled
  BY DEF Page!Blanks
<1>2. Page!Blanks(n) = [i \in 1..n |-> Page!Blanks(n)[i]]
  BY DEF Page!Blanks
<1>3. Page!Blanks(n) \in Seq(Entries) /\ Len(Page!Blanks(n)) = n
  <2>1. \A i \in 1..n : Page!Blanks(n)[i] \in Entries
    BY <1>1, UnstyledType
  <2> QED
    BY <1>2, <2>1, IsSeq, Zenon
<1> QED
  BY <1>1, <1>3, EmptySeq

(* Of another length, the entries are emptied. *)
LEMMA GrownIs ==
  ASSUME NEW q, Sound(q), q.doc # Page!NoDoc, NEW r, r = Page!Grown(q)
  PROVE  Sound(r) /\ Steady(q, r) /\ r.doc = q.doc /\ r.offset = q.offset /\ Len(r.styled) = Len(r.lines)
<1>1. q \in PagerStates /\ Laid(q) /\ Len(q.lines) \in Nat
  BY DEF Sound, PagerStates
<1>2. CASE Len(q.styled) = Len(q.lines)
  BY <1>2 DEF Page!Grown, Steady
<1>3. CASE Len(q.styled) # Len(q.lines)
  <2> DEFINE s == Page!Blanks(Len(q.lines))
  <2>1. r = [q EXCEPT !.styled = s]
    BY <1>3 DEF Page!Grown
  <2>2. s \in Seq(Entries) /\ Len(s) = Len(q.lines) /\ \A i \in 1..Len(q.lines) : s[i] = Page!Unstyled
    BY <1>1, BlanksAre
  <2> HIDE DEF s
  <2>3. r \in PagerStates
    BY <1>1, <2>1, <2>2 DEF PagerStates
  <2>4. r.doc = q.doc /\ r.styled = s /\ r.offset = q.offset /\ Steady(q, r) /\ r.lines = q.lines
    BY <1>1, <2>1 DEF PagerStates, Steady
  <2>5. InView(r)
    BY <1>1, <2>4 DEF Laid, InView, Steady
  <2>6. Sound(r)
    BY <1>1, <2>2, <2>3, <2>4, <2>5, SoundAs
  <2> QED
    BY <2>2, <2>4, <2>6
<1> QED
  BY <1>2, <1>3

LEMMA SteadyOn ==
  ASSUME NEW q, NEW r, NEW t, Steady(q, r), Steady(r, t)
  PROVE  Steady(q, t)
BY Zenon DEF Steady

(* What a frame makes of a pager: the window of its document, styled anew. *)
LEMMA EnsureIs ==
  ASSUME NEW q, Sound(q)
  PROVE  /\ Sound(Page!EnsureStyled(q)) /\ Steady(q, Page!EnsureStyled(q))
         /\ Page!EnsureStyled(q).doc # Page!NoDoc /\ Counted(Page!EnsureStyled(q))
         /\ Page!EnsureStyled(q).offset = Fitted(q.offset, Len(Page!Doc(q)), q.height)
         /\ RowsAgree(Page!EnsureStyled(q).doc, Page!Doc(q)) /\ Rendered(q, Page!EnsureStyled(q))
<1> DEFINE w == IF q.doc = Page!NoDoc THEN Page!Relayout(q) ELSE q
           g == Page!Grown(w)
           r == Page!InBand(g)
<1>1. q \in PagerStates /\ Laid(q) /\ AllStyled(q) /\ Edged(q)
  BY DEF Sound
<1>2. Page!Doc(q) \in Seq(DocRows) /\ Page!Doc(q) # Page!NoDoc
  BY <1>1, DocRowsType
<1>3. q.height \in Nat /\ q.offset \in Nat /\ q.offset \in Int /\ q.lines \in Seq(Line) /\ Len(q.lines) \in Nat
  BY <1>1 DEF PagerStates
<1>4. /\ Sound(w) /\ Steady(q, w) /\ w.doc # Page!NoDoc
      /\ w.offset = Fitted(q.offset, Len(Page!Doc(q)), q.height)
  <2>1. CASE q.doc = Page!NoDoc
    BY <1>1, <1>2, <2>1, LaidOutIs DEF AllStyled
  <2>2. CASE q.doc # Page!NoDoc
    <3>1. RowsAgree(q.doc, Page!Doc(q)) /\ InView(q) /\ w = q
      BY <1>1, <2>2 DEF Laid
    <3>2. Len(q.doc) = Len(Page!Doc(q)) /\ Len(Page!Doc(q)) \in Nat
      BY <1>2, <3>1 DEF RowsAgree
    <3>3. q.offset = Fitted(q.offset, Len(Page!Doc(q)), q.height)
      BY <1>3, <3>1, <3>2, FittedIs, Zenon DEF InView
    <3> QED
      BY <2>2, <3>1, <3>3 DEF Steady
  <2> QED
    BY <2>1, <2>2
<1> HIDE DEF w
<1>5. Sound(g) /\ Steady(w, g) /\ g.doc = w.doc /\ g.offset = w.offset /\ Len(g.styled) = Len(g.lines)
  BY <1>4, GrownIs
<1> HIDE DEF g
<1>6. /\ Sound(r) /\ Steady(g, r) /\ r.rows = Len(r.doc) /\ r.offset = g.offset
      /\ RowsAgree(r.doc, Page!Doc(g)) /\ r.doc # Page!NoDoc /\ Rendered(g, r)
  BY <1>4, <1>5, InBandIs
<1>7. Page!EnsureStyled(q) = r
  BY DEF Page!EnsureStyled, w, g
<1> HIDE DEF r
<1>8. Steady(q, g) /\ Steady(q, r)
  BY <1>4, <1>5, <1>6, SteadyOn
<1>9. g \in PagerStates
  BY <1>5 DEF Sound
<1>10. Page!Doc(g) = Page!Doc(q)
  BY <1>1, <1>8, <1>9, DocSteady
<1>11. Rendered(q, r)
  <2>1. q.kept = g.kept
    BY <1>8 DEF Steady
  <2>2. \A i : Page!StyleLine(g, i) = Page!StyleLine(q, i)
    BY <1>8, StyleSteady
  <2> QED
    BY <1>6, <2>1, <2>2 DEF Rendered
<1> QED
  BY <1>4, <1>5, <1>6, <1>7, <1>8, <1>10, <1>11, Zenon DEF Counted

LEMMA AnewIs ==
  ASSUME NEW q, Sound(q), NEW a, a = [q EXCEPT !.doc = Page!NoDoc, !.styled = <<>>]
  PROVE  Sound(a) /\ Steady(q, a) /\ a.offset = q.offset
<1>1. q \in PagerStates /\ Edged(q)
  BY DEF Sound
<1>2. Page!NoDoc \in Seq(DocRows)
  BY UnstyledType DEF Page!NoDoc, DocRows
<1>3. a \in PagerStates /\ a.doc = Page!NoDoc /\ a.styled = <<>> /\ a.offset = q.offset /\ Steady(q, a)
  <2>1. <<>> \in Seq(Entries)
    OBVIOUS
  <2> QED
    BY <1>1, <1>2, <2>1 DEF PagerStates, Steady
<1>4. AllStyled(a)
  <2>1. Len(a.lines) \in Nat
    BY <1>3 DEF PagerStates
  <2> QED
    BY <1>3, <2>1 DEF AllStyled
<1>5. Edged(a)
  <2>1. Page!Pad(a) = Page!Pad(q)
    BY <1>3, StyleSteady
  <2> QED
    BY <1>1, <1>3, <2>1 DEF Edged, Steady
<1>6. Sound(a)
  BY <1>3, <1>4, <1>5 DEF Sound, Laid
<1> QED
  BY <1>3, <1>6

LEMMA WindowIs ==
  ASSUME NEW q, Sound(q), ~q.kept
  PROVE  Page!Window(Page!EnsureStyled(q)) = Page!Window(Page!Anew(q))
<1> DEFINE a == [q EXCEPT !.doc = Page!NoDoc, !.styled = <<>>]
           r == Page!EnsureStyled(q)
           t == Page!EnsureStyled(a)
           d == Page!Doc(q)
<1>1. Sound(a) /\ Steady(q, a) /\ a.offset = q.offset
  BY AnewIs
<1> HIDE DEF a
<1>2. Page!Anew(q) = t
  BY DEF Page!Anew, a
<1>3. q \in PagerStates /\ a \in PagerStates
  BY <1>1 DEF Sound
<1>4. Page!Doc(a) = d /\ a.height = q.height /\ ~a.kept
  BY <1>1, <1>3, DocSteady DEF Steady
<1>5. /\ Sound(r) /\ Steady(q, r) /\ r.doc # Page!NoDoc /\ Counted(r)
      /\ r.offset = Fitted(q.offset, Len(d), q.height) /\ RowsAgree(r.doc, d) /\ Rendered(q, r)
  BY EnsureIs
<1>6. /\ Sound(t) /\ Steady(a, t) /\ t.doc # Page!NoDoc /\ Counted(t)
      /\ t.offset = Fitted(a.offset, Len(Page!Doc(a)), a.height) /\ RowsAgree(t.doc, Page!Doc(a)) /\ Rendered(a, t)
  BY <1>1, EnsureIs
<1> HIDE DEF r, t, d
<1>7. t.offset = r.offset /\ RowsAgree(t.doc, d)
  BY <1>1, <1>4, <1>5, <1>6
<1>8. r.height = q.height /\ t.height = q.height
  BY <1>4, <1>5, <1>6 DEF Steady
<1>9. r.rows = Len(d) /\ t.rows = Len(d) /\ Len(r.doc) = Len(d) /\ Len(t.doc) = Len(d)
  BY <1>5, <1>6, <1>7 DEF Counted, RowsAgree
<1>10. r \in PagerStates /\ t \in PagerStates
  BY <1>5, <1>6 DEF Sound
<1>11. /\ r.doc \in Seq(DocRows) /\ t.doc \in Seq(DocRows) /\ r.offset \in Nat /\ q.height \in Nat
       /\ Len(d) \in Nat
  <2>1. r.doc \in Seq(DocRows) /\ t.doc \in Seq(DocRows) /\ r.offset \in Nat /\ q.height \in Nat
    BY <1>3, <1>10 DEF PagerStates
  <2> QED
    BY <1>9, <2>1
<1> DEFINE top == r.offset + 1
           low == Page!Low(r.offset + q.height, Len(d))
<1>12. top \in Nat \ {0} /\ low \in Nat /\ low <= Len(d)
  BY <1>11 DEF Page!Low
<1>13. ASSUME NEW i \in top..low PROVE r.doc[i] = t.doc[i]
  <2>1. i \in 1..Len(d)
    BY <1>12
  <2>2. r.doc[i].line = t.doc[i].line /\ r.doc[i].picture = t.doc[i].picture
    BY <1>5, <1>7, <2>1 DEF RowsAgree
  <2>3. /\ r.doc[i].entry = IF r.doc[i].picture THEN Page!Unstyled ELSE Page!StyleLine(q, r.doc[i].line)
        /\ t.doc[i].entry = IF t.doc[i].picture THEN Page!Unstyled ELSE Page!StyleLine(a, t.doc[i].line)
    <3>1. i \in (r.offset + 1)..Page!Low(r.offset + r.height, r.rows)
      BY <1>8, <1>9
    <3>2. i \in (t.offset + 1)..Page!Low(t.offset + t.height, t.rows)
      BY <1>7, <1>8, <1>9
    <3> QED
      BY <1>4, <1>5, <1>6, <3>1, <3>2, Zenon DEF Rendered
  <2>4. Page!StyleLine(a, t.doc[i].line) = Page!StyleLine(q, t.doc[i].line)
    BY <1>1, StyleSteady
  <2>5. r.doc[i].entry = t.doc[i].entry
    BY <2>2, <2>3, <2>4
  <2>6. r.doc[i] \in DocRows /\ t.doc[i] \in DocRows
    BY <1>9, <1>11, <2>1
  <2> QED
    BY <2>2, <2>5, <2>6 DEF DocRows
<1>14. SubSeq(r.doc, top, low) = SubSeq(t.doc, top, low)
  <2>1. top \in Int /\ low \in Int
    BY <1>12
  <2> HIDE DEF top, low
  <2> QED
    BY <1>13, <2>1, SubSeqSame, Zenon
<1>15. Page!Window(r) = [top |-> r.offset, rows |-> SubSeq(r.doc, top, low)]
  BY <1>8, <1>9 DEF Page!Window
<1>16. Page!Window(t) = [top |-> r.offset, rows |-> SubSeq(t.doc, top, low)]
  BY <1>7, <1>8, <1>9 DEF Page!Window
<1> HIDE DEF top, low
<1>17. Page!Window(r) = Page!Window(t)
  BY <1>14, <1>15, <1>16
<1> QED
  BY <1>2, <1>17 DEF r

(* What a key, a resize or a picture does not change, and a boundary kept *)
(* across a re-render is not taken up again. *)
Held(q, r) == r.kind = q.kind /\ r.lines = q.lines /\ r.maxX = q.maxX /\ (r.kept => q.kept)

LEMMA SteadyHeld ==
  ASSUME NEW q, NEW r, Steady(q, r)
  PROVE  Held(q, r) /\ r.x = q.x /\ r.width = q.width
BY DEF Steady, Held

LEMMA OffsetIs ==
  ASSUME NEW q, Sound(q), Counted(q), NEW o \in Nat,
         q.doc # Page!NoDoc => o <= Page!High(0, Len(q.doc) - q.height), NEW r, r = [q EXCEPT !.offset = o]
  PROVE  Sound(r) /\ Counted(r) /\ Steady(q, r)
<1>1. q \in PagerStates /\ Laid(q) /\ AllStyled(q) /\ Edged(q)
  BY DEF Sound
<1>2. r \in PagerStates /\ r.doc = q.doc /\ r.styled = q.styled /\ r.rows = q.rows /\ r.offset = o /\ Steady(q, r)
  BY <1>1 DEF PagerStates, Steady
<1>3. q.doc # Page!NoDoc => InView(r)
  BY <1>2 DEF InView, Steady
<1>4. Sound(r) /\ Counted(r)
  BY <1>2, <1>3, SoundAs DEF Counted
<1> QED
  BY <1>2, <1>4

LEMMA ToIs ==
  ASSUME NEW q, Sound(q), Counted(q), NEW o \in Int
  PROVE  LET r == Page!Clamp([q EXCEPT !.offset = o]) IN Sound(r) /\ Counted(r) /\ Steady(q, r)
<1> DEFINE m == [q EXCEPT !.offset = o]
           f == Fitted(o, q.rows, q.height)
<1>1. q \in PagerStates
  BY DEF Sound
<1>2. q.rows \in Nat /\ q.height \in Nat
  BY <1>1 DEF PagerStates
<1>3. f \in Nat /\ f <= Page!High(0, q.rows - q.height)
  BY <1>2, FittedIs
<1>4. m.offset = o /\ m.rows = q.rows /\ m.height = q.height /\ [m EXCEPT !.offset = f] = [q EXCEPT !.offset = f]
  <2> HIDE DEF f
  <2> QED
    BY <1>1 DEF PagerStates
<1>5. Page!Clamp(m) = [q EXCEPT !.offset = f]
  <2> HIDE DEF m
  <2> QED
    BY <1>2, <1>4, ClampIs
<1>6. q.doc # Page!NoDoc => f <= Page!High(0, Len(q.doc) - q.height)
  BY <1>3 DEF Counted
<1> HIDE DEF f
<1> QED
  BY <1>3, <1>5, <1>6, OffsetIs, Zenon

(* clear() empties what is kept, and the layout stays. *)
LEMMA ClearedIs ==
  ASSUME NEW q \in PagerStates, Laid(q), Len(q.styled) <= Len(q.lines), Edged(q)
  PROVE  /\ Sound(Page!Cleared(q)) /\ Steady(q, Page!Cleared(q)) /\ (Counted(q) => Counted(Page!Cleared(q)))
         /\ Page!Cleared(q).offset = q.offset
<1> DEFINE n == Len(q.styled)
           s == Page!Blanks(n)
           e == [i \in DOMAIN q.doc |-> [q.doc[i] EXCEPT !.entry = Page!Unstyled]]
           d == IF q.doc = Page!NoDoc THEN q.doc ELSE e
           r == [q EXCEPT !.styled = s, !.doc = d]
<1>1. q.doc \in Seq(DocRows) /\ n \in Nat /\ Len(q.doc) \in Nat /\ DOMAIN q.doc = 1..Len(q.doc)
  BY DEF PagerStates
<1>2. s \in Seq(Entries) /\ Len(s) = n /\ (n = 0 => s = <<>>) /\ \A i \in 1..n : s[i] = Page!Unstyled
  <2> HIDE DEF n
  <2> QED
    BY <1>1, BlanksAre
<1> HIDE DEF s
<1>3. /\ e \in Seq(DocRows) /\ Len(e) = Len(q.doc)
      /\ \A i \in 1..Len(q.doc) : /\ e[i].line = q.doc[i].line /\ e[i].picture = q.doc[i].picture
                                  /\ e[i].entry = Page!Unstyled
  <2>1. \A i \in 1..Len(q.doc) : e[i] = [q.doc[i] EXCEPT !.entry = Page!Unstyled]
    BY <1>1
  <2>2. e = [i \in 1..Len(q.doc) |-> e[i]]
    BY <1>1
  <2>3. \A i \in 1..Len(q.doc) : q.doc[i] \in DocRows
    BY <1>1
  <2> HIDE DEF e
  <2>4. \A i \in 1..Len(q.doc) : /\ e[i].line = q.doc[i].line /\ e[i].picture = q.doc[i].picture
                                 /\ e[i].entry = Page!Unstyled /\ e[i] \in DocRows
    BY <2>1, <2>3, UnstyledType DEF DocRows
  <2>5. e \in Seq(DocRows) /\ Len(e) = Len(q.doc)
    BY <1>1, <2>2, <2>4, IsSeq, Zenon
  <2> QED
    BY <2>4, <2>5
<1> HIDE DEF e
<1>4. d \in Seq(DocRows) /\ Len(d) = Len(q.doc)
  BY <1>1, <1>3
<1>5. r \in PagerStates /\ r.doc = d /\ r.styled = s /\ r.rows = q.rows /\ r.offset = q.offset /\ Steady(q, r)
  <2> HIDE DEF d
  <2> QED
    BY <1>2, <1>4 DEF PagerStates, Steady
<1>6. Page!Cleared(q) = r
  BY Zenon DEF Page!Cleared, s, e
<1> HIDE DEF r
<1>7. Page!Doc(r) = Page!Doc(q)
  BY <1>5, DocSteady
<1>8. r.lines = q.lines /\ r.height = q.height /\ r.kept = q.kept /\ r.styledAt = q.styledAt /\ r.theme = q.theme
  BY <1>5 DEF Steady
<1>9. Laid(r)
  <2>1. CASE q.doc = Page!NoDoc /\ q.styled = <<>>
    BY <1>2, <1>5, <2>1 DEF Laid
  <2>2. CASE q.doc # Page!NoDoc
    <3>1. RowsAgree(q.doc, Page!Doc(q)) /\ InView(q) /\ d = e
      BY <2>2 DEF Laid
    <3>2. RowsAgree(r.doc, Page!Doc(r))
      BY <1>3, <1>5, <1>7, <3>1 DEF RowsAgree
    <3>3. NoneSpans(r) /\ InView(r)
      BY <1>3, <1>4, <1>5, <1>8, <3>1 DEF NoneSpans, InView
    <3> QED
      BY <3>2, <3>3 DEF Laid
  <2>3. CASE q.doc = Page!NoDoc /\ ~(q.styled = <<>>)
    <3>1. RowsAgree(q.doc, Page!Doc(q))
      BY <2>3 DEF Laid
    <3> QED
      BY <2>3, <3>1, HasDoc
  <2> QED
    BY <2>1, <2>2, <2>3
<1>10. AllStyled(r)
  BY <1>2, <1>5, <1>8 DEF AllStyled, StyledAs
<1>11. Edged(r)
  <2>1. Page!Pad(r) = Page!Pad(q)
    BY <1>5, StyleSteady
  <2> QED
    BY <1>8, <2>1 DEF Edged
<1>12. Counted(q) => Counted(r)
  BY <1>4, <1>5 DEF Counted
<1> QED
  BY <1>5, <1>6, <1>9, <1>10, <1>11, <1>12 DEF Sound

(* Another boundary or another theme empties the caches, and the same ones *)
(* keep what they made. *)
LEMMA FitIs ==
  ASSUME NEW q \in PagerStates, Laid(q), Len(q.styled) <= Len(q.lines),
         ~q.kept /\ q.styledAt.pad = Page!Pad(q) /\ q.styledAt.theme = q.theme => AllStyled(q)
  PROVE  /\ Sound(Page!Fit(q)) /\ (Counted(q) => Counted(Page!Fit(q)))
         /\ Held(q, Page!Fit(q)) /\ Page!Fit(q).x = q.x /\ Page!Fit(q).width = q.width
<1> DEFINE r == Page!Fit(q)
           edge == [pad |-> Page!Pad(q), theme |-> q.theme]
<1>1. CASE Page!Pad(q) # q.styledAt.pad \/ q.theme # q.styledAt.theme
  <2> DEFINE m == [q EXCEPT !.styledAt = edge, !.kept = FALSE]
  <2>1. r = Page!Cleared(m)
    BY <1>1 DEF Page!Fit
  <2>2. Page!Pad(q) \in Nat
    BY DEF PagerStates, Page!Pad
  <2>3. m \in PagerStates
    BY <2>2 DEF PagerStates
  <2>4. /\ m.lines = q.lines /\ m.images = q.images /\ m.doc = q.doc /\ m.styled = q.styled /\ m.offset = q.offset
        /\ m.height = q.height /\ m.kept = FALSE /\ m.styledAt = edge /\ m.kind = q.kind /\ m.maxX = q.maxX
        /\ m.x = q.x /\ m.width = q.width /\ m.theme = q.theme /\ m.rows = q.rows
    BY DEF PagerStates
  <2> HIDE DEF m
  <2>5. Laid(m)
    <3>1. q.doc # Page!NoDoc => InView(m)
      BY <2>4 DEF Laid, InView
    <3> QED
      BY <2>3, <2>4, <3>1, LaidAs
  <2>6. Edged(m)
    BY <2>4 DEF Edged, Page!Pad
  <2>7. Len(m.styled) <= Len(m.lines)
    BY <2>4
  <2>8. Sound(r) /\ Steady(m, r) /\ (Counted(m) => Counted(r))
    BY <2>1, <2>3, <2>5, <2>6, <2>7, ClearedIs
  <2>9. Counted(q) => Counted(m)
    BY <2>4 DEF Counted
  <2> HIDE DEF r
  <2>10. Held(q, r) /\ r.x = q.x /\ r.width = q.width
    BY <2>4, <2>8 DEF Steady, Held
  <2> QED
    BY <2>8, <2>9, <2>10 DEF r
<1>2. CASE Page!Pad(q) = q.styledAt.pad /\ q.theme = q.styledAt.theme
  <2>1. r = q
    BY <1>2 DEF Page!Fit
  <2>2. AllStyled(q)
    BY <1>2 DEF AllStyled, StyledAs
  <2>3. Edged(q)
    <3>1. q.styledAt \in [pad : Nat, theme : Marks]
      BY DEF PagerStates
    <3> QED
      BY <1>2, <3>1 DEF Edged
  <2> QED
    BY <2>1, <2>2, <2>3 DEF Sound, Held
<1> QED
  BY <1>1, <1>2

(* The size or the pan changes, and the pager is fitted to its boundary. *)
LEMMA RefitIs ==
  ASSUME NEW q, Sound(q), q.width > 0 \/ q.styled = <<>>, NEW m \in PagerStates, m.width > 0,
         m.lines = q.lines, m.images = q.images, m.doc = q.doc, m.styled = q.styled, m.sel = q.sel,
         m.kept = q.kept, m.styledAt = q.styledAt, q.doc # Page!NoDoc => InView(m)
  PROVE  /\ Sound(Page!Fit(m)) /\ (Counted(m) => Counted(Page!Fit(m)))
         /\ Held(m, Page!Fit(m)) /\ Page!Fit(m).x = m.x /\ Page!Fit(m).width = m.width
<1>1. q \in PagerStates /\ Laid(q) /\ AllStyled(q) /\ Edged(q)
  BY DEF Sound
<1>2. Laid(m)
  BY <1>1, LaidAs
<1>3. Len(m.styled) <= Len(m.lines)
  BY <1>1 DEF AllStyled
<1>4. ASSUME ~m.kept, m.styledAt.pad = Page!Pad(m), m.styledAt.theme = m.theme PROVE AllStyled(m)
  <2>1. CASE q.styled = <<>>
    BY <1>3, <2>1 DEF AllStyled
  <2>2. CASE q.width > 0
    <3>1. Page!Pad(m) = Page!Pad(q) /\ m.theme = q.theme
      BY <1>1, <1>4 DEF Edged
    <3>2. \A i : Page!StyleLine(m, i) = Page!StyleLine(q, i)
      BY <2>2, <3>1, StyleAt DEF Padded
    <3> QED
      BY <1>1, <3>2 DEF AllStyled, StyledAs
  <2> QED
    BY <2>1, <2>2
<1> QED
  BY <1>2, <1>3, <1>4, FitIs

LEMMA PanIs ==
  ASSUME NEW q, Sound(q), q.width > 0, NEW x \in Nat
  PROVE  /\ Sound(Page!Pan(q, x)) /\ (Counted(q) => Counted(Page!Pan(q, x)))
         /\ Held(q, Page!Pan(q, x)) /\ Page!Pan(q, x).x = x /\ Page!Pan(q, x).width = q.width
<1> DEFINE m == [q EXCEPT !.x = x]
<1>1. q \in PagerStates /\ Laid(q) /\ AllStyled(q) /\ Edged(q)
  BY DEF Sound
<1>2. m \in PagerStates
  BY <1>1 DEF PagerStates
<1>3. /\ m.lines = q.lines /\ m.images = q.images /\ m.doc = q.doc /\ m.styled = q.styled /\ m.offset = q.offset
      /\ m.height = q.height /\ m.kept = q.kept /\ m.styledAt = q.styledAt /\ m.kind = q.kind /\ m.maxX = q.maxX
      /\ m.x = x /\ m.width = q.width /\ m.theme = q.theme /\ m.rows = q.rows /\ m.sel = q.sel
  BY <1>1 DEF PagerStates
<1>4. Page!Pan(q, x) = Page!Fit(m)
  BY DEF Page!Pan
<1> HIDE DEF m
<1>5. q.doc # Page!NoDoc => InView(m)
  BY <1>1, <1>3 DEF Laid, InView
<1>6. Sound(Page!Fit(m)) /\ (Counted(m) => Counted(Page!Fit(m)))
      /\ Held(m, Page!Fit(m)) /\ Page!Fit(m).x = m.x /\ Page!Fit(m).width = m.width
  BY <1>2, <1>3, <1>5, RefitIs
<1>7. Counted(q) => Counted(m)
  BY <1>3 DEF Counted
<1>8. Held(q, Page!Fit(m))
  BY <1>3, <1>6 DEF Held
<1> QED
  BY <1>3, <1>4, <1>6, <1>7, <1>8

LEMMA SetSizeIs ==
  ASSUME NEW q, Sound(q), Counted(q), q.width > 0 \/ q.styled = <<>>,
         NEW w \in Nat \ {0}, NEW h \in Nat, NEW t \in Marks
  PROVE  /\ Sound(Page!SetSize(q, w, h, t)) /\ Counted(Page!SetSize(q, w, h, t))
         /\ Page!SetSize(q, w, h, t).doc # Page!NoDoc
         /\ Held(q, Page!SetSize(q, w, h, t)) /\ Page!SetSize(q, w, h, t).x = q.x
         /\ Page!SetSize(q, w, h, t).width = w
<1> DEFINE m == [q EXCEPT !.width = w, !.height = h, !.theme = t]
           f == Fitted(q.offset, q.rows, h)
           c == [m EXCEPT !.offset = f]
<1>1. q \in PagerStates /\ Laid(q) /\ AllStyled(q) /\ Edged(q)
  BY DEF Sound
<1>2. q.rows \in Nat /\ q.offset \in Int
  BY <1>1 DEF PagerStates
<1>3. f \in Nat /\ f <= Page!High(0, q.rows - h)
  BY <1>2, FittedIs
<1> HIDE DEF f
<1>4. m.offset = q.offset /\ m.rows = q.rows /\ m.height = h
  BY <1>1 DEF PagerStates
<1>5. Page!Clamp(m) = c
  <2> HIDE DEF m
  <2> QED
    BY <1>2, <1>4, ClampIs DEF f
<1>6. c \in PagerStates
  BY <1>1, <1>3 DEF PagerStates
<1>7. /\ c.lines = q.lines /\ c.images = q.images /\ c.doc = q.doc /\ c.styled = q.styled /\ c.offset = f
      /\ c.height = h /\ c.kept = q.kept /\ c.styledAt = q.styledAt /\ c.kind = q.kind /\ c.maxX = q.maxX
      /\ c.x = q.x /\ c.width = w /\ c.theme = t /\ c.rows = q.rows /\ c.sel = q.sel
  BY <1>1 DEF PagerStates
<1>8. Page!SetSize(q, w, h, t) = Page!EnsureStyled(Page!Fit(Page!Clamp(m)))
  BY DEF Page!SetSize
<1> HIDE DEF m, c
<1>9. q.doc # Page!NoDoc => InView(c)
  BY <1>3, <1>7 DEF Counted, InView
<1> DEFINE g == Page!Fit(c)
           r == Page!EnsureStyled(g)
<1>10. Sound(g) /\ Held(c, g) /\ g.x = c.x /\ g.width = c.width
  BY <1>6, <1>7, <1>9, RefitIs
<1> HIDE DEF g
<1>11. Sound(r) /\ Steady(g, r) /\ r.doc # Page!NoDoc /\ Counted(r)
  BY <1>10, EnsureIs
<1>12. Page!SetSize(q, w, h, t) = r
  BY <1>5, <1>8 DEF g
<1> HIDE DEF r
<1>13. Held(q, r) /\ r.x = q.x /\ r.width = w
  BY <1>7, <1>10, <1>11 DEF Steady, Held
<1> QED
  BY <1>11, <1>12, <1>13

LEMMA MaxOf ==
  ASSUME NEW n \in Nat, NEW W \in SUBSET (0..n), W # {}
  PROVE  \E w \in W : \A v \in W : v <= w
<1> DEFINE Has(V) == V # {} => \E w \in V : \A v \in V : v <= w
           B == {k \in 0..n : \A V \in SUBSET (0..k) : Has(V)}
<1>1. 0 \in B
  <2>1. ASSUME NEW V \in SUBSET (0..0) PROVE Has(V)
    <3>1. \A v \in V : v = 0
      OBVIOUS
    <3>2. ASSUME NEW u \in V PROVE \A v \in V : v <= u
      BY <3>1
    <3> QED
      BY <3>2
  <2> HIDE DEF Has
  <2> QED
    BY <2>1
<1>2. ASSUME NEW k \in 1..n, k - 1 \in B PROVE k \in B
  <2>1. SUFFICES ASSUME NEW V \in SUBSET (0..k) PROVE Has(V)
    OBVIOUS
  <2>2. CASE k \in V
    BY <2>2
  <2>3. CASE k \notin V
    <3>1. V \in SUBSET (0..(k - 1))
      BY <2>3
    <3> QED
      BY <1>2, <3>1
  <2> QED
    BY <2>2, <2>3
<1>3. \A k \in 0..n : k \in B
  <2> HIDE DEF B
  <2> QED
    BY <1>1, <1>2, CountUp
<1>4. Has(W)
  BY <1>3
<1> QED
  BY <1>4

LEMMA CellsAre ==
  ASSUME NEW text \in Text
  PROVE  Len(Page!Cells(text)) \in Nat
BY DEF Text, Page!Cells, Page!Front, Page!Last

LEMMA WidestIs ==
  ASSUME NEW lines \in Seq(Line)
  PROVE  /\ Page!Widest(lines) \in Nat
         /\ Page!Widest(lines) \in {0} \cup {Len(Page!Cells(lines[i].text)) : i \in DOMAIN lines}
<1> DEFINE n == Len(lines)
           wide(i) == Len(Page!Cells(lines[i].text))
           B == {k \in 0..n : \E m \in Nat : \A i \in 1..k : wide(i) <= m}
           W == {0} \cup {wide(i) : i \in DOMAIN lines}
<1>1. n \in Nat /\ DOMAIN lines = 1..n
  OBVIOUS
<1>2. \A i \in 1..n : wide(i) \in Nat
  <2>1. \A i \in 1..n : lines[i].text \in Text
    <3>1. \A i \in 1..n : lines[i] \in Line
      OBVIOUS
    <3> QED
      BY <3>1 DEF Line
  <2> QED
    BY <2>1, CellsAre
<1> HIDE DEF n, wide
<1>3. 0 \in B
  BY <1>1
<1>4. ASSUME NEW k \in 1..n, k - 1 \in B PROVE k \in B
  <2>1. PICK m \in Nat : \A i \in 1..(k - 1) : wide(i) <= m
    BY <1>4
  <2>2. CASE wide(k) <= m
    <3>1. \A i \in 1..k : wide(i) <= m
      BY <1>2, <2>1, <2>2
    <3> QED
      BY <1>1, <3>1
  <2>3. CASE ~(wide(k) <= m)
    <3>1. \A i \in 1..k : wide(i) <= wide(k)
      BY <1>1, <1>2, <2>1, <2>3
    <3>2. wide(k) \in Nat
      BY <1>2
    <3> QED
      BY <1>1, <3>1, <3>2
  <2> QED
    BY <2>2, <2>3
<1>5. \A k \in 0..n : k \in B
  <2> HIDE DEF B
  <2> QED
    BY <1>1, <1>3, <1>4, CountUp
<1>6. PICK m \in Nat : \A i \in 1..n : wide(i) <= m
  <2>1. n \in B
    BY <1>1, <1>5, n \in 0..n
  <2> QED
    BY <2>1
<1>7. W \in SUBSET (0..m) /\ W # {}
  BY <1>1, <1>2, <1>6
<1>8. PICK u \in W : \A v \in W : v <= u
  <2> HIDE DEF W
  <2> QED
    BY <1>7, MaxOf
<1>9. Page!Widest(lines) = CHOOSE w \in W : \A v \in W : v <= w
  BY DEF Page!Widest, wide
<1> HIDE DEF W
<1>10. Page!Widest(lines) \in W
  BY <1>8, <1>9
<1>11. 0..m \subseteq Nat
  OBVIOUS
<1> QED
  BY <1>7, <1>10, <1>11 DEF W, wide

LEMMA NewPagerIs ==
  ASSUME NEW k \in {"mail", "summary"}, NEW lines \in Seq(Line)
  PROVE  /\ Sound(Page!NewPager(k, lines)) /\ Counted(Page!NewPager(k, lines))
         /\ Page!NewPager(k, lines).styled = <<>> /\ Page!NewPager(k, lines).x = 0
         /\ Page!NewPager(k, lines).kind = k /\ Page!NewPager(k, lines).kept = FALSE
         /\ Page!NewPager(k, lines).maxX = Page!Widest(lines)
<1> DEFINE q == Page!NewPager(k, lines)
<1>1. Page!Widest(lines) \in Nat
  BY WidestIs
<1>2. Page!NoDoc \in Seq(DocRows) /\ <<>> \in Seq(Entries)
  BY UnstyledType DEF Page!NoDoc, DocRows
<1>3. /\ q.kind = k /\ q.lines = lines /\ q.styled = <<>> /\ q.doc = Page!NoDoc /\ q.width = 0 /\ q.x = 0
      /\ q.maxX = Page!Widest(lines) /\ q.theme = "" /\ q.styledAt = [pad |-> 0, theme |-> ""] /\ q.kept = FALSE
  BY DEF Page!NewPager
<1>4. q \in PagerStates
  BY <1>1, <1>2 DEF Page!NewPager, PagerStates, Marks
<1> HIDE DEF q
<1>5. Laid(q) /\ Counted(q)
  BY <1>3 DEF Laid, Counted
<1>6. AllStyled(q)
  <2>1. q.lines = lines /\ q.styled = <<>>
    BY <1>3, Zenon
  <2> QED
    BY <2>1 DEF AllStyled
<1>7. Edged(q)
  <2>1. q.width = 0 /\ q.x = 0
    BY <1>3, Zenon
  <2>2. Page!Pad(q) = 0
    BY <2>1 DEF Page!Pad
  <2> QED
    BY <1>3, <2>2, Zenon DEF Edged
<1> QED
  BY <1>3, <1>4, <1>5, <1>6, <1>7 DEF Sound, q

(* The first delta starts over from an empty text that was not panned. *)
LEMMA SetLinesIs ==
  ASSUME NEW q, Sound(q), q.x = 0
  PROVE  /\ Sound(Page!SetLines(q, <<>>)) /\ Counted(Page!SetLines(q, <<>>))
         /\ Page!SetLines(q, <<>>).kind = q.kind /\ Page!SetLines(q, <<>>).width = q.width
         /\ Page!SetLines(q, <<>>).kept = q.kept
<1> DEFINE z == Page!Widest(<<>>)
           r == [q EXCEPT !.lines = <<>>, !.doc = Page!NoDoc, !.styled = <<>>, !.offset = 0, !.x = 0, !.maxX = z]
<1>1. q \in PagerStates /\ Edged(q)
  BY DEF Sound
<1>2. z \in Nat /\ Page!NoDoc \in Seq(DocRows) /\ <<>> \in Seq(Entries) /\ <<>> \in Seq(Line)
  <2>1. <<>> \in Seq(Line)
    OBVIOUS
  <2>2. z \in Nat
    BY <2>1, WidestIs, Zenon
  <2> QED
    BY <2>1, <2>2, UnstyledType DEF Page!NoDoc, DocRows
<1> HIDE DEF z
<1>3. r \in PagerStates
  BY <1>1, <1>2 DEF PagerStates
<1>4. /\ r.lines = <<>> /\ r.styled = <<>> /\ r.doc = Page!NoDoc /\ r.x = 0 /\ r.kind = q.kind /\ r.width = q.width
      /\ r.kept = q.kept /\ r.styledAt = q.styledAt /\ r.theme = q.theme
  BY <1>1 DEF PagerStates
<1>5. Page!SetLines(q, <<>>) = r
  BY DEF Page!SetLines, z
<1> HIDE DEF r
<1>6. Laid(r) /\ Counted(r)
  BY <1>4 DEF Laid, Counted
<1>7. AllStyled(r)
  BY <1>4 DEF AllStyled
<1>8. Edged(r)
  BY <1>1, <1>4 DEF Edged, Page!Pad
<1> QED
  BY <1>3, <1>4, <1>5, <1>6, <1>7, <1>8 DEF Sound

(* What another layout, or more text, leaves alone. *)
Retains(q, r) == r.kind = q.kind /\ r.maxX = q.maxX /\ r.x = q.x /\ r.width = q.width /\ r.kept = q.kept

(* A document laid out anew, with pictures shown or hidden or one decoded. *)
LEMMA AnotherLayout ==
  ASSUME NEW q, Sound(q), NEW m \in PagerStates, Len(m.lines) = Len(q.lines),
         \A i \in 1..Len(q.lines) : /\ m.lines[i].picture = q.lines[i].picture
                                    /\ q.lines[i].picture = "none" => m.lines[i] = q.lines[i],
         m.styled = q.styled, m.theme = q.theme, m.sel = q.sel, m.width = q.width, m.x = q.x,
         m.styledAt = q.styledAt, m.kept = q.kept, m.kind = q.kind, m.maxX = q.maxX
  PROVE  /\ Sound(Page!Relayout(m)) /\ Counted(Page!Relayout(m)) /\ Page!Relayout(m).doc # Page!NoDoc
         /\ Retains(q, Page!Relayout(m))
<1>1. q \in PagerStates /\ AllStyled(q) /\ Edged(q)
  BY DEF Sound
<1>2. Len(m.styled) <= Len(m.lines)
  BY <1>1 DEF AllStyled
<1>3. Edged(m)
  BY <1>1 DEF Edged, Page!Pad
<1>4. ASSUME NEW i \in 1..Len(m.styled), m.lines[i].picture = "none" PROVE StyledAs(m, i)
  <2>1. i \in 1..Len(q.lines)
    BY <1>1, <1>2 DEF PagerStates
  <2>2. m.lines[i] = q.lines[i] /\ q.lines[i].picture = "none"
    BY <1>4, <2>1
  <2>3. Page!StyleLine(m, i) = Page!StyleLine(q, i)
    BY <2>2, StyleAt DEF Padded, Page!Pad
  <2>4. StyledAs(q, i)
    BY <1>1 DEF AllStyled
  <2> QED
    BY <2>3, <2>4 DEF StyledAs
<1> DEFINE r == Page!Relayout(m)
<1>5. Sound(r) /\ Steady(m, r) /\ r.doc = Page!Doc(m) /\ r.rows = Len(Page!Doc(m))
  BY <1>2, <1>3, <1>4, LaidOutIs
<1>6. Page!Doc(m) # Page!NoDoc
  BY DocRowsType
<1> HIDE DEF r
<1>7. Counted(r)
  BY <1>5 DEF Counted
<1>8. Retains(q, r)
  BY <1>5 DEF Steady, Retains
<1> QED
  BY <1>5, <1>6, <1>7, <1>8 DEF r

LEMMA SetImagesIs ==
  ASSUME NEW q, Sound(q), Counted(q), NEW on \in BOOLEAN
  PROVE  /\ Sound(Page!SetImages(q, on)) /\ Counted(Page!SetImages(q, on))
         /\ q.doc # Page!NoDoc => Page!SetImages(q, on).doc # Page!NoDoc
         /\ Retains(q, Page!SetImages(q, on))
<1>1. CASE q.images = on
  BY <1>1 DEF Page!SetImages, Retains
<1>2. CASE q.images # on
  <2> DEFINE m == [q EXCEPT !.images = on]
  <2>1. q \in PagerStates
    BY DEF Sound
  <2>2. m \in PagerStates
    BY <2>1 DEF PagerStates
  <2>3. /\ m.lines = q.lines /\ m.styled = q.styled /\ m.theme = q.theme /\ m.sel = q.sel /\ m.width = q.width
        /\ m.x = q.x /\ m.styledAt = q.styledAt /\ m.kept = q.kept /\ m.kind = q.kind /\ m.maxX = q.maxX
    BY <2>1 DEF PagerStates
  <2>4. Page!SetImages(q, on) = Page!Relayout(m)
    BY <1>2 DEF Page!SetImages
  <2> HIDE DEF m
  <2> DEFINE r == Page!Relayout(m)
  <2>5. /\ Sound(r) /\ Counted(r) /\ r.doc # Page!NoDoc /\ Retains(q, r)
    BY <2>2, <2>3, AnotherLayout DEF Retains
  <2> HIDE DEF r
  <2> QED
    BY <2>4, <2>5 DEF r
<1> QED
  BY <1>1, <1>2

LEMMA DecodeIs ==
  ASSUME NEW q, Sound(q), NEW k \in DOMAIN q.lines, NEW n \in Nat, q.lines[k].picture # "none",
         NEW r, r = Page!Relayout([q EXCEPT !.lines[k].rows = n])
  PROVE  Sound(r) /\ Counted(r) /\ Retains(q, r)
<1> DEFINE m == [q EXCEPT !.lines[k].rows = n]
           l == [q.lines EXCEPT ![k].rows = n]
<1>1. q \in PagerStates
  BY DEF Sound
<1>2. q.lines \in Seq(Line) /\ k \in 1..Len(q.lines) /\ q.lines[k] \in Line
  BY <1>1 DEF PagerStates
<1>3. /\ l \in Seq(Line) /\ Len(l) = Len(q.lines)
      /\ \A i \in 1..Len(q.lines) : /\ l[i].picture = q.lines[i].picture
                                    /\ q.lines[i].picture = "none" => l[i] = q.lines[i]
  <2>1. [q.lines[k] EXCEPT !.rows = n] \in Line /\ [q.lines[k] EXCEPT !.rows = n].picture = q.lines[k].picture
    BY <1>2 DEF Line
  <2>2. l \in Seq(Line) /\ Len(l) = Len(q.lines)
    BY <1>2, <2>1
  <2>3. \A i \in 1..Len(q.lines) : l[i] = IF i = k THEN [q.lines[k] EXCEPT !.rows = n] ELSE q.lines[i]
    BY <1>2
  <2> HIDE DEF l
  <2> QED
    BY <2>1, <2>2, <2>3
<1>4. m = [q EXCEPT !.lines = l]
  BY <1>1 DEF PagerStates
<1> HIDE DEF l
<1>5. m \in PagerStates
  BY <1>1, <1>3, <1>4 DEF PagerStates
<1>6. /\ m.lines = l /\ m.styled = q.styled /\ m.theme = q.theme /\ m.sel = q.sel /\ m.width = q.width
      /\ m.x = q.x /\ m.styledAt = q.styledAt /\ m.kept = q.kept /\ m.kind = q.kind /\ m.maxX = q.maxX
  BY <1>1, <1>4 DEF PagerStates
<1>7. r = Page!Relayout(m)
  OBVIOUS
<1> HIDE DEF m
<1> QED
  BY <1>3, <1>5, <1>6, <1>7, AnotherLayout DEF Retains

(* The link selection moves, and every entry goes. *)
LEMMA SetLinkSelIs ==
  ASSUME NEW q, Sound(q), Counted(q), NEW on \in BOOLEAN
  PROVE  /\ Sound(Page!SetLinkSel(q, on)) /\ Counted(Page!SetLinkSel(q, on))
         /\ Held(q, Page!SetLinkSel(q, on)) /\ Page!SetLinkSel(q, on).x = q.x
         /\ Page!SetLinkSel(q, on).width = q.width
<1>1. CASE q.sel = on
  BY <1>1 DEF Page!SetLinkSel, Held
<1>2. CASE q.sel # on
  <2> DEFINE s == Page!Blanks(Len(q.styled))
             m == [q EXCEPT !.sel = on, !.styled = s]
             r == Page!EnsureStyled(m)
  <2>1. q \in PagerStates /\ Laid(q) /\ AllStyled(q) /\ Edged(q)
    BY DEF Sound
  <2>2. Len(q.styled) \in Nat
    BY <2>1 DEF PagerStates
  <2>3. /\ s \in Seq(Entries) /\ Len(s) = Len(q.styled) /\ (q.styled = <<>> => s = <<>>)
        /\ \A i \in 1..Len(q.styled) : s[i] = Page!Unstyled
    BY <2>2, BlanksAre
  <2>4. Page!SetLinkSel(q, on) = r
    BY <1>2 DEF Page!SetLinkSel
  <2> HIDE DEF s, r
  <2>5. m \in PagerStates
    BY <2>1, <2>3 DEF PagerStates
  <2>6. /\ m.lines = q.lines /\ m.images = q.images /\ m.doc = q.doc /\ m.styled = s /\ m.offset = q.offset
        /\ m.height = q.height /\ m.kept = q.kept /\ m.styledAt = q.styledAt /\ m.kind = q.kind /\ m.maxX = q.maxX
        /\ m.x = q.x /\ m.width = q.width /\ m.theme = q.theme
    BY <2>1 DEF PagerStates
  <2> HIDE DEF m
  <2>7. Laid(m)
    <3>1. Page!Doc(m) = Page!Doc(q)
      BY <2>1, <2>5, <2>6, DocLines
    <3> QED
      BY <2>1, <2>3, <2>6, <3>1 DEF Laid, NoneSpans, InView
  <2>8. AllStyled(m)
    BY <2>1, <2>3, <2>6 DEF AllStyled, StyledAs
  <2>9. Edged(m)
    BY <2>1, <2>6 DEF Edged, Page!Pad
  <2>10. Sound(m)
    BY <2>5, <2>7, <2>8, <2>9 DEF Sound
  <2>11. Sound(r) /\ Steady(m, r) /\ Counted(r)
    BY <2>10, EnsureIs DEF r
  <2>12. Held(q, r) /\ r.x = q.x /\ r.width = q.width
    BY <2>6, <2>11 DEF Steady, Held
  <2> QED
    BY <2>4, <2>11, <2>12
<1> QED
  BY <1>1, <1>2

(* The text streams in. *)

(* The same pager, its caches good, of more text. *)
Longer(q) == {r \in PagerStates : Sound(r) /\ Counted(r) /\ Retains(q, r)}

LEMMA AppendLineIs ==
  ASSUME NEW q, Sound(q), NEW text \in Text
  PROVE  Page!AppendLine(q, text) \in Longer(q)
<1> DEFINE n == Len(q.lines)
           l == Append(q.lines, Page!Plain(text))
           row == Page!NewRow(n + 1)
           d == IF q.doc = Page!NoDoc THEN q.doc ELSE Append(q.doc, row)
           m == [q EXCEPT !.lines = l, !.doc = d]
           r == Page!EnsureStyled(m)
<1>1. q \in PagerStates /\ Laid(q) /\ AllStyled(q) /\ Edged(q)
  BY DEF Sound
<1>2. q.lines \in Seq(Line) /\ q.images \in BOOLEAN /\ q.doc \in Seq(DocRows) /\ n \in Nat /\ q.height \in Nat
      /\ q.offset \in Nat
  BY <1>1 DEF PagerStates
<1>3. Page!AppendLine(q, text) = r
  BY Zenon DEF Page!AppendLine
<1>4. row \in DocRows /\ row.line = n + 1 /\ row.picture = FALSE /\ row.entry = Page!Unstyled
  BY <1>2, UnstyledType DEF Page!NewRow, DocRows
<1>5. Page!Plain(text) \in Line
  BY DEF Page!Plain, Line
<1>6. l \in Seq(Line) /\ Len(l) = n + 1 /\ \A i \in 1..n : l[i] = q.lines[i]
  BY <1>2, <1>5
<1> HIDE DEF row
<1>7. d \in Seq(DocRows)
  BY <1>2, <1>4
<1> HIDE DEF l, d, r
<1>8. m \in PagerStates
  BY <1>1, <1>6, <1>7 DEF PagerStates
<1>9. /\ m.lines = l /\ m.images = q.images /\ m.doc = d /\ m.styled = q.styled /\ m.offset = q.offset
      /\ m.height = q.height /\ m.kept = q.kept /\ m.styledAt = q.styledAt /\ m.kind = q.kind /\ m.maxX = q.maxX
      /\ m.x = q.x /\ m.width = q.width /\ m.theme = q.theme /\ m.sel = q.sel
  BY <1>1 DEF PagerStates
<1> HIDE DEF m
<1>10. Page!Doc(m) = Append(Page!Doc(q), row)
  BY <1>2, <1>9, DocMore DEF row, l
<1>11. Laid(m)
  <2>1. CASE q.doc = Page!NoDoc
    <3>1. q.styled = <<>>
      BY <1>1, <2>1, HasDoc DEF Laid
    <3> QED
      BY <1>9, <2>1, <3>1 DEF Laid, d
  <2>2. CASE q.doc # Page!NoDoc
    <3>1. RowsAgree(q.doc, Page!Doc(q)) /\ NoneSpans(q) /\ InView(q) /\ d = Append(q.doc, row)
      BY <1>1, <2>2 DEF Laid, d
    <3>2. Page!Doc(q) \in Seq(DocRows)
      BY <1>1, DocRowsType
    <3>3. RowsAgree(d, Append(Page!Doc(q), row))
      BY <1>2, <1>4, <3>1, <3>2 DEF RowsAgree
    <3>4. NoneSpans(m)
      BY <1>2, <1>4, <1>9, <3>1 DEF NoneSpans
    <3>5. Len(d) = Len(q.doc) + 1 /\ Len(q.doc) \in Nat
      BY <1>2, <1>4, <3>1
    <3>6. InView(m)
      BY <1>2, <1>9, <3>1, <3>5 DEF InView, Page!High
    <3> QED
      BY <1>9, <1>10, <3>3, <3>4, <3>6 DEF Laid
  <2> QED
    BY <2>1, <2>2
<1>12. AllStyled(m)
  <2>1. Len(q.styled) \in Nat /\ Len(q.styled) <= n
    BY <1>1 DEF AllStyled, PagerStates
  <2>2. \A i \in 1..Len(q.styled) : Page!StyleLine(m, i) = Page!StyleLine(q, i)
    <3>1. \A i \in 1..Len(q.styled) : m.lines[i] = q.lines[i]
      BY <1>2, <1>6, <1>9, <2>1
    <3> QED
      BY <1>9, <3>1, StyleAt DEF Padded, Page!Pad
  <2> QED
    BY <1>1, <1>2, <1>6, <1>9, <2>1, <2>2 DEF AllStyled, StyledAs
<1>13. Edged(m)
  BY <1>1, <1>9 DEF Edged, Page!Pad
<1>14. Sound(m)
  BY <1>8, <1>11, <1>12, <1>13 DEF Sound
<1>15. Sound(r) /\ Steady(m, r) /\ Counted(r)
  BY <1>14, EnsureIs DEF r
<1>16. r \in PagerStates
  BY <1>15 DEF Sound
<1>17. Retains(q, r)
  BY <1>9, <1>15 DEF Steady, Retains
<1> QED
  BY <1>3, <1>15, <1>16, <1>17 DEF Longer

LEMMA AppendRowsIs ==
  ASSUME NEW q, Sound(q), Counted(q), NEW rows \in Seq(Text)
  PROVE  Page!AppendRows(q, rows) \in Longer(q)
<1> DEFINE n == Len(rows)
           A == Longer(q)
           F == [k \in 1..n |-> [r \in A |-> Page!AppendLine(r, rows[k])]]
           step(f) == [k \in 0..n |-> IF k = 0 THEN q ELSE Page!AppendLine(f[k - 1], rows[k])]
           f == CHOOSE f : f = step(f)
<1>1. n \in Nat /\ \A k \in 1..n : rows[k] \in Text
  OBVIOUS
<1>2. q \in A
  BY DEF Longer, Retains, Sound
<1> HIDE DEF n
<1>3. \A r \in A, k \in 1..n : Page!AppendLine(r, rows[k]) \in A
  <2>1. ASSUME NEW r \in A, NEW k \in 1..n PROVE Page!AppendLine(r, rows[k]) \in A
    <3>1. Page!AppendLine(r, rows[k]) \in Longer(r)
      BY <1>1, AppendLineIs DEF Longer
    <3> QED
      BY <3>1 DEF Longer, Retains
  <2> QED
    BY <2>1
<1> HIDE DEF A
<1>4. F \in [1..n -> [A -> A]] /\ \A k \in 1..n, r \in A : F[k][r] = Page!AppendLine(r, rows[k])
  BY <1>3
<1> HIDE DEF F
<1>5. PICK g \in Chains(n, A, q, F) : TRUE
  <2>1. F \in Follows(n, A)
    BY <1>4 DEF Follows
  <2> QED
    BY <1>1, <1>2, <2>1, Iterates
<1>6. g = step(g)
  BY <1>1, <1>4, <1>5 DEF Chains
<1>7. f = step(f)
  <2> HIDE DEF step
  <2> QED
    BY <1>6
<1> HIDE DEF f
<1>8. f[0] = q /\ \A k \in 1..n : f[k] = Page!AppendLine(f[k - 1], rows[k])
  BY <1>1, <1>7
<1>9. \A k \in 0..n : f[k] \in A
  <2>1. \A k \in 1..n : f[k - 1] \in A => f[k] \in A
    BY <1>3, <1>8
  <2> HIDE DEF step
  <2> QED
    BY <1>1, <1>2, <1>8, <2>1, IteratesIn
<1>10. Page!AppendRows(q, rows) = f[n]
  BY DEF Page!AppendRows, f, n
<1> QED
  BY <1>1, <1>9, <1>10 DEF A

(* Wrapping: a text of a line is at least one row. *)

LEMMA CellsType ==
  Text = Seq(Cell) /\ Page!Space \in Cell /\ Page!Newline \in Cell /\ <<"s">> \in Text /\ <<"e">> \in Text
<1>1. Text = Seq(Cell) /\ Page!Space \in Cell /\ Page!Newline \in Cell
  BY DEF Cell, Text
<1>2. "s" \in Cell /\ "e" \in Cell
  BY PagerAssumption DEF Cell
<1> QED
  BY <1>1, <1>2

LEMMA FillIs ==
  ASSUME NEW rows \in Seq(Text), NEW word \in Text, NEW w \in Nat
  PROVE  Page!Fill(rows, word, w) \in Seq(Text) /\ Page!Fill(rows, word, w) # <<>>
<1>1. CASE rows = <<>> \/ Len(Page!Last(rows)) + 1 + Len(word) > w
  <2>1. Page!Fill(rows, word, w) = Append(rows, word)
    BY <1>1, Zenon DEF Page!Fill
  <2> QED
    BY <2>1
<1>2. CASE ~(rows = <<>> \/ Len(Page!Last(rows)) + 1 + Len(word) > w)
  <2> DEFINE n == Len(rows)
             e == rows[n] \o <<Page!Space>> \o word
  <2>1. n \in 1..Len(rows)
    BY <1>2
  <2>2. e \in Text
    <3>1. rows[n] \in Seq(Cell) /\ <<Page!Space>> \in Seq(Cell) /\ word \in Seq(Cell)
      BY <2>1, CellsType DEF Text
    <3> QED
      BY <3>1 DEF Text
  <2>3. Page!Fill(rows, word, w) = [rows EXCEPT ![n] = e]
    BY <1>2 DEF Page!Fill
  <2> HIDE DEF e
  <2> QED
    BY <2>1, <2>2, <2>3
<1> QED
  BY <1>1, <1>2

LEMMA StartsAre ==
  ASSUME NEW text \in Text, NEW w \in Nat \ {0}, ~\A i \in DOMAIN text : text[i] = Page!Space
  PROVE  Page!Starts(text, w) # {} /\ Page!Starts(text, w) \subseteq 1..Len(text)
<1> DEFINE n == Len(text)
           B == {k \in 0..n : \A i \in 1..k : text[i] = Page!Space}
<1>1. n \in Nat /\ DOMAIN text = 1..n
  BY DEF Text
<1> HIDE DEF n
<1>2. PICK k \in 1..n : k - 1 \in B /\ k \notin B
  <2>1. SUFFICES ASSUME \A k \in 1..n : k - 1 \in B => k \in B PROVE FALSE
    BY Zenon
  <2>2. 0 \in B
    BY <1>1
  <2>3. \A k \in 0..n : k \in B
    <3> HIDE DEF B
    <3> QED
      BY <1>1, <2>1, <2>2, CountUp
  <2>4. n \in 0..n
    BY <1>1
  <2>5. n \in B
    BY <2>3, <2>4
  <2> QED
    BY <1>1, <2>5
<1>3. text[k] # Page!Space /\ (\A i \in 1..(k - 1) : text[i] = Page!Space)
  BY <1>1, <1>2
<1> DEFINE first(i) == CHOOSE j \in 1..i : /\ \A h \in j..i : text[h] # Page!Space
                                           /\ j = 1 \/ text[j - 1] = Page!Space
<1>4. first(k) = k
  <2> DEFINE P(j) == (\A h \in j..k : text[h] # Page!Space) /\ (j = 1 \/ text[j - 1] = Page!Space)
  <2>1. k \in 1..k /\ P(k)
    BY <1>1, <1>3
  <2>2. \A j \in 1..k : P(j) => j = k
    BY <1>1, <1>3
  <2>3. first(k) = CHOOSE j \in 1..k : P(j)
    OBVIOUS
  <2> HIDE DEF P, first
  <2> QED
    BY <2>1, <2>2, <2>3
<1>5. (k - first(k)) % w = 0
  <2>1. k - k = 0
    BY <1>1
  <2>2. 0 % w = 0
    OBVIOUS
  <2> HIDE DEF first
  <2> QED
    BY <1>4, <2>1, <2>2
<1>6. Page!Starts(text, w) = {i \in DOMAIN text : text[i] # Page!Space /\ (i - first(i)) % w = 0}
  BY DEF Page!Starts
<1> HIDE DEF first
<1>7. k \in Page!Starts(text, w)
  BY <1>1, <1>3, <1>5, <1>6
<1>8. Page!Starts(text, w) \subseteq 1..n
  BY <1>1, <1>6
<1> QED
  BY <1>7, <1>8 DEF n

LEMMA PieceIs ==
  ASSUME NEW text \in Text, NEW w \in Nat \ {0}, NEW i \in Page!Starts(text, w)
  PROVE  SubSeq(text, i, Page!EndOf(text, w, i)) \in Text
<1> DEFINE n == Len(text)
           top == Page!Low(i + w - 1, n)
           ends == {j \in i..top : \A k \in i..j : text[k] # Page!Space}
<1>1. n \in Nat /\ DOMAIN text = 1..n /\ \A k \in 1..n : text[k] \in Cell
  BY DEF Text
<1>2. i \in 1..n /\ text[i] # Page!Space
  BY <1>1 DEF Page!Starts
<1> HIDE DEF n
<1>3. top \in Nat /\ i <= top /\ top <= n
  BY <1>1, <1>2 DEF Page!Low
<1> HIDE DEF top
<1>4. i \in ends /\ ends \in SUBSET (0..n)
  BY <1>1, <1>2, <1>3
<1>5. Page!EndOf(text, w, i) = CHOOSE j \in ends : \A k \in ends : k <= j
  BY DEF Page!EndOf, top, n
<1> HIDE DEF ends
<1>6. \E j \in ends : \A k \in ends : k <= j
  BY <1>1, <1>4, MaxOf
<1>7. Page!EndOf(text, w, i) \in ends
  BY <1>5, <1>6
<1> DEFINE e == Page!EndOf(text, w, i)
<1>8. e \in 0..n
  BY <1>4, <1>7
<1> HIDE DEF e
<1>9. \A k \in i..e : text[k] \in Cell
  BY <1>1, <1>2, <1>8
<1>10. e \in Int /\ i \in Int
  BY <1>1, <1>2, <1>8
<1>11. SubSeq(text, i, e) \in Seq(Cell)
  BY <1>9, <1>10, SubSeqProperties
<1> QED
  BY <1>11 DEF e, Text

LEMMA FilledIs ==
  ASSUME NEW text \in Text, NEW w \in Nat \ {0}, ~\A i \in DOMAIN text : text[i] = Page!Space
  PROVE  Page!Filled(text, w) \in Seq(Text) /\ Page!Filled(text, w) # <<>>
<1> DEFINE n == Len(text)
           A == Seq(Text)
           s == Page!Starts(text, w)
           word(k) == SubSeq(text, k, Page!EndOf(text, w, k))
           go(k, r) == IF k \in s THEN Page!Fill(r, word(k), w) ELSE r
           F == [k \in 1..n |-> [r \in A |-> go(k, r)]]
           step(f) == [k \in 0..n |-> IF k = 0 THEN <<>>
                                      ELSE IF k \in s THEN Page!Fill(f[k - 1], SubSeq(text, k, Page!EndOf(text, w, k)), w)
                                           ELSE f[k - 1]]
           f == CHOOSE f : f = step(f)
<1>1. n \in Nat
  BY DEF Text
<1>2. s # {} /\ s \subseteq 1..n
  BY StartsAre
<1>3. <<>> \in A
  OBVIOUS
<1>4. \A k \in s : word(k) \in Text
  BY PieceIs
<1>5. Page!Filled(text, w) = f[n]
  BY DEF Page!Filled
<1> HIDE DEF n, s, word
<1>6. \A k \in 1..n, r \in A : go(k, r) \in A /\ (k \in s \/ r # <<>> => go(k, r) # <<>>)
  BY <1>4, FillIs
<1>7. F \in [1..n -> [A -> A]] /\ \A k \in 1..n, r \in A : F[k][r] = go(k, r)
  <2> HIDE DEF A, go
  <2> QED
    BY <1>6
<1> HIDE DEF A, F
<1>8. PICK g \in Chains(n, A, <<>>, F) : TRUE
  <2>1. F \in Follows(n, A)
    BY <1>7 DEF Follows
  <2> QED
    BY <1>1, <1>3, <2>1, Iterates
<1>9. step(f) = [k \in 0..n |-> IF k = 0 THEN <<>> ELSE go(k, f[k - 1])]
      /\ step(g) = [k \in 0..n |-> IF k = 0 THEN <<>> ELSE go(k, g[k - 1])]
  BY Zenon DEF word
<1>10. g = step(g)
  <2> HIDE DEF go, step, f
  <2> QED
    BY <1>1, <1>7, <1>8, <1>9 DEF Chains
<1>11. f = step(f)
  <2> HIDE DEF step
  <2> QED
    BY <1>10
<1> HIDE DEF f, step
<1>12. f[0] = <<>> /\ \A k \in 1..n : f[k] = go(k, f[k - 1])
  <2> HIDE DEF go
  <2> QED
    BY <1>1, <1>9, <1>11
<1>13. \A k \in 0..n : f[k] \in A
  <2> HIDE DEF go
  <2>1. \A k \in 1..n : f[k - 1] \in A => f[k] \in A
    BY <1>6, <1>12
  <2> QED
    BY <1>1, <1>3, <1>12, <2>1, IteratesIn
<1> DEFINE B == {k \in 0..n : (\E i \in s : i <= k) => f[k] # <<>>}
<1>14. 0 \in B
  BY <1>1, <1>2
<1>15. ASSUME NEW k \in 1..n, k - 1 \in B PROVE k \in B
  <2> HIDE DEF go
  <2>1. k \in 0..n /\ k - 1 \in 0..n
    BY <1>1
  <2>2. f[k] = go(k, f[k - 1]) /\ f[k - 1] \in A
    BY <1>12, <1>13, <2>1
  <2>3. SUFFICES ASSUME NEW i \in s, i <= k PROVE f[k] # <<>>
    BY <2>1
  <2>4. k \in s \/ f[k - 1] # <<>>
    <3>1. CASE i = k
      BY <3>1
    <3>2. CASE i # k
      <4>1. i <= k - 1
        BY <1>2, <2>3, <3>2
      <4> QED
        BY <1>15, <4>1
    <3> QED
      BY <3>1, <3>2
  <2> QED
    BY <1>6, <2>2, <2>4
<1>16. \A k \in 0..n : k \in B
  <2> HIDE DEF B
  <2> QED
    BY <1>1, <1>14, <1>15, CountUp
<1>17. n \in 0..n /\ \E i \in s : i <= n
  <2>1. PICK i \in s : i \in 1..n
    BY <1>2
  <2> QED
    BY <1>1, <2>1
<1>18. f[n] # <<>> /\ f[n] \in A
  BY <1>13, <1>16, <1>17
<1> QED
  BY <1>5, <1>18 DEF A

LEMMA WrapIs ==
  ASSUME NEW text \in Text, NEW w \in Nat \ {0}
  PROVE  Page!WrapText(text, w) \in Seq(Text) /\ Page!WrapText(text, w) # <<>>
<1>1. CASE \A i \in DOMAIN text : text[i] = Page!Space
  <2>1. <<Page!Space>> \in Text
    BY CellsType
  <2>2. Page!WrapText(text, w) = <<IF text = <<>> THEN text ELSE <<Page!Space>> >>
    <3>1. ~(w <= 0)
      OBVIOUS
    <3> QED
      BY <1>1, <3>1, Zenon DEF Page!WrapText
  <2>3. (IF text = <<>> THEN text ELSE <<Page!Space>>) \in Text
    BY <2>1
  <2>4. ASSUME NEW t \in Text PROVE <<t>> \in Seq(Text) /\ <<t>> # <<>>
    OBVIOUS
  <2> QED
    BY <2>2, <2>3, <2>4, Zenon
<1>2. CASE ~\A i \in DOMAIN text : text[i] = Page!Space
  <2> DEFINE rows == Page!Filled(text, w)
             first == <<Page!Space>> \o rows[1]
             led == IF Head(text) = Page!Space THEN [rows EXCEPT ![1] = first] ELSE rows
             last == led[Len(led)] \o <<Page!Space>>
  <2>1. rows \in Seq(Text) /\ rows # <<>>
    BY <1>2, FilledIs
  <2>2. Page!WrapText(text, w) = IF Page!Last(text) = Page!Space THEN [led EXCEPT ![Len(led)] = last] ELSE led
    <3>1. ~(w <= 0)
      OBVIOUS
    <3> QED
      BY <1>2, <3>1, Zenon DEF Page!WrapText
  <2> HIDE DEF rows
  <2>3. <<Page!Space>> \in Seq(Cell)
    BY CellsType
  <2>4. 1 \in 1..Len(rows) /\ rows[1] \in Text
    BY <2>1
  <2>5. first \in Text
    BY <2>3, <2>4, CellsType, ConcatProperties
  <2> HIDE DEF first
  <2>6. led \in Seq(Text) /\ led # <<>>
    BY <2>1, <2>4, <2>5
  <2> HIDE DEF led
  <2>7. Len(led) \in 1..Len(led) /\ led[Len(led)] \in Text
    BY <2>6
  <2>8. last \in Text
    BY <2>3, <2>7, CellsType, ConcatProperties
  <2> HIDE DEF last
  <2>9. [led EXCEPT ![Len(led)] = last] \in Seq(Text) /\ [led EXCEPT ![Len(led)] = last] # <<>>
    BY <2>6, <2>7, <2>8
  <2> QED
    BY <2>2, <2>6, <2>9
<1> QED
  BY <1>1, <1>2

LEMMA RowsAre ==
  ASSUME NEW q, q.width \in Nat \ {0}, NEW text \in Text, NEW close \in BOOLEAN
  PROVE  Page!Rows(q, text, close) \in Seq(Text) /\ Page!Rows(q, text, close) # <<>>
<1> DEFINE rows == Page!WrapText(text, q.width)
           n == Len(rows)
           e == Append(rows[n], Page!Newline)
<1>1. rows \in Seq(Text) /\ rows # <<>>
  BY WrapIs
<1>2. Page!Rows(q, text, close) = IF close THEN [rows EXCEPT ![n] = e] ELSE rows
  BY DEF Page!Rows, Page!End
<1> HIDE DEF rows
<1>3. n \in 1..Len(rows) /\ rows[n] \in Text
  BY <1>1
<1>4. e \in Text
  BY <1>3, CellsType, AppendProperties
<1> HIDE DEF e
<1>5. [rows EXCEPT ![n] = e] \in Seq(Text) /\ [rows EXCEPT ![n] = e] # <<>>
  BY <1>1, <1>3, <1>4
<1> QED
  BY <1>1, <1>2, <1>5

(* The open line is what it was up to the text, and is styled again. *)
LEMMA PlaceIs ==
  ASSUME NEW q, Sound(q), Counted(q), q.lines # <<>>, NEW rows \in Seq(Text), rows # <<>>
  PROVE  Page!Place(q, rows) \in Longer(q)
<1> DEFINE n == Len(q.lines)
           l == [q.lines EXCEPT ![n].text = rows[1]]
           s == [i \in DOMAIN q.styled |-> IF i = n THEN Page!Unstyled ELSE q.styled[i]]
           m == [q EXCEPT !.lines = l, !.styled = s]
<1>1. q \in PagerStates /\ Laid(q) /\ AllStyled(q) /\ Edged(q)
  BY DEF Sound
<1>2. q.lines \in Seq(Line) /\ q.images \in BOOLEAN /\ q.styled \in Seq(Entries)
  BY <1>1 DEF PagerStates
<1>3. n \in 1..Len(q.lines) /\ q.lines[n] \in Line
  BY <1>2
<1>4. rows[1] \in Text /\ Tail(rows) \in Seq(Text)
  <2>1. 1 \in 1..Len(rows)
    OBVIOUS
  <2> QED
    BY <2>1, HeadTailProperties
<1>5. /\ l \in Seq(Line) /\ Len(l) = n
      /\ \A i \in 1..n : l[i].picture = q.lines[i].picture /\ l[i].rows = q.lines[i].rows
      /\ \A i \in 1..n : i # n => l[i] = q.lines[i]
  <2> DEFINE e == [q.lines[n] EXCEPT !.text = rows[1]]
  <2>1. e \in Line /\ e.picture = q.lines[n].picture /\ e.rows = q.lines[n].rows
    BY <1>3, <1>4 DEF Line
  <2>2. l = [q.lines EXCEPT ![n] = e]
    OBVIOUS
  <2> HIDE DEF e, l
  <2>3. l \in Seq(Line) /\ Len(l) = n
    BY <1>2, <1>3, <2>1, <2>2
  <2>4. \A i \in 1..n : l[i] = IF i = n THEN e ELSE q.lines[i]
    BY <1>2, <1>3, <2>2
  <2> QED
    BY <2>1, <2>3, <2>4
<1>6. /\ s \in Seq(Entries) /\ Len(s) = Len(q.styled) /\ (q.styled = <<>> => s = <<>>)
      /\ \A i \in 1..Len(q.styled) : s[i] = IF i = n THEN Page!Unstyled ELSE q.styled[i]
  <2>1. Len(q.styled) \in Nat /\ DOMAIN q.styled = 1..Len(q.styled)
    BY <1>2
  <2>2. \A i \in 1..Len(q.styled) : s[i] = IF i = n THEN Page!Unstyled ELSE q.styled[i]
    BY <2>1
  <2>3. s = [i \in 1..Len(q.styled) |-> s[i]]
    BY <2>1
  <2> HIDE DEF s
  <2>4. \A i \in 1..Len(q.styled) : s[i] \in Entries
    BY <1>2, <2>2, UnstyledType
  <2>5. s \in Seq(Entries) /\ Len(s) = Len(q.styled)
    BY <2>1, <2>3, <2>4, IsSeq, Zenon
  <2>6. q.styled = <<>> => s = <<>>
    BY <2>5, EmptySeq
  <2> QED
    BY <2>2, <2>5, <2>6
<1>7. Page!Place(q, rows) = Page!AppendRows(m, Tail(rows))
  <2>1. m = [q EXCEPT !.lines[n].text = rows[1], !.styled = s]
    BY <1>1 DEF PagerStates
  <2> HIDE DEF m
  <2> QED
    BY <2>1, Zenon DEF Page!Place
<1> HIDE DEF l, s
<1>8. m \in PagerStates
  BY <1>1, <1>5, <1>6 DEF PagerStates
<1>9. /\ m.lines = l /\ m.images = q.images /\ m.doc = q.doc /\ m.styled = s /\ m.offset = q.offset
      /\ m.height = q.height /\ m.kept = q.kept /\ m.styledAt = q.styledAt /\ m.kind = q.kind /\ m.maxX = q.maxX
      /\ m.x = q.x /\ m.width = q.width /\ m.theme = q.theme /\ m.sel = q.sel /\ m.rows = q.rows
  BY <1>1 DEF PagerStates
<1> HIDE DEF m
<1>10. Page!Doc(m) = Page!Doc(q)
  <2>1. SameLines(q, m) /\ Len(m.lines) = Len(q.lines)
    BY <1>3, <1>5, <1>9 DEF SameLines
  <2> QED
    BY <1>2, <1>5, <1>9, <2>1, DocSame
<1>11. Laid(m)
  BY <1>1, <1>6, <1>9, <1>10 DEF Laid, NoneSpans, InView
<1>12. AllStyled(m)
  <2>1. Len(q.styled) <= n /\ Len(q.styled) \in Nat
    BY <1>1, <1>2 DEF AllStyled
  <2>2. ASSUME NEW i \in 1..Len(q.styled), i # n PROVE Page!StyleLine(m, i) = Page!StyleLine(q, i)
    <3>1. m.lines[i] = q.lines[i]
      BY <1>3, <1>5, <1>9, <2>1, <2>2
    <3> QED
      BY <1>9, <3>1, StyleAt DEF Padded, Page!Pad
  <2>3. ASSUME NEW i \in 1..Len(q.styled) PROVE StyledAs(m, i)
    <3>1. CASE i = n
      BY <1>6, <1>9, <3>1 DEF StyledAs
    <3>2. CASE i # n
      <4>1. s[i] = q.styled[i] /\ StyledAs(q, i)
        BY <1>1, <1>6, <3>2 DEF AllStyled
      <4> QED
        BY <1>9, <2>2, <3>2, <4>1 DEF StyledAs
    <3> QED
      BY <3>1, <3>2
  <2> QED
    BY <1>5, <1>6, <1>9, <2>1, <2>3 DEF AllStyled
<1>13. Edged(m)
  BY <1>1, <1>9 DEF Edged, Page!Pad
<1>14. Sound(m) /\ Counted(m)
  BY <1>8, <1>9, <1>11, <1>12, <1>13 DEF Sound, Counted
<1>15. Page!AppendRows(m, Tail(rows)) \in Longer(m)
  BY <1>4, <1>14, AppendRowsIs
<1> QED
  BY <1>7, <1>9, <1>15 DEF Longer, Retains

Segments == [text : Text, nl : BOOLEAN]

LEMMA SegmentIs ==
  ASSUME NEW q, Sound(q), Counted(q), q.width # 0, NEW c \in Segments
  PROVE  Page!AppendSegment(q, c) \in Longer(q)
<1>1. q \in PagerStates /\ q.width \in Nat \ {0} /\ q.lines \in Seq(Line)
  BY DEF Sound, PagerStates
<1>2. c.text \in Text /\ c.nl \in BOOLEAN
  BY DEF Segments
<1>3. CASE Page!Open(q)
  <2> DEFINE t == Page!Last(q.lines).text \o c.text
             r == Page!Place(q, Page!Rows(q, t, c.nl))
  <2>1. q.lines # <<>>
    BY <1>3 DEF Page!Open
  <2>2. t \in Text
    <3>1. Page!Last(q.lines) \in Line
      BY <1>1, <2>1 DEF Page!Last
    <3>2. Page!Last(q.lines).text \in Text
      BY <3>1 DEF Line
    <3> QED
      BY <1>2, <3>2, CellsType, ConcatProperties
  <2>3. Page!AppendSegment(q, c) = Page!EnsureStyled(r)
    BY <1>3 DEF Page!AppendSegment
  <2> HIDE DEF t
  <2>4. r \in Longer(q)
    BY <1>1, <1>2, <2>1, <2>2, RowsAre, PlaceIs
  <2> HIDE DEF r
  <2>5. Sound(Page!EnsureStyled(r)) /\ Counted(Page!EnsureStyled(r)) /\ Steady(r, Page!EnsureStyled(r))
    BY <2>4, EnsureIs DEF Longer
  <2> QED
    BY <2>3, <2>4, <2>5 DEF Longer, Retains, Sound, Steady
<1>4. CASE ~Page!Open(q)
  <2>1. Page!AppendSegment(q, c) = Page!AppendRows(q, Page!Rows(q, c.text, c.nl))
    BY <1>4 DEF Page!AppendSegment
  <2> QED
    BY <1>1, <1>2, <2>1, RowsAre, AppendRowsIs
<1> QED
  BY <1>3, <1>4

LEMMA AppendTextIs ==
  ASSUME NEW q, Sound(q), Counted(q), q.width # 0, NEW chunk \in Seq(Segments)
  PROVE  Page!AppendText(q, chunk) \in Longer(q)
<1> DEFINE n == Len(chunk)
           A == Longer(q)
           F == [k \in 1..n |-> [r \in A |-> Page!AppendSegment(r, chunk[k])]]
           step(f) == [k \in 0..n |-> IF k = 0 THEN q ELSE Page!AppendSegment(f[k - 1], chunk[k])]
           f == CHOOSE f : f = step(f)
<1>1. n \in Nat /\ \A k \in 1..n : chunk[k] \in Segments
  OBVIOUS
<1>2. q \in A
  BY DEF Longer, Retains, Sound
<1> HIDE DEF n
<1>3. \A r \in A, k \in 1..n : Page!AppendSegment(r, chunk[k]) \in A
  <2>1. ASSUME NEW r \in A, NEW k \in 1..n PROVE Page!AppendSegment(r, chunk[k]) \in A
    <3>1. Page!AppendSegment(r, chunk[k]) \in Longer(r)
      BY <1>1, SegmentIs DEF Longer, Retains
    <3> QED
      BY <3>1 DEF Longer, Retains
  <2> QED
    BY <2>1
<1> HIDE DEF A
<1>4. F \in [1..n -> [A -> A]] /\ \A k \in 1..n, r \in A : F[k][r] = Page!AppendSegment(r, chunk[k])
  BY <1>3
<1> HIDE DEF F
<1>5. PICK g \in Chains(n, A, q, F) : TRUE
  <2>1. F \in Follows(n, A)
    BY <1>4 DEF Follows
  <2> QED
    BY <1>1, <1>2, <2>1, Iterates
<1>6. g = step(g)
  BY <1>1, <1>4, <1>5 DEF Chains
<1>7. f = step(f)
  <2> HIDE DEF step
  <2> QED
    BY <1>6
<1> HIDE DEF f
<1>8. f[0] = q /\ \A k \in 1..n : f[k] = Page!AppendSegment(f[k - 1], chunk[k])
  BY <1>1, <1>7
<1>9. \A k \in 0..n : f[k] \in A
  <2>1. \A k \in 1..n : f[k - 1] \in A => f[k] \in A
    BY <1>3, <1>8
  <2> HIDE DEF step
  <2> QED
    BY <1>1, <1>2, <1>8, <2>1, IteratesIn
<1>10. Page!AppendText(q, chunk) = f[n]
  BY DEF Page!AppendText, f, n
<1> QED
  BY <1>1, <1>9, <1>10 DEF A

-----------------------------------------------------------------------------
(* What every step keeps of the pager: its caches are good, and the *)
(* placeholder of a summary was never panned. *)
PagerInv ==
  /\ Sound(page) /\ Counted(page) /\ page.width # 0 /\ deltas \in Nat
  /\ page.kind = "summary" => ~page.kept /\ (deltas = 0 => page.x = 0 /\ page.maxX <= 1)

LEMMA PagerIs ==
  ASSUME PagerInv
  PROVE  /\ Sound(page) /\ Counted(page) /\ page.width \in Nat \ {0} /\ page.width > 0 /\ page.height \in Nat
         /\ page.x \in Nat /\ page.maxX \in Nat /\ page.offset \in Nat /\ page.rows \in Nat
         /\ page.theme \in Marks /\ page.kept \in BOOLEAN /\ page.kind \in {"mail", "summary"}
<1>1. Sound(page) /\ Counted(page) /\ page.width # 0
  BY DEF PagerInv
<1>2. page \in PagerStates
  BY <1>1 DEF Sound
<1> QED
  BY <1>1, <1>2 DEF PagerStates

LEMMA PagerKept ==
  ASSUME PagerInv, Sound(page'), Counted(page'), Held(page, page'), page'.width # 0, deltas' = deltas,
         page.kind = "summary" /\ deltas = 0 => page'.x = 0
  PROVE  PagerInv'
<1>1. page'.kind = page.kind /\ page'.maxX = page.maxX /\ (page'.kept => page.kept)
  BY DEF Held
<1>2. page.kind = "summary" => ~page.kept /\ (deltas = 0 => page.x = 0 /\ page.maxX <= 1)
  BY DEF PagerInv
<1>3. page'.kind = "summary" => ~page'.kept /\ (deltas' = 0 => page'.x = 0 /\ page'.maxX <= 1)
  BY <1>1, <1>2
<1>4. deltas' \in Nat
  BY DEF PagerInv
<1> QED
  BY <1>3, <1>4 DEF PagerInv

LEMMA PagerSteady ==
  ASSUME PagerInv, Sound(page'), Counted(page'), Steady(page, page'), deltas' = deltas
  PROVE  PagerInv'
<1>1. Held(page, page') /\ page'.x = page.x /\ page'.width = page.width
  BY SteadyHeld
<1> QED
  BY <1>1, PagerKept DEF PagerInv

LEMMA PagerScroll ==
  ASSUME PagerInv, Page!Scroll
  PROVE  PagerInv'
<1>1. deltas' = deltas
  BY DEF Page!Scroll, Page!Scrolled
<1>2. Sound(page) /\ Counted(page) /\ page.height \in Nat /\ page.offset \in Nat /\ page.rows \in Nat
  BY PagerIs
<1>3. ASSUME NEW o \in Int, page' = Page!Clamp([page EXCEPT !.offset = o]) PROVE PagerInv'
  <2>1. Sound(page') /\ Counted(page') /\ Steady(page, page')
    BY <1>2, <1>3, ToIs
  <2> QED
    BY <1>1, <2>1, PagerSteady
<1>4. ASSUME NEW n \in {1, 0 - 1, page.height, 0 - page.height, page.height \div 2, 0 - (page.height \div 2)},
             page' = Page!Move(page, n)
      PROVE  PagerInv'
  <2>1. page.offset + n \in Int
    BY <1>2
  <2> QED
    BY <1>3, <1>4, <2>1 DEF Page!Move
<1>5. CASE page' = [page EXCEPT !.offset = 0]
  <2>1. 0 <= Page!High(0, Len(page.doc) - page.height)
    BY <1>2 DEF Page!High, Sound, PagerStates
  <2>2. Sound(page') /\ Counted(page') /\ Steady(page, page')
    BY <1>2, <1>5, <2>1, OffsetIs
  <2> QED
    BY <1>1, <2>2, PagerSteady
<1>6. page.rows - page.height \in Int
  BY <1>2
<1> QED
  BY <1>3, <1>4, <1>5, <1>6 DEF Page!Scroll, Page!Scrolled

LEMMA PagerPan ==
  ASSUME PagerInv, Page!PanKey
  PROVE  PagerInv'
<1>1. deltas' = deltas /\ (page' = Page!ScrollLeft(page) \/ page' = Page!ScrollRight(page))
  BY DEF Page!PanKey, Page!Scrolled
<1>2. /\ Sound(page) /\ Counted(page) /\ page.width \in Nat \ {0} /\ page.width > 0
      /\ page.x \in Nat /\ page.maxX \in Nat
  BY PagerIs
<1>3. Step \in Nat
  BY PagerAssumption
<1>4. page.kind = "summary" /\ deltas = 0 => page.x = 0 /\ page.maxX <= 1
  BY DEF PagerInv
<1>5. ASSUME NEW x \in Nat, page' = Page!Pan(page, x), page.kind = "summary" /\ deltas = 0 => x = 0
      PROVE  PagerInv'
  <2>1. Sound(page') /\ Counted(page') /\ Held(page, page') /\ page'.x = x /\ page'.width = page.width
    BY <1>2, <1>5, PanIs
  <2> QED
    BY <1>1, <1>2, <1>5, <2>1, PagerKept
<1>6. CASE page' = Page!ScrollLeft(page)
  <2> DEFINE x == Page!High(0, page.x - Step)
  <2>1. x \in Nat /\ (page.kind = "summary" /\ deltas = 0 => x = 0)
    BY <1>2, <1>3, <1>4 DEF Page!High
  <2>2. page' = Page!Pan(page, x)
    BY <1>6 DEF Page!ScrollLeft
  <2> HIDE DEF x
  <2> QED
    BY <1>5, <2>1, <2>2
<1>7. CASE page' = Page!ScrollRight(page)
  <2> DEFINE x == Page!Low(page.x + Step, Page!High(0, page.maxX - page.width))
  <2>1. x \in Nat /\ (page.kind = "summary" /\ deltas = 0 => x = 0)
    BY <1>2, <1>3, <1>4 DEF Page!High, Page!Low
  <2>2. page' = Page!Pan(page, x)
    BY <1>7 DEF Page!ScrollRight
  <2> HIDE DEF x
  <2> QED
    BY <1>5, <2>1, <2>2
<1> QED
  BY <1>1, <1>6, <1>7

LEMMA PagerLink ==
  ASSUME PagerInv, Page!LinkDigit
  PROVE  PagerInv'
<1>1. PICK on \in BOOLEAN : page' = Page!SetLinkSel(page, on) /\ deltas' = deltas
  BY DEF Page!LinkDigit, Page!Scrolled
<1>2. Sound(page) /\ Counted(page) /\ page.width # 0
  BY DEF PagerInv
<1>3. Sound(page') /\ Counted(page') /\ Held(page, page') /\ page'.x = page.x /\ page'.width = page.width
  BY <1>1, <1>2, SetLinkSelIs
<1> QED
  BY <1>1, <1>2, <1>3, PagerKept DEF PagerInv

LEMMA PagerFrame ==
  ASSUME PagerInv, Page!Frame
  PROVE  PagerInv'
<1>1. page' = Page!EnsureStyled(page) /\ deltas' = deltas
  BY DEF Page!Frame, Page!Scrolled
<1>2. Sound(page') /\ Counted(page') /\ Steady(page, page')
  BY <1>1, PagerIs, EnsureIs
<1> QED
  BY <1>1, <1>2, PagerSteady

LEMMA PagerResize ==
  ASSUME PagerInv, Page!Resize
  PROVE  PagerInv'
<1>1. PICK w \in Widths, h \in PageHeights, t \in Themes : page' = Page!SetSize(page, w, h, t)
  BY DEF Page!Resize
<1>2. deltas' = deltas
  BY DEF Page!Resize
<1>3. w \in Nat \ {0} /\ h \in Nat /\ t \in Marks
  BY PagerAssumption DEF Marks
<1>4. Sound(page) /\ Counted(page) /\ page.width > 0
  BY PagerIs
<1>5. Sound(page') /\ Counted(page') /\ Held(page, page') /\ page'.x = page.x /\ page'.width = w
  BY <1>1, <1>3, <1>4, SetSizeIs
<1> QED
  BY <1>2, <1>3, <1>5, PagerKept DEF PagerInv

(* A reply brings a new pager, which takes the place of the old one and *)
(* perhaps its boundary. *)
LEMMA FreshIs ==
  ASSUME PagerInv, NEW m \in Mails, NEW on \in BOOLEAN
  PROVE  /\ Sound(Page!Fresh(m, on)) /\ Counted(Page!Fresh(m, on)) /\ Page!Fresh(m, on).kind = "mail"
         /\ Page!Fresh(m, on).x = 0 /\ ~Page!Fresh(m, on).kept /\ Page!Fresh(m, on).width = page.width
<1> DEFINE n == Page!NewPager("mail", m)
           s == Page!SetSize(n, page.width, page.height, page.theme)
           r == Page!SetImages(s, on)
<1>1. page.width \in Nat \ {0} /\ page.height \in Nat /\ page.theme \in Marks
  BY PagerIs
<1>2. m \in Seq(Line)
  BY PagerAssumption
<1>3. Sound(n) /\ Counted(n) /\ n.styled = <<>> /\ n.x = 0 /\ n.kind = "mail" /\ n.kept = FALSE
  BY <1>2, NewPagerIs
<1> HIDE DEF n
<1>4. Sound(s) /\ Counted(s) /\ Held(n, s) /\ s.x = n.x /\ s.width = page.width
  BY <1>1, <1>3, SetSizeIs
<1>5. s.kind = "mail" /\ s.x = 0 /\ ~s.kept
  BY <1>3, <1>4 DEF Held
<1> HIDE DEF s
<1>6. Sound(r) /\ Counted(r) /\ Retains(s, r)
  BY <1>4, SetImagesIs
<1>7. Page!Fresh(m, on) = r
  BY DEF Page!Fresh, n, s
<1> HIDE DEF r
<1> QED
  BY <1>4, <1>5, <1>6, <1>7 DEF Retains

LEMMA KeptIs ==
  ASSUME PagerInv, NEW q, Sound(q), Counted(q), q.x = 0, ~q.kept, NEW x \in Nat
  PROVE  /\ Sound(Page!Kept(q, x)) /\ Counted(Page!Kept(q, x)) /\ Page!Kept(q, x).kind = q.kind
         /\ Page!Kept(q, x).width = q.width
<1> DEFINE k == x # 0
           m == [q EXCEPT !.x = x, !.kept = k]
           o == page.offset
           r == Page!Clamp([m EXCEPT !.offset = o])
<1>1. q \in PagerStates /\ Laid(q) /\ AllStyled(q) /\ Edged(q)
  BY DEF Sound
<1>2. o \in Int
  BY PagerIs
<1>3. k \in BOOLEAN /\ (~k => x = 0)
  OBVIOUS
<1>4. Page!Kept(q, x) = r
  <2>1. [m EXCEPT !.offset = o] = [q EXCEPT !.offset = o, !.x = x, !.kept = k]
    <3> HIDE DEF k, o
    <3> QED
      BY <1>1 DEF PagerStates
  <2> QED
    BY <2>1, Zenon DEF Page!Kept
<1> HIDE DEF k, o
<1>5. m \in PagerStates
  BY <1>1, <1>3 DEF PagerStates
<1>6. /\ m.lines = q.lines /\ m.images = q.images /\ m.doc = q.doc /\ m.styled = q.styled /\ m.offset = q.offset
      /\ m.height = q.height /\ m.kept = k /\ m.styledAt = q.styledAt /\ m.kind = q.kind /\ m.maxX = q.maxX
      /\ m.x = x /\ m.width = q.width /\ m.theme = q.theme /\ m.sel = q.sel /\ m.rows = q.rows
  BY <1>1 DEF PagerStates
<1> HIDE DEF m
<1>7. Laid(m)
  <2>1. q.doc # Page!NoDoc => InView(m)
    BY <1>1, <1>6 DEF Laid, InView
  <2> QED
    BY <1>1, <1>5, <1>6, <2>1, LaidAs
<1>8. AllStyled(m) /\ Edged(m)
  <2>1. CASE k
    BY <1>1, <1>6, <2>1 DEF AllStyled, StyledAs, Edged
  <2>2. CASE ~k
    <3>1. m.x = q.x
      BY <1>3, <1>6, <2>2
    <3>2. \A i : Page!StyleLine(m, i) = Page!StyleLine(q, i)
      BY <1>6, <3>1, StyleAt DEF Padded, Page!Pad
    <3>3. AllStyled(m)
      BY <1>1, <1>6, <3>2 DEF AllStyled, StyledAs
    <3>4. Edged(m)
      BY <1>1, <1>6, <3>1 DEF Edged, Page!Pad
    <3> QED
      BY <3>3, <3>4
  <2> QED
    BY <2>1, <2>2
<1>9. Sound(m) /\ Counted(m)
  BY <1>5, <1>6, <1>7, <1>8 DEF Sound, Counted
<1>10. Sound(r) /\ Counted(r) /\ Steady(m, r)
  BY <1>2, <1>9, ToIs
<1> HIDE DEF r
<1> QED
  BY <1>4, <1>6, <1>10 DEF Steady

LEMMA PagerLoad ==
  ASSUME PagerInv, Page!Load
  PROVE  PagerInv'
<1>1. PICK m \in Mails, on \in BOOLEAN, keep \in BOOLEAN :
         page' = IF keep THEN Page!Back(Page!Fresh(m, on)) ELSE Page!Fresh(m, on)
  BY DEF Page!Load
<1>2. deltas' \in Nat
  BY DEF Page!Load, PagerInv
<1> DEFINE q == Page!Fresh(m, on)
<1>3. Sound(q) /\ Counted(q) /\ q.kind = "mail" /\ q.x = 0 /\ ~q.kept /\ q.width = page.width
  BY FreshIs
<1> HIDE DEF q
<1>4. Sound(page') /\ Counted(page') /\ page'.kind = "mail" /\ page'.width = page.width
  <2>1. CASE keep
    <3> DEFINE x == Page!Low(page.x, Page!High(0, q.maxX - q.width))
    <3>1. q.maxX \in Nat /\ q.width \in Nat
      BY <1>3 DEF Sound, PagerStates
    <3>2. x \in Nat
      BY <3>1, PagerIs DEF Page!Low, Page!High
    <3>3. page' = Page!Kept(q, x)
      BY <1>1, <2>1 DEF Page!Back, q
    <3> HIDE DEF x
    <3> QED
      BY <1>3, <3>2, <3>3, KeptIs
  <2>2. CASE ~keep
    BY <1>1, <1>3, <2>2 DEF q
  <2> QED
    BY <2>1, <2>2
<1> QED
  BY <1>2, <1>4 DEF PagerInv

LEMMA PagerPictures ==
  ASSUME PagerInv, Page!Pictures
  PROVE  PagerInv'
<1>1. page' = Page!SetImages(page, ~page.images) /\ deltas' = deltas
  BY DEF Page!Pictures
<1>2. Sound(page) /\ Counted(page) /\ page.width # 0
  BY DEF PagerInv
<1>3. (~page.images) \in BOOLEAN
  OBVIOUS
<1>4. Sound(page') /\ Counted(page') /\ Retains(page, page')
  BY <1>1, <1>2, <1>3, SetImagesIs
<1> QED
  BY <1>1, <1>4 DEF PagerInv, Retains

LEMMA PagerDecode ==
  ASSUME PagerInv, Page!Decode
  PROVE  PagerInv'
<1>1. PICK i \in DOMAIN page.lines, n \in 1..page.height :
         page.lines[i].picture # "none" /\ page' = Page!Relayout([page EXCEPT !.lines[i].rows = n])
  BY DEF Page!Decode
<1>2. deltas' = deltas
  BY DEF Page!Decode
<1>3. Sound(page) /\ n \in Nat
  BY PagerIs
<1>4. Sound(page') /\ Counted(page') /\ Retains(page, page')
  BY <1>1, <1>3, DecodeIs
<1> QED
  BY <1>2, <1>4 DEF PagerInv, Retains

LEMMA PagerChunk ==
  ASSUME PagerInv, Page!Chunk
  PROVE  PagerInv'
<1>1. page.kind = "summary" /\ deltas' = deltas + 1
  BY DEF Page!Chunk
<1>2. PICK c \in Chunks : page' = Page!AppendText(IF deltas = 0 THEN Page!SetLines(page, <<>>) ELSE page, c)
  BY DEF Page!Chunk
<1> DEFINE q == IF deltas = 0 THEN Page!SetLines(page, <<>>) ELSE page
<1>3. Sound(q) /\ Counted(q) /\ q.kind = page.kind /\ q.width = page.width /\ q.kept = page.kept
  <2>1. CASE deltas = 0
    <3>1. Sound(page) /\ page.x = 0
      BY <1>1, <2>1 DEF PagerInv
    <3> QED
      BY <2>1, <3>1, SetLinesIs
  <2>2. CASE deltas # 0
    BY <2>2 DEF PagerInv
  <2> QED
    BY <2>1, <2>2
<1>4. page' = Page!AppendText(q, c)
  BY <1>2
<1> HIDE DEF q
<1>5. q.width # 0 /\ c \in Seq(Segments)
  BY <1>3, PagerAssumption DEF PagerInv, Segments
<1>6. page' \in Longer(q)
  BY <1>3, <1>4, <1>5, AppendTextIs
<1>7. Sound(page') /\ Counted(page') /\ page'.width = page.width /\ page'.kept = page.kept
  BY <1>3, <1>6 DEF Longer, Retains
<1>8. deltas' \in Nat /\ deltas' # 0
  BY <1>1 DEF PagerInv
<1> QED
  BY <1>1, <1>7, <1>8 DEF PagerInv

LEMMA PagerFailed ==
  ASSUME PagerInv, Page!Failed
  PROVE  PagerInv'
<1>1. page' = Page!AppendLine(page, <<"e">>) /\ deltas' = deltas
  BY DEF Page!Failed
<1>2. page' \in Longer(page)
  BY <1>1, CellsType, AppendLineIs DEF PagerInv
<1> QED
  BY <1>1, <1>2 DEF PagerInv, Longer, Retains

LEMMA PagerStart ==
  ASSUME Page!Init
  PROVE  PagerInv
<1> DEFINE s == <<"s">>
           ls == <<Page!Plain(s)>>
<1>1. s \in Text
  BY CellsType
<1>2. PICK m \in Mails, w \in Widths, h \in PageHeights, t \in Themes :
         page \in {Page!SetSize(Page!NewPager("mail", m), w, h, t), Page!SetSize(Page!NewPager("summary", ls), w, h, t)}
  BY Zenon DEF Page!Init
<1>3. deltas = 0
  BY DEF Page!Init
<1>4. w \in Nat \ {0} /\ h \in Nat /\ t \in Marks /\ m \in Seq(Line)
  BY PagerAssumption DEF Marks
<1>5. ls \in Seq(Line)
  <2> HIDE DEF s
  <2>1. Page!Plain(s) \in Line
    BY <1>1 DEF Page!Plain, Line
  <2> QED
    BY <2>1
<1>6. Page!Widest(ls) <= 1
  <2>1. Page!Cells(s) = <<>> \/ Page!Cells(s) = s
    BY DEF Page!Cells, Page!Front
  <2>2. Len(Page!Cells(s)) \in 0..1
    BY <2>1
  <2>3. DOMAIN ls = {1} /\ ls[1].text = s
    BY DEF Page!Plain
  <2>4. Page!Widest(ls) \in {0} \cup {Len(Page!Cells(ls[i].text)) : i \in DOMAIN ls}
    <3> HIDE DEF ls
    <3> QED
      BY <1>5, WidestIs
  <2> DEFINE c == Len(Page!Cells(s))
  <2> HIDE DEF ls, s
  <2>5. Page!Widest(ls) = 0 \/ Page!Widest(ls) = c
    BY <2>3, <2>4, Zenon
  <2>6. c \in 0..1
    BY <2>2
  <2> HIDE DEF c
  <2> QED
    BY <2>5, <2>6
<1> HIDE DEF ls
<1>7. ASSUME NEW k \in {"mail", "summary"}, NEW lines \in Seq(Line), k = "summary" => Page!Widest(lines) <= 1,
             page = Page!SetSize(Page!NewPager(k, lines), w, h, t)
      PROVE  PagerInv
  <2> DEFINE q == Page!NewPager(k, lines)
  <2>1. /\ Sound(q) /\ Counted(q) /\ q.styled = <<>> /\ q.x = 0 /\ q.kind = k /\ q.kept = FALSE
        /\ q.maxX = Page!Widest(lines)
    BY NewPagerIs
  <2> HIDE DEF q
  <2>2. Sound(page) /\ Counted(page) /\ Held(q, page) /\ page.x = q.x /\ page.width = w
    BY <1>4, <1>7, <2>1, SetSizeIs DEF q
  <2>3. page.kind = k /\ page.maxX = Page!Widest(lines) /\ ~page.kept /\ page.x = 0 /\ page.width # 0
    BY <1>4, <2>1, <2>2 DEF Held
  <2> QED
    BY <1>3, <1>7, <2>2, <2>3 DEF PagerInv
<1>8. CASE page = Page!SetSize(Page!NewPager("mail", m), w, h, t)
  BY <1>4, <1>7, <1>8
<1>9. CASE page = Page!SetSize(Page!NewPager("summary", ls), w, h, t)
  BY <1>5, <1>6, <1>7, <1>9
<1> QED
  BY <1>2, <1>8, <1>9

LEMMA PagerNext ==
  ASSUME PagerInv, [Page!Next]_Page!vars
  PROVE  PagerInv'
<1>1. CASE UNCHANGED Page!vars
  <2>1. page' = page /\ deltas' = deltas
    BY <1>1 DEF Page!vars
  <2> QED
    BY <2>1 DEF PagerInv
<1> QED
  BY <1>1, PagerScroll, PagerPan, PagerLink, PagerFrame, PagerResize, PagerLoad, PagerPictures, PagerDecode,
     PagerChunk, PagerFailed DEF Page!Next

(* Whatever was scrolled, panned, resized, decoded, selected or streamed in, *)
(* the rows a frame shows are those of the document styled anew from its *)
(* lines: ensureStyled of pager.go fills in what is missing of two caches *)
(* that setSize, setLinkSel, relayout, append and wrapLast keep good, and *)
(* only a boundary kept across a re-render is out of date. *)
THEOREM SpecWindowTrue == Page!Spec => []WindowTrue
<1>1. Page!Init => PagerInv
  BY PagerStart
<1>2. PagerInv /\ [Page!Next]_Page!vars => PagerInv'
  BY PagerNext
<1>3. PagerInv => WindowTrue
  <2>1. PagerInv => Sound(page)
    BY DEF PagerInv
  <2> QED
    BY <2>1, WindowIs DEF WindowTrue, Page!WindowTrue
<1> QED
  BY <1>1, <1>2, <1>3, PTL DEF Page!Spec

=============================================================================
