---------------------------- MODULE Services_proofs ----------------------------
(***************************************************************************)
(* Proofs about what runs behind the terminal: the hand-over of mails, for  *)
(* every number of dialogues, search tabs, jobs and seconds and every       *)
(* capacity of the channel; the follow-up queue, for every number of        *)
(* contacts, pulls and jobs; the configuration, for every accounts, split   *)
(* files, contents and number of edits.                                     *)
(***************************************************************************)
EXTENDS Services, TLAPS, FiniteSetTheorems, SequenceTheorems

Boxes == [kind : {"none", "failed", "choice", "time", "abort"}, tab : Dialogues \cup {NoOne},
          of : {"none", "send", "schedule", "draft"}]
Strips == [tabs : Seq(Dialogues), at : Nat, phase : [Dialogues -> Phases], box : Boxes,
           opened : SUBSET Dialogues, crashed : BOOLEAN]
Events == [kind : {"send", "schedule", "open", "keys"}, tab : Dialogues, ok : BOOLEAN]
Works == [kind : {"none", "send", "schedule"}, tab : Dialogues \cup {NoOne},
          step : {"none", "start", "sent", "report", "done"}, ok : BOOLEAN]

(* A dialogue has one tab, and had its opening; a box that asks about the   *)
(* dialogue on the screen is on a dialogue's screen.                        *)
Distinct(u) == \A i, k \in 1..Len(u.tabs) : u.tabs[i] = u.tabs[k] => i = k
Known(u) == \A i \in 1..Len(u.tabs) : u.tabs[i] \in u.opened
Asking(u) == u.box.kind \in {"abort", "choice", "time"} => Active(u) # NoOne
Sound(u) == u \in Strips /\ Distinct(u) /\ Known(u) /\ u.at <= EndOf(u) /\ Asking(u)

(* From the strip u to v: a tab is one that was, or of a dialogue opened    *)
(* only now, which has its tab; the tabs that go are of D; no dialogue      *)
(* begins to send.                                                          *)
Moves(u, v, D) ==
  /\ Sound(v)
  /\ u.opened \subseteq v.opened /\ v.opened \subseteq u.opened \cup used
  /\ \A d \in Dialogues :
       /\ IsTab(v, d) => IsTab(u, d) \/ d \notin u.opened
       /\ IsTab(u, d) \/ (d \in v.opened /\ d \notin u.opened) => IsTab(v, d) \/ d \in D
       /\ v.phase[d] = "sending" => u.phase[d] = "sending"

Told(d, kind) == \E i \in 1..Len(chan) : chan[i].tab = d /\ chan[i].kind = kind /\ chan[i].ok

Types ==
  /\ sendLast \in [Dialogues -> {"none", "ok", "failed"}] /\ openLast \in used \cup {NoOne}
  /\ chan \in Seq(Events) /\ Len(chan) <= Cap
  /\ job \in [Jobs -> Works] /\ used \subseteq Dialogues
  /\ drafts \in [1..MaxSecond -> Dialogues \cup {NoOne}] /\ spool \subseteq used
  /\ opening \subseteq used /\ keyring \subseteq used /\ gone \subseteq Dialogues
  /\ mail \in [Dialogues -> Dialogues] /\ resume \in [Dialogues -> 0..MaxSecond]
  /\ clock \in Nat /\ sends \in [Dialogues -> Nat] /\ overlaps \in [Dialogues -> Nat]

(* Ids are given in order; a job, an event of a job and a result are of a   *)
(* dialogue that was opened.                                                *)
Origin ==
  /\ ui.opened \subseteq used
  /\ \E n \in 0..MaxOpen : used = 1..n
  /\ \A i \in 1..Len(chan) : /\ chan[i].tab \in used
                             /\ chan[i].kind \in {"send", "schedule"} => chan[i].tab \in ui.opened
  /\ \A j \in Jobs : /\ job[j] # NoJob => job[j].kind # "none" /\ job[j].tab \in ui.opened
                     /\ job[j].step = "none" => job[j] = NoJob
                     /\ job[j].step = "sent" => job[j].kind = "send"

SInv == Sound(ui) /\ Types /\ Origin

(* A dialogue that is sending has something to wait for, a tab or not.      *)
Waits(d) == \/ sendLast[d] # "none"
            \/ \E j \in Jobs : job[j].kind = "send" /\ job[j].tab = d /\ Running(j)
Awaits == \A d \in Dialogues : ui.phase[d] = "sending" => Waits(d)

(* The jobs of d that have not delivered, and are not over.                 *)
Undelivered(d) ==
  {j \in Jobs : /\ job[j].tab = d
                /\ \/ job[j].step = "start"
                   \/ job[j].step = "report" /\ (job[j].kind = "schedule" \/ ~job[j].ok)}

(* The first job of d, or its delivery, can be seen: by what is on the way, *)
(* or by the tab that was closed.                                           *)
Seen(d) == Pending(d) \/ (d \in ui.opened /\ ~IsTab(ui, d))

Balanced(d) == Cardinality(Undelivered(d)) + sends[d] <= overlaps[d] + (IF Seen(d) THEN 1 ELSE 0)
Balance == \A d \in Dialogues : Balanced(d)

(* What is told as delivered was.                                           *)
Delivers(j, d) == /\ job[j].tab = d /\ job[j].kind = "send"
                  /\ job[j].step = "sent" \/ (job[j].step = "report" /\ job[j].ok)
Claimed(d) == sendLast[d] = "ok" \/ Told(d, "send") \/ \E j \in Jobs : Delivers(j, d)
Honest == \A d \in Dialogues : Claimed(d) => sends[d] > 0

(* A dialogue that is stored and not yet told so is about to lose its tab.  *)
Stores(j, d) == job[j].tab = d /\ job[j].kind = "schedule" /\ job[j].step = "report" /\ job[j].ok
Storing(d) == Told(d, "schedule") \/ \E j \in Jobs : Stores(j, d)

Holds(e) == \/ e \notin ui.opened \/ e \in spool \/ sends[e] > 0
            \/ IsTab(ui, e) /\ ~Storing(e)
Kept(m) ==
  \/ m \in gone
  \/ \E e \in used : mail[e] = m /\ Holds(e)
  \/ \E s \in 1..MaxSecond : drafts[s] = m
KInv == Honest /\ \A d \in used : Kept(mail[d])

-----------------------------------------------------------------------------
(* The strip.                                                              *)

LEMMA Cut ==
  ASSUME NEW S, NEW s \in Seq(S), NEW i \in 1..Len(s)
  PROVE  /\ RemoveAt(s, i) \in Seq(S)
         /\ Len(RemoveAt(s, i)) = Len(s) - 1
         /\ \A k \in 1..(Len(s) - 1) : RemoveAt(s, i)[k] = IF k < i THEN s[k] ELSE s[k + 1]
<1> DEFINE l == SubSeq(s, 1, i - 1)
           r == SubSeq(s, i + 1, Len(s))
<1>1. i \in Int /\ Len(s) \in Nat /\ \A k \in 1..Len(s) : s[k] \in S
  BY ElementOfSeq, LenProperties
<1>2. l \in Seq(S) /\ Len(l) = i - 1 /\ \A k \in 1..(i - 1) : l[k] = s[k]
  <2>1. \A k \in 1..(i - 1) : s[k] \in S
    BY <1>1, SMT
  <2>2. i - 1 \in Int /\ 1 \in Int
    BY <1>1, SMT
  <2>3. /\ l \in Seq(S) /\ Len(l) = IF 1 <= i - 1 THEN (i - 1) - 1 + 1 ELSE 0
        /\ \A k \in 1..((i - 1) - 1 + 1) : l[k] = s[1 + k - 1]
    BY <2>1, <2>2, SubSeqProperties
  <2> QED
    BY <2>3, <1>1, SMT
<1>3. r \in Seq(S) /\ Len(r) = Len(s) - i /\ \A k \in 1..(Len(s) - i) : r[k] = s[i + k]
  <2>1. \A k \in (i + 1)..Len(s) : s[k] \in S
    BY <1>1, SMT
  <2>2. i + 1 \in Int /\ Len(s) \in Int
    BY <1>1, SMT
  <2>3. /\ r \in Seq(S) /\ Len(r) = IF i + 1 <= Len(s) THEN Len(s) - (i + 1) + 1 ELSE 0
        /\ \A k \in 1..(Len(s) - (i + 1) + 1) : r[k] = s[(i + 1) + k - 1]
    BY <2>1, <2>2, SubSeqProperties
  <2> QED
    BY <2>3, <1>1, SMT
<1> HIDE DEF l, r
<1>4. /\ l \o r \in Seq(S) /\ Len(l \o r) = Len(l) + Len(r)
      /\ \A k \in 1..(Len(l) + Len(r)) : (l \o r)[k] = IF k <= Len(l) THEN l[k] ELSE r[k - Len(l)]
  BY <1>2, <1>3, ConcatProperties
<1>5. RemoveAt(s, i) = l \o r
  BY DEF RemoveAt, l, r
<1>6. Len(l) + Len(r) = Len(s) - 1
  BY <1>1, <1>2, <1>3, SMT
<1>7. ASSUME NEW k \in 1..(Len(s) - 1)
      PROVE  (l \o r)[k] = IF k < i THEN s[k] ELSE s[k + 1]
  <2>1. (l \o r)[k] = IF k <= Len(l) THEN l[k] ELSE r[k - Len(l)]
    BY <1>4, <1>6
  <2>2. CASE k < i
    BY <2>1, <2>2, <1>1, <1>2, SMT
  <2>3. CASE ~(k < i)
    <3>1. k - Len(l) \in 1..(Len(s) - i) /\ i + (k - Len(l)) = k + 1 /\ ~(k <= Len(l))
      BY <2>3, <1>1, <1>2, SMT
    <3> QED
      BY <2>1, <2>3, <3>1, <1>3
  <2> QED
    BY <2>2, <2>3
<1> QED
  BY <1>4, <1>5, <1>6, <1>7

LEMMA Greatest ==
  ASSUME NEW n \in Nat, NEW S \in SUBSET (1..n), S # {}
  PROVE  Max(S) \in S
<1> DEFINE T == {n - y : y \in S}
           R == {ss \in Nat \X Nat : ss[1] < ss[2]}
<1>1. T # {} /\ T \subseteq Nat
  <2>1. PICK e \in S : TRUE
    OBVIOUS
  <2>2. n - e \in T
    OBVIOUS
  <2> QED
    BY <2>2, SMT
<1>2. IsWellFoundedOn(R, Nat)
  BY NatLessThanWellFounded, Zenon DEF OpToRel
<1>3. PICK x \in T : \A y \in T : ~(<<y, x>> \in R)
  <2> HIDE DEF T, R
  <2> QED
    BY <1>1, <1>2, WFMin
<1>4. PICK m \in S : x = n - m
  OBVIOUS
<1>5. ASSUME NEW y \in S PROVE m >= y
  <2>1. n - y \in T /\ n - y \in Nat /\ x \in Nat
    BY <1>1
  <2>2. ~(n - y < x)
    BY <2>1, <1>3, Zenon
  <2> QED
    BY <2>1, <2>2, <1>4, SMT
<1> QED
  BY <1>5, Zenon DEF Max

LEMMA TabsReplaced ==
  ASSUME NEW T, NEW P, NEW B, NEW O, NEW t \in T,
         NEW u \in [tabs : T, at : Nat, phase : P, box : B, opened : O, crashed : BOOLEAN]
  PROVE  [u EXCEPT !.tabs = t] \in
           [tabs : T, at : Nat, phase : P, box : B, opened : O, crashed : BOOLEAN]
  BY SMT

LEMMA OpenedReplaced ==
  ASSUME NEW T, NEW P, NEW B, NEW O, NEW o \in O,
         NEW u \in [tabs : T, at : Nat, phase : P, box : B, opened : O, crashed : BOOLEAN]
  PROVE  [u EXCEPT !.opened = o] \in
           [tabs : T, at : Nat, phase : P, box : B, opened : O, crashed : BOOLEAN]
  BY SMT

LEMMA CrashedReplaced ==
  ASSUME NEW T, NEW P, NEW B, NEW O, NEW C, NEW c \in C,
         NEW u \in [tabs : T, at : Nat, phase : P, box : B, opened : O, crashed : C]
  PROVE  [u EXCEPT !.crashed = c] \in
           [tabs : T, at : Nat, phase : P, box : B, opened : O, crashed : C]
  BY SMT

LEMMA AttachFields ==
  ASSUME NEW u \in Strips, NEW i \in Nat
  PROVE  /\ Attach(u, i) \in Strips /\ Attach(u, i).tabs = u.tabs /\ Attach(u, i).at = i
         /\ Attach(u, i).phase = u.phase /\ Attach(u, i).box = NoBox
         /\ Attach(u, i).opened = u.opened /\ Attach(u, i).crashed = u.crashed
<1> DEFINE w == [u EXCEPT !.at = i]
<1>1. /\ w \in Strips /\ w.tabs = u.tabs /\ w.at = i /\ w.phase = u.phase
      /\ w.opened = u.opened /\ w.crashed = u.crashed
  BY SMT DEF Strips
<1>2. NoBox \in Boxes
  BY SMT DEF NoBox, Boxes, NoOne
<1> DEFINE z == [w EXCEPT !.box = NoBox]
<1>3. Attach(u, i) = z
  BY DEF Attach
<1>4. /\ z \in Strips /\ z.tabs = w.tabs /\ z.at = w.at /\ z.phase = w.phase
      /\ z.box = NoBox /\ z.opened = w.opened /\ z.crashed = w.crashed
  <2> HIDE DEF w
  <2> QED
    BY <1>1, <1>2, SMT DEF Strips
<1> HIDE DEF w, z
<1> QED
  BY <1>1, <1>3, <1>4

LEMMA SameTabs ==
  ASSUME NEW u, Sound(u), NEW v \in Strips, v.tabs = u.tabs, v.opened = u.opened,
         v.at <= EndOf(v), Asking(v),
         \A d \in Dialogues : v.phase[d] = "sending" => u.phase[d] = "sending"
  PROVE  Moves(u, v, {})
  BY Zenon DEF Moves, Sound, Distinct, Known, IsTab

LEMMA Then ==
  ASSUME NEW u, NEW v, NEW w, NEW D, NEW E, Moves(u, v, D), Moves(v, w, E)
  PROVE  Moves(u, w, D \cup E)
  BY Zenon DEF Moves

LEMMA AttachMoves ==
  ASSUME NEW u, Sound(u), NEW i \in 0..EndOf(u)
  PROVE  Moves(u, Attach(u, i), {})
<1>1. u \in Strips /\ i \in Nat /\ i <= EndOf(u)
  BY ComposeAssumption, SMT DEF Sound, Strips, EndOf
<1>2. EndOf(Attach(u, i)) = EndOf(u) /\ Asking(Attach(u, i))
  BY <1>1, AttachFields, SMT DEF EndOf, Asking, NoBox
<1> QED
  BY <1>1, <1>2, AttachFields, SameTabs, SMT

LEMMA CloseFields ==
  ASSUME NEW u, Sound(u), NEW i \in 1..Len(u.tabs)
  PROVE  LET v == CloseTab(u, i) IN
         /\ v \in Strips /\ v.tabs = RemoveAt(u.tabs, i) /\ v.at <= EndOf(v)
         /\ v.phase = [u.phase EXCEPT ![u.tabs[i]] = "editing"] /\ v.box = NoBox
         /\ v.opened = u.opened /\ v.crashed = u.crashed
<1> DEFINE l == [u EXCEPT !.tabs = RemoveAt(u.tabs, i), !.phase[u.tabs[i]] = "editing"]
           a == IF u.at >= i THEN u.at - 1 ELSE u.at
           n == IF a > EndOf(l) THEN EndOf(l) ELSE a
<1>1. u \in Strips /\ u.tabs \in Seq(Dialogues) /\ u.at \in Nat /\ u.tabs[i] \in Dialogues
  BY SMT DEF Sound, Strips
<1>2. RemoveAt(u.tabs, i) \in Seq(Dialogues)
  BY <1>1, Cut, Zenon
<1> DEFINE r == RemoveAt(u.tabs, i)
           c == [u EXCEPT !.tabs = r]
<1>8. /\ c \in Strips /\ c.tabs = r /\ c.phase = u.phase
      /\ c.opened = u.opened /\ c.crashed = u.crashed
  <2>1. r \in Seq(Dialogues)
    BY <1>2
  <2> HIDE DEF r
  <2>2. c \in Strips
    BY <1>1, <2>1, TabsReplaced DEF Strips
  <2>3. c.tabs = r /\ c.phase = u.phase /\ c.opened = u.opened /\ c.crashed = u.crashed
    BY <1>1, <2>1, SMT DEF Strips
  <2> QED
    BY <2>2, <2>3
<1>9. l = [c EXCEPT !.phase[u.tabs[i]] = "editing"]
  OBVIOUS
<1> HIDE DEF c
<1>3. /\ l \in Strips /\ l.tabs = RemoveAt(u.tabs, i)
      /\ l.phase = [u.phase EXCEPT ![u.tabs[i]] = "editing"]
      /\ l.opened = u.opened /\ l.crashed = u.crashed
  <2> DEFINE q == [c.phase EXCEPT ![u.tabs[i]] = "editing"]
             e == [c EXCEPT !.phase = q]
  <2>1. q \in [Dialogues -> Phases]
    BY <1>1, <1>8, SMT DEF Strips, Phases
  <2>2. /\ e \in Strips /\ e.tabs = c.tabs /\ e.phase = q
        /\ e.opened = c.opened /\ e.crashed = c.crashed
    <3> HIDE DEF q
    <3> QED
      BY <1>8, <2>1, SMT DEF Strips
  <2>3. l = e
    BY <1>9
  <2>4. c.tabs = RemoveAt(u.tabs, i) /\ q = [u.phase EXCEPT ![u.tabs[i]] = "editing"]
    BY <1>8
  <2> HIDE DEF l, e, r, q
  <2> QED
    BY <1>8, <2>2, <2>3, <2>4
<1>4. Len(l.tabs) \in Nat
  BY <1>3, <1>2, SMT
<1> HIDE DEF l
<1>5. n \in Nat /\ n <= EndOf(l)
  <2>1. EndOf(l) \in Nat
    BY <1>4, ComposeAssumption, SMT DEF EndOf
  <2> QED
    BY <1>1, <2>1, SMT
<1>6. CloseTab(u, i) = Attach(l, n)
  BY DEF CloseTab, l
<1>7. EndOf(Attach(l, n)) = EndOf(l)
  BY <1>3, <1>5, AttachFields DEF EndOf
<1> HIDE DEF n
<1>10. /\ Attach(l, n) \in Strips /\ Attach(l, n).tabs = l.tabs /\ Attach(l, n).at = n
       /\ Attach(l, n).phase = l.phase /\ Attach(l, n).box = NoBox
       /\ Attach(l, n).opened = l.opened /\ Attach(l, n).crashed = l.crashed
  BY <1>3, <1>5, AttachFields
<1> QED
  BY <1>3, <1>5, <1>6, <1>7, <1>10

LEMMA CloseMoves ==
  ASSUME NEW u, Sound(u), NEW i \in 1..Len(u.tabs)
  PROVE  Moves(u, CloseTab(u, i), {u.tabs[i]}) /\ ~IsTab(CloseTab(u, i), u.tabs[i])
<1> DEFINE v == CloseTab(u, i)
<1>1. /\ u \in Strips /\ u.tabs \in Seq(Dialogues) /\ Len(u.tabs) \in Nat /\ u.tabs[i] \in Dialogues
      /\ u.phase \in [Dialogues -> Phases]
  BY SMT DEF Sound, Strips
<1>2. /\ v \in Strips /\ v.tabs = RemoveAt(u.tabs, i) /\ v.at <= EndOf(v)
      /\ v.phase = [u.phase EXCEPT ![u.tabs[i]] = "editing"] /\ v.box = NoBox /\ v.opened = u.opened
  BY CloseFields
<1>3. /\ Len(v.tabs) = Len(u.tabs) - 1
      /\ \A k \in 1..(Len(u.tabs) - 1) : v.tabs[k] = IF k < i THEN u.tabs[k] ELSE u.tabs[k + 1]
  <2> DEFINE r == RemoveAt(u.tabs, i)
  <2>1. /\ Len(r) = Len(u.tabs) - 1
        /\ \A k \in 1..(Len(u.tabs) - 1) : r[k] = IF k < i THEN u.tabs[k] ELSE u.tabs[k + 1]
    BY <1>1, Cut
  <2>2. v.tabs = r
    BY <1>2
  <2> HIDE DEF v, r
  <2> QED
    BY <2>1, <2>2
<1> HIDE DEF v
<1>4. Distinct(v)
  BY <1>1, <1>3, SMT DEF Distinct, Sound
<1>5. Known(v)
  BY <1>1, <1>2, <1>3, SMT DEF Known, Sound
<1>6. ASSUME NEW d, IsTab(v, d) PROVE IsTab(u, d) /\ d # u.tabs[i]
  BY <1>1, <1>3, <1>6, SMT DEF IsTab, Sound, Distinct
<1>7. ASSUME NEW d, IsTab(u, d), d # u.tabs[i] PROVE IsTab(v, d)
  <2>1. PICK k \in 1..Len(u.tabs) : u.tabs[k] = d
    BY <1>7 DEF IsTab
  <2>2. CASE k < i
    <3>1. k \in 1..Len(v.tabs) /\ v.tabs[k] = d
      BY <2>1, <2>2, <1>1, <1>3, SMT
    <3> QED
      BY <3>1 DEF IsTab
  <2>3. CASE k > i
    <3>1. k - 1 \in 1..Len(v.tabs) /\ v.tabs[k - 1] = d
      BY <2>1, <2>3, <1>1, <1>3, SMT
    <3> QED
      BY <3>1 DEF IsTab
  <2> QED
    BY <2>1, <2>2, <2>3, <1>1, <1>7, SMT
<1>8. \A d \in Dialogues : v.phase[d] = "sending" => u.phase[d] = "sending"
  BY <1>1, <1>2, SMT
<1>9. Sound(v)
  BY <1>2, <1>4, <1>5, SMT DEF Sound, Asking, NoBox
<1> QED
  BY <1>2, <1>6, <1>7, <1>8, <1>9, Zenon DEF Moves, v

LEMMA WhereIs ==
  ASSUME NEW u, NEW d, IsTab(u, d)
  PROVE  Where(u, d) \in 1..Len(u.tabs) /\ u.tabs[Where(u, d)] = d
  BY Zenon DEF IsTab, Where

LEMMA Still == ASSUME NEW u, Sound(u) PROVE Moves(u, u, {})
  BY Zenon DEF Moves

LEMMA Wider == ASSUME NEW u, NEW v, NEW D, NEW E, Moves(u, v, D), D \subseteq E PROVE Moves(u, v, E)
  BY Zenon DEF Moves

LEMMA CrashMoves ==
  ASSUME NEW u, Sound(u)
  PROVE  Moves(u, Crash(u), {})
<1> DEFINE v == [u EXCEPT !.crashed = TRUE]
<1>1. u \in Strips /\ u.at <= EndOf(u) /\ Asking(u)
  BY DEF Sound
<1>5. v \in Strips
  BY <1>1, CrashedReplaced DEF Strips
<1>2. /\ v \in Strips /\ v.tabs = u.tabs /\ v.at = u.at /\ v.phase = u.phase
      /\ v.box = u.box /\ v.opened = u.opened
  <2>1. v.tabs = u.tabs /\ v.at = u.at /\ v.phase = u.phase /\ v.box = u.box /\ v.opened = u.opened
    BY <1>1, SMT DEF Strips
  <2> QED
    BY <1>5, <2>1
<1> HIDE DEF v
<1>3. v.at <= EndOf(v) /\ Asking(v)
  BY <1>1, <1>2 DEF EndOf, Asking, Active
<1>4. Moves(u, v, {})
  BY <1>2, <1>3, SameTabs
<1> QED
  BY <1>4 DEF Crash, v

LEMMA BoxMoves ==
  ASSUME NEW u, Sound(u), NEW b \in Boxes,
         b.kind \in {"abort", "choice", "time"} => Active(u) # NoOne
  PROVE  Moves(u, [u EXCEPT !.box = b], {})
<1> DEFINE v == [u EXCEPT !.box = b]
<1>1. u \in Strips /\ u.at <= EndOf(u)
  BY DEF Sound
<1>2. /\ v \in Strips /\ v.tabs = u.tabs /\ v.at = u.at /\ v.phase = u.phase
      /\ v.box = b /\ v.opened = u.opened
  BY <1>1, SMT DEF Strips
<1> HIDE DEF v
<1>3. v.at <= EndOf(v) /\ Asking(v)
  BY <1>1, <1>2 DEF EndOf, Asking, Active
<1>4. Moves(u, v, {})
  BY <1>2, <1>3, SameTabs
<1> QED
  BY <1>4 DEF v

LEMMA PhaseFields ==
  ASSUME NEW u \in Strips, NEW d \in Dialogues, NEW p \in Phases
  PROVE  LET v == PhaseOf(u, d, p) IN
         /\ v \in Strips /\ v.tabs = u.tabs /\ v.at = u.at /\ v.box = u.box
         /\ v.phase = [u.phase EXCEPT ![d] = p]
         /\ v.opened = u.opened /\ v.crashed = u.crashed
<1> DEFINE q == [u.phase EXCEPT ![d] = p]
           e == [u EXCEPT !.phase = q]
<1>1. q \in [Dialogues -> Phases]
  BY SMT DEF Strips, Phases
<1>2. /\ e \in Strips /\ e.tabs = u.tabs /\ e.at = u.at /\ e.box = u.box
      /\ e.phase = q /\ e.opened = u.opened /\ e.crashed = u.crashed
  <2> HIDE DEF q
  <2> QED
    BY <1>1, SMT DEF Strips
<1>3. PhaseOf(u, d, p) = e
  BY DEF PhaseOf
<1> HIDE DEF e
<1> QED
  BY <1>2, <1>3

LEMMA PhaseMoves ==
  ASSUME NEW u, Sound(u), NEW d \in Dialogues, NEW p \in Phases \ {"sending"}
  PROVE  Moves(u, PhaseOf(u, d, p), {})
<1> DEFINE v == PhaseOf(u, d, p)
<1>1. u \in Strips /\ u.at <= EndOf(u) /\ Asking(u) /\ u.phase \in [Dialogues -> Phases]
  BY SMT DEF Sound, Strips
<1>2. /\ v \in Strips /\ v.tabs = u.tabs /\ v.at = u.at /\ v.box = u.box
      /\ v.phase = [u.phase EXCEPT ![d] = p] /\ v.opened = u.opened
  BY <1>1, PhaseFields
<1> HIDE DEF v
<1>3. v.at <= EndOf(v) /\ Asking(v)
  BY <1>1, <1>2 DEF EndOf, Asking, Active
<1>4. \A e \in Dialogues : v.phase[e] = "sending" => u.phase[e] = "sending"
  BY <1>1, <1>2, SMT
<1>5. Moves(u, v, {})
  BY <1>2, <1>3, <1>4, SameTabs
<1> QED
  BY <1>5 DEF v

LEMMA Wide == ASSUME NEW u, NEW v, NEW w, NEW D, Moves(u, v, {}), Moves(v, w, D) PROVE Moves(u, w, D)
<1>1. Moves(u, w, {} \cup D)
  BY Then, Zenon
<1> QED
  BY <1>1

LEMMA CancelMoves == ASSUME NEW u, Sound(u) PROVE Moves(u, CancelBox(u), {})
<1> DEFINE c == [u EXCEPT !.box = NoBox]
<1>1. NoBox \in Boxes /\ NoBox.kind = "none"
  BY SMT DEF NoBox, Boxes, NoOne
<1>2. Moves(u, c, {}) /\ Sound(c)
  BY <1>1, BoxMoves, Zenon DEF Moves
<1> HIDE DEF c
<1>3. CASE Active(u) # NoOne /\ u.phase[Active(u)] = "aborting"
  <2>1. Active(u) \in Dialogues
    BY <1>3, SMT DEF Sound, Strips, Active
  <2>2. Moves(c, PhaseOf(c, Active(u), "editing"), {})
    BY <1>2, <2>1, PhaseMoves DEF Phases
  <2>3. CancelBox(u) = PhaseOf(c, Active(u), "editing")
    BY <1>3 DEF CancelBox, c
  <2> QED
    BY <1>2, <2>2, <2>3, Wide
<1>4. CASE ~(Active(u) # NoOne /\ u.phase[Active(u)] = "aborting")
  <2>1. CancelBox(u) = c
    BY <1>4 DEF CancelBox, c
  <2> QED
    BY <1>2, <2>1
<1> QED
  BY <1>3, <1>4

LEMMA ActivateMoves == ASSUME NEW u, Sound(u), NEW d PROVE Moves(u, ActivateTab(u, d), {})
<1>1. CASE IsTab(u, d)
  <2>1. Where(u, d) \in 1..Len(u.tabs)
    BY <1>1, WhereIs
  <2>2. Where(u, d) \in 0..EndOf(u)
    BY <2>1, ComposeAssumption, SMT DEF EndOf, Sound, Strips
  <2> QED
    BY <1>1, <2>2, AttachMoves DEF ActivateTab
<1>2. CASE ~IsTab(u, d)
  BY <1>2, Still DEF ActivateTab
<1> QED
  BY <1>1, <1>2

LEMMA FailedBoxOK ==
  ASSUME NEW d \in Dialogues \cup {NoOne}, NEW k \in {"send", "schedule", "draft"}
  PROVE  FailedBox(d, k) \in Boxes /\ FailedBox(d, k).kind = "failed"
  BY SMT DEF FailedBox, Boxes

LEMMA SendResultMoves ==
  ASSUME NEW u, Sound(u), NEW d \in Dialogues, NEW ok \in BOOLEAN
  PROVE  Moves(u, OnSendResult(u, d, ok), IF ok THEN {d} ELSE {})
<1>1. CASE ~IsTab(u, d)
  BY <1>1, Still, Wider DEF OnSendResult
<1>2. CASE IsTab(u, d) /\ ok
  BY <1>2, WhereIs, CloseMoves DEF OnSendResult
<1>3. CASE IsTab(u, d) /\ ~ok
  <2> DEFINE v == PhaseOf(u, d, "failed")
             w == [v EXCEPT !.box = FailedBox(d, "send")]
  <2>1. Moves(u, v, {}) /\ Sound(v)
    BY PhaseMoves DEF Phases, Moves
  <2> HIDE DEF v
  <2>2. Moves(v, w, {})
    BY <2>1, FailedBoxOK, BoxMoves, Zenon
  <2>3. OnSendResult(u, d, ok) = w
    BY <1>3 DEF OnSendResult, v
  <2> HIDE DEF w
  <2> QED
    BY <1>3, <2>1, <2>2, <2>3, Wide
<1> QED
  BY <1>1, <1>2, <1>3

LEMMA ScheduledResultMoves ==
  ASSUME NEW u, Sound(u), NEW d \in Dialogues, NEW ok \in BOOLEAN
  PROVE  Moves(u, OnScheduledResult(u, d, ok), IF ok THEN {d} ELSE {})
<1>1. CASE ~IsTab(u, d)
  BY <1>1, Still, Wider DEF OnScheduledResult
<1>2. CASE IsTab(u, d) /\ ok
  BY <1>2, WhereIs, CloseMoves DEF OnScheduledResult
<1>3. CASE IsTab(u, d) /\ ~ok
  BY <1>3, FailedBoxOK, BoxMoves, Zenon DEF OnScheduledResult
<1> QED
  BY <1>1, <1>2, <1>3

LEMMA KeysMoves ==
  ASSUME NEW u, Sound(u), NEW d \in Dialogues
  PROVE  Moves(u, OnKeysLoaded(u, d), {})
<1> DEFINE b == [NoBox EXCEPT !.kind = "choice"]
<1>1. b \in Boxes /\ b.kind = "choice"
  BY SMT DEF NoBox, Boxes, NoOne
<1>2. ASSUME Active(u) = d PROVE Moves(u, [u EXCEPT !.box = b], {})
  <2>1. Active(u) # NoOne
    BY <1>2, SMT DEF Dialogues, NoOne
  <2> HIDE DEF b
  <2> QED
    BY <1>1, <2>1, BoxMoves
<1> QED
  BY <1>2, CrashMoves, Still, Zenon DEF OnKeysLoaded

LEMMA OpenMoves ==
  ASSUME NEW u, Sound(u), NEW d \in Dialogues, d \in used
  PROVE  Moves(u, OnComposeOpened(u, d), {})
<1>1. CASE d \in u.opened
  BY <1>1, Still DEF OnComposeOpened
<1>2. CASE d \notin u.opened
  <2> DEFINE n == Len(u.tabs) + 1
             c == [u EXCEPT !.tabs = Append(u.tabs, d)]
             o == u.opened \cup {d}
             l == [c EXCEPT !.opened = o]
             v == Attach(l, n)
  <2>1. /\ u \in Strips /\ u.tabs \in Seq(Dialogues) /\ u.opened \in SUBSET Dialogues
        /\ Len(u.tabs) \in Nat
    BY SMT DEF Sound, Strips
  <2>2. /\ Append(u.tabs, d) \in Seq(Dialogues) /\ Len(Append(u.tabs, d)) = n
        /\ \A k \in 1..Len(u.tabs) : Append(u.tabs, d)[k] = u.tabs[k]
        /\ Append(u.tabs, d)[n] = d
    BY <2>1, AppendProperties
  <2>3. c \in Strips
    BY <2>1, <2>2, TabsReplaced DEF Strips
  <2>4. /\ c.tabs = Append(u.tabs, d) /\ c.phase = u.phase /\ c.opened = u.opened
    BY <2>1, SMT DEF Strips
  <2> HIDE DEF c
  <2>5. /\ l \in Strips /\ l.tabs = c.tabs /\ l.phase = c.phase /\ l.opened = u.opened \cup {d}
    <3>1. o \in SUBSET Dialogues
      BY <2>1
    <3>2. l \in Strips
      <4> HIDE DEF o
      <4> QED
        BY <2>3, <3>1, OpenedReplaced DEF Strips
    <3>3. l.tabs = c.tabs /\ l.phase = c.phase /\ l.opened = o
      <4> HIDE DEF o
      <4> QED
        BY <2>3, SMT DEF Strips
    <3> HIDE DEF l
    <3> QED
      BY <3>2, <3>3
  <2>6. OnComposeOpened(u, d) = v
    BY <1>2 DEF OnComposeOpened, c
  <2> HIDE DEF l
  <2>7. /\ v \in Strips /\ v.tabs = l.tabs /\ v.at = n /\ v.phase = l.phase
        /\ v.box = NoBox /\ v.opened = l.opened
    <3>1. n \in Nat
      BY <2>1
    <3> HIDE DEF n, l
    <3> QED
      BY <2>5, <3>1, AttachFields
  <2> HIDE DEF v
  <2>8. /\ Len(v.tabs) = n /\ v.tabs[n] = d /\ \A k \in 1..Len(u.tabs) : v.tabs[k] = u.tabs[k]
    BY <2>2, <2>4, <2>5, <2>7
  <2>9. \A k \in 1..Len(u.tabs) : u.tabs[k] # d
    BY <1>2 DEF Sound, Known
  <2>10. Distinct(v)
    <3>1. Distinct(u) /\ 1..Len(v.tabs) = 1..Len(u.tabs) \cup {n} /\ n \notin 1..Len(u.tabs)
      BY <2>1, <2>8, SMT DEF Sound
    <3> HIDE DEF n
    <3> QED
      BY <2>8, <2>9, <3>1, Zenon DEF Distinct
  <2>11. Known(v)
    BY <2>1, <2>4, <2>5, <2>7, <2>8, SMT DEF Known, Sound
  <2>12. v.at <= EndOf(v) /\ Asking(v)
    BY <2>1, <2>7, <2>8, ComposeAssumption, SMT DEF EndOf, Asking, NoBox
  <2>13. Sound(v)
    BY <2>7, <2>10, <2>11, <2>12 DEF Sound
  <2>14. \A e : IsTab(v, e) <=> IsTab(u, e) \/ e = d
    <3>1. 1..Len(v.tabs) = 1..Len(u.tabs) \cup {n}
      BY <2>1, <2>8, SMT
    <3> HIDE DEF n
    <3> QED
      BY <2>8, <3>1, Zenon DEF IsTab
  <2>15. v.opened = u.opened \cup {d} /\ v.phase = u.phase
    BY <2>4, <2>5, <2>7
  <2> QED
    BY <1>2, <2>6, <2>13, <2>14, <2>15, Zenon DEF Moves
<1> QED
  BY <1>1, <1>2

-----------------------------------------------------------------------------
(* A message to the loop, by what it does: first the last results, then a   *)
(* look at the screen, a job, a dialogue that closes, or one that opens.    *)

Taken == {d \in Dialogues : sendLast[d] = "ok"}

Looks == Moves(ui, ui', Taken) /\ UNCHANGED <<bus, app, clock, history>>
Begins(d) ==
  /\ \E w : Moves(ui, w, Taken) /\ IsTab(w, d) /\ ui' = PhaseOf(w, d, "sending")
  /\ sendLast' = [sendLast EXCEPT ![d] = "none"] /\ StartJob("send", d)
  /\ UNCHANGED <<openLast, chan, opening, keyring, drafts, spool, ids, clock, sends, gone>>
Schedules(d) ==
  /\ Moves(ui, ui', Taken) /\ IsTab(ui', d) /\ StartJob("schedule", d)
  /\ UNCHANGED <<bus, opening, keyring, drafts, spool, ids, clock, sends, gone>>
Closes(d) ==
  /\ Moves(ui, ui', Taken \cup {d}) /\ gone' = gone \cup {mail[d]}
  /\ UNCHANGED <<bus, app, clock, sends, overlaps>>
Saves(d) ==
  /\ Moves(ui, ui', Taken \cup {d})
  /\ \E s \in {clock, clock + 1} \cap 1..MaxSecond :
       /\ clock' = s
       /\ \/ drafts' = Written(s, mail[d]) /\ gone' = gone \cup Overwritten(s, d)
          \/ /\ drafts' = Retired(Written(s, mail[d]), resume[d])
             /\ gone' = gone \cup Overwritten(s, d) \cup InItsPlace(d)
                          \cup (IF resume[d] = s THEN {mail[d]} ELSE {})
  /\ UNCHANGED <<bus, opening, keyring, job, spool, ids, sends, overlaps>>
Listing ==
  /\ Moves(ui, ui', Taken) /\ \E d \in ui'.opened : keyring' = {d}
  /\ UNCHANGED <<bus, opening, job, drafts, spool, ids, clock, history>>
Begun(d) == \E u : Moves(ui, u, Taken) /\ New(u, d)
Recalled(d, e) == \E u : Moves(ui, u, Taken) /\ EditScheduled(u, d, e)
Reads == \E u : Moves(ui, u, Taken) /\ ReadEvent(u)

LEMMA ActiveIs ==
  ASSUME NEW u, Sound(u), Active(u) # NoOne
  PROVE  /\ u.at \in 1..Len(u.tabs) /\ u.tabs[u.at] = Active(u) /\ Active(u) \in Dialogues
         /\ IsTab(u, Active(u)) /\ Active(u) \in u.opened
<1>1. u.at \in 1..Len(u.tabs) /\ u.tabs[u.at] = Active(u)
  BY Zenon DEF Active
<1>2. u.tabs[u.at] \in u.opened /\ u.opened \subseteq Dialogues
  BY <1>1, SMT DEF Sound, Known, Strips
<1> QED
  BY <1>1, <1>2, Zenon DEF IsTab

LEMMA SettleMoves ==
  ASSUME Sound(ui), sendLast \in [Dialogues -> {"none", "ok", "failed"}]
  PROVE  Moves(ui, Settle, Taken)
<1> DEFINE n == Len(ui.tabs)
           F == {ui.tabs[i] : i \in Results \ Delivered}
           q == [d \in Dialogues |-> IF d \in F THEN "failed" ELSE ui.phase[d]]
           p == [ui EXCEPT !.phase = q]
           b == FailedBox(ui.tabs[Max(Results \ Delivered)], "send")
           r == [p EXCEPT !.box = b]
           u == IF F = {} THEN ui ELSE r
<1>1. /\ ui \in Strips /\ n \in Nat /\ ui.phase \in [Dialogues -> Phases] /\ ui.at <= EndOf(ui) /\ Asking(ui)
      /\ \A i \in 1..n : ui.tabs[i] \in Dialogues
  BY SMT DEF Sound, Strips
<1>2. Results \subseteq 1..n /\ Delivered \subseteq Results /\ \A i \in Delivered : ui.tabs[i] \in Taken
  BY <1>1 DEF Results, Delivered, Taken
<1>3. Moves(ui, u, {})
  <2>1. CASE F = {}
    BY <2>1, Still
  <2>2. CASE F # {}
    <3>1. Results \ Delivered # {} /\ Results \ Delivered \in SUBSET (1..n)
      BY <2>2, <1>2
    <3>2. b \in Boxes /\ b.kind = "failed"
      <4>1. ui.tabs[Max(Results \ Delivered)] \in Dialogues
        BY <3>1, <1>1, Greatest
      <4> QED
        BY <4>1, FailedBoxOK
    <3>3. q \in [Dialogues -> Phases] /\ \A d \in Dialogues : q[d] = "sending" => ui.phase[d] = "sending"
      <4> HIDE DEF F
      <4> QED
        BY <1>1, SMT DEF Phases
    <3>4. /\ p \in Strips /\ p.tabs = ui.tabs /\ p.at = ui.at /\ p.phase = q /\ p.opened = ui.opened
          /\ p.box = ui.box
      <4> HIDE DEF q
      <4> QED
        BY <1>1, <3>3, SMT DEF Strips
    <3> HIDE DEF q, p, F
    <3>5. p.at <= EndOf(p) /\ Asking(p)
      BY <1>1, <3>4 DEF EndOf, Asking, Active
    <3>6. Moves(ui, p, {}) /\ Sound(p)
      BY <3>3, <3>4, <3>5, SameTabs, Zenon DEF Moves
    <3>7. Moves(p, r, {})
      <4> HIDE DEF b
      <4> QED
        BY <3>2, <3>6, BoxMoves
    <3> HIDE DEF r
    <3>8. u = r
      BY <2>2
    <3> QED
      BY <3>6, <3>7, <3>8, Wide
  <2> QED
    BY <2>1, <2>2
<1>4. Sound(u)
  BY <1>3 DEF Moves
<1>5. u.tabs = ui.tabs
  <2>1. p.tabs = ui.tabs /\ r.tabs = p.tabs
    <3> HIDE DEF q, b
    <3>1. p.tabs = ui.tabs
      BY <1>1, SMT DEF Strips
    <3>2. r.tabs = p.tabs
      BY <1>1, SMT DEF Strips
    <3> QED
      BY <3>1, <3>2
  <2> QED
    BY <2>1
<1>6. Settle = CASE \E i \in Delivered : i < n -> Crash(ui)
                 [] Delivered = {n} -> CloseTab(u, n)
                 [] OTHER -> u
  BY DEF Settle
<1> HIDE DEF u
<1>7. ASSUME Delivered = {n} PROVE Moves(ui, CloseTab(u, n), Taken)
  <2>1. n \in 1..Len(u.tabs) /\ u.tabs[n] \in Taken
    BY <1>2, <1>5, <1>7
  <2>2. Moves(u, CloseTab(u, n), {u.tabs[n]})
    BY <1>4, <2>1, CloseMoves
  <2>3. Moves(u, CloseTab(u, n), Taken)
    <3> HIDE DEF n
    <3> QED
      BY <2>1, <2>2, Wider, Zenon
  <2> QED
    BY <1>3, <2>3, Wide
<1>8. Moves(ui, Crash(ui), Taken) /\ Moves(ui, u, Taken)
  <2>1. Moves(ui, Crash(ui), {}) /\ {} \subseteq Taken
    BY CrashMoves
  <2> QED
    BY <1>3, <2>1, Wider
<1> HIDE DEF n
<1> QED
  BY <1>6, <1>7, <1>8, Zenon

LEMMA PolledMoves == SInv => Moves(ui, Polled, Taken)
<1> SUFFICES ASSUME SInv PROVE Moves(ui, Polled, Taken)
  OBVIOUS
<1>1. Moves(ui, Settle, Taken) /\ Sound(Settle)
  BY SettleMoves DEF SInv, Types, Moves
<1>2. CASE Settle.crashed \/ openLast = NoOne
  BY <1>1, <1>2 DEF Polled
<1>3. CASE ~(Settle.crashed \/ openLast = NoOne)
  <2>1. openLast \in Dialogues /\ openLast \in used
    BY <1>3 DEF SInv, Types
  <2>2. Moves(Settle, OnComposeOpened(Settle, openLast), {})
    BY <1>1, <2>1, OpenMoves
  <2>3. Moves(ui, OnComposeOpened(Settle, openLast), Taken \cup {})
    BY <1>1, <2>2, Then, Zenon
  <2>4. Polled = OnComposeOpened(Settle, openLast) /\ Taken \cup {} = Taken
    BY <1>3 DEF Polled
  <2> QED
    BY <2>3, <2>4
<1> QED
  BY <1>2, <1>3

LEMMA After == ASSUME NEW u, NEW v, NEW w, NEW D, Moves(u, v, D), Moves(v, w, {}) PROVE Moves(u, w, D)
<1>1. Moves(u, w, D \cup {})
  BY Then, Zenon
<1> QED
  BY <1>1

LEMMA OnlyLooks ==
  ASSUME NEW u, NEW v, Moves(ui, u, Taken), Moves(u, v, {}), Only(v)
  PROVE  Looks
  BY After DEF Only, Looks

LEMMA SendSteps ==
  ASSUME NEW u, Moves(ui, u, Taken), Send(u)
  PROVE  Looks \/ \E d \in Dialogues : Begins(d)
<1>1. Sound(u)
  BY DEF Moves
<1>2. CASE Active(u) = NoOne
  <2>1. Only(Crash(u))
    BY <1>2 DEF Send
  <2> QED
    BY <1>1, <2>1, CrashMoves, OnlyLooks
<1>3. CASE Active(u) # NoOne /\ u.phase[Active(u)] = "sending"
  <2>1. Only(u)
    BY <1>3 DEF Send
  <2> QED
    BY <1>1, <2>1, Still, OnlyLooks
<1>4. CASE Active(u) # NoOne /\ u.phase[Active(u)] # "sending"
  <2>1. Active(u) \in Dialogues /\ IsTab(u, Active(u))
    BY <1>1, <1>4, ActiveIs
  <2>2. Begins(Active(u))
    BY <1>4, <2>1 DEF Send, Begins
  <2> QED
    BY <2>1, <2>2
<1> QED
  BY <1>2, <1>3, <1>4

LEMMA AbortSteps ==
  ASSUME NEW u, Moves(ui, u, Taken), Active(u) # NoOne, Abort(u)
  PROVE  Looks \/ \E d \in Dialogues : Closes(d)
<1> DEFINE d == Active(u)
<1>1. Sound(u)
  BY DEF Moves
<1>2. u.at \in 1..Len(u.tabs) /\ u.tabs[u.at] = d /\ d \in Dialogues
  BY <1>1, ActiveIs
<1>3. CASE u.phase[d] = "sending"
  <2>1. Only(u)
    BY <1>3 DEF Abort
  <2> QED
    BY <1>1, <2>1, Still, OnlyLooks
<1>4. CASE u.phase[d] = "aborting"
  <2>1. /\ ui' = CloseTab(u, u.at) /\ gone' = gone \cup {mail[d]}
        /\ UNCHANGED <<bus, app, clock, sends, overlaps>>
    BY <1>4 DEF Abort
  <2>2. Moves(u, ui', {d})
    BY <1>1, <1>2, <2>1, CloseMoves
  <2>3. Moves(ui, ui', Taken \cup {d})
    <3> HIDE DEF d
    <3> QED
      BY <2>2, Then
  <2> QED
    BY <1>2, <2>1, <2>3 DEF Closes
<1>5. CASE u.phase[d] # "sending" /\ u.phase[d] # "aborting"
  <2> DEFINE p == PhaseOf(u, d, "aborting")
             k == [NoBox EXCEPT !.kind = "abort"]
             b == [k EXCEPT !.tab = d]
             r == [p EXCEPT !.box = b]
  <2>1. Moves(u, p, {}) /\ Sound(p)
    BY <1>1, <1>2, PhaseMoves DEF Phases, Moves
  <2>2. b \in Boxes
    <3>1. k \in Boxes
      BY SMT DEF NoBox, Boxes, NoOne
    <3> HIDE DEF k, d
    <3> QED
      BY <1>2, <3>1, SMT DEF Boxes
  <2>3. Active(p) = d
    <3>1. p.tabs = u.tabs /\ p.at = u.at
      BY <1>1, <1>2, PhaseFields DEF Phases, Sound
    <3> QED
      BY <3>1 DEF Active
  <2>4. Only(r)
    BY <1>5 DEF Abort
  <2>5. Moves(p, r, {})
    <3>1. Active(p) # NoOne
      BY <2>3
    <3> HIDE DEF p, b
    <3> QED
      BY <2>1, <2>2, <3>1, BoxMoves
  <2> HIDE DEF p, r
  <2> QED
    BY <2>1, <2>4, <2>5, Wide, OnlyLooks
<1> QED
  BY <1>3, <1>4, <1>5

LEMMA NoBoxOK == NoBox \in Boxes /\ NoBox.kind = "none"
  BY SMT DEF NoBox, Boxes, NoOne

(* The box put away: the same dialogue is on the screen.                   *)
LEMMA Unboxed ==
  ASSUME NEW u, Moves(ui, u, Taken)
  PROVE  LET v == [u EXCEPT !.box = NoBox] IN
         /\ Moves(u, v, {}) /\ Moves(ui, v, Taken) /\ Sound(v)
         /\ Active(v) = Active(u) /\ v.at = u.at
<1> DEFINE v == [u EXCEPT !.box = NoBox]
<1>1. Sound(u) /\ u \in Strips
  BY DEF Moves, Sound
<1>2. Moves(u, v, {})
  BY <1>1, NoBoxOK, BoxMoves
<1>3. v.tabs = u.tabs /\ v.at = u.at
  BY <1>1, SMT DEF Strips
<1> HIDE DEF v
<1>4. Active(v) = Active(u) /\ Sound(v) /\ Moves(ui, v, Taken)
  BY <1>2, <1>3, After DEF Active, Moves
<1> QED
  BY <1>2, <1>3, <1>4 DEF v

LEMMA ReopenedMoves ==
  ASSUME NEW u, Sound(u), Active(u) # NoOne
  PROVE  Moves(u, Reopened(u), {})
<1>1. Active(u) \in Dialogues
  BY ActiveIs
<1>2. Moves(u, PhaseOf(u, Active(u), "editing"), {})
  BY <1>1, PhaseMoves DEF Phases
<1> QED
  BY <1>2, Still DEF Reopened

LEMMA SaveSteps ==
  ASSUME NEW u, Moves(ui, u, Taken), SaveDraft(u)
  PROVE  Looks \/ \E d \in Dialogues : Saves(d)
<1> DEFINE d == Active(u)
           v == [u EXCEPT !.box = NoBox]
<1>1. Sound(u) /\ u.box.kind = "abort" /\ d # NoOne
  BY SMT DEF Moves, SaveDraft, Sound, Asking
<1>2. d \in Dialogues
  BY <1>1, ActiveIs
<1>3. CASE Only([PhaseOf(u, d, "editing") EXCEPT !.box = FailedBox(NoOne, "draft")])
  <2> DEFINE p == PhaseOf(u, d, "editing")
             r == [p EXCEPT !.box = FailedBox(NoOne, "draft")]
  <2>1. Moves(u, p, {}) /\ Sound(p)
    BY <1>1, <1>2, PhaseMoves DEF Phases, Moves
  <2> HIDE DEF p
  <2>2. Moves(p, r, {})
    BY <2>1, FailedBoxOK, BoxMoves, Zenon
  <2> HIDE DEF r
  <2>3. Only(r)
    BY <1>3 DEF r, p
  <2> QED
    BY <2>1, <2>2, <2>3, Wide, OnlyLooks
<1>4. CASE ~Only([PhaseOf(u, d, "editing") EXCEPT !.box = FailedBox(NoOne, "draft")])
  <2>1. PICK s \in {clock, clock + 1} \cap 1..MaxSecond :
          /\ ui' = CloseTab(v, u.at) /\ clock' = s
          /\ \/ drafts' = Written(s, mail[d]) /\ gone' = gone \cup Overwritten(s, d)
             \/ /\ drafts' = Retired(Written(s, mail[d]), resume[d])
                /\ gone' = gone \cup Overwritten(s, d) \cup InItsPlace(d)
                             \cup (IF resume[d] = s THEN {mail[d]} ELSE {})
          /\ UNCHANGED <<bus, opening, keyring, job, spool, ids, sends, overlaps>>
    BY <1>4 DEF SaveDraft
  <2>2. Moves(ui, v, Taken) /\ Sound(v) /\ Active(v) = d /\ v.at = u.at
    BY Unboxed
  <2> HIDE DEF v
  <2>3. v.at \in 1..Len(v.tabs) /\ v.tabs[v.at] = d
    BY <1>1, <2>2, ActiveIs
  <2>4. Moves(v, ui', {d})
    BY <2>1, <2>2, <2>3, CloseMoves
  <2> HIDE DEF d
  <2>5. Moves(ui, ui', Taken \cup {d})
    BY <2>2, <2>4, Then
  <2>6. Saves(d)
    BY <2>1, <2>5, Zenon DEF Saves
  <2> QED
    BY <1>2, <2>6 DEF d
<1> QED
  BY <1>3, <1>4

LEMMA BoxSteps ==
  ASSUME NEW u, Moves(ui, u, Taken), CloseBox(u) \/ Retry(u) \/ Review(u)
  PROVE  Looks \/ \E d \in Dialogues : Begins(d)
<1> DEFINE c == CancelBox(u)
           v == ActivateTab(c, u.box.tab)
<1>1. Sound(u)
  BY DEF Moves
<1>2. Moves(u, c, {}) /\ Sound(c)
  BY <1>1, CancelMoves DEF Moves
<1>3. Moves(u, v, {}) /\ Sound(v)
  <2> HIDE DEF c
  <2>1. Moves(c, v, {})
    BY <1>2, ActivateMoves
  <2> HIDE DEF v
  <2> QED
    BY <1>2, <2>1, Wide DEF Moves
<1>4. CASE CloseBox(u)
  <2>1. CASE Only([u EXCEPT !.box = NoBox])
    <3>1. Moves(u, [u EXCEPT !.box = NoBox], {})
      BY Unboxed
    <3> QED
      BY <2>1, <3>1, OnlyLooks
  <2>2. CASE Only(c)
    <3> HIDE DEF c
    <3> QED
      BY <1>2, <2>2, OnlyLooks
  <2> QED
    BY <1>4, <2>1, <2>2 DEF CloseBox
<1>5. CASE Retry(u)
  <2>1. Send(v)
    BY <1>5 DEF Retry
  <2> HIDE DEF v
  <2>2. Moves(ui, v, Taken)
    BY <1>3, After
  <2> QED
    BY <2>1, <2>2, SendSteps
<1>6. CASE Review(u)
  <2>1. Only(IF Active(v) = NoOne THEN Crash(v)
             ELSE IF v.phase[Active(v)] = "sending" THEN v ELSE Reopened(v))
    BY <1>6 DEF Review
  <2> HIDE DEF v
  <2>2. Moves(v, Crash(v), {}) /\ Moves(v, v, {})
    BY <1>3, CrashMoves, Still
  <2>3. Active(v) # NoOne => Moves(v, Reopened(v), {})
    BY <1>3, ReopenedMoves
  <2>4. Moves(ui, v, Taken)
    BY <1>3, After
  <2> QED
    BY <2>1, <2>2, <2>3, <2>4, OnlyLooks, Zenon
<1> QED
  BY <1>4, <1>5, <1>6

LEMMA TabSteps == ASSUME NEW u, Moves(ui, u, Taken), TabKey(u) PROVE Looks
<1>1. Sound(u) /\ EndOf(u) \in Nat /\ u.at \in Nat /\ u.at <= EndOf(u)
  BY ComposeAssumption, SMT DEF Moves, Sound, EndOf, Strips
<1>2. PICK i \in 0..EndOf(u) : Only(Attach(u, i))
  <2>1. EndOf(u) \in 0..EndOf(u) /\ 0 \in 0..EndOf(u)
    BY <1>1, SMT
  <2>2. u.at # EndOf(u) => u.at + 1 \in 0..EndOf(u)
    BY <1>1, SMT
  <2>3. u.at # 0 => u.at - 1 \in 0..EndOf(u)
    BY <1>1, SMT
  <2> QED
    BY <2>1, <2>2, <2>3, Zenon DEF TabKey
<1>3. Moves(u, Attach(u, i), {})
  BY <1>1, AttachMoves
<1> QED
  BY <1>2, <1>3, OnlyLooks

LEMMA KeySteps ==
  ASSUME NEW u, Moves(ui, u, Taken), Key(u)
  PROVE  \/ Looks \/ Listing
         \/ \E d \in Dialogues : \/ Begins(d) \/ Schedules(d) \/ Closes(d) \/ Saves(d) \/ Begun(d)
                                \/ \E e \in Dialogues : Recalled(d, e)
<1> DEFINE Goal == \/ Looks \/ Listing
                   \/ \E d \in Dialogues : \/ Begins(d) \/ Schedules(d) \/ Closes(d) \/ Saves(d) \/ Begun(d)
                                          \/ \E e \in Dialogues : Recalled(d, e)
           v == [u EXCEPT !.box = NoBox]
           d == Active(u)
<1>1. Sound(u)
  BY DEF Moves
<1>2. d # NoOne => d \in Dialogues /\ IsTab(u, d) /\ d \in u.opened
  BY <1>1, ActiveIs
<1>3. Moves(ui, v, Taken) /\ Moves(u, v, {}) /\ Sound(v) /\ Active(v) = d
  BY Unboxed
<1>4. u.box.kind \in {"abort", "choice", "time"} => d # NoOne
  BY <1>1 DEF Sound, Asking
<1>5. ASSUME SendKey(u) \/ CloseBox(u) \/ Retry(u) \/ Review(u) PROVE Goal
  BY <1>5, SendSteps, BoxSteps DEF SendKey
<1>6. ASSUME ScheduleKey(u) PROVE Goal
  <2> DEFINE b == [NoBox EXCEPT !.kind = "time"]
  <2>1. b \in Boxes /\ b.kind = "time" /\ d # NoOne /\ Only([u EXCEPT !.box = b])
    <3>1. b \in Boxes /\ b.kind = "time"
      BY SMT DEF NoBox, Boxes, NoOne
    <3> QED
      BY <1>6, <3>1 DEF ScheduleKey, Free
  <2> HIDE DEF b
  <2>2. Moves(u, [u EXCEPT !.box = b], {})
    BY <1>1, <2>1, BoxMoves
  <2> QED
    BY <2>1, <2>2, OnlyLooks
<1>7. ASSUME CommitSchedule(u) PROVE Goal
  <2>1. /\ ui' = v /\ StartJob("schedule", d) /\ d # NoOne
        /\ UNCHANGED <<bus, opening, keyring, drafts, spool, ids, clock, sends, gone>>
    BY <1>7 DEF CommitSchedule
  <2> HIDE DEF v
  <2>2. IsTab(v, d) /\ d \in Dialogues
    BY <1>3, <2>1, ActiveIs
  <2>3. Schedules(d)
    BY <1>3, <2>1, <2>2 DEF Schedules
  <2> QED
    BY <2>2, <2>3
<1>8. ASSUME AbortKey(u) PROVE Goal
  BY <1>8, AbortSteps DEF AbortKey, Free
<1>9. ASSUME ConfirmAbort(u) PROVE Goal
  <2>1. Abort(v) /\ d # NoOne
    BY <1>4, <1>9 DEF ConfirmAbort
  <2> HIDE DEF v
  <2> QED
    BY <1>3, <2>1, AbortSteps
<1>10. ASSUME EditKey(u) PROVE Goal
  <2>1. Only(Reopened(u)) /\ d # NoOne
    BY <1>10 DEF EditKey, Free
  <2> QED
    BY <1>1, <2>1, ReopenedMoves, OnlyLooks
<1>11. ASSUME SecurityKey(u) PROVE Goal
  BY <1>2, <1>11 DEF SecurityKey, Free, Listing
<1>12. ASSUME TabKey(u) PROVE Goal
  BY <1>12, TabSteps
<1>13. ASSUME SaveDraft(u) PROVE Goal
  BY <1>13, SaveSteps
<1>14. ASSUME NEW a \in Dialogues, New(u, a) PROVE Goal
  BY <1>14 DEF Begun
<1>15. ASSUME NEW a \in Dialogues, NEW e \in Dialogues, EditScheduled(u, a, e) PROVE Goal
  BY <1>15 DEF Recalled
<1> HIDE DEF Goal
<1>16. Goal
  BY <1>5, <1>6, <1>7, <1>8, <1>9, <1>10, <1>11, <1>12, <1>13, <1>14, <1>15, Zenon DEF Key
<1> QED
  BY <1>16 DEF Goal

(* Every step of the client, with what a message does to the strip.        *)
Steps ==
  \/ Looks \/ Listing \/ Reads
  \/ \E d \in Dialogues : \/ Begins(d) \/ Schedules(d) \/ Closes(d) \/ Saves(d) \/ Begun(d)
                         \/ Opened(d) \/ KeysLoaded(d)
                         \/ \E e \in Dialogues : Recalled(d, e)
  \/ \E j \in Jobs : Work(j)

LEMMA NextSteps == SInv /\ Next => Steps
<1> SUFFICES ASSUME SInv, Next PROVE Steps
  OBVIOUS
<1>1. Moves(ui, Polled, Taken) /\ Sound(Polled)
  BY PolledMoves DEF Moves
<1>2. ASSUME Update PROVE Steps
  <2>1. CASE Only(Polled)
    BY <1>1, <2>1, Still, OnlyLooks DEF Steps
  <2>2. CASE Key(Polled)
    BY <1>1, <2>2, KeySteps, Zenon DEF Steps
  <2>3. CASE ReadEvent(Polled)
    BY <1>1, <2>3 DEF Steps, Reads
  <2> QED
    BY <1>2, <2>1, <2>2, <2>3 DEF Update
<1>3. ASSUME Spin PROVE Steps
  <2>1. Only(Polled)
    BY <1>3 DEF Spin
  <2> QED
    BY <1>1, <2>1, Still, OnlyLooks DEF Steps
<1> QED
  BY <1>2, <1>3, Zenon DEF Next, Async, Steps

-----------------------------------------------------------------------------
(* The channel and the jobs.                                               *)

LEMMA SentIs ==
  ASSUME chan \in Seq(Events), NEW e \in Events
  PROVE  /\ Sent(e) \in Seq(Events)
         /\ Len(chan) <= Cap => Len(Sent(e)) <= Cap
         /\ \A i \in 1..Len(Sent(e)) : Sent(e)[i] = e \/ (i \in 1..Len(chan) /\ Sent(e)[i] = chan[i])
         /\ \A i \in 1..Len(chan) : i \in 1..Len(Sent(e)) /\ Sent(e)[i] = chan[i]
<1> DEFINE t == Append(chan, e)
<1>1. /\ t \in Seq(Events) /\ Len(t) = Len(chan) + 1 /\ t[Len(chan) + 1] = e
      /\ \A i \in 1..Len(chan) : t[i] = chan[i]
  BY AppendProperties
<1>2. Len(chan) \in Nat
  OBVIOUS
<1> HIDE DEF t
<1>3. CASE Len(chan) < Cap
  <2>1. Sent(e) = t
    BY <1>3 DEF Sent, t
  <2>2. \A i \in 1..Len(t) : i = Len(chan) + 1 \/ i \in 1..Len(chan)
    BY <1>1, <1>2, SMT
  <2>3. \A i \in 1..Len(chan) : i \in 1..Len(t)
    BY <1>1, <1>2, SMT
  <2>4. Len(t) <= Cap
    BY <1>1, <1>2, <1>3, ComposeAssumption, SMT
  <2> QED
    BY <1>1, <2>1, <2>2, <2>3, <2>4, Zenon
<1>4. CASE ~(Len(chan) < Cap)
  <2>1. Sent(e) = chan
    BY <1>4 DEF Sent
  <2> QED
    BY <2>1
<1> QED
  BY <1>3, <1>4

LEMMA TailIs ==
  ASSUME chan \in Seq(Events), chan # <<>>
  PROVE  /\ Tail(chan) \in Seq(Events) /\ Len(Tail(chan)) = Len(chan) - 1
         /\ 1 \in 1..Len(chan) /\ Head(chan) = chan[1] /\ Head(chan) \in Events
         /\ \A i \in 1..Len(Tail(chan)) : i + 1 \in 1..Len(chan) /\ Tail(chan)[i] = chan[i + 1]
         /\ \A i \in 1..Len(chan) : i = 1 \/ (i - 1 \in 1..Len(Tail(chan)) /\ Tail(chan)[i - 1] = chan[i])
  BY SMT

LEMMA ToIs ==
  ASSUME job \in [Jobs -> Works], NEW j \in Jobs, NEW s \in {"sent", "report"}, NEW ok \in BOOLEAN, To(j, s, ok)
  PROVE  /\ job' \in [Jobs -> Works] /\ \A i \in Jobs \ {j} : job'[i] = job[i]
         /\ job'[j].kind = job[j].kind /\ job'[j].tab = job[j].tab
         /\ job'[j].step = s /\ job'[j].ok = ok
<1> DEFINE x == [job[j] EXCEPT !.step = s]
           z == [job EXCEPT ![j] = x]
           y == [z[j] EXCEPT !.ok = ok]
<1>1. x \in Works /\ x.kind = job[j].kind /\ x.tab = job[j].tab /\ x.step = s
  BY SMT DEF Works
<1>2. job' = [z EXCEPT ![j] = y]
  BY DEF To
<1>4. z \in [Jobs -> Works] /\ z[j] = x /\ \A i \in Jobs \ {j} : z[i] = job[i]
  <2> HIDE DEF x
  <2> QED
    BY <1>1, SMT
<1> HIDE DEF x, z
<1>3. y \in Works /\ y.kind = x.kind /\ y.tab = x.tab /\ y.step = x.step /\ y.ok = ok
  BY <1>1, <1>4, SMT DEF Works
<1> HIDE DEF y
<1> QED
  BY <1>1, <1>2, <1>3, <1>4, SMT

LEMMA ReportIs ==
  ASSUME job \in [Jobs -> Works], NEW j \in Jobs, Report(j)
  PROVE  /\ job' \in [Jobs -> Works] /\ \A i \in Jobs \ {j} : job'[i] = job[i]
         /\ job'[j].kind = job[j].kind /\ job'[j].tab = job[j].tab /\ job'[j].step = "done"
         /\ job'[j].ok = job[j].ok
<1> DEFINE x == [job[j] EXCEPT !.step = "done"]
<1>1. /\ x \in Works /\ x.kind = job[j].kind /\ x.tab = job[j].tab /\ x.step = "done"
      /\ x.ok = job[j].ok
  BY SMT DEF Works
<1>2. job' = [job EXCEPT ![j] = x]
  BY DEF Report
<1> HIDE DEF x
<1> QED
  BY <1>1, <1>2, SMT

Started(j, k, d) ==
  /\ job[j] = NoJob /\ \A i \in Jobs \ {j} : job'[i] = job[i]
  /\ job'[j].kind = k /\ job'[j].tab = d /\ job'[j].step = "start" /\ job'[j].ok = FALSE

LEMMA StartIs ==
  ASSUME job \in [Jobs -> Works], NEW d \in Dialogues, NEW k \in {"send", "schedule"}, StartJob(k, d)
  PROVE  job' \in [Jobs -> Works] /\ \E j \in Jobs : Started(j, k, d)
<1> DEFINE x == [kind |-> k, tab |-> d, step |-> "start", ok |-> FALSE]
<1>1. PICK j \in Jobs : job[j] = NoJob /\ job' = [job EXCEPT ![j] = x]
  BY DEF StartJob
<1>2. x \in Works /\ x.kind = k /\ x.tab = d /\ x.step = "start" /\ x.ok = FALSE
  BY SMT DEF Works
<1> HIDE DEF x
<1> QED
  BY <1>1, <1>2, SMT DEF Started

LEMMA EventIs ==
  ASSUME NEW k \in {"send", "schedule", "open", "keys"}, NEW d \in Dialogues, NEW ok \in BOOLEAN
  PROVE  Event(k, d, ok) \in Events /\ Event(k, d, ok).kind = k /\ Event(k, d, ok).tab = d /\ Event(k, d, ok).ok = ok
  BY SMT DEF Event, Events

-----------------------------------------------------------------------------
(* The strip of every step.                                                *)

LEMMA BeginIs ==
  ASSUME NEW d \in Dialogues, NEW w, Moves(ui, w, Taken), IsTab(w, d), ui' = PhaseOf(w, d, "sending")
  PROVE  /\ Sound(ui') /\ ui'.tabs = w.tabs /\ ui'.opened = w.opened
         /\ \A e \in Dialogues \ {d} : ui'.phase[e] = "sending" => ui.phase[e] = "sending"
<1>1. /\ w \in Strips /\ Sound(w) /\ w.at <= EndOf(w) /\ Asking(w) /\ Distinct(w) /\ Known(w)
      /\ w.phase \in [Dialogues -> Phases]
  BY SMT DEF Moves, Sound, Strips
<1>2. "sending" \in Phases
  BY DEF Phases
<1>3. /\ ui' \in Strips /\ ui'.tabs = w.tabs /\ ui'.at = w.at /\ ui'.box = w.box
      /\ ui'.phase = [w.phase EXCEPT ![d] = "sending"] /\ ui'.opened = w.opened
  BY <1>1, <1>2, PhaseFields
<1>4. Sound(ui')
  BY <1>1, <1>3 DEF Sound, EndOf, Asking, Active, Distinct, Known
<1>5. \A e \in Dialogues \ {d} : ui'.phase[e] = "sending" => w.phase[e] = "sending"
  BY <1>1, <1>3, SMT
<1> QED
  BY <1>3, <1>4, <1>5 DEF Moves

LEMMA ReadIs ==
  ASSUME SInv, NEW u, Moves(ui, u, Taken), ReadEvent(u)
  PROVE  LET e == chan[1] IN
         /\ e \in Events /\ 1 \in 1..Len(chan) /\ chan' = Tail(chan)
         /\ Moves(ui, ui', Taken \cup (IF e.kind \in {"send", "schedule"} /\ e.ok THEN {e.tab} ELSE {}))
         /\ e.kind \in {"send", "schedule"} /\ e.ok => ~IsTab(ui', e.tab)
<1> DEFINE e == chan[1]
<1>1. /\ chan # <<>> /\ e \in Events /\ 1 \in 1..Len(chan) /\ chan' = Tail(chan) /\ e = Head(chan)
  BY TailIs, Zenon DEF ReadEvent, SInv, Types
<1>2. e.tab \in Dialogues /\ e.tab \in used /\ e.ok \in BOOLEAN
  BY <1>1, SMT DEF SInv, Origin, Events
<1>3. Sound(u)
  BY DEF Moves
<1>4. ui' = CASE e.kind = "send" -> OnSendResult(u, e.tab, e.ok)
             [] e.kind = "schedule" -> OnScheduledResult(u, e.tab, e.ok)
             [] e.kind = "open" -> OnComposeOpened(u, e.tab)
             [] e.kind = "keys" -> OnKeysLoaded(u, e.tab)
  BY <1>1, Zenon DEF ReadEvent
<1>5. ASSUME NEW v, NEW D, Moves(u, v, D) PROVE Moves(ui, v, Taken \cup D)
  BY <1>5, Then
<1> HIDE DEF e
<1>6. CASE e.kind = "send"
  <2>1. ui' = OnSendResult(u, e.tab, e.ok)
    BY <1>4, <1>6
  <2>2. Moves(ui, ui', Taken \cup (IF e.ok THEN {e.tab} ELSE {}))
    BY <1>2, <1>3, <1>5, <2>1, SendResultMoves
  <2>3. e.ok => ~IsTab(ui', e.tab)
    BY <1>3, <2>1, WhereIs, CloseMoves DEF OnSendResult
  <2> QED
    BY <1>1, <1>6, <2>2, <2>3 DEF e
<1>7. CASE e.kind = "schedule"
  <2>1. ui' = OnScheduledResult(u, e.tab, e.ok)
    BY <1>4, <1>7
  <2>2. Moves(ui, ui', Taken \cup (IF e.ok THEN {e.tab} ELSE {}))
    BY <1>2, <1>3, <1>5, <2>1, ScheduledResultMoves
  <2>3. e.ok => ~IsTab(ui', e.tab)
    BY <1>3, <2>1, WhereIs, CloseMoves DEF OnScheduledResult
  <2> QED
    BY <1>1, <1>7, <2>2, <2>3 DEF e
<1>8. CASE e.kind = "open"
  <2>1. ui' = OnComposeOpened(u, e.tab)
    BY <1>4, <1>8
  <2>2. Moves(u, ui', {})
    BY <1>2, <1>3, <2>1, OpenMoves
  <2>3. Moves(ui, ui', Taken \cup {})
    BY <1>5, <2>2
  <2> QED
    BY <1>1, <1>8, <2>3 DEF e
<1>9. CASE e.kind = "keys"
  <2>1. ui' = OnKeysLoaded(u, e.tab)
    BY <1>4, <1>9
  <2>2. Moves(u, ui', {})
    BY <1>2, <1>3, <2>1, KeysMoves
  <2>3. Moves(ui, ui', Taken \cup {})
    BY <1>5, <2>2
  <2> QED
    BY <1>1, <1>9, <2>3 DEF e
<1>10. e.kind \in {"send", "schedule", "open", "keys"}
  BY <1>1, SMT DEF Events, e
<1> QED
  BY <1>6, <1>7, <1>8, <1>9, <1>10

LEMMA StripStep ==
  ASSUME SInv, Steps
  PROVE  /\ Sound(ui') /\ ui.opened \subseteq ui'.opened /\ ui'.opened \subseteq used
         /\ \A d \in Dialogues : IsTab(ui', d) => IsTab(ui, d) \/ d \notin ui.opened
<1> DEFINE Goal == /\ Sound(ui') /\ ui.opened \subseteq ui'.opened /\ ui'.opened \subseteq used
                   /\ \A d \in Dialogues : IsTab(ui', d) => IsTab(ui, d) \/ d \notin ui.opened
<1>1. ui.opened \subseteq used /\ Sound(ui)
  BY DEF SInv, Origin
<1>2. ASSUME NEW v, NEW D, Moves(ui, v, D), v = ui' PROVE Goal
  BY <1>1, <1>2 DEF Moves
<1>3. ASSUME UNCHANGED ui PROVE Goal
  <2>1. Moves(ui, ui, {})
    BY <1>1, Still
  <2> QED
    BY <1>2, <1>3, <2>1
<1>4. ASSUME Looks \/ Listing PROVE Goal
  BY <1>2, <1>4 DEF Looks, Listing
<1>5. ASSUME Reads PROVE Goal
  BY <1>2, <1>5, ReadIs DEF Reads
<1>6. ASSUME NEW d \in Dialogues, Schedules(d) \/ Closes(d) \/ Saves(d) PROVE Goal
  BY <1>2, <1>6 DEF Schedules, Closes, Saves
<1>7. ASSUME NEW d \in Dialogues, Begun(d) PROVE Goal
  BY <1>2, <1>7 DEF Begun, New
<1>8. ASSUME NEW d \in Dialogues, NEW e \in Dialogues, Recalled(d, e) PROVE Goal
  BY <1>2, <1>8 DEF Recalled, EditScheduled
<1>9. ASSUME NEW d \in Dialogues, Begins(d) PROVE Goal
  <2>1. PICK w : Moves(ui, w, Taken) /\ IsTab(w, d) /\ ui' = PhaseOf(w, d, "sending")
    BY <1>9 DEF Begins
  <2>2. Sound(ui') /\ ui'.tabs = w.tabs /\ ui'.opened = w.opened
    BY <2>1, BeginIs
  <2> QED
    BY <1>1, <2>1, <2>2, Zenon DEF Moves, IsTab
<1>10. ASSUME NEW d \in Dialogues, Opened(d) \/ KeysLoaded(d) PROVE Goal
  BY <1>3, <1>10 DEF Opened, KeysLoaded
<1>11. ASSUME NEW j \in Jobs, Work(j) PROVE Goal
  BY <1>3, <1>11 DEF Work, DeliverFails, Deliver, File, Store, Report
<1> HIDE DEF Goal
<1>12. Goal
  BY <1>4, <1>5, <1>6, <1>7, <1>8, <1>9, <1>10, <1>11, Zenon DEF Steps
<1> QED
  BY <1>12 DEF Goal

-----------------------------------------------------------------------------
(* The types, and where ids, events and jobs are from.                     *)

LEMMA FoldersTyped ==
  ASSUME Types, NEW d \in Dialogues, NEW s \in 1..MaxSecond
  PROVE  /\ Written(s, mail[d]) \in [1..MaxSecond -> Dialogues \cup {NoOne}]
         /\ Retired(drafts, resume[d]) \in [1..MaxSecond -> Dialogues \cup {NoOne}]
         /\ Retired(Written(s, mail[d]), resume[d]) \in [1..MaxSecond -> Dialogues \cup {NoOne}]
         /\ Overwritten(s, d) \subseteq Dialogues /\ InItsPlace(d) \subseteq Dialogues
         /\ mail[d] \in Dialogues
<1>1. mail[d] \in Dialogues /\ resume[d] \in 0..MaxSecond /\ drafts[s] \in Dialogues \cup {NoOne}
  BY DEF Types
<1>2. ASSUME NEW f \in [1..MaxSecond -> Dialogues \cup {NoOne}]
      PROVE  Retired(f, resume[d]) \in [1..MaxSecond -> Dialogues \cup {NoOne}]
  BY <1>1, <1>2, SMT DEF Retired
<1>3. Written(s, mail[d]) \in [1..MaxSecond -> Dialogues \cup {NoOne}]
  BY <1>1, SMT DEF Written, Types
<1>4. InItsPlace(d) \subseteq Dialogues
  <2>1. resume[d] # 0 => resume[d] \in 1..MaxSecond
    BY <1>1, SMT
  <2> QED
    BY <2>1, Zenon DEF InItsPlace, Types
<1> QED
  BY <1>1, <1>2, <1>3, <1>4, Zenon DEF Overwritten, Types

LEMMA TypesStep == ASSUME SInv, Steps PROVE Types'
<1> DEFINE Goal == Types'
<1> USE DEF Types, bus, app, ids, history
<1>1. ASSUME Looks PROVE Goal
  BY <1>1, Zenon DEF SInv, Looks
<1>2. ASSUME Listing PROVE Goal
  <2>1. PICK d \in ui'.opened : keyring' = {d}
    BY <1>2 DEF Listing
  <2>2. ui'.opened \subseteq used
    BY StripStep
  <2> QED
    BY <1>2, <2>1, <2>2, Zenon DEF SInv, Listing
<1>3. ASSUME Reads PROVE Goal
  <2>1. PICK u : Moves(ui, u, Taken) /\ ReadEvent(u)
    BY <1>3 DEF Reads
  <2>2. chan # <<>> /\ chan' = Tail(chan) /\ UNCHANGED <<sendLast, openLast, app, clock, history>>
    BY <2>1 DEF ReadEvent
  <2>3. Tail(chan) \in Seq(Events) /\ Len(Tail(chan)) <= Cap
    <3>1. Len(Tail(chan)) = Len(chan) - 1 /\ Tail(chan) \in Seq(Events)
      BY <2>2, TailIs DEF SInv
    <3>2. Len(chan) \in Nat /\ Len(chan) <= Cap /\ Cap \in Nat
      BY ComposeAssumption DEF SInv
    <3> QED
      BY <3>1, <3>2, SMT
  <2> QED
    BY <2>2, <2>3, Zenon DEF SInv
<1>4. ASSUME NEW d \in Dialogues, NEW k \in {"send", "schedule"}, StartJob(k, d)
      PROVE  job' \in [Jobs -> Works] /\ overlaps' \in [Dialogues -> Nat]
  <2>1. job' \in [Jobs -> Works]
    BY <1>4, StartIs DEF SInv
  <2>2. overlaps' \in [Dialogues -> Nat]
    BY <1>4, SMT DEF SInv, StartJob
  <2> QED
    BY <2>1, <2>2
<1>5. ASSUME NEW d \in Dialogues, Begins(d) PROVE Goal
  <2>1. sendLast' \in [Dialogues -> {"none", "ok", "failed"}]
    BY <1>5, SMT DEF SInv, Begins
  <2> QED
    BY <1>4, <1>5, <2>1, Zenon DEF SInv, Begins
<1>6. ASSUME NEW d \in Dialogues, Schedules(d) PROVE Goal
  BY <1>4, <1>6, Zenon DEF SInv, Schedules
<1>7. ASSUME NEW d \in Dialogues, Closes(d) PROVE Goal
  <2>1. mail[d] \in Dialogues
    BY DEF SInv
  <2> QED
    BY <1>7, <2>1, Zenon DEF SInv, Closes
<1>8. ASSUME NEW d \in Dialogues, Saves(d) PROVE Goal
  <2>1. PICK s \in {clock, clock + 1} \cap 1..MaxSecond :
       /\ clock' = s
       /\ \/ drafts' = Written(s, mail[d]) /\ gone' = gone \cup Overwritten(s, d)
          \/ /\ drafts' = Retired(Written(s, mail[d]), resume[d])
             /\ gone' = gone \cup Overwritten(s, d) \cup InItsPlace(d)
                          \cup (IF resume[d] = s THEN {mail[d]} ELSE {})
    BY <1>8 DEF Saves
  <2>2. s \in 1..MaxSecond /\ clock' \in Nat
    BY <2>1, SMT DEF SInv
  <2>3. drafts' \in [1..MaxSecond -> Dialogues \cup {NoOne}] /\ gone' \subseteq Dialogues
    <3>1. /\ Written(s, mail[d]) \in [1..MaxSecond -> Dialogues \cup {NoOne}]
          /\ Retired(Written(s, mail[d]), resume[d]) \in [1..MaxSecond -> Dialogues \cup {NoOne}]
          /\ Overwritten(s, d) \subseteq Dialogues /\ InItsPlace(d) \subseteq Dialogues
          /\ mail[d] \in Dialogues
      BY <2>2, FoldersTyped DEF SInv
    <3>2. (IF resume[d] = s THEN {mail[d]} ELSE {}) \subseteq Dialogues /\ gone \subseteq Dialogues
      BY <3>1 DEF SInv
    <3> DEFINE X == IF resume[d] = s THEN {mail[d]} ELSE {}
    <3>3. X \subseteq Dialogues
      BY <3>2
    <3>4. drafts' \in [1..MaxSecond -> Dialogues \cup {NoOne}]
      BY <2>1, <3>1
    <3>5. \/ gone' = gone \cup Overwritten(s, d)
          \/ gone' = gone \cup Overwritten(s, d) \cup InItsPlace(d) \cup X
      BY <2>1
    <3> HIDE DEF X
    <3> QED
      BY <3>1, <3>2, <3>3, <3>4, <3>5, Zenon
  <2> QED
    BY <1>8, <2>2, <2>3, Zenon DEF SInv, Saves
<1>9. ASSUME NEW d \in Dialogues, Begun(d) PROVE Goal
  <2>1. PICK u : New(u, d)
    BY <1>9 DEF Begun
  <2>2. PICK s \in 0..MaxSecond :
          /\ s # 0 => drafts[s] # NoOne
          /\ resume' = [resume EXCEPT ![d] = s]
          /\ mail' = [mail EXCEPT ![d] = IF s = 0 THEN d ELSE drafts[s]]
    BY <2>1 DEF New
  <2>3. mail' \in [Dialogues -> Dialogues] /\ resume' \in [Dialogues -> 0..MaxSecond]
    <3>1. (IF s = 0 THEN d ELSE drafts[s]) \in Dialogues
      <4>1. s # 0 => s \in 1..MaxSecond
        BY SMT
      <4> QED
        BY <2>2, <4>1, Zenon DEF SInv
    <3> QED
      BY <2>2, <3>1, SMT DEF SInv
  <2> QED
    BY <2>1, <2>3, Zenon DEF SInv, New
<1>10. ASSUME NEW d \in Dialogues, NEW e \in Dialogues, Recalled(d, e) PROVE Goal
  <2>1. PICK u : EditScheduled(u, d, e)
    BY <1>10 DEF Recalled
  <2>2. mail' \in [Dialogues -> Dialogues] /\ resume' \in [Dialogues -> 0..MaxSecond]
    BY <2>1, SMT DEF SInv, EditScheduled
  <2>3. chan' \in Seq(Events) /\ Len(chan') <= Cap
    BY <2>1, EventIs, SentIs, Zenon DEF SInv, EditScheduled, PublishOpen
  <2> QED
    BY <2>1, <2>2, <2>3, Zenon DEF SInv, EditScheduled, PublishOpen
<1>11. ASSUME NEW d \in Dialogues, Opened(d) PROVE Goal
  <2>1. chan' \in Seq(Events) /\ Len(chan') <= Cap
    BY <1>11, EventIs, SentIs, Zenon DEF SInv, Opened, PublishOpen
  <2> QED
    BY <1>11, <2>1, Zenon DEF SInv, Opened, PublishOpen
<1>12. ASSUME NEW d \in Dialogues, KeysLoaded(d) PROVE Goal
  <2>1. chan' \in Seq(Events) /\ Len(chan') <= Cap
    BY <1>12, EventIs, SentIs, Zenon DEF SInv, KeysLoaded
  <2> QED
    BY <1>12, <2>1, Zenon DEF SInv, KeysLoaded
<1>13. ASSUME NEW j \in Jobs, DeliverFails(j) PROVE Goal
  <2>1. job' \in [Jobs -> Works]
    BY <1>13, ToIs DEF SInv, DeliverFails
  <2> QED
    BY <1>13, <2>1, Zenon DEF SInv, DeliverFails
<1>14. ASSUME NEW j \in Jobs, job[j] # NoJob PROVE job[j].tab \in Dialogues /\ job[j].tab \in ui.opened
  BY <1>14, SMT DEF SInv, Origin, Sound, Strips
<1>15. ASSUME NEW j \in Jobs, Deliver(j) PROVE Goal
  <2>1. job' \in [Jobs -> Works]
    BY <1>15, ToIs DEF SInv, Deliver
  <2>2. job[j] # NoJob
    BY <1>15 DEF Deliver, NoJob
  <2>3. sends' \in [Dialogues -> Nat]
    BY <1>14, <1>15, <2>2, SMT DEF SInv, Deliver
  <2> QED
    BY <1>15, <2>1, <2>3, Zenon DEF SInv, Deliver
<1>16. ASSUME NEW j \in Jobs, File(j) PROVE Goal
  <2>1. job' \in [Jobs -> Works]
    BY <1>16, ToIs DEF SInv, File
  <2>2. job[j].tab \in Dialogues
    BY <1>14, <1>16 DEF File, NoJob
  <2>3. drafts' \in [1..MaxSecond -> Dialogues \cup {NoOne}] /\ gone' \subseteq Dialogues
    <3>1. CASE UNCHANGED <<drafts, gone>>
      BY <3>1 DEF SInv
    <3>2. CASE drafts' = Retired(drafts, resume[job[j].tab]) /\ gone' = gone \cup InItsPlace(job[j].tab)
      <4>1. CASE resume[job[j].tab] = 0
        BY <3>2, <4>1 DEF Retired, InItsPlace, SInv
      <4>2. CASE resume[job[j].tab] # 0
        <5>1. resume[job[j].tab] \in 1..MaxSecond
          BY <2>2, <4>2, SMT DEF SInv
        <5> QED
          BY <2>2, <3>2, <5>1, FoldersTyped, Zenon DEF SInv
      <4> QED
        BY <4>1, <4>2
    <3> QED
      BY <1>16, <3>1, <3>2 DEF File
  <2> QED
    BY <1>16, <2>1, <2>3, Zenon DEF SInv, File
<1>17. ASSUME NEW j \in Jobs, Store(j) PROVE Goal
  <2>1. job' \in [Jobs -> Works]
    BY <1>17, ToIs DEF SInv, Store
  <2>2. job[j].tab \in used
    BY <1>14, <1>17 DEF Store, NoJob, SInv, Origin
  <2> QED
    BY <1>17, <2>1, <2>2, Zenon DEF SInv, Store
<1>18. ASSUME NEW j \in Jobs, Report(j) PROVE Goal
  <2>1. job' \in [Jobs -> Works]
    BY <1>18, ReportIs DEF SInv
  <2>2. job[j].tab \in Dialogues /\ job[j].kind \in {"send", "schedule"} /\ job[j].ok \in BOOLEAN
    <3>1. job[j] # NoJob
      BY <1>18 DEF Report, NoJob
    <3>2. job[j].kind # "none" /\ job[j] \in Works
      BY <3>1 DEF SInv, Origin
    <3> QED
      BY <1>14, <3>1, <3>2, SMT DEF Works
  <2>3. chan' \in Seq(Events) /\ Len(chan') <= Cap
    BY <1>18, <2>2, EventIs, SentIs, Zenon DEF SInv, Report
  <2>4. sendLast' \in [Dialogues -> {"none", "ok", "failed"}]
    BY <1>18, <2>2, SMT DEF SInv, Report
  <2> QED
    BY <1>18, <2>1, <2>3, <2>4, Zenon DEF SInv, Report
<1> HIDE DEF Goal
<1>19. Goal
  BY <1>1, <1>2, <1>3, <1>5, <1>6, <1>7, <1>8, <1>9, <1>10, <1>11, <1>12, <1>13, <1>15, <1>16, <1>17, <1>18,
     Zenon DEF Steps, Work
<1> QED
  BY <1>19 DEF Goal

LEMMA TabOpened ==
  ASSUME NEW u, Sound(u), NEW d, IsTab(u, d)
  PROVE  d \in u.opened /\ d \in Dialogues
  BY SMT DEF Sound, Known, IsTab, Strips

LEMMA BeginTab ==
  ASSUME NEW d \in Dialogues, Begins(d)
  PROVE  IsTab(ui', d) /\ Sound(ui')
<1>1. PICK w : Moves(ui, w, Taken) /\ IsTab(w, d) /\ ui' = PhaseOf(w, d, "sending")
  BY DEF Begins
<1>2. Sound(ui') /\ ui'.tabs = w.tabs
  BY <1>1, BeginIs
<1> QED
  BY <1>1, <1>2 DEF IsTab

LEMMA IdSteps ==
  ASSUME SInv, Steps
  PROVE  used' = used \/ \E d \in Dialogues : Fresh(d) /\ used' = used \cup {d}
<1> USE DEF app, ids
<1>1. ASSUME Looks \/ Listing \/ Reads PROVE used' = used
  BY <1>1, Zenon DEF Looks, Listing, Reads, ReadEvent
<1>2. ASSUME NEW d \in Dialogues, Begins(d) \/ Schedules(d) \/ Closes(d) \/ Saves(d) \/ Opened(d) \/ KeysLoaded(d)
      PROVE  used' = used
  BY <1>2, Zenon DEF Begins, Schedules, Closes, Saves, Opened, KeysLoaded
<1>3. ASSUME NEW d \in Dialogues, NEW e \in Dialogues, Begun(d) \/ Recalled(d, e)
      PROVE  Fresh(d) /\ used' = used \cup {d}
  BY <1>3, Zenon DEF Begun, Recalled, New, EditScheduled
<1>4. ASSUME NEW j \in Jobs, Work(j) PROVE used' = used
  BY <1>4, Zenon DEF Work, DeliverFails, Deliver, File, Store, Report
<1> QED
  BY <1>1, <1>2, <1>3, <1>4, Zenon DEF Steps

(* What the channel and the jobs may do in a step.                         *)
Tells(e) == /\ chan' = Sent(e) /\ e.tab \in used'
            /\ e.kind \in {"send", "schedule"} => e.tab \in ui.opened
ChanMoves == \/ chan' = chan
             \/ Reads /\ chan # <<>> /\ chan' = Tail(chan)
             \/ \E e \in Events : Tells(e)
Advances(j) == \/ job[j].step # "none" /\ \E ok \in BOOLEAN : To(j, "report", ok)
               \/ job[j].kind = "send" /\ job[j].step # "none" /\ To(j, "sent", FALSE)
               \/ Report(j)
JobMoves == \/ job' = job
            \/ \E d \in Dialogues, k \in {"send", "schedule"} : StartJob(k, d) /\ d \in ui'.opened
            \/ \E j \in Jobs : Advances(j)

LEMMA ChanSteps == ASSUME SInv, Steps PROVE ChanMoves
<1> DEFINE Goal == ChanMoves
<1> USE DEF bus, ChanMoves, Tells
<1>1. ASSUME Looks \/ Listing PROVE Goal
  BY <1>1, Zenon DEF Looks, Listing
<1>2. ASSUME Reads PROVE Goal
  BY <1>2, Zenon DEF Reads, ReadEvent
<1>3. ASSUME NEW d \in Dialogues, Begins(d) \/ Schedules(d) \/ Closes(d) \/ Saves(d) \/ Begun(d) PROVE Goal
  BY <1>3, Zenon DEF Begins, Schedules, Closes, Saves, Begun, New
<1>4. ASSUME NEW d \in Dialogues, NEW e \in Dialogues, Recalled(d, e) PROVE Goal
  <2>1. chan' = Sent(Event("open", d, TRUE)) /\ d \in used'
    BY <1>4, Zenon DEF Recalled, EditScheduled, PublishOpen
  <2>2. Event("open", d, TRUE) \in Events /\ Event("open", d, TRUE).kind = "open" /\ Event("open", d, TRUE).tab = d
    BY EventIs
  <2> QED
    BY <2>1, <2>2
<1>5. ASSUME NEW d \in Dialogues, Opened(d) PROVE Goal
  <2>1. chan' = Sent(Event("open", d, TRUE)) /\ d \in used'
    BY <1>5, Zenon DEF Opened, PublishOpen, ids, SInv, Types
  <2>2. Event("open", d, TRUE) \in Events /\ Event("open", d, TRUE).kind = "open" /\ Event("open", d, TRUE).tab = d
    BY EventIs
  <2> QED
    BY <2>1, <2>2
<1>6. ASSUME NEW d \in Dialogues, KeysLoaded(d) PROVE Goal
  <2>1. chan' = Sent(Event("keys", d, TRUE)) /\ d \in used'
    BY <1>6, Zenon DEF KeysLoaded, ids, SInv, Types
  <2>2. Event("keys", d, TRUE) \in Events /\ Event("keys", d, TRUE).kind = "keys" /\ Event("keys", d, TRUE).tab = d
    BY EventIs
  <2> QED
    BY <2>1, <2>2
<1>7. ASSUME NEW j \in Jobs, DeliverFails(j) \/ Deliver(j) \/ File(j) \/ Store(j) PROVE Goal
  BY <1>7, Zenon DEF DeliverFails, Deliver, File, Store
<1>8. ASSUME NEW j \in Jobs, Report(j) PROVE Goal
  <2>1. chan' = Sent(Event(job[j].kind, job[j].tab, job[j].ok)) /\ used' = used /\ job[j] # NoJob
    <3>1. job[j].step = "report" /\ chan' = Sent(Event(job[j].kind, job[j].tab, job[j].ok)) /\ used' = used
      BY <1>8, Zenon DEF Report, ids
    <3> QED
      BY <3>1 DEF NoJob
  <2>2. /\ job[j].kind \in {"send", "schedule"} /\ job[j].tab \in Dialogues /\ job[j].ok \in BOOLEAN
        /\ job[j].tab \in ui.opened /\ job[j].tab \in used
    BY <2>1, SMT DEF SInv, Origin, Types, Works, Sound, Strips
  <2> DEFINE e == Event(job[j].kind, job[j].tab, job[j].ok)
  <2>3. e \in Events /\ e.tab = job[j].tab
    BY <2>2, EventIs
  <2> HIDE DEF e
  <2> QED
    BY <2>1, <2>2, <2>3 DEF e
<1> HIDE DEF Goal, ChanMoves
<1>9. Goal
  BY <1>1, <1>2, <1>3, <1>4, <1>5, <1>6, <1>7, <1>8, Zenon DEF Steps, Work
<1> QED
  BY <1>9 DEF Goal

LEMMA JobSteps == ASSUME SInv, Steps PROVE JobMoves
<1> DEFINE Goal == JobMoves
<1> USE DEF app, JobMoves, Advances
<1>1. ASSUME Looks \/ Listing \/ Reads PROVE Goal
  BY <1>1, Zenon DEF Looks, Listing, Reads, ReadEvent
<1>2. ASSUME NEW d \in Dialogues, Closes(d) \/ Saves(d) \/ Begun(d) \/ Opened(d) \/ KeysLoaded(d) PROVE Goal
  BY <1>2, Zenon DEF Closes, Saves, Begun, New, Opened, KeysLoaded
<1>3. ASSUME NEW d \in Dialogues, NEW e \in Dialogues, Recalled(d, e) PROVE Goal
  BY <1>3, Zenon DEF Recalled, EditScheduled
<1>4. ASSUME NEW d \in Dialogues, Begins(d) PROVE Goal
  <2>1. d \in ui'.opened
    BY <1>4, BeginTab, TabOpened
  <2> QED
    BY <1>4, <2>1 DEF Begins
<1>5. ASSUME NEW d \in Dialogues, Schedules(d) PROVE Goal
  <2>1. d \in ui'.opened
    BY <1>5, TabOpened DEF Schedules, Moves
  <2> QED
    BY <1>5, <2>1 DEF Schedules
<1>6. ASSUME NEW j \in Jobs, DeliverFails(j) \/ Store(j) PROVE Goal
  <2>1. job[j].step = "start" /\ \E ok \in BOOLEAN : To(j, "report", ok)
    BY <1>6, Zenon DEF DeliverFails, Store
  <2>2. job[j].step # "none"
    BY <2>1
  <2> QED
    BY <2>1, <2>2
<1>7. ASSUME NEW j \in Jobs, File(j) PROVE Goal
  <2>1. job[j].step = "sent" /\ \E ok \in BOOLEAN : To(j, "report", ok)
    BY <1>7, Zenon DEF File
  <2>2. job[j].step # "none"
    BY <2>1
  <2> QED
    BY <2>1, <2>2
<1>8. ASSUME NEW j \in Jobs, Deliver(j) PROVE Goal
  <2>1. job[j].kind = "send" /\ job[j].step = "start" /\ To(j, "sent", FALSE)
    BY <1>8, Zenon DEF Deliver
  <2>2. job[j].step # "none"
    BY <2>1
  <2> QED
    BY <2>1, <2>2, Zenon
<1>9. ASSUME NEW j \in Jobs, Report(j) PROVE Goal
  BY <1>9, Zenon
<1> HIDE DEF Goal, JobMoves, Advances
<1>10. Goal
  BY <1>1, <1>2, <1>3, <1>4, <1>5, <1>6, <1>7, <1>8, <1>9, Zenon DEF Steps, Work
<1> QED
  BY <1>10 DEF Goal

LEMMA OriginStep == ASSUME SInv, Steps PROVE Origin'
<1>1. ui.opened \subseteq ui'.opened /\ ui'.opened \subseteq used
  BY StripStep
<1>2. used \subseteq used' /\ \E n \in 0..MaxOpen : used' = 1..n
  <2>1. PICK n \in 0..MaxOpen : used = 1..n
    BY DEF SInv, Origin
  <2>2. CASE used' = used
    BY <2>1, <2>2
  <2>3. ASSUME NEW d \in Dialogues, Fresh(d), used' = used \cup {d} PROVE \E m \in 0..MaxOpen : used' = 1..m
    <3>1. n \in Nat /\ MaxOpen \in Nat
      BY ComposeAssumption, SMT
    <3>2. Cardinality(1..n) = n
      BY <3>1, FS_Interval, SMT
    <3>3. d = n + 1
      BY <2>1, <2>3, <3>2 DEF Fresh
    <3>4. d \in 0..MaxOpen /\ used' = 1..d
      BY <2>1, <2>3, <3>1, <3>3, SMT DEF Dialogues
    <3> QED
      BY <3>4
  <2> QED
    BY <2>2, <2>3, IdSteps
<1>3. \A i \in 1..Len(chan') : /\ chan'[i].tab \in used'
                               /\ chan'[i].kind \in {"send", "schedule"} => chan'[i].tab \in ui'.opened
  <2> DEFINE OK(x) == /\ x.tab \in used'
                      /\ x.kind \in {"send", "schedule"} => x.tab \in ui'.opened
  <2>1. \A i \in 1..Len(chan) : OK(chan[i])
    BY <1>1, <1>2 DEF SInv, Origin
  <2>2. ASSUME NEW e \in Events, e.tab \in used', e.kind \in {"send", "schedule"} => e.tab \in ui.opened
        PROVE  OK(e)
    BY <1>1, <2>2
  <2> HIDE DEF OK
  <2>3. ASSUME chan' = chan PROVE \A i \in 1..Len(chan') : OK(chan'[i])
    BY <2>1, <2>3
  <2>4. ASSUME chan # <<>>, chan' = Tail(chan) PROVE \A i \in 1..Len(chan') : OK(chan'[i])
    <3>1. \A i \in 1..Len(Tail(chan)) : i + 1 \in 1..Len(chan) /\ Tail(chan)[i] = chan[i + 1]
      BY <2>4, TailIs DEF SInv, Types
    <3>2. \A i \in 1..Len(Tail(chan)) : OK(Tail(chan)[i])
      BY <2>1, <3>1
    <3> QED
      BY <2>4, <3>2
  <2>5. ASSUME NEW e \in Events, chan' = Sent(e), OK(e) PROVE \A i \in 1..Len(chan') : OK(chan'[i])
    <3>1. \A i \in 1..Len(Sent(e)) : Sent(e)[i] = e \/ (i \in 1..Len(chan) /\ Sent(e)[i] = chan[i])
      BY SentIs DEF SInv, Types
    <3>2. \A i \in 1..Len(Sent(e)) : OK(Sent(e)[i])
      BY <2>1, <2>5, <3>1
    <3> QED
      BY <2>5, <3>2
  <2>6. \A i \in 1..Len(chan') : OK(chan'[i])
    <3>1. CASE chan' = chan \/ (chan # <<>> /\ chan' = Tail(chan))
      BY <2>3, <2>4, <3>1
    <3>2. ASSUME NEW e \in Events, Tells(e) PROVE \A i \in 1..Len(chan') : OK(chan'[i])
      BY <2>2, <2>5, <3>2 DEF Tells
    <3> QED
      BY <3>1, <3>2, ChanSteps DEF ChanMoves
  <2> QED
    BY <2>6 DEF OK
<1>4. \A j \in Jobs : /\ job'[j] # NoJob => job'[j].kind # "none" /\ job'[j].tab \in ui'.opened
                      /\ job'[j].step = "none" => job'[j] = NoJob
                      /\ job'[j].step = "sent" => job'[j].kind = "send"
  <2> DEFINE OK(x) == /\ x # NoJob => x.kind # "none" /\ x.tab \in ui'.opened
                      /\ x.step = "none" => x = NoJob
                      /\ x.step = "sent" => x.kind = "send"
  <2>1. \A j \in Jobs : OK(job[j])
    BY <1>1 DEF SInv, Origin
  <2>2. job \in [Jobs -> Works]
    BY DEF SInv, Types
  <2>3. ASSUME NEW j \in Jobs, \A i \in Jobs \ {j} : job'[i] = job[i], OK(job'[j]) PROVE \A i \in Jobs : OK(job'[i])
    <3> HIDE DEF OK
    <3> QED
      BY <2>1, <2>3, Zenon
  <2>4. ASSUME NEW d \in Dialogues, NEW k \in {"send", "schedule"}, StartJob(k, d), d \in ui'.opened
        PROVE  \A i \in Jobs : OK(job'[i])
    <3>1. PICK j \in Jobs : Started(j, k, d)
      BY <2>2, <2>4, StartIs
    <3>2. OK(job'[j])
      BY <2>4, <3>1 DEF Started
    <3> QED
      BY <2>3, <3>1, <3>2 DEF Started
  <2>5. ASSUME NEW j \in Jobs, NEW s \in {"sent", "report"}, NEW ok \in BOOLEAN, To(j, s, ok),
               job[j].step # "none", s = "sent" => job[j].kind = "send"
        PROVE  \A i \in Jobs : OK(job'[i])
    <3>1. /\ \A i \in Jobs \ {j} : job'[i] = job[i]
          /\ job'[j].kind = job[j].kind /\ job'[j].tab = job[j].tab /\ job'[j].step = s
      BY <2>2, <2>5, ToIs
    <3>2. job[j] # NoJob
      BY <2>5 DEF NoJob
    <3>3. OK(job'[j])
      BY <2>1, <2>5, <3>1, <3>2
    <3> QED
      BY <2>3, <3>1, <3>3
  <2>6. ASSUME NEW j \in Jobs, Report(j) PROVE \A i \in Jobs : OK(job'[i])
    <3>1. /\ \A i \in Jobs \ {j} : job'[i] = job[i]
          /\ job'[j].kind = job[j].kind /\ job'[j].tab = job[j].tab /\ job'[j].step = "done"
      BY <2>2, <2>6, ReportIs
    <3>2. job[j] # NoJob
      BY <2>6 DEF Report, NoJob
    <3>3. OK(job'[j])
      BY <2>1, <3>1, <3>2
    <3> QED
      BY <2>3, <3>1, <3>3
  <2>7. ASSUME job' = job PROVE \A i \in Jobs : OK(job'[i])
    <3> HIDE DEF OK
    <3> QED
      BY <2>1, <2>7
  <2> HIDE DEF OK
  <2>8. \A i \in Jobs : OK(job'[i])
    BY <2>4, <2>5, <2>6, <2>7, JobSteps DEF JobMoves, Advances
  <2> QED
    BY <2>8 DEF OK
<1> QED
  BY <1>1, <1>2, <1>3, <1>4, Zenon DEF Origin, NoJob

LEMMA InitSInv == Init => SInv
<1> SUFFICES ASSUME Init PROVE SInv
  OBVIOUS
<1> DEFINE p == [d \in Dialogues |-> "editing"]
<1>1. ui = [tabs |-> <<>>, at |-> 0, phase |-> p, box |-> NoBox, opened |-> {}, crashed |-> FALSE]
  BY DEF Init
<1>2. p \in [Dialogues -> Phases] /\ <<>> \in Seq(Dialogues)
  BY SMT DEF Phases
<1> HIDE DEF p
<1>3. ui.tabs = <<>> /\ ui.at = 0 /\ ui.opened = {} /\ ui.box = NoBox /\ ui.phase = p
  BY <1>1
<1>4. ui \in Strips
  BY <1>1, <1>2, NoBoxOK DEF Strips
<1>5. Len(ui.tabs) = 0 /\ Searches \in Nat
  BY <1>3, ComposeAssumption
<1>6. Sound(ui)
  BY <1>3, <1>4, <1>5, NoBoxOK, SMT DEF Sound, Distinct, Known, EndOf, Asking
<1>7. NoJob \in Works
  BY SMT DEF NoJob, Works, NoOne
<1>8. chan = <<>> /\ Len(chan) = 0 /\ chan \in Seq(Events) /\ Cap \in Nat
  BY ComposeAssumption DEF Init
<1>9. /\ sendLast \in [Dialogues -> {"none", "ok", "failed"}]
      /\ drafts \in [1..MaxSecond -> Dialogues \cup {NoOne}]
      /\ mail \in [Dialogues -> Dialogues] /\ resume \in [Dialogues -> 0..MaxSecond]
      /\ sends \in [Dialogues -> Nat] /\ overlaps \in [Dialogues -> Nat]
  BY ComposeAssumption, SMT DEF Init, NoOne
<1>10. job \in [Jobs -> Works] /\ \A j \in Jobs : job[j] = NoJob
  BY <1>7, SMT DEF Init
<1>11. Types
  BY <1>8, <1>9, <1>10, SMT DEF Types, Init
<1>12. Origin
  <2>1. used = 1..0 /\ 0 \in 0..MaxOpen
    BY ComposeAssumption, SMT DEF Init
  <2>2. NoJob.step # "sent"
    BY DEF NoJob
  <2> QED
    BY <1>3, <1>8, <1>10, <2>1, <2>2, SMT DEF Origin, Init
<1> QED
  BY <1>6, <1>11, <1>12 DEF SInv

LEMMA SInvStill == ASSUME SInv, UNCHANGED vars PROVE SInv'
  BY DEF SInv, Sound, Distinct, Known, EndOf, Asking, Active, Types, Origin, vars, bus, app, ids, history

LEMMA SInvStep == SInv /\ [Next]_vars => SInv'
<1> SUFFICES ASSUME SInv, [Next]_vars PROVE SInv'
  OBVIOUS
<1>1. CASE Next
  <2>1. Steps
    BY <1>1, NextSteps
  <2> QED
    BY <2>1, StripStep, TypesStep, OriginStep DEF SInv
<1>2. CASE UNCHANGED vars
  BY <1>2, SInvStill
<1> QED
  BY <1>1, <1>2

(* The strip stays sound, and ids, events, jobs and folders are what they   *)
(* should be.                                                              *)
THEOREM Structure == Spec => []SInv
  BY InitSInv, SInvStep, PTL DEF Spec

(* Types are kept: tabs are of dialogues that were begun, and the active    *)
(* place is in the strip.                                                  *)
THEOREM SpecTypeOK == Spec => []TypeOK
<1>1. SInv => TypeOK
  <2> SUFFICES ASSUME SInv PROVE TypeOK
    OBVIOUS
  <2>1. /\ \A i \in 1..Len(ui.tabs) : ui.tabs[i] \in used
        /\ ui.at \in 0..EndOf(ui) /\ ui.phase \in [Dialogues -> Phases] /\ ui.opened \subseteq used
    <3>1. ui.at \in Nat /\ ui.at <= EndOf(ui) /\ EndOf(ui) \in Nat
      BY ComposeAssumption, SMT DEF SInv, Sound, EndOf, Strips
    <3>2. ui.phase \in [Dialogues -> Phases]
      BY SMT DEF SInv, Sound, Strips
    <3>3. ui.at \in 0..EndOf(ui)
      BY <3>1, SMT
    <3> QED
      BY <3>2, <3>3 DEF SInv, Sound, Known, Origin
  <2>2. \A j \in Jobs : job[j] # NoJob => job[j].tab \in used
    BY <2>1 DEF SInv, Origin
  <2> QED
    BY <2>1, <2>2, Zenon DEF TypeOK, SInv, Types
<1> QED
  BY Structure, <1>1, PTL

(* A dialogue that was closed has no tab again: not by an event that is     *)
(* late, and not by the memory of the bus.                                 *)
THEOREM SpecClosedStaysClosed == Spec => ClosedStaysClosed
<1>1. SInv /\ [Next]_vars => [\A d \in Dialogues : d \in ui.opened /\ ~IsTab(ui, d) => ~IsTab(ui', d)]_vars
  <2> SUFFICES ASSUME SInv, Next, NEW d \in Dialogues, d \in ui.opened, ~IsTab(ui, d)
               PROVE  ~IsTab(ui', d)
    OBVIOUS
  <2> QED
    BY NextSteps, StripStep
<1> QED
  BY Structure, <1>1, PTL DEF Spec, ClosedStaysClosed

-----------------------------------------------------------------------------
(* A dialogue that is sending has something to wait for.                   *)

LEMMA StillWaits ==
  ASSUME SInv, NEW d \in Dialogues, Waits(d), Steps, ~Begins(d)
  PROVE  Waits(d)'
<1> USE DEF bus, app
<1>1. ASSUME UNCHANGED <<sendLast, job>> PROVE Waits(d)'
  BY <1>1, Zenon DEF Waits, Running
<1>2. ASSUME sendLast' = sendLast, NEW e \in Dialogues, NEW k \in {"send", "schedule"}, StartJob(k, e) PROVE Waits(d)'
  <2>1. PICK j \in Jobs : Started(j, k, e)
    BY <1>2, StartIs DEF SInv, Types
  <2>2. ~Running(j)
    BY <2>1 DEF Started, Running, NoJob
  <2> QED
    BY <1>2, <2>1, <2>2, Zenon DEF Waits, Started, Running
<1>3. ASSUME sendLast' = sendLast, NEW j \in Jobs, NEW s \in {"sent", "report"}, NEW ok \in BOOLEAN, To(j, s, ok)
      PROVE  Waits(d)'
  <2>1. /\ \A i \in Jobs \ {j} : job'[i] = job[i]
        /\ job'[j].kind = job[j].kind /\ job'[j].tab = job[j].tab /\ job'[j].step = s
    BY <1>3, ToIs DEF SInv, Types
  <2>2. Running(j)'
    BY <2>1 DEF Running
  <2> QED
    BY <1>3, <2>1, <2>2, Zenon DEF Waits, Running
<1>4. ASSUME NEW j \in Jobs, Report(j) PROVE Waits(d)'
  <2>1. \A i \in Jobs \ {j} : job'[i] = job[i]
    BY <1>4, ReportIs DEF SInv, Types
  <2>2. CASE job[j].kind = "send" /\ job[j].tab = d
    <3>1. sendLast'[d] # "none"
      BY <1>4, <2>2, SMT DEF SInv, Types, Report
    <3> QED
      BY <3>1 DEF Waits
  <2>3. CASE ~(job[j].kind = "send" /\ job[j].tab = d)
    <3>1. sendLast'[d] = sendLast[d]
      BY <1>4, <2>3, SMT DEF SInv, Types, Report
    <3> QED
      BY <2>1, <2>3, <3>1, Zenon DEF Waits, Running
  <2> QED
    BY <2>2, <2>3
<1>5. ASSUME Looks \/ Listing \/ Reads PROVE Waits(d)'
  <2>1. UNCHANGED <<sendLast, job>>
    BY <1>5, Zenon DEF Looks, Listing, Reads, ReadEvent
  <2> QED
    BY <1>1, <2>1
<1>6. ASSUME NEW e \in Dialogues, Closes(e) \/ Saves(e) \/ Begun(e) \/ Opened(e) \/ KeysLoaded(e) PROVE Waits(d)'
  <2>1. UNCHANGED <<sendLast, job>>
    BY <1>6, Zenon DEF Closes, Saves, Begun, New, Opened, KeysLoaded
  <2> QED
    BY <1>1, <2>1
<1>7. ASSUME NEW e \in Dialogues, NEW f \in Dialogues, Recalled(e, f) PROVE Waits(d)'
  <2>1. UNCHANGED <<sendLast, job>>
    BY <1>7, Zenon DEF Recalled, EditScheduled
  <2> QED
    BY <1>1, <2>1
<1>8. ASSUME NEW e \in Dialogues, Schedules(e) PROVE Waits(d)'
  BY <1>2, <1>8, Zenon DEF Schedules
<1>9. ASSUME NEW e \in Dialogues, Begins(e) PROVE Waits(d)'
  <2>1. e # d
    BY <1>9
  <2>2. sendLast'[d] = sendLast[d]
    BY <1>9, <2>1, SMT DEF Begins, SInv, Types
  <2>3. PICK j \in Jobs : Started(j, "send", e)
    BY <1>9, StartIs DEF SInv, Types, Begins
  <2>4. ~Running(j)
    BY <2>3 DEF Started, Running, NoJob
  <2> QED
    BY <2>2, <2>3, <2>4, Zenon DEF Waits, Started, Running
<1>10. ASSUME NEW j \in Jobs, Work(j) PROVE Waits(d)'
  <2>1. CASE DeliverFails(j) \/ Store(j) \/ File(j)
    <3>1. sendLast' = sendLast /\ \E ok \in BOOLEAN : To(j, "report", ok)
      BY <2>1, Zenon DEF DeliverFails, Store, File
    <3> QED
      BY <1>3, <3>1
  <2>2. CASE Deliver(j)
    <3>1. sendLast' = sendLast /\ To(j, "sent", FALSE)
      BY <2>2, Zenon DEF Deliver
    <3> QED
      BY <1>3, <3>1
  <2> QED
    BY <1>4, <1>10, <2>1, <2>2 DEF Work
<1> QED
  BY <1>5, <1>6, <1>7, <1>8, <1>9, <1>10, Zenon DEF Steps

LEMMA WasSending ==
  ASSUME SInv, Steps, NEW d \in Dialogues, ~Begins(d), ui'.phase[d] = "sending"
  PROVE  ui.phase[d] = "sending"
<1> DEFINE Goal == ui.phase[d] = "sending"
<1>1. ASSUME NEW v, NEW D, Moves(ui, v, D), v = ui' PROVE Goal
  BY <1>1 DEF Moves
<1>2. ASSUME UNCHANGED ui PROVE Goal
  BY <1>2
<1>3. ASSUME Looks \/ Listing PROVE Goal
  BY <1>1, <1>3 DEF Looks, Listing
<1>4. ASSUME Reads PROVE Goal
  BY <1>1, <1>4, ReadIs DEF Reads
<1>5. ASSUME NEW e \in Dialogues, Schedules(e) \/ Closes(e) \/ Saves(e) PROVE Goal
  BY <1>1, <1>5 DEF Schedules, Closes, Saves
<1>6. ASSUME NEW e \in Dialogues, Begun(e) PROVE Goal
  BY <1>1, <1>6 DEF Begun, New
<1>7. ASSUME NEW e \in Dialogues, NEW f \in Dialogues, Recalled(e, f) PROVE Goal
  BY <1>1, <1>7 DEF Recalled, EditScheduled
<1>8. ASSUME NEW e \in Dialogues, Begins(e) PROVE Goal
  <2>1. PICK w : Moves(ui, w, Taken) /\ IsTab(w, e) /\ ui' = PhaseOf(w, e, "sending")
    BY <1>8 DEF Begins
  <2>2. e # d
    BY <1>8
  <2> QED
    BY <2>1, <2>2, BeginIs
<1>9. ASSUME NEW e \in Dialogues, Opened(e) \/ KeysLoaded(e) PROVE Goal
  BY <1>2, <1>9 DEF Opened, KeysLoaded
<1>10. ASSUME NEW j \in Jobs, Work(j) PROVE Goal
  BY <1>2, <1>10 DEF Work, DeliverFails, Deliver, File, Store, Report
<1> HIDE DEF Goal
<1>11. Goal
  BY <1>3, <1>4, <1>5, <1>6, <1>7, <1>8, <1>9, <1>10, Zenon DEF Steps
<1> QED
  BY <1>11 DEF Goal

LEMMA AwaitsStep == SInv /\ Awaits /\ [Next]_vars => Awaits'
<1> SUFFICES ASSUME SInv, Awaits, [Next]_vars, NEW d \in Dialogues, ui'.phase[d] = "sending" PROVE Waits(d)'
  BY DEF Awaits
<1>1. CASE Next
  <2>1. Steps
    BY <1>1, NextSteps
  <2>2. CASE Begins(d)
    <3>1. PICK j \in Jobs : Started(j, "send", d)
      BY <2>2, StartIs DEF SInv, Types, Begins
    <3> QED
      BY <3>1 DEF Waits, Started, Running
  <2>3. CASE ~Begins(d)
    BY <2>1, <2>3, WasSending, StillWaits DEF Awaits
  <2> QED
    BY <2>2, <2>3
<1>2. CASE UNCHANGED vars
  BY <1>2 DEF Awaits, Waits, Running, vars, bus, app
<1> QED
  BY <1>1, <1>2

(* No dialogue is wedged: while it sends, its job runs or the last result   *)
(* is on the bus, whatever events the full channel dropped.                *)
THEOREM SpecNeverWedged == Spec => []NeverWedged
<1>1. Init => Awaits
  BY SMT DEF Init, Awaits
<1>2. Awaits => NeverWedged
  BY DEF Awaits, Waits, NeverWedged
<1> QED
  BY <1>1, <1>2, AwaitsStep, Structure, PTL DEF Spec

-----------------------------------------------------------------------------
(* A mail goes out twice only by a job that overlapped another.            *)

LEMMA LastSteps ==
  ASSUME SInv, Steps, NEW d \in Dialogues
  PROVE  \/ sendLast'[d] = sendLast[d]
         \/ Begins(d)
         \/ \E j \in Jobs : Report(j) /\ job[j].kind = "send" /\ job[j].tab = d
<1> DEFINE Goal == \/ sendLast'[d] = sendLast[d]
                   \/ Begins(d)
                   \/ \E j \in Jobs : Report(j) /\ job[j].kind = "send" /\ job[j].tab = d
<1> USE DEF bus
<1>1. ASSUME UNCHANGED sendLast PROVE Goal
  BY <1>1
<1>2. ASSUME Looks \/ Listing \/ Reads PROVE Goal
  BY <1>1, <1>2, Zenon DEF Looks, Listing, Reads, ReadEvent
<1>3. ASSUME NEW e \in Dialogues, Schedules(e) \/ Closes(e) \/ Saves(e) \/ Begun(e) \/ Opened(e) \/ KeysLoaded(e)
      PROVE  Goal
  BY <1>1, <1>3, Zenon DEF Schedules, Closes, Saves, Begun, New, Opened, KeysLoaded
<1>4. ASSUME NEW e \in Dialogues, NEW f \in Dialogues, Recalled(e, f) PROVE Goal
  BY <1>1, <1>4, Zenon DEF Recalled, EditScheduled
<1>5. ASSUME NEW e \in Dialogues, Begins(e) PROVE Goal
  <2>1. e # d => sendLast'[d] = sendLast[d]
    BY <1>5, SMT DEF Begins, SInv, Types
  <2> QED
    BY <1>5, <2>1
<1>6. ASSUME NEW j \in Jobs, DeliverFails(j) \/ Deliver(j) \/ File(j) \/ Store(j) PROVE Goal
  BY <1>1, <1>6, Zenon DEF DeliverFails, Deliver, File, Store
<1>7. ASSUME NEW j \in Jobs, Report(j) PROVE Goal
  <2>1. ~(job[j].kind = "send" /\ job[j].tab = d) => sendLast'[d] = sendLast[d]
    BY <1>7, SMT DEF Report, SInv, Types
  <2> QED
    BY <1>7, <2>1
<1> HIDE DEF Goal
<1>8. Goal
  BY <1>2, <1>3, <1>4, <1>5, <1>6, <1>7, Zenon DEF Steps, Work
<1> QED
  BY <1>8 DEF Goal

(* A job that is over without a delivery to tell of.                       *)
Lapses(j, d) == Report(j) /\ job[j].tab = d /\ (job[j].kind = "schedule" \/ ~job[j].ok)

LEMMA KindOf ==
  ASSUME SInv, NEW j \in Jobs, job[j].step # "none"
  PROVE  /\ job[j] # NoJob /\ job[j].kind \in {"send", "schedule"} /\ job[j].ok \in BOOLEAN
         /\ job[j].tab \in Dialogues /\ job[j].tab \in ui.opened
<1>1. job[j] # NoJob
  BY DEF NoJob
<1>2. job[j] \in Works /\ job[j].kind # "none" /\ job[j].tab \in ui.opened /\ ui.opened \subseteq Dialogues
  BY <1>1, SMT DEF SInv, Origin, Types, Sound, Strips
<1> QED
  BY <1>1, <1>2, SMT DEF Works

LEMMA StartedPends ==
  ASSUME NEW j \in Jobs, NEW k, NEW d, Started(j, k, d)
  PROVE  Pending(d)'
  BY DEF Started, Pending, Running

LEMMA SeenStays ==
  ASSUME SInv, Steps, NEW d \in Dialogues, Seen(d), ~\E j \in Jobs : Lapses(j, d)
  PROVE  Seen(d)'
<1>1. CASE d \in ui.opened /\ ~IsTab(ui, d)
  <2>1. d \in ui'.opened /\ ~IsTab(ui', d)
    BY <1>1, StripStep
  <2> QED
    BY <2>1 DEF Seen
<1>2. ASSUME NEW j \in Jobs, Report(j), job[j].tab = d PROVE Seen(d)'
  <2>1. job[j].kind = "send" /\ job[j].ok
    BY <1>2, KindOf DEF Lapses, Report
  <2>2. sendLast'[d] = "ok"
    BY <1>2, <2>1, SMT DEF Report, SInv, Types
  <2> QED
    BY <2>2 DEF Seen, Pending
<1>3. ASSUME NEW i \in Jobs, job[i].tab = d, Running(i) PROVE Seen(d)'
  <2>1. CASE job' = job
    BY <1>3, <2>1 DEF Seen, Pending, Running
  <2>2. ASSUME NEW e \in Dialogues, NEW k \in {"send", "schedule"}, StartJob(k, e) PROVE Seen(d)'
    <3>1. PICK j \in Jobs : Started(j, k, e)
      BY <2>2, StartIs DEF SInv, Types
    <3>2. i # j
      BY <1>3, <3>1 DEF Started, Running, NoJob
    <3> QED
      BY <1>3, <3>1, <3>2 DEF Seen, Pending, Running, Started
  <2>3. ASSUME NEW j \in Jobs, NEW s \in {"sent", "report"}, NEW ok \in BOOLEAN, To(j, s, ok) PROVE Seen(d)'
    <3>1. /\ \A h \in Jobs \ {j} : job'[h] = job[h]
          /\ job'[j].tab = job[j].tab /\ job'[j].step = s
      BY <2>3, ToIs DEF SInv, Types
    <3>2. job'[i].tab = d /\ job'[i].step \notin {"none", "done"}
      BY <1>3, <3>1 DEF Running
    <3> QED
      BY <3>2 DEF Seen, Pending, Running
  <2>4. ASSUME NEW j \in Jobs, Report(j) PROVE Seen(d)'
    <3>1. CASE j = i
      BY <1>2, <1>3, <2>4, <3>1
    <3>2. CASE j # i
      <4>1. job'[i] = job[i]
        BY <2>4, <3>2, ReportIs DEF SInv, Types
      <4> QED
        BY <1>3, <4>1 DEF Seen, Pending, Running
    <3> QED
      BY <3>1, <3>2
  <2> QED
    BY <2>1, <2>2, <2>3, <2>4, JobSteps, Zenon DEF JobMoves, Advances
<1>4. ASSUME sendLast[d] = "ok" PROVE Seen(d)'
  <2>1. CASE sendLast'[d] = sendLast[d]
    BY <1>4, <2>1 DEF Seen, Pending
  <2>2. CASE Begins(d)
    <3>1. PICK j \in Jobs : Started(j, "send", d)
      BY <2>2, StartIs DEF SInv, Types, Begins
    <3> QED
      BY <3>1, StartedPends DEF Seen
  <2> QED
    BY <1>2, <2>1, <2>2, LastSteps
<1>5. ASSUME NEW i \in 1..Len(chan), chan[i].tab = d, chan[i].kind = "send", chan[i].ok PROVE Seen(d)'
  <2>1. ASSUME NEW k \in 1..Len(chan'), chan'[k] = chan[i] PROVE Seen(d)'
    BY <1>5, <2>1 DEF Seen, Pending
  <2>2. CASE chan' = chan
    BY <2>1, <2>2
  <2>3. CASE Reads /\ chan # <<>> /\ chan' = Tail(chan)
    <3>1. CASE i = 1
      <4>1. d \in ui.opened
        BY <1>5 DEF SInv, Origin
      <4>2. ~IsTab(ui', d)
        BY <1>5, <2>3, <3>1, ReadIs DEF Reads
      <4> QED
        BY <4>1, <4>2, StripStep DEF Seen
    <3>2. CASE i # 1
      <4>1. i - 1 \in 1..Len(Tail(chan)) /\ Tail(chan)[i - 1] = chan[i]
        BY <2>3, <3>2, TailIs DEF SInv, Types
      <4> QED
        BY <2>1, <2>3, <4>1
    <3> QED
      BY <3>1, <3>2
  <2>4. ASSUME NEW e \in Events, chan' = Sent(e) PROVE Seen(d)'
    <3>1. i \in 1..Len(Sent(e)) /\ Sent(e)[i] = chan[i]
      BY SentIs DEF SInv, Types
    <3> QED
      BY <2>1, <2>4, <3>1
  <2> QED
    BY <2>2, <2>3, <2>4, ChanSteps DEF ChanMoves, Tells
<1> QED
  BY <1>1, <1>3, <1>4, <1>5, Zenon DEF Seen, Pending

LEMMA Countable ==
  ASSUME NEW d
  PROVE  IsFiniteSet(Undelivered(d)) /\ Cardinality(Undelivered(d)) \in Nat
<1>1. IsFiniteSet(Jobs)
  <2>1. MaxJobs \in Int /\ 1 \in Int
    BY ComposeAssumption, SMT
  <2> QED
    BY <2>1, FS_Interval DEF Jobs
<1>2. Undelivered(d) \subseteq Jobs
  BY DEF Undelivered
<1>3. IsFiniteSet(Undelivered(d))
  BY <1>1, <1>2, FS_Subset
<1> QED
  BY <1>3, FS_CardinalityType

LEMMA StillBalanced ==
  ASSUME SInv, NEW d \in Dialogues, Balanced(d), Seen(d) => Seen(d)',
         Undelivered(d)' = Undelivered(d), sends'[d] = sends[d], overlaps'[d] = overlaps[d]
  PROVE  Balanced(d)'
<1>1. Cardinality(Undelivered(d)) \in Nat /\ sends[d] \in Nat /\ overlaps[d] \in Nat
  BY Countable DEF SInv, Types
<1>2. Cardinality(Undelivered(d))' = Cardinality(Undelivered(d))
  BY Zenon
<1> DEFINE a == Cardinality(Undelivered(d))
           x == IF Seen(d) THEN 1 ELSE 0
           y == IF Seen(d)' THEN 1 ELSE 0
<1>3. x \in Nat /\ y \in Nat /\ x <= y
  BY SMT
<1>4. a + sends[d] <= overlaps[d] + x
  BY DEF Balanced
<1>5. Balanced(d)' <=> a + sends[d] <= overlaps[d] + y
  BY <1>2 DEF Balanced
<1>6. a \in Nat
  BY <1>1
<1> HIDE DEF a, x, y
<1> QED
  BY <1>1, <1>3, <1>4, <1>5, <1>6, SMT

Waiting(j, d) == /\ job[j].tab = d
                 /\ \/ job[j].step = "start"
                    \/ job[j].step = "report" /\ (job[j].kind = "schedule" \/ ~job[j].ok)

LEMMA OneJob ==
  ASSUME NEW j \in Jobs, \A i \in Jobs \ {j} : job'[i] = job[i], NEW d
  PROVE  /\ Waiting(j, d) /\ Waiting(j, d)' => Undelivered(d)' = Undelivered(d)
         /\ ~Waiting(j, d) /\ ~Waiting(j, d)' => Undelivered(d)' = Undelivered(d)
         /\ ~Waiting(j, d) /\ Waiting(j, d)' => Cardinality(Undelivered(d))' = Cardinality(Undelivered(d)) + 1
         /\ Waiting(j, d) /\ ~Waiting(j, d)' => Cardinality(Undelivered(d))' = Cardinality(Undelivered(d)) - 1
<1>1. /\ Undelivered(d) = {i \in Jobs : Waiting(i, d)}
      /\ Undelivered(d)' = {i \in Jobs : Waiting(i, d)'}
  BY Zenon DEF Undelivered, Waiting
<1>2. \A i \in Jobs \ {j} : Waiting(i, d)' <=> Waiting(i, d)
  BY Zenon DEF Waiting
<1>3. IsFiniteSet(Undelivered(d)) /\ Cardinality(Undelivered(d)) \in Nat
  BY Countable
<1>4. ASSUME ~Waiting(j, d), Waiting(j, d)' PROVE Cardinality(Undelivered(d))' = Cardinality(Undelivered(d)) + 1
  <2>1. Undelivered(d)' = Undelivered(d) \cup {j} /\ j \notin Undelivered(d)
    BY <1>1, <1>2, <1>4, Zenon
  <2>2. Cardinality(Undelivered(d) \cup {j}) = Cardinality(Undelivered(d)) + 1
    BY <1>3, <2>1, FS_AddElement
  <2> QED
    BY <2>1, <2>2, Zenon
<1>5. ASSUME Waiting(j, d), ~Waiting(j, d)' PROVE Cardinality(Undelivered(d))' = Cardinality(Undelivered(d)) - 1
  <2>1. Undelivered(d)' = Undelivered(d) \ {j} /\ j \in Undelivered(d)
    BY <1>1, <1>2, <1>5, Zenon
  <2>2. Cardinality(Undelivered(d) \ {j}) = Cardinality(Undelivered(d)) - 1
    BY <1>3, <2>1, FS_RemoveElement
  <2> QED
    BY <2>1, <2>2, Zenon
<1>6. ASSUME Waiting(j, d), Waiting(j, d)' PROVE Undelivered(d)' = Undelivered(d)
  BY <1>1, <1>2, <1>6, Zenon
<1>7. ASSUME ~Waiting(j, d), ~Waiting(j, d)' PROVE Undelivered(d)' = Undelivered(d)
  BY <1>1, <1>2, <1>7, Zenon
<1> QED
  BY <1>4, <1>5, <1>6, <1>7, Zenon

(* A job that starts is counted, and is in the open.                       *)
LEMMA StartBalances ==
  ASSUME SInv, Steps, NEW d \in Dialogues, Balanced(d), NEW k \in {"send", "schedule"}, StartJob(k, d),
         IsTab(ui', d), sends' = sends
  PROVE  Balanced(d)'
<1>1. PICK j \in Jobs : Started(j, k, d)
  BY StartIs DEF SInv, Types
<1>2. Cardinality(Undelivered(d))' = Cardinality(Undelivered(d)) + 1
  <2>1. ~Waiting(j, d) /\ Waiting(j, d)' /\ \A i \in Jobs \ {j} : job'[i] = job[i]
    BY <1>1 DEF Started, Waiting, NoJob
  <2> QED
    BY <2>1, OneJob
<1>3. Seen(d)'
  BY <1>1, StartedPends DEF Seen
<1>4. /\ Cardinality(Undelivered(d)) \in Nat /\ sends[d] \in Nat /\ overlaps[d] \in Nat
  BY Countable DEF SInv, Types
<1>5. overlaps'[d] = overlaps[d] + (IF Pending(d) THEN 1 ELSE 0)
  BY SMT DEF StartJob, SInv, Types
<1>6. Seen(d) <=> Pending(d)
  <2>1. IsTab(ui, d) \/ d \notin ui.opened
    BY StripStep
  <2> QED
    BY <2>1 DEF Seen
<1> DEFINE a == Cardinality(Undelivered(d))
           b == Cardinality(Undelivered(d))'
<1>7. a + sends[d] <= overlaps[d] + (IF Seen(d) THEN 1 ELSE 0)
  BY DEF Balanced
<1>8. Balanced(d)' <=> b + sends[d] <= overlaps'[d] + 1
  BY <1>3 DEF Balanced
<1>9. a \in Nat /\ b = a + 1
  BY <1>2, <1>4
<1> HIDE DEF a, b
<1> QED
  BY <1>4, <1>5, <1>6, <1>7, <1>8, <1>9, SMT

LEMMA DeliveryBalances ==
  ASSUME SInv, Steps, NEW j \in Jobs, NEW d \in Dialogues, Balanced(d), Deliver(j), job[j].tab = d
  PROVE  Balanced(d)'
<1>1. /\ job[j].step = "start" /\ job[j].kind = "send"
      /\ sends' = [sends EXCEPT ![d] = @ + 1] /\ overlaps' = overlaps
  BY DEF Deliver
<1>2. /\ \A i \in Jobs \ {j} : job'[i] = job[i]
      /\ job'[j].tab = d /\ job'[j].step = "sent"
  BY ToIs DEF SInv, Types, Deliver
<1>3. Cardinality(Undelivered(d))' = Cardinality(Undelivered(d)) - 1
  <2>1. Waiting(j, d) /\ ~Waiting(j, d)'
    BY <1>1, <1>2 DEF Waiting
  <2> QED
    BY <1>2, <2>1, OneJob
<1>4. Seen(d)'
  BY <1>2 DEF Seen, Pending, Running
<1>5. /\ Cardinality(Undelivered(d)) \in Nat /\ sends[d] \in Nat /\ overlaps[d] \in Nat
      /\ sends'[d] = sends[d] + 1 /\ overlaps'[d] = overlaps[d]
  BY <1>1, Countable DEF SInv, Types
<1> DEFINE a == Cardinality(Undelivered(d))
           b == Cardinality(Undelivered(d))'
<1>6. a + sends[d] <= overlaps[d] + (IF Seen(d) THEN 1 ELSE 0)
  BY DEF Balanced
<1>7. Balanced(d)' <=> b + sends'[d] <= overlaps'[d] + 1
  BY <1>4 DEF Balanced
<1>8. a \in Nat /\ b = a - 1
  BY <1>3, <1>5
<1> HIDE DEF a, b
<1> QED
  BY <1>5, <1>6, <1>7, <1>8, SMT

LEMMA LapseBalances ==
  ASSUME SInv, Steps, NEW j \in Jobs, NEW d \in Dialogues, Balanced(d), Lapses(j, d)
  PROVE  Balanced(d)'
<1>1. job[j].step = "report" /\ sends' = sends /\ overlaps' = overlaps
  BY DEF Lapses, Report, history
<1>2. (\A i \in Jobs \ {j} : job'[i] = job[i]) /\ job'[j].step = "done"
  BY ReportIs DEF SInv, Types, Lapses
<1>3. Cardinality(Undelivered(d))' = Cardinality(Undelivered(d)) - 1
  <2>1. Waiting(j, d) /\ ~Waiting(j, d)'
    BY <1>1, <1>2 DEF Waiting, Lapses
  <2> QED
    BY <1>2, <2>1, OneJob
<1>4. /\ Cardinality(Undelivered(d)) \in Nat /\ sends[d] \in Nat /\ overlaps[d] \in Nat
      /\ sends'[d] = sends[d] /\ overlaps'[d] = overlaps[d]
  BY <1>1, Countable DEF SInv, Types
<1> DEFINE a == Cardinality(Undelivered(d))
           b == Cardinality(Undelivered(d))'
           x == IF Seen(d) THEN 1 ELSE 0
           y == IF Seen(d)' THEN 1 ELSE 0
<1>5. x \in {0, 1} /\ y \in {0, 1}
  BY Zenon
<1>6. a + sends[d] <= overlaps[d] + x
  BY DEF Balanced
<1>7. Balanced(d)' <=> b + sends'[d] <= overlaps'[d] + y
  BY DEF Balanced
<1>8. a \in Nat /\ b = a - 1
  BY <1>3, <1>4
<1> HIDE DEF a, b, x, y
<1> QED
  BY <1>4, <1>5, <1>6, <1>7, <1>8, SMT

LEMMA BalanceStep == SInv /\ Balance /\ [Next]_vars => Balance'
<1> SUFFICES ASSUME SInv, Balance, [Next]_vars, NEW d \in Dialogues PROVE Balanced(d)'
  BY DEF Balance
<1>1. Balanced(d)
  BY DEF Balance
<1>2. ASSUME UNCHANGED vars PROVE Balanced(d)'
  BY <1>1, <1>2 DEF Balanced, Undelivered, Seen, Pending, Running, IsTab, vars, bus, app, history
<1>3. ASSUME Next PROVE Steps
  BY <1>3, NextSteps
<1>4. ASSUME Steps, ~\E j \in Jobs : Lapses(j, d), Undelivered(d)' = Undelivered(d),
             sends'[d] = sends[d], overlaps'[d] = overlaps[d]
      PROVE  Balanced(d)'
  <2>1. Seen(d) => Seen(d)'
    BY <1>4, SeenStays
  <2> QED
    BY <1>1, <1>4, <2>1, StillBalanced
<1>5. ASSUME Steps, NEW j \in Jobs, Lapses(j, d) PROVE Balanced(d)'
  BY <1>1, <1>5, LapseBalances
<1> USE DEF app, history
<1>6. ASSUME Steps, UNCHANGED <<job, sends, overlaps>> PROVE Balanced(d)'
  <2>1. Undelivered(d)' = Undelivered(d)
    BY <1>6 DEF Undelivered
  <2> QED
    BY <1>4, <1>5, <1>6, <2>1
<1>7. ASSUME Steps, Looks \/ Listing \/ Reads PROVE Balanced(d)'
  <2>1. UNCHANGED <<job, sends, overlaps>>
    BY <1>7, Zenon DEF Looks, Listing, Reads, ReadEvent
  <2> QED
    BY <1>6, <1>7, <2>1
<1>8. ASSUME Steps, NEW e \in Dialogues, Closes(e) \/ Saves(e) \/ Begun(e) \/ Opened(e) \/ KeysLoaded(e)
      PROVE  Balanced(d)'
  <2>1. UNCHANGED <<job, sends, overlaps>>
    BY <1>8, Zenon DEF Closes, Saves, Begun, New, Opened, KeysLoaded
  <2> QED
    BY <1>6, <1>8, <2>1
<1>9. ASSUME Steps, NEW e \in Dialogues, NEW f \in Dialogues, Recalled(e, f) PROVE Balanced(d)'
  <2>1. UNCHANGED <<job, sends, overlaps>>
    BY <1>9, Zenon DEF Recalled, EditScheduled
  <2> QED
    BY <1>6, <1>9, <2>1
<1>10. ASSUME Steps, NEW e \in Dialogues, NEW k \in {"send", "schedule"}, StartJob(k, e), IsTab(ui', e), sends' = sends
       PROVE  Balanced(d)'
  <2>1. CASE e = d
    BY <1>1, <1>10, <2>1, StartBalances
  <2>2. CASE e # d
    <3>1. PICK j \in Jobs : Started(j, k, e)
      BY <1>10, StartIs DEF SInv, Types
    <3>2. ~Waiting(j, d) /\ ~Waiting(j, d)' /\ \A i \in Jobs \ {j} : job'[i] = job[i]
      BY <2>2, <3>1 DEF Started, Waiting, NoJob
    <3>3. Undelivered(d)' = Undelivered(d)
      BY <3>2, OneJob
    <3>4. overlaps'[d] = overlaps[d]
      BY <1>10, <2>2, SMT DEF StartJob, SInv, Types
    <3> QED
      BY <1>4, <1>5, <1>10, <3>3, <3>4
  <2> QED
    BY <2>1, <2>2
<1>11. ASSUME Steps, NEW e \in Dialogues, Begins(e) PROVE Balanced(d)'
  <2>1. IsTab(ui', e)
    BY <1>11, BeginTab
  <2> QED
    BY <1>10, <1>11, <2>1 DEF Begins
<1>12. ASSUME Steps, NEW e \in Dialogues, Schedules(e) PROVE Balanced(d)'
  BY <1>10, <1>12 DEF Schedules
<1>13. ASSUME Steps, NEW j \in Jobs, Deliver(j) PROVE Balanced(d)'
  <2>1. CASE job[j].tab = d
    BY <1>1, <1>13, <2>1, DeliveryBalances
  <2>2. CASE job[j].tab # d
    <3>1. (\A i \in Jobs \ {j} : job'[i] = job[i]) /\ job'[j].tab = job[j].tab
      BY <1>13, ToIs DEF SInv, Types, Deliver
    <3>2. Undelivered(d)' = Undelivered(d)
      BY <2>2, <3>1, OneJob DEF Waiting
    <3>3. sends'[d] = sends[d] /\ overlaps'[d] = overlaps[d]
      BY <1>13, <2>2, SMT DEF Deliver, SInv, Types
    <3> QED
      BY <1>4, <1>5, <1>13, <3>2, <3>3
  <2> QED
    BY <2>1, <2>2
<1>14. ASSUME Steps, NEW j \in Jobs, DeliverFails(j) \/ Store(j) \/ File(j) PROVE Balanced(d)'
  <2>1. sends' = sends /\ overlaps' = overlaps
    BY <1>14, Zenon DEF DeliverFails, Store, File
  <2>2. Undelivered(d)' = Undelivered(d)
    <3>1. CASE DeliverFails(j)
      <4>1. /\ \A i \in Jobs \ {j} : job'[i] = job[i]
            /\ job'[j].tab = job[j].tab /\ job'[j].step = "report" /\ ~job'[j].ok /\ job[j].step = "start"
        BY <3>1, ToIs DEF SInv, Types, DeliverFails
      <4> QED
        BY <4>1, OneJob DEF Waiting
    <3>2. CASE Store(j)
      <4>1. PICK ok \in BOOLEAN : To(j, "report", ok)
        BY <3>2, Zenon DEF Store
      <4>2. /\ \A i \in Jobs \ {j} : job'[i] = job[i]
            /\ job'[j].tab = job[j].tab /\ job'[j].step = "report" /\ job'[j].kind = job[j].kind
        BY <4>1, ToIs DEF SInv, Types
      <4>3. job[j].step = "start" /\ job[j].kind = "schedule"
        BY <3>2 DEF Store
      <4> QED
        BY <4>2, <4>3, OneJob DEF Waiting
    <3>3. CASE File(j)
      <4>1. /\ \A i \in Jobs \ {j} : job'[i] = job[i]
            /\ job'[j].tab = job[j].tab /\ job'[j].step = "report" /\ job'[j].kind = job[j].kind /\ job'[j].ok = TRUE
        BY <3>3, ToIs DEF SInv, Types, File
      <4>2. job[j].step = "sent" /\ job[j].kind = "send"
        BY <3>3 DEF File, SInv, Origin
      <4>3. ~Waiting(j, d) /\ ~Waiting(j, d)'
        BY <4>1, <4>2 DEF Waiting
      <4> QED
        BY <4>1, <4>3, OneJob
    <3> QED
      BY <1>14, <3>1, <3>2, <3>3
  <2> QED
    BY <1>4, <1>5, <1>14, <2>1, <2>2
<1>15. ASSUME Steps, NEW j \in Jobs, Report(j) PROVE Balanced(d)'
  <2>1. CASE Lapses(j, d)
    BY <1>5, <1>15, <2>1
  <2>2. CASE ~Lapses(j, d)
    <3>1. sends' = sends /\ overlaps' = overlaps /\ job[j].step = "report"
      BY <1>15, Zenon DEF Report
    <3>2. (\A i \in Jobs \ {j} : job'[i] = job[i]) /\ job'[j].step = "done"
      BY <1>15, ReportIs DEF SInv, Types
    <3>3. ~Waiting(j, d) /\ ~Waiting(j, d)'
      BY <1>15, <2>2, <3>1, <3>2 DEF Waiting, Lapses
    <3>4. Undelivered(d)' = Undelivered(d)
      BY <3>2, <3>3, OneJob
    <3> QED
      BY <1>4, <1>5, <1>15, <3>1, <3>4
  <2> QED
    BY <2>1, <2>2
<1>16. ASSUME Next PROVE Balanced(d)'
  <2>1. Steps
    BY <1>3, <1>16
  <2> QED
    BY <1>7, <1>8, <1>9, <1>11, <1>12, <1>13, <1>14, <1>15, <2>1, Zenon DEF Steps, Work
<1> QED
  BY <1>2, <1>16

(* After the delivery of a job, no second delivery: whatever results are     *)
(* late or dropped, a mail goes out twice only if its user started a job    *)
(* while the loop had not taken the result of another.                     *)
THEOREM SpecTwiceOnlyOverlapping == Spec => []TwiceOnlyOverlapping
<1>1. Init => Balance
  <2> SUFFICES ASSUME Init, NEW d \in Dialogues PROVE Balanced(d)
    BY DEF Balance
  <2>1. Undelivered(d) = {}
    <3>1. \A j \in Jobs : job[j].step = "none"
      BY DEF Init, NoJob
    <3> QED
      BY <3>1 DEF Undelivered
  <2>2. Cardinality(Undelivered(d)) = 0 /\ sends[d] = 0 /\ overlaps[d] = 0
    BY <2>1, FS_EmptySet DEF Init
  <2> QED
    BY <2>2, SMT DEF Balanced
<1>2. SInv /\ Balance => TwiceOnlyOverlapping
  <2> SUFFICES ASSUME SInv, Balance, NEW d \in Dialogues PROVE sends[d] <= 1 + overlaps[d]
    BY DEF TwiceOnlyOverlapping
  <2>1. Cardinality(Undelivered(d)) \in Nat /\ sends[d] \in Nat /\ overlaps[d] \in Nat
    BY Countable DEF SInv, Types
  <2> DEFINE a == Cardinality(Undelivered(d))
             x == IF Seen(d) THEN 1 ELSE 0
  <2>2. a + sends[d] <= overlaps[d] + x /\ x \in {0, 1} /\ a \in Nat
    BY <2>1 DEF Balance, Balanced
  <2> HIDE DEF a, x
  <2> QED
    BY <2>1, <2>2, SMT
<1> QED
  BY <1>1, <1>2, BalanceStep, Structure, PTL DEF Spec

-----------------------------------------------------------------------------
(* Where a mail is.                                                        *)

LEMMA ToldWas ==
  ASSUME SInv, Steps, NEW d \in Dialogues, NEW k \in {"send", "schedule"}, Told(d, k)'
  PROVE  \/ Told(d, k)
         \/ \E j \in Jobs : Report(j) /\ job[j].tab = d /\ job[j].kind = k /\ job[j].ok
<1> DEFINE Goal == \/ Told(d, k)
                   \/ \E j \in Jobs : Report(j) /\ job[j].tab = d /\ job[j].kind = k /\ job[j].ok
<1> USE DEF bus
<1>1. PICK i \in 1..Len(chan') : chan'[i].tab = d /\ chan'[i].kind = k /\ chan'[i].ok
  BY DEF Told
<1>2. ASSUME chan' = chan PROVE Goal
  BY <1>1, <1>2 DEF Told
<1>3. ASSUME Reads PROVE Goal
  <2>1. chan # <<>> /\ chan' = Tail(chan)
    BY <1>3, Zenon DEF Reads, ReadEvent
  <2>2. i + 1 \in 1..Len(chan) /\ Tail(chan)[i] = chan[i + 1]
    BY <1>1, <2>1, TailIs DEF SInv, Types
  <2> QED
    BY <1>1, <2>1, <2>2 DEF Told
<1>4. ASSUME NEW e \in Events, chan' = Sent(e) PROVE Told(d, k) \/ chan'[i] = e
  <2>1. Sent(e)[i] = e \/ (i \in 1..Len(chan) /\ Sent(e)[i] = chan[i])
    BY <1>1, <1>4, SentIs DEF SInv, Types
  <2> QED
    BY <1>1, <1>4, <2>1 DEF Told
<1>5. ASSUME NEW e \in Dialogues, NEW x \in {"open", "keys"}, chan' = Sent(Event(x, e, TRUE)) PROVE Goal
  <2>1. Event(x, e, TRUE) \in Events /\ Event(x, e, TRUE).kind = x
    <3>1. Event("open", e, TRUE) \in Events /\ Event("open", e, TRUE).kind = "open"
      BY EventIs
    <3>2. Event("keys", e, TRUE) \in Events /\ Event("keys", e, TRUE).kind = "keys"
      BY EventIs
    <3> QED
      BY <3>1, <3>2
  <2>2. chan'[i].kind # x
    BY <1>1
  <2> QED
    BY <1>4, <1>5, <2>1, <2>2
<1>6. ASSUME NEW j \in Jobs, Report(j) PROVE Goal
  <2>1. job[j].step = "report" /\ chan' = Sent(Event(job[j].kind, job[j].tab, job[j].ok))
    BY <1>6, Zenon DEF Report
  <2>2. /\ Event(job[j].kind, job[j].tab, job[j].ok) \in Events
        /\ Event(job[j].kind, job[j].tab, job[j].ok).kind = job[j].kind
        /\ Event(job[j].kind, job[j].tab, job[j].ok).tab = job[j].tab
        /\ Event(job[j].kind, job[j].tab, job[j].ok).ok = job[j].ok
    BY <2>1, KindOf, EventIs
  <2> QED
    BY <1>1, <1>4, <1>6, <2>1, <2>2
<1>7. ASSUME Looks \/ Listing PROVE Goal
  BY <1>2, <1>7, Zenon DEF Looks, Listing
<1>8. ASSUME NEW e \in Dialogues, Begins(e) \/ Schedules(e) \/ Closes(e) \/ Saves(e) \/ Begun(e) PROVE Goal
  BY <1>2, <1>8, Zenon DEF Begins, Schedules, Closes, Saves, Begun, New
<1>9. ASSUME NEW e \in Dialogues, Opened(e) \/ KeysLoaded(e) PROVE Goal
  BY <1>5, <1>9, Zenon DEF Opened, KeysLoaded, PublishOpen
<1>10. ASSUME NEW e \in Dialogues, NEW f \in Dialogues, Recalled(e, f) PROVE Goal
  BY <1>5, <1>10, Zenon DEF Recalled, EditScheduled, PublishOpen
<1>11. ASSUME NEW j \in Jobs, DeliverFails(j) \/ Deliver(j) \/ File(j) \/ Store(j) PROVE Goal
  BY <1>2, <1>11, Zenon DEF DeliverFails, Deliver, File, Store
<1> HIDE DEF Goal
<1>12. Goal
  BY <1>3, <1>6, <1>7, <1>8, <1>9, <1>10, <1>11, Zenon DEF Steps, Work
<1> QED
  BY <1>12 DEF Goal

(* Who advances a job.                                                     *)
Advanced(j) == DeliverFails(j) \/ Deliver(j) \/ File(j) \/ Store(j)

LEMMA JobWas ==
  ASSUME SInv, Steps, NEW j \in Jobs
  PROVE  job'[j] = job[j] \/ job'[j].step \in {"start", "done"} \/ Advanced(j)
<1> DEFINE Goal == job'[j] = job[j] \/ job'[j].step \in {"start", "done"} \/ Advanced(j)
<1> USE DEF app
<1>1. ASSUME job' = job PROVE Goal
  BY <1>1
<1>2. ASSUME NEW e \in Dialogues, NEW k \in {"send", "schedule"}, StartJob(k, e) PROVE Goal
  <2>1. PICK i \in Jobs : Started(i, k, e)
    BY <1>2, StartIs DEF SInv, Types
  <2> QED
    BY <2>1 DEF Started
<1>3. ASSUME NEW i \in Jobs, NEW s \in {"sent", "report"}, NEW ok \in BOOLEAN, To(i, s, ok), Advanced(i) PROVE Goal
  <2>1. \A h \in Jobs \ {i} : job'[h] = job[h]
    BY <1>3, ToIs DEF SInv, Types
  <2> QED
    BY <1>3, <2>1
<1>4. ASSUME NEW i \in Jobs, Advanced(i) PROVE Goal
  <2>1. \E s \in {"sent", "report"} : \E ok \in BOOLEAN : To(i, s, ok)
    BY <1>4, Zenon DEF Advanced, DeliverFails, Deliver, File, Store
  <2> QED
    BY <1>3, <1>4, <2>1
<1>5. ASSUME NEW i \in Jobs, Report(i) PROVE Goal
  <2>1. (\A h \in Jobs \ {i} : job'[h] = job[h]) /\ job'[i].step = "done"
    BY <1>5, ReportIs DEF SInv, Types
  <2> QED
    BY <2>1
<1>6. ASSUME Looks \/ Listing \/ Reads PROVE Goal
  BY <1>1, <1>6, Zenon DEF Looks, Listing, Reads, ReadEvent
<1>7. ASSUME NEW d \in Dialogues, Closes(d) \/ Saves(d) \/ Begun(d) \/ Opened(d) \/ KeysLoaded(d) PROVE Goal
  BY <1>1, <1>7, Zenon DEF Closes, Saves, Begun, New, Opened, KeysLoaded
<1>8. ASSUME NEW d \in Dialogues, NEW e \in Dialogues, Recalled(d, e) PROVE Goal
  BY <1>1, <1>8, Zenon DEF Recalled, EditScheduled
<1>9. ASSUME NEW d \in Dialogues, Begins(d) \/ Schedules(d) PROVE Goal
  BY <1>2, <1>9, Zenon DEF Begins, Schedules
<1> HIDE DEF Goal
<1>10. Goal
  BY <1>4, <1>5, <1>6, <1>7, <1>8, <1>9, Zenon DEF Steps, Work, Advanced
<1> QED
  BY <1>10 DEF Goal

LEMMA DeliversWas ==
  ASSUME SInv, Steps, NEW d \in Dialogues, NEW j \in Jobs, Delivers(j, d)'
  PROVE  Delivers(j, d) \/ (Deliver(j) /\ job[j].tab = d)
<1>1. CASE job'[j] = job[j]
  BY <1>1 DEF Delivers
<1>2. CASE DeliverFails(j)
  <2>1. job'[j].step = "report" /\ job'[j].ok = FALSE
    BY <1>2, ToIs DEF SInv, Types, DeliverFails
  <2> QED
    BY <2>1 DEF Delivers
<1>3. CASE Deliver(j)
  <2>1. job'[j].tab = job[j].tab
    BY <1>3, ToIs DEF SInv, Types, Deliver
  <2> QED
    BY <1>3, <2>1 DEF Delivers
<1>4. CASE File(j)
  <2>1. job'[j].tab = job[j].tab /\ job'[j].kind = job[j].kind /\ job[j].step = "sent"
    BY <1>4, ToIs DEF SInv, Types, File
  <2> QED
    BY <2>1 DEF Delivers
<1>5. CASE Store(j)
  <2>1. PICK ok \in BOOLEAN : To(j, "report", ok)
    BY <1>5, Zenon DEF Store
  <2>2. job'[j].kind = job[j].kind /\ job[j].kind = "schedule"
    BY <1>5, <2>1, ToIs DEF SInv, Types, Store
  <2> QED
    BY <2>2 DEF Delivers
<1> QED
  BY <1>1, <1>2, <1>3, <1>4, <1>5, JobWas DEF Advanced, Delivers

LEMMA StoresWas ==
  ASSUME SInv, Steps, NEW d \in Dialogues, NEW j \in Jobs, Stores(j, d)'
  PROVE  Stores(j, d) \/ d \in spool'
<1>1. CASE job'[j] = job[j]
  BY <1>1 DEF Stores
<1>2. CASE DeliverFails(j) \/ Deliver(j) \/ File(j)
  <2>1. job[j].kind = "send"
    BY <1>2 DEF DeliverFails, Deliver, File, SInv, Origin
  <2>2. \E s \in {"sent", "report"} : \E ok \in BOOLEAN : To(j, s, ok)
    BY <1>2, Zenon DEF DeliverFails, Deliver, File
  <2>3. job'[j].kind = job[j].kind
    BY <2>2, ToIs DEF SInv, Types
  <2> QED
    BY <2>1, <2>3 DEF Stores
<1>3. CASE Store(j)
  <2>1. CASE To(j, "report", FALSE)
    <3>1. job'[j].ok = FALSE
      BY <2>1, ToIs DEF SInv, Types
    <3> QED
      BY <3>1 DEF Stores
  <2>2. CASE To(j, "report", TRUE) /\ spool' = spool \cup {job[j].tab}
    <3>1. job'[j].tab = job[j].tab
      BY <2>2, ToIs DEF SInv, Types
    <3> QED
      BY <2>2, <3>1 DEF Stores
  <2> QED
    BY <1>3, <2>1, <2>2, Zenon DEF Store
<1> QED
  BY <1>1, <1>2, <1>3, JobWas DEF Advanced, Stores

LEMMA StoringWas ==
  ASSUME SInv, Steps, NEW d \in Dialogues, Storing(d)'
  PROVE  Storing(d) \/ d \in spool'
<1>1. CASE Told(d, "schedule")'
  <2>1. ASSUME NEW j \in Jobs, Report(j), job[j].tab = d, job[j].kind = "schedule", job[j].ok PROVE Stores(j, d)
    BY <2>1 DEF Report, Stores
  <2> QED
    BY <1>1, <2>1, ToldWas DEF Storing
<1>2. ASSUME NEW j \in Jobs, Stores(j, d)' PROVE Storing(d) \/ d \in spool'
  BY <1>2, StoresWas DEF Storing
<1> QED
  BY <1>1, <1>2 DEF Storing

LEMMA SendsGrow ==
  ASSUME SInv, Steps, NEW d \in Dialogues
  PROVE  /\ sends[d] > 0 => sends'[d] > 0
         /\ (\E j \in Jobs : Deliver(j) /\ job[j].tab = d) => sends'[d] > 0
<1> DEFINE Goal == sends' = sends \/ \E j \in Jobs : Deliver(j)
<1> USE DEF history
<1>1. ASSUME NEW j \in Jobs, Deliver(j)
      PROVE  /\ sends[d] > 0 => sends'[d] > 0
             /\ job[j].tab = d => sends'[d] > 0
  <2>1. sends' = [sends EXCEPT ![job[j].tab] = @ + 1] /\ sends \in [Dialogues -> Nat]
    BY <1>1 DEF Deliver, SInv, Types
  <2> QED
    BY <2>1, SMT
<1>2. ASSUME Looks \/ Listing \/ Reads PROVE Goal
  BY <1>2, Zenon DEF Looks, Listing, Reads, ReadEvent
<1>3. ASSUME NEW e \in Dialogues,
             Begins(e) \/ Schedules(e) \/ Closes(e) \/ Saves(e) \/ Begun(e) \/ Opened(e) \/ KeysLoaded(e)
      PROVE  Goal
  BY <1>3, Zenon DEF Begins, Schedules, Closes, Saves, Begun, New, Opened, KeysLoaded
<1>4. ASSUME NEW e \in Dialogues, NEW f \in Dialogues, Recalled(e, f) PROVE Goal
  BY <1>4, Zenon DEF Recalled, EditScheduled
<1>5. ASSUME NEW j \in Jobs, Work(j) PROVE Goal
  BY <1>5, Zenon DEF Work, DeliverFails, File, Store, Report
<1> HIDE DEF Goal
<1>6. Goal
  BY <1>2, <1>3, <1>4, <1>5, Zenon DEF Steps
<1> QED
  BY <1>1, <1>6 DEF Goal

LEMMA HonestStep == ASSUME SInv, Honest, Steps PROVE Honest'
<1> SUFFICES ASSUME NEW d \in Dialogues, Claimed(d)' PROVE sends'[d] > 0
  BY DEF Honest
<1>1. ASSUME NEW j \in Jobs, Report(j), job[j].tab = d, job[j].kind = "send", job[j].ok PROVE Claimed(d)
  BY <1>1 DEF Report, Delivers, Claimed
<1>2. CASE sendLast'[d] = "ok"
  <2>1. ASSUME NEW j \in Jobs, Report(j), job[j].kind = "send", job[j].tab = d PROVE job[j].ok
    BY <1>2, <2>1, SMT DEF Report, SInv, Types
  <2>2. ~Begins(d)
    BY <1>2, SMT DEF Begins, SInv, Types
  <2>3. Claimed(d)
    BY <1>1, <1>2, <2>1, <2>2, LastSteps DEF Claimed
  <2> QED
    BY <2>3, SendsGrow DEF Honest
<1>3. CASE Told(d, "send")'
  <2>1. Claimed(d)
    BY <1>1, <1>3, ToldWas DEF Claimed
  <2> QED
    BY <2>1, SendsGrow DEF Honest
<1>4. ASSUME NEW j \in Jobs, Delivers(j, d)' PROVE sends'[d] > 0
  BY <1>4, DeliversWas, SendsGrow DEF Honest, Claimed
<1> QED
  BY <1>2, <1>3, <1>4 DEF Claimed

(* A tab that was, or that was due, is there but for what closes it.        *)
LEMMA TabStep ==
  ASSUME SInv, Honest, Steps, NEW e \in Dialogues, IsTab(ui, e) \/ (e \in ui'.opened /\ e \notin ui.opened)
  PROVE  IsTab(ui', e) \/ sends[e] > 0 \/ Told(e, "schedule") \/ Closes(e) \/ Saves(e)
<1> DEFINE Goal == IsTab(ui', e) \/ sends[e] > 0 \/ Told(e, "schedule") \/ Closes(e) \/ Saves(e)
<1>1. e \in Taken => sends[e] > 0
  BY DEF Taken, Honest, Claimed
<1>2. ASSUME NEW v, NEW D, Moves(ui, v, D), v.opened = ui'.opened PROVE IsTab(v, e) \/ e \in D
  BY <1>2 DEF Moves
<1>3. ASSUME NEW D, Moves(ui, ui', Taken \cup D), e \in D => Goal PROVE Goal
  BY <1>1, <1>2, <1>3
<1>4. ASSUME Moves(ui, ui', Taken) PROVE Goal
  BY <1>1, <1>2, <1>4
<1>5. ASSUME UNCHANGED ui PROVE Goal
  BY <1>5
<1>6. ASSUME Looks \/ Listing PROVE Goal
  BY <1>4, <1>6, Zenon DEF Looks, Listing
<1>7. ASSUME Reads PROVE Goal
  <2> DEFINE x == chan[1]
             D == IF x.kind \in {"send", "schedule"} /\ x.ok THEN {x.tab} ELSE {}
  <2>1. x \in Events /\ 1 \in 1..Len(chan) /\ Moves(ui, ui', Taken \cup D)
    BY <1>7, ReadIs DEF Reads
  <2>2. ASSUME e \in D PROVE Goal
    <3>1. x.kind \in {"send", "schedule"} /\ x.ok /\ x.tab = e
      BY <2>2
    <3>2. CASE x.kind = "send"
      <4>1. Claimed(e)
        BY <2>1, <3>1, <3>2 DEF Claimed, Told
      <4> QED
        BY <4>1 DEF Honest
    <3>3. CASE x.kind = "schedule"
      BY <2>1, <3>1, <3>3 DEF Told
    <3> QED
      BY <3>1, <3>2, <3>3
  <2> HIDE DEF D, Goal
  <2> QED
    BY <1>3, <2>1, <2>2
<1>8. ASSUME NEW d \in Dialogues, Schedules(d) PROVE Goal
  BY <1>4, <1>8 DEF Schedules
<1>9. ASSUME NEW d \in Dialogues, Closes(d) PROVE Goal
  <2>1. Moves(ui, ui', Taken \cup {d})
    BY <1>9 DEF Closes
  <2> QED
    BY <1>1, <1>2, <1>9, <2>1
<1>10. ASSUME NEW d \in Dialogues, Saves(d) PROVE Goal
  <2>1. Moves(ui, ui', Taken \cup {d})
    BY <1>10 DEF Saves
  <2> QED
    BY <1>1, <1>2, <1>10, <2>1
<1>11. ASSUME NEW d \in Dialogues, Begun(d) PROVE Goal
  BY <1>4, <1>11, Zenon DEF Begun, New
<1>12. ASSUME NEW d \in Dialogues, NEW f \in Dialogues, Recalled(d, f) PROVE Goal
  BY <1>4, <1>12, Zenon DEF Recalled, EditScheduled
<1>13. ASSUME NEW d \in Dialogues, Begins(d) PROVE Goal
  <2>1. PICK w : Moves(ui, w, Taken) /\ IsTab(w, d) /\ ui' = PhaseOf(w, d, "sending")
    BY <1>13 DEF Begins
  <2>2. ui'.tabs = w.tabs /\ ui'.opened = w.opened
    BY <2>1, BeginIs
  <2>3. IsTab(w, e) => IsTab(ui', e)
    BY <2>2 DEF IsTab
  <2> QED
    BY <1>1, <1>2, <2>1, <2>2, <2>3
<1>14. ASSUME NEW d \in Dialogues, Opened(d) \/ KeysLoaded(d) PROVE Goal
  <2>1. UNCHANGED ui
    BY <1>14, Zenon DEF Opened, KeysLoaded
  <2>2. e \in ui.opened \/ e \notin ui'.opened
    BY <2>1
  <2> QED
    BY <2>1, <2>2
<1>15. ASSUME NEW j \in Jobs, Work(j) PROVE Goal
  <2>1. UNCHANGED ui
    BY <1>15, Zenon DEF Work, DeliverFails, Deliver, File, Store, Report
  <2> QED
    BY <2>1
<1> HIDE DEF Goal
<1>16. Goal
  BY <1>6, <1>7, <1>8, <1>9, <1>10, <1>11, <1>12, <1>13, <1>14, <1>15, Zenon DEF Steps
<1> QED
  BY <1>16 DEF Goal

LEMMA FreshUnused ==
  ASSUME SInv, NEW d, Fresh(d)
  PROVE  d \notin used
<1>1. PICK n \in 0..MaxOpen : used = 1..n
  BY DEF SInv, Origin
<1>2. n \in Nat
  BY ComposeAssumption, SMT
<1>3. Cardinality(1..n) = n
  BY <1>2, FS_Interval, SMT
<1>4. d = n + 1
  BY <1>1, <1>3 DEF Fresh
<1> QED
  BY <1>1, <1>2, <1>4, SMT

LEMMA IdsKept ==
  ASSUME SInv, Steps
  PROVE  /\ used \subseteq used' /\ \A e \in used : mail'[e] = mail[e]
         /\ \A e \in used' \ used : Begun(e) \/ \E f \in Dialogues : Recalled(e, f)
         /\ gone \subseteq gone'
<1> DEFINE Goal == /\ used \subseteq used' /\ \A e \in used : mail'[e] = mail[e]
                   /\ \A e \in used' \ used : Begun(e) \/ \E f \in Dialogues : Recalled(e, f)
                   /\ gone \subseteq gone'
<1> USE DEF app, ids, history
<1>1. ASSUME UNCHANGED <<used, mail>>, gone \subseteq gone' PROVE Goal
  BY <1>1
<1>2. ASSUME NEW d \in Dialogues, Fresh(d), used' = used \cup {d}, NEW m, mail' = [mail EXCEPT ![d] = m],
             gone' = gone, Begun(d) \/ \E f \in Dialogues : Recalled(d, f)
      PROVE  Goal
  <2>1. d \notin used
    BY <1>2, FreshUnused
  <2>2. mail \in [Dialogues -> Dialogues] /\ used \subseteq Dialogues
    BY DEF SInv, Types
  <2>3. \A e \in used : mail'[e] = mail[e]
    BY <1>2, <2>1, <2>2, SMT
  <2> QED
    BY <1>2, <2>3
<1>3. ASSUME Looks \/ Listing \/ Reads PROVE Goal
  BY <1>1, <1>3, Zenon DEF Looks, Listing, Reads, ReadEvent
<1>4. ASSUME NEW d \in Dialogues, Begins(d) \/ Schedules(d) \/ Closes(d) \/ Saves(d) \/ Opened(d) \/ KeysLoaded(d)
      PROVE  Goal
  <2>1. UNCHANGED <<used, mail>>
    BY <1>4, Zenon DEF Begins, Schedules, Closes, Saves, Opened, KeysLoaded
  <2>2. gone \subseteq gone'
    BY <1>4 DEF Begins, Schedules, Closes, Saves, Opened, KeysLoaded
  <2> QED
    BY <1>1, <2>1, <2>2
<1>5. ASSUME NEW d \in Dialogues, Begun(d) PROVE Goal
  BY <1>2, <1>5, Zenon DEF Begun, New
<1>6. ASSUME NEW d \in Dialogues, NEW f \in Dialogues, Recalled(d, f) PROVE Goal
  <2>1. /\ Fresh(d) /\ used' = used \cup {d} /\ mail' = [mail EXCEPT ![d] = mail[f]] /\ gone' = gone
    BY <1>6, Zenon DEF Recalled, EditScheduled
  <2> HIDE DEF Goal
  <2> QED
    BY <1>2, <1>6, <2>1
<1>7. ASSUME NEW j \in Jobs, Work(j) PROVE Goal
  <2>1. UNCHANGED <<used, mail>>
    BY <1>7, Zenon DEF Work, DeliverFails, Deliver, File, Store, Report
  <2>2. gone \subseteq gone'
    BY <1>7 DEF Work, DeliverFails, Deliver, File, Store, Report
  <2> QED
    BY <1>1, <2>1, <2>2
<1> HIDE DEF Goal
<1>8. Goal
  BY <1>3, <1>4, <1>5, <1>6, <1>7, Zenon DEF Steps
<1> QED
  BY <1>8 DEF Goal

(* The spool loses a dialogue only to the one that goes on with its mail.   *)
LEMMA SpoolStep ==
  ASSUME SInv, Steps, NEW e \in spool
  PROVE  e \in spool' \/ \E d \in Dialogues : Recalled(d, e)
<1> DEFINE Goal == e \in spool' \/ \E d \in Dialogues : Recalled(d, e)
<1> USE DEF app
<1>1. ASSUME UNCHANGED spool PROVE Goal
  BY <1>1
<1>2. ASSUME Looks \/ Listing \/ Reads PROVE Goal
  BY <1>1, <1>2, Zenon DEF Looks, Listing, Reads, ReadEvent
<1>3. ASSUME NEW d \in Dialogues,
             Begins(d) \/ Schedules(d) \/ Closes(d) \/ Saves(d) \/ Begun(d) \/ Opened(d) \/ KeysLoaded(d)
      PROVE  Goal
  BY <1>1, <1>3, Zenon DEF Begins, Schedules, Closes, Saves, Begun, New, Opened, KeysLoaded
<1>4. ASSUME NEW d \in Dialogues, NEW f \in Dialogues, Recalled(d, f) PROVE Goal
  <2>1. spool' = spool \ {f}
    BY <1>4, Zenon DEF Recalled, EditScheduled
  <2> QED
    BY <1>4, <2>1
<1>5. ASSUME NEW j \in Jobs, Store(j) PROVE Goal
  BY <1>5, Zenon DEF Store
<1>6. ASSUME NEW j \in Jobs, DeliverFails(j) \/ Deliver(j) \/ File(j) \/ Report(j) PROVE Goal
  BY <1>1, <1>6, Zenon DEF DeliverFails, Deliver, File, Report
<1> HIDE DEF Goal
<1>7. Goal
  BY <1>2, <1>3, <1>4, <1>5, <1>6, Zenon DEF Steps, Work
<1> QED
  BY <1>7 DEF Goal

LEMMA HoldsStep ==
  ASSUME SInv, Honest, Steps, NEW e \in used, Holds(e)
  PROVE  Holds(e)' \/ Closes(e) \/ Saves(e) \/ \E d \in Dialogues : Recalled(d, e)
<1>1. e \in Dialogues /\ ui.opened \subseteq ui'.opened
  BY StripStep DEF SInv, Types
<1>2. CASE sends[e] > 0
  BY <1>1, <1>2, SendsGrow DEF Holds
<1>3. CASE e \in spool
  BY <1>3, SpoolStep DEF Holds
<1>4. CASE e \notin ui'.opened
  BY <1>4 DEF Holds
<1>5. ASSUME ~Storing(e), IsTab(ui, e) \/ (e \in ui'.opened /\ e \notin ui.opened)
      PROVE  Holds(e)' \/ Closes(e) \/ Saves(e)
  <2>1. IsTab(ui', e) \/ sends[e] > 0 \/ Closes(e) \/ Saves(e)
    BY <1>1, <1>5, TabStep DEF Storing
  <2>2. ~Storing(e)' \/ e \in spool'
    BY <1>1, <1>5, StoringWas
  <2> QED
    BY <1>1, <2>1, <2>2, SendsGrow DEF Holds
<1>6. ASSUME e \notin ui.opened PROVE ~Storing(e)
  <2>1. ~Told(e, "schedule")
    BY <1>6 DEF Told, SInv, Origin
  <2>2. \A j \in Jobs : ~Stores(j, e)
    BY <1>6, KindOf DEF Stores
  <2> QED
    BY <2>1, <2>2 DEF Storing
<1> QED
  BY <1>2, <1>3, <1>4, <1>5, <1>6 DEF Holds

Put(m) == m \in gone' \/ \E s \in 1..MaxSecond : drafts'[s] = m

LEMMA SavedSomewhere ==
  ASSUME SInv, NEW d \in Dialogues, Saves(d)
  PROVE  /\ Put(mail[d])
         /\ \A t \in 1..MaxSecond : drafts[t] # NoOne => Put(drafts[t])
<1> DEFINE m == mail[d]
           r == resume[d]
<1>1. /\ drafts \in [1..MaxSecond -> Dialogues \cup {NoOne}] /\ m \in Dialogues /\ r \in 0..MaxSecond
      /\ NoOne \notin Dialogues
  BY SMT DEF SInv, Types, NoOne, Dialogues
<1>2. PICK s \in 1..MaxSecond :
        \/ drafts' = Written(s, m) /\ gone' = gone \cup Overwritten(s, d)
        \/ /\ drafts' = Retired(Written(s, m), r)
           /\ gone' = gone \cup Overwritten(s, d) \cup InItsPlace(d)
                        \cup (IF r = s THEN {m} ELSE {})
  BY DEF Saves
<1> DEFINE w == Written(s, m)
<1>3. w \in [1..MaxSecond -> Dialogues \cup {NoOne}] /\ w[s] = m /\ \A t \in 1..MaxSecond \ {s} : w[t] = drafts[t]
  BY <1>1, SMT DEF Written
<1>4. drafts[s] \in {NoOne, m} \/ drafts[s] \in gone'
  BY <1>2 DEF Overwritten
<1>5. CASE drafts' = w
  <2>1. Put(m)
    BY <1>3, <1>5, Zenon DEF Put
  <2>2. ASSUME NEW t \in 1..MaxSecond, drafts[t] # NoOne PROVE Put(drafts[t])
    <3>1. CASE t = s
      BY <1>4, <2>1, <2>2, <3>1 DEF Put
    <3>2. CASE t # s
      BY <1>3, <1>5, <3>2 DEF Put
    <3> QED
      BY <3>1, <3>2
  <2> QED
    BY <2>1, <2>2
<1>6. ASSUME drafts' = Retired(w, r), InItsPlace(d) \subseteq gone', r = s => m \in gone'
      PROVE  Put(m) /\ \A t \in 1..MaxSecond : drafts[t] # NoOne => Put(drafts[t])
  <2>1. \A t \in 1..MaxSecond : t # r => drafts'[t] = w[t]
    <3> HIDE DEF w, r
    <3> QED
      BY <1>1, <1>3, <1>6, SMT DEF Retired
  <2>2. Put(m)
    <3>1. CASE r = s
      BY <1>6, <3>1 DEF Put
    <3>2. CASE r # s
      BY <1>3, <2>1, <3>2 DEF Put
    <3> QED
      BY <3>1, <3>2
  <2>3. ASSUME NEW t \in 1..MaxSecond, drafts[t] # NoOne PROVE Put(drafts[t])
    <3>1. CASE t = s
      BY <1>4, <2>2, <2>3, <3>1 DEF Put
    <3>2. CASE t # s /\ t = r
      <4>1. r # 0
        BY <3>2, SMT
      <4>2. drafts[t] \in {NoOne, m} \/ drafts[t] \in gone'
        BY <1>6, <3>2, <4>1 DEF InItsPlace
      <4> QED
        BY <2>2, <2>3, <4>2 DEF Put
    <3>3. CASE t # s /\ t # r
      BY <1>3, <2>1, <3>3 DEF Put
    <3> QED
      BY <3>1, <3>2, <3>3
  <2> QED
    BY <2>2, <2>3
<1>7. drafts' = w \/ (drafts' = Retired(w, r) /\ InItsPlace(d) \subseteq gone' /\ (r = s => m \in gone'))
  BY <1>2
<1> QED
  BY <1>5, <1>6, <1>7

(* A draft goes only for another, with its dialogue, or when it was sent.   *)
LEMMA DraftStep ==
  ASSUME SInv, Honest, Steps, NEW s \in 1..MaxSecond, drafts[s] # NoOne
  PROVE  Put(drafts[s]) \/ \E e \in used : mail[e] = drafts[s] /\ sends[e] > 0
<1> DEFINE Goal == Put(drafts[s]) \/ \E e \in used : mail[e] = drafts[s] /\ sends[e] > 0
<1> USE DEF app
<1>1. ASSUME UNCHANGED drafts PROVE Goal
  BY <1>1 DEF Put
<1>2. ASSUME Looks \/ Listing \/ Reads PROVE Goal
  BY <1>1, <1>2, Zenon DEF Looks, Listing, Reads, ReadEvent
<1>3. ASSUME NEW d \in Dialogues,
             Begins(d) \/ Schedules(d) \/ Closes(d) \/ Begun(d) \/ Opened(d) \/ KeysLoaded(d)
      PROVE  Goal
  BY <1>1, <1>3, Zenon DEF Begins, Schedules, Closes, Begun, New, Opened, KeysLoaded
<1>4. ASSUME NEW d \in Dialogues, NEW e \in Dialogues, Recalled(d, e) PROVE Goal
  BY <1>1, <1>4, Zenon DEF Recalled, EditScheduled
<1>5. ASSUME NEW d \in Dialogues, Saves(d) PROVE Goal
  BY <1>5, SavedSomewhere
<1>6. ASSUME NEW j \in Jobs, File(j) PROVE Goal
  <2> DEFINE e == job[j].tab
  <2>1. job[j].step = "sent" /\ job[j].kind = "send" /\ e \in Dialogues /\ e \in used
    <3>1. job[j].step = "sent"
      BY <1>6 DEF File
    <3>2. job[j].step # "none"
      BY <3>1
    <3> QED
      BY <3>1, <3>2, KindOf DEF SInv, Origin
  <2>2. sends[e] > 0
    <3>1. Claimed(e)
      BY <2>1 DEF Claimed, Delivers
    <3> QED
      BY <2>1, <3>1 DEF Honest
  <2>3. resume[e] \in 0..MaxSecond /\ drafts \in [1..MaxSecond -> Dialogues \cup {NoOne}]
    BY <2>1 DEF SInv, Types
  <2> HIDE DEF e
  <2>4. CASE drafts' = drafts
    BY <1>1, <2>4
  <2>5. CASE drafts' = Retired(drafts, resume[e]) /\ gone' = gone \cup InItsPlace(e)
    <3>1. s # resume[e] => drafts'[s] = drafts[s]
      BY <2>3, <2>5, SMT DEF Retired
    <3>2. CASE s # resume[e]
      BY <3>1, <3>2 DEF Put
    <3>3. CASE s = resume[e]
      <4>1. resume[e] # 0
        BY <3>3, SMT
      <4>2. drafts[s] = mail[e] \/ drafts[s] \in gone'
        BY <2>5, <3>3, <4>1 DEF InItsPlace
      <4> QED
        BY <2>1, <2>2, <4>2 DEF Put
    <3> QED
      BY <3>2, <3>3
  <2> QED
    BY <1>6, <2>4, <2>5 DEF File, e
<1>7. ASSUME NEW j \in Jobs, DeliverFails(j) \/ Deliver(j) \/ Store(j) \/ Report(j) PROVE Goal
  BY <1>1, <1>7, Zenon DEF DeliverFails, Deliver, Store, Report
<1> HIDE DEF Goal
<1>8. Goal
  BY <1>2, <1>3, <1>4, <1>5, <1>6, <1>7, Zenon DEF Steps, Work
<1> QED
  BY <1>8 DEF Goal

LEMMA KeptStep ==
  ASSUME SInv, Honest, Steps, NEW m \in Dialogues, Kept(m)
  PROVE  Kept(m)'
<1>1. /\ used \subseteq used' /\ \A e \in used : e \in Dialogues /\ mail'[e] = mail[e]
      /\ gone \subseteq gone'
  BY IdsKept DEF SInv, Types
<1>2. ASSUME Put(m) PROVE Kept(m)'
  BY <1>2 DEF Put, Kept
<1>3. CASE m \in gone
  BY <1>1, <1>2, <1>3 DEF Put
<1>4. ASSUME NEW e \in used, mail[e] = m, sends[e] > 0 PROVE Kept(m)'
  BY <1>1, <1>4, SendsGrow DEF Kept, Holds
<1>5. ASSUME NEW e \in used, mail[e] = m, Holds(e) PROVE Kept(m)'
  <2>1. CASE Holds(e)'
    BY <1>1, <1>5, <2>1 DEF Kept
  <2>2. CASE Closes(e)
    BY <1>2, <1>5, <2>2 DEF Put, Closes
  <2>3. CASE Saves(e)
    BY <1>1, <1>2, <1>5, <2>3, SavedSomewhere
  <2>4. ASSUME NEW d \in Dialogues, Recalled(d, e) PROVE Kept(m)'
    <3>1. Fresh(d) /\ used' = used \cup {d} /\ mail' = [mail EXCEPT ![d] = mail[e]]
      BY <2>4, Zenon DEF Recalled, EditScheduled
    <3>2. mail'[d] = m /\ d \in used'
      BY <1>5, <3>1 DEF SInv, Types
    <3>3. d \notin ui'.opened
      BY <3>1, StripStep, FreshUnused
    <3> QED
      BY <3>2, <3>3 DEF Kept, Holds
  <2> QED
    BY <1>5, <2>1, <2>2, <2>3, <2>4, HoldsStep
<1>6. ASSUME NEW s \in 1..MaxSecond, drafts[s] = m PROVE Kept(m)'
  <2>1. drafts[s] # NoOne
    BY <1>6, SMT DEF Dialogues, NoOne
  <2> QED
    BY <1>2, <1>4, <1>6, <2>1, DraftStep
<1> QED
  BY <1>3, <1>5, <1>6 DEF Kept

LEMMA KStep == SInv /\ KInv /\ [Next]_vars => KInv'
<1> SUFFICES ASSUME SInv, KInv, [Next]_vars PROVE KInv'
  OBVIOUS
<1>1. CASE Next
  <2>1. Steps
    BY <1>1, NextSteps
  <2>2. Honest'
    BY <2>1, HonestStep DEF KInv
  <2>3. ASSUME NEW d \in used, NEW m, m = mail[d] PROVE Kept(m)' /\ mail'[d] = m
    <3>1. m \in Dialogues /\ Kept(m) /\ mail'[d] = m
      BY <2>1, <2>3, IdsKept DEF KInv, SInv, Types
    <3> QED
      BY <2>1, <3>1, KeptStep DEF KInv
  <2>4. ASSUME NEW d \in used' \ used PROVE \E e \in used' : mail'[e] = mail'[d] /\ Holds(e)'
    <3>1. d \notin ui'.opened
      BY <2>1, <2>4, StripStep
    <3> QED
      BY <2>4, <3>1 DEF Holds
  <2>5. ASSUME NEW d \in used' PROVE Kept(mail[d])'
    <3>1. CASE d \in used
      BY <2>3, <3>1 DEF Kept
    <3>2. CASE d \notin used
      BY <2>4, <2>5, <3>2 DEF Kept
    <3> QED
      BY <3>1, <3>2
  <2> QED
    BY <2>2, <2>5 DEF KInv
<1>2. CASE UNCHANGED vars
  BY <1>2 DEF KInv, Honest, Claimed, Delivers, Told, Kept, Holds, Storing, Stores, IsTab, vars, bus, app, ids, history
<1> QED
  BY <1>1, <1>2

(* A mail that was begun is never lost between a dialogue, the folders and  *)
(* the transport: but for its user, and for drafts that share a second.     *)
THEOREM SpecKeptSomewhere == Spec => []KeptSomewhere
<1>1. Init => KInv
  <2> SUFFICES ASSUME Init PROVE KInv
    OBVIOUS
  <2>1. \A d \in Dialogues : sendLast[d] = "none"
    BY DEF Init
  <2>2. Len(chan) = 0 /\ \A j \in Jobs : job[j].kind = "none"
    BY DEF Init, NoJob
  <2>3. \A d \in Dialogues : ~Told(d, "send")
    BY <2>2, SMT DEF Told
  <2> QED
    BY <2>1, <2>2, <2>3 DEF KInv, Honest, Claimed, Delivers, Init
<1>2. KInv => KeptSomewhere
  BY DEF KInv, Kept, Holds, KeptSomewhere
<1> QED
  BY <1>1, <1>2, KStep, Structure, PTL DEF Spec

-----------------------------------------------------------------------------
(* Sequences, by what they hold.                                           *)

\* what a sequence holds after an append, and after its head is taken
LEMMA Spans == ASSUME NEW S, NEW s \in Seq(S) PROVE s \in Seq(ToSet(s))
<1>1. Len(s) \in Nat /\ DOMAIN s = 1..Len(s) /\ s = [i \in 1..Len(s) |-> s[i]]
  BY LenProperties
<1>2. \A i \in 1..Len(s) : s[i] \in ToSet(s)
  BY <1>1 DEF ToSet
<1>3. s \in [1..Len(s) -> ToSet(s)]
  BY <1>1, <1>2
<1> QED
  BY <1>1, <1>3, SeqDef

LEMMA Appended ==
  ASSUME NEW S, NEW s \in Seq(S), NEW e
  PROVE  Append(s, e) \in Seq(ToSet(Append(s, e))) /\ ToSet(Append(s, e)) = ToSet(s) \cup {e}
<1> DEFINE t == Append(s, e)
<1>0. s \in Seq(S \cup {e}) /\ e \in S \cup {e}
  BY SMT
<1>1. /\ t \in Seq(S \cup {e}) /\ Len(t) = Len(s) + 1 /\ t[Len(s) + 1] = e
      /\ \A i \in 1..Len(s) : t[i] = s[i]
  BY <1>0, AppendProperties
<1>2. Len(s) \in Nat /\ DOMAIN s = 1..Len(s) /\ DOMAIN t = 1..(Len(s) + 1)
  BY <1>1, LenProperties
<1> HIDE DEF t
<1>3. ASSUME NEW i \in DOMAIN t PROVE t[i] \in ToSet(s) \cup {e}
  <2>1. CASE i \in 1..Len(s)
    BY <2>1, <1>1, <1>2 DEF ToSet
  <2>2. CASE i = Len(s) + 1
    BY <2>2, <1>1
  <2> QED
    BY <1>3, <2>1, <2>2, <1>2, SMT
<1>4. ASSUME NEW i \in DOMAIN s PROVE s[i] \in ToSet(t)
  <2>1. i \in DOMAIN t /\ t[i] = s[i]
    BY <1>4, <1>1, <1>2, SMT
  <2> QED
    BY <2>1 DEF ToSet
<1>5. e \in ToSet(t)
  <2>1. Len(s) + 1 \in DOMAIN t
    BY <1>2, SMT
  <2> QED
    BY <2>1, <1>1 DEF ToSet
<1>6. ToSet(t) = ToSet(s) \cup {e}
  BY <1>3, <1>4, <1>5 DEF ToSet
<1>7. t \in Seq(ToSet(t))
  BY <1>1, Spans
<1> QED
  BY <1>6, <1>7 DEF t

LEMMA Behead ==
  ASSUME NEW S, NEW s \in Seq(S), s # <<>>
  PROVE  /\ Tail(s) \in Seq(ToSet(Tail(s))) /\ Head(s) \in ToSet(s)
         /\ ToSet(s) = ToSet(Tail(s)) \cup {Head(s)}
<1>1. /\ Tail(s) \in Seq(S) /\ Len(Tail(s)) = Len(s) - 1
      /\ \A i \in 1..Len(Tail(s)) : Tail(s)[i] = s[i + 1]
  BY HeadTailProperties
<1>2. Len(s) \in Nat /\ Len(s) > 0 /\ Head(s) = s[1]
  BY EmptySeq, LenProperties, SMT
<1>3. DOMAIN s = 1..Len(s) /\ DOMAIN Tail(s) = 1..(Len(s) - 1)
  BY <1>1, LenProperties
<1>4. ASSUME NEW i \in DOMAIN s PROVE s[i] \in ToSet(Tail(s)) \cup {Head(s)}
  <2>1. CASE i = 1
    BY <2>1, <1>2
  <2>2. CASE i # 1
    <3>1. i - 1 \in DOMAIN Tail(s) /\ Tail(s)[i - 1] = s[i]
      BY <2>2, <1>4, <1>1, <1>2, <1>3, SMT
    <3> QED
      BY <3>1 DEF ToSet
  <2> QED
    BY <2>1, <2>2
<1>5. ASSUME NEW i \in DOMAIN Tail(s) PROVE Tail(s)[i] \in ToSet(s)
  <2>1. i + 1 \in DOMAIN s /\ Tail(s)[i] = s[i + 1]
    BY <1>5, <1>1, <1>2, <1>3, SMT
  <2> QED
    BY <2>1 DEF ToSet
<1>6. Head(s) \in ToSet(s)
  <2>1. 1 \in DOMAIN s
    BY <1>2, <1>3, SMT
  <2> QED
    BY <2>1, <1>2 DEF ToSet
<1>7. ToSet(s) = ToSet(Tail(s)) \cup {Head(s)}
  BY <1>4, <1>5, <1>6 DEF ToSet
<1> QED
  BY <1>1, <1>6, <1>7, Spans

-----------------------------------------------------------------------------
(* The follow-up queue (Crm): the marker goes to who was dismissed or       *)
(* mailed, and to everyone who was.                                        *)

(* What a send reports, and whether the mail is one that went.             *)
Result(e) == e.kind = "sent"
Went(e) == Result(e) /\ e.ok

(* A mark under way for contact k: its job, or the report that starts it.  *)
Marking(k) ==
  \/ \E j \in jobs : j.kind = "mark" /\ j.who = k
  \/ \E e \in ToSet(appCh) : Went(e) /\ e.id \in DOMAIN refs /\ refs[e.id] = k

(* A draft's dialogue has the number of the job that wrote it, which        *)
(* nothing had before and nothing has again.                               *)
Numbers ==
  /\ appCh \in Seq(ToSet(appCh)) /\ hub = [has |-> hub.has, marked |-> hub.marked]
  /\ njobs \in Nat /\ dialogues \subseteq DOMAIN refs
  /\ \A d \in DOMAIN refs : d \in Nat /\ d < njobs
  /\ \A e \in ToSet(appCh) : Result(e) => e.id \in Nat /\ e.id < njobs
  /\ \A j \in jobs : j.kind = "prompt" =>
       /\ j.n \in Nat /\ j.n < njobs /\ j.n \notin DOMAIN refs
       /\ \A e \in ToSet(appCh) : Result(e) => e.id # j.n
       /\ \A i \in jobs : i.kind = "prompt" /\ i.n = j.n => i = j

(* The marker goes only to who was dismissed or mailed, and to everyone    *)
(* who was; a mail that went has no dialogue left to send it again.        *)
Markers ==
  /\ hub.marked \subseteq dismissed \cup sent
  /\ \A j \in jobs : j.kind = "mark" => j.who \in dismissed \cup sent
  /\ \A e \in ToSet(appCh) : Went(e) =>
       e.id \notin dialogues /\ (e.id \in DOMAIN refs => refs[e.id] \in sent)
  /\ \A k \in sent \ (hub.marked \cup excused) : Marking(k)

CrmInv == Numbers /\ Markers

LEMMA CrmInit == Queue!Init => CrmInv
<1> SUFFICES ASSUME Queue!Init PROVE CrmInv
  OBVIOUS
<1> USE DEF Queue!Init
<1>1. appCh = <<>> /\ ToSet(appCh) = {}
  BY DEF ToSet
<1>2. Numbers
  <2>1. refs = <<>> /\ DOMAIN refs = {}
    OBVIOUS
  <2> QED
    BY <1>1, <2>1 DEF Numbers
<1>3. Markers
  BY <1>1 DEF Markers
<1> QED
  BY <1>2, <1>3 DEF CrmInv

\* the app's channel takes an event or loses it
LEMMA Bus ==
  ASSUME NEW e, appCh \in Seq(ToSet(appCh)), appCh' \in Queue!Into(appCh, e)
  PROVE  /\ appCh' \in Seq(ToSet(appCh')) /\ ToSet(appCh) \subseteq ToSet(appCh')
         /\ ToSet(appCh') \subseteq ToSet(appCh) \cup {e}
         /\ appCh' = appCh \/ e \in ToSet(appCh')
<1>1. appCh' = appCh \/ appCh' = Append(appCh, e)
  BY DEF Queue!Into
<1>2. CASE appCh' = appCh
  BY <1>2
<1>3. CASE appCh' = Append(appCh, e)
  <2>1. PICK s : s = appCh
    OBVIOUS
  <2>2. /\ Append(s, e) \in Seq(ToSet(Append(s, e)))
        /\ ToSet(Append(s, e)) = ToSet(s) \cup {e}
    BY <2>1, Appended
  <2> QED
    BY <1>3, <2>1, <2>2
<1> QED
  BY <1>1, <1>2, <1>3
-----------------------------------------------------------------------------
(* The steps: most of them leave what the invariant is about alone.        *)

crmCore == <<hub, jobs, appCh, refs, dialogues, njobs, dismissed, sent, excused>>

LEMMA CrmStill == ASSUME CrmInv, UNCHANGED crmCore PROVE CrmInv'
  BY DEF crmCore, CrmInv, Numbers, Markers, Marking

\* an event that reports no send comes, or does not
LEMMA QuietStep ==
  ASSUME CrmInv, NEW e, ~Result(e), appCh' \in Queue!Into(appCh, e),
         UNCHANGED <<hub, refs, dialogues, njobs, dismissed, sent, excused>>,
         jobs' \subseteq jobs, \A j \in jobs : j.kind = "mark" => j \in jobs'
  PROVE  CrmInv'
<1>1. /\ appCh' \in Seq(ToSet(appCh')) /\ ToSet(appCh) \subseteq ToSet(appCh')
      /\ ToSet(appCh') \subseteq ToSet(appCh) \cup {e}
  BY Bus DEF CrmInv, Numbers
<1>2. \A x : Went(x) => Result(x)
  BY DEF Went
<1>3. Numbers'
  BY <1>1 DEF CrmInv, Numbers, Result
<1>4. \A k : Marking(k) => Marking(k)'
  BY <1>1 DEF Marking, Went, Result
<1>5. Markers'
  BY <1>1, <1>4 DEF CrmInv, Markers, Went, Result
<1> QED
  BY <1>3, <1>5 DEF CrmInv

LEMMA OpenQueueStep == ASSUME CrmInv, Queue!OpenQueue PROVE CrmInv'
<1>1. appCh' = appCh \/ appCh' \in Queue!Into(appCh, [kind |-> "opened"])
  BY DEF Queue!OpenQueue, Queue!busVars, Queue!ToApp
<1>2. UNCHANGED <<hub, jobs, refs, dialogues, njobs, dismissed, sent, excused>>
  BY DEF Queue!OpenQueue, Queue!appVars
<1>3. CASE appCh' = appCh
  BY <1>2, <1>3, CrmStill DEF crmCore
<1>4. CASE appCh' \in Queue!Into(appCh, [kind |-> "opened"])
  <2>1. jobs' = jobs
    BY <1>2
  <2> QED
    BY <1>2, <1>4, <2>1, QuietStep DEF Result
<1> QED
  BY <1>1, <1>3, <1>4

\* a job of a key: a new number, and a mark only for who was dismissed
LEMMA JobStep ==
  ASSUME CrmInv, NEW kind, NEW k, Queue!Job(kind, k),
         UNCHANGED <<hub, appCh, refs, dialogues, sent, excused>>,
         dismissed \subseteq dismissed', kind = "mark" => k \in dismissed'
  PROVE  CrmInv'
<1>1. PICK j : j = [kind |-> kind, who |-> k, n |-> njobs]
  OBVIOUS
<1>2. /\ jobs' = jobs \cup {j} /\ njobs' = njobs + 1 /\ j.kind = kind /\ j.who = k /\ j.n = njobs
  BY <1>1 DEF Queue!Job
<1>3. njobs \in Nat /\ njobs' \in Nat /\ njobs < njobs' /\ \A n \in Nat : n < njobs => n < njobs' /\ n # njobs
  <2>1. njobs \in Nat
    BY DEF CrmInv, Numbers
  <2> QED
    BY <1>2, <2>1, SMT
<1>4. Numbers'
  BY <1>2, <1>3 DEF CrmInv, Numbers, Result
<1>5. \A x : Marking(x) => Marking(x)'
  BY <1>2 DEF Marking, Went, Result
<1>6. Markers'
  BY <1>2, <1>5 DEF CrmInv, Markers, Went, Result
<1> QED
  BY <1>4, <1>6 DEF CrmInv

LEMMA ReviewStep == ASSUME CrmInv, Queue!Keys PROVE CrmInv'
<1>1. CASE Queue!OpenQueue
  BY <1>1, OpenQueueStep
<1>2. CASE Queue!Close \/ Queue!Move \/ Queue!Draft
  BY <1>2, CrmStill DEF crmCore, Queue!Close, Queue!Move, Queue!Draft, Queue!busVars, Queue!appVars, Queue!history
<1>3. CASE Queue!Analyze
  BY <1>3, JobStep DEF Queue!Analyze, Queue!busVars, Queue!appVars, Queue!history
<1>4. CASE Queue!Dismiss
  BY <1>4, JobStep DEF Queue!Dismiss, Queue!busVars, Queue!appVars
<1>5. CASE Queue!Prompt
  <2>1. UNCHANGED <<hub, appCh, refs, dialogues, dismissed, sent, excused>>
    BY <1>5 DEF Queue!Prompt, Queue!busVars, Queue!appVars
  <2>2. CASE Queue!Job("prompt", sel)
    BY <2>1, <2>2, JobStep
  <2>3. CASE UNCHANGED <<jobs, njobs>>
    BY <2>1, <2>3, CrmStill DEF crmCore
  <2> QED
    BY <1>5, <2>2, <2>3 DEF Queue!Prompt
<1> QED
  BY <1>1, <1>2, <1>3, <1>4, <1>5 DEF Queue!Keys

-----------------------------------------------------------------------------
(* The app and its jobs.                                                   *)

\* the report of a mail that went starts its contact's mark and forgets the draft
LEMMA ObserveStep == ASSUME CrmInv, Queue!Observe PROVE CrmInv'
<1>1. PICK e : e = Head(appCh)
  OBVIOUS
<1>2. /\ UNCHANGED <<hub, dialogues, njobs, dismissed, sent, excused>>
      /\ appCh # <<>> /\ appCh' = Tail(appCh)
      /\ \/ ~Result(e) /\ UNCHANGED <<refs, jobs>>
         \/ Result(e) /\ Queue!WriteBack(e)
  BY <1>1 DEF Queue!Observe, Queue!history, Result
<1>3. /\ appCh' \in Seq(ToSet(appCh')) /\ e \in ToSet(appCh) /\ ToSet(appCh) = ToSet(appCh') \cup {e}
  <2>1. PICK s : s = appCh
    OBVIOUS
  <2>2. s \in Seq(ToSet(s)) /\ s # <<>>
    BY <1>2, <2>1 DEF CrmInv, Numbers
  <2>3. Tail(s) \in Seq(ToSet(Tail(s))) /\ Head(s) \in ToSet(s) /\ ToSet(s) = ToSet(Tail(s)) \cup {Head(s)}
    BY <2>2, Behead
  <2> QED
    BY <2>1, <2>3, <1>1, <1>2
<1>4. CASE UNCHANGED <<refs, jobs>> /\ ~(Went(e) /\ e.id \in DOMAIN refs)
  <2>1. Numbers'
    BY <1>2, <1>3, <1>4 DEF CrmInv, Numbers, Result
  <2>2. \A k : Marking(k) => Marking(k)'
    BY <1>2, <1>3, <1>4 DEF Marking, Went, Result
  <2>3. Markers'
    BY <1>2, <1>3, <1>4, <2>2 DEF CrmInv, Markers, Went, Result
  <2> QED
    BY <2>1, <2>3 DEF CrmInv
<1>5. CASE /\ Went(e) /\ e.id \in DOMAIN refs
           /\ refs' = [d \in DOMAIN refs \ {e.id} |-> refs[d]]
           /\ jobs' = jobs \cup {[kind |-> "mark", who |-> refs[e.id], n |-> MaxReviews + e.id]}
  <2>1. PICK j : j = [kind |-> "mark", who |-> refs[e.id], n |-> MaxReviews + e.id]
    OBVIOUS
  <2>2. jobs' = jobs \cup {j} /\ j.kind = "mark" /\ j.who = refs[e.id]
    BY <1>5, <2>1
  <2>3. /\ DOMAIN refs' = DOMAIN refs \ {e.id} /\ \A d \in DOMAIN refs' : refs'[d] = refs[d]
        /\ e.id \notin dialogues /\ j.who \in sent
    BY <1>3, <1>5, <2>2 DEF CrmInv, Markers
  <2>4. Numbers'
    BY <1>2, <1>3, <2>2, <2>3 DEF CrmInv, Numbers, Result
  <2>5. \A k : Marking(k) => Marking(k)'
    <3> SUFFICES ASSUME NEW k, Marking(k) PROVE Marking(k)'
      OBVIOUS
    <3>1. CASE \E i \in jobs : i.kind = "mark" /\ i.who = k
      BY <3>1, <2>2 DEF Marking
    <3>2. ASSUME NEW x \in ToSet(appCh), Went(x), x.id \in DOMAIN refs, refs[x.id] = k PROVE Marking(k)'
      <4>1. CASE x.id = e.id
        BY <3>2, <4>1, <2>2 DEF Marking
      <4>2. CASE x.id # e.id
        BY <3>2, <4>2, <1>3, <2>3 DEF Marking, Went, Result
      <4> QED
        BY <4>1, <4>2
    <3> QED
      BY <3>1, <3>2 DEF Marking
  <2>6. Markers'
    BY <1>2, <1>3, <2>2, <2>3, <2>5 DEF CrmInv, Markers, Went, Result
  <2> QED
    BY <2>4, <2>6 DEF CrmInv
<1> QED
  BY <1>2, <1>4, <1>5 DEF Queue!WriteBack, Went

LEMMA MarkedStep == ASSUME CrmInv, NEW j, Queue!Marked(j) PROVE CrmInv'
<1>1. /\ j \in jobs /\ j.kind = "mark" /\ jobs' = jobs \ {j}
      /\ UNCHANGED <<appCh, refs, dialogues, njobs, dismissed, sent>>
      /\ \/ hub' = [hub EXCEPT !.marked = @ \cup {j.who}] /\ excused' = excused
         \/ hub' = hub /\ excused' = excused \cup {j.who}
  BY DEF Queue!Marked, Queue!Failed, Queue!ToTui, Queue!busVars, Queue!appVars, Queue!pullVars
<1>2. /\ hub' = [has |-> hub'.has, marked |-> hub'.marked]
      /\ hub'.marked \cup excused' = hub.marked \cup excused \cup {j.who}
      /\ hub'.marked \subseteq hub.marked \cup {j.who}
  BY <1>1 DEF CrmInv, Numbers
<1>3. Numbers'
  BY <1>1, <1>2 DEF CrmInv, Numbers, Result
<1>4. \A k : k = j.who \/ (Marking(k) => Marking(k)')
  BY <1>1 DEF Marking, Went, Result
<1>5. Markers'
  BY <1>1, <1>2, <1>4 DEF CrmInv, Markers, Went, Result
<1> QED
  BY <1>3, <1>5 DEF CrmInv

LEMMA AnalyzedStep == ASSUME CrmInv, NEW j, Queue!Analyzed(j) PROVE CrmInv'
<1>1. /\ j \in jobs /\ jobs' = jobs \ {j} /\ j.kind = "analyze"
      /\ UNCHANGED <<hub, refs, dialogues, njobs, dismissed, sent, excused>>
      /\ appCh' = appCh \/ appCh' \in Queue!Into(appCh, [kind |-> "briefing", who |-> j.who])
  BY DEF Queue!Analyzed, Queue!Ends, Queue!Failed, Queue!ToTui, Queue!appVars, Queue!history
<1>2. appCh' \in Queue!Into(appCh, [kind |-> "briefing", who |-> j.who])
  BY <1>1 DEF Queue!Into
<1> QED
  BY <1>1, <1>2, QuietStep DEF Result

\* a draft opens its dialogue, under a number nothing has
LEMMA PromptedStep == ASSUME CrmInv, NEW j, Queue!Prompted(j) PROVE CrmInv'
<1>1. /\ j \in jobs /\ jobs' = jobs \ {j} /\ j.kind = "prompt"
      /\ UNCHANGED <<hub, appCh, njobs, dismissed, sent, excused>>
      /\ \/ UNCHANGED <<refs, dialogues>>
         \/ /\ dialogues' = dialogues \cup {j.n}
            /\ refs' = [d \in DOMAIN refs \cup {j.n} |-> IF d = j.n THEN j.who ELSE refs[d]]
  BY DEF Queue!Prompted, Queue!Ends, Queue!Failed, Queue!ToTui, Queue!busVars, Queue!history
<1>2. /\ DOMAIN refs \subseteq DOMAIN refs' /\ DOMAIN refs' \subseteq DOMAIN refs \cup {j.n}
      /\ \A d \in DOMAIN refs : refs'[d] = refs[d]
      /\ dialogues' \subseteq dialogues \cup {j.n} /\ dialogues' \subseteq DOMAIN refs'
  BY <1>1 DEF CrmInv, Numbers
<1>3. /\ j.n \in Nat /\ j.n < njobs /\ j.n \notin DOMAIN refs
      /\ \A e \in ToSet(appCh) : Result(e) => e.id # j.n
      /\ \A i \in jobs' : i.kind = "prompt" => i.n # j.n
  BY <1>1 DEF CrmInv, Numbers
<1>4. Numbers'
  BY <1>1, <1>2, <1>3 DEF CrmInv, Numbers, Result
<1>5. \A k : Marking(k) => Marking(k)'
  BY <1>1, <1>2 DEF Marking, Went, Result
<1>6. Markers'
  BY <1>1, <1>2, <1>3, <1>5 DEF CrmInv, Markers, Went, Result
<1> QED
  BY <1>4, <1>6 DEF CrmInv

\* a mail that goes takes its dialogue along, and its report is under way or lost
LEMMA SendStep == ASSUME CrmInv, NEW d, Queue!Send(d) PROVE CrmInv'
<1>1. PICK ok \in BOOLEAN :
        /\ Queue!ToApp([kind |-> "sent", id |-> d, ok |-> ok])
        /\ dialogues' = IF ok THEN dialogues \ {d} ELSE dialogues
        /\ sent' = IF ok THEN sent \cup {refs[d]} ELSE sent
        /\ excused' = IF ok /\ appCh' = appCh THEN excused \cup {refs[d]} ELSE excused
  BY DEF Queue!Send
<1>2. d \in dialogues /\ UNCHANGED <<hub, jobs, refs, njobs, dismissed>>
  BY DEF Queue!Send
<1>3. PICK e : e = [kind |-> "sent", id |-> d, ok |-> ok]
  OBVIOUS
<1>4. /\ e.id = d /\ Result(e) /\ (Went(e) <=> ok) /\ d \in DOMAIN refs
      /\ \A j \in jobs : j.kind = "prompt" => j.n # d
      /\ d \in Nat /\ d < njobs
  BY <1>2, <1>3 DEF Result, Went, CrmInv, Numbers
<1>5. /\ appCh' \in Seq(ToSet(appCh')) /\ ToSet(appCh) \subseteq ToSet(appCh')
      /\ ToSet(appCh') \subseteq ToSet(appCh) \cup {e}
      /\ appCh' = appCh \/ e \in ToSet(appCh')
  BY <1>1, <1>3, Bus DEF CrmInv, Numbers, Queue!ToApp
<1>6. dialogues' \subseteq dialogues
  BY <1>1
<1>7. Numbers'
  BY <1>2, <1>4, <1>5, <1>6 DEF CrmInv, Numbers, Result
<1>8. \A k : Marking(k) => Marking(k)'
  BY <1>2, <1>5 DEF Marking, Went, Result
<1>9. \A k \in sent' \ (hub'.marked \cup excused') : Marking(k)'
  <2> SUFFICES ASSUME NEW k \in sent' \ (hub'.marked \cup excused') PROVE Marking(k)'
    OBVIOUS
  <2>1. CASE k \in sent
    BY <2>1, <1>1, <1>2, <1>8 DEF CrmInv, Markers
  <2>2. CASE k \notin sent
    <3>1. ok /\ k = refs[d] /\ e \in ToSet(appCh')
      BY <2>2, <1>1, <1>5
    <3> QED
      BY <3>1, <1>2, <1>4 DEF Marking, Went, Result
  <2> QED
    BY <2>1, <2>2
<1>10. \A x \in ToSet(appCh') : Went(x) => x.id \notin dialogues' /\ (x.id \in DOMAIN refs' => refs'[x.id] \in sent')
  <2> SUFFICES ASSUME NEW x \in ToSet(appCh'), Went(x)
               PROVE  x.id \notin dialogues' /\ (x.id \in DOMAIN refs => refs[x.id] \in sent')
    BY <1>2
  <2>1. CASE x \in ToSet(appCh)
    BY <2>1, <1>1, <1>6 DEF CrmInv, Markers
  <2>2. CASE x = e
    BY <2>2, <1>1, <1>4
  <2> QED
    BY <2>1, <2>2, <1>5
<1>11. Markers'
  <2>1. hub'.marked \subseteq dismissed' \cup sent' /\ \A j \in jobs' : j.kind = "mark" => j.who \in dismissed' \cup sent'
    BY <1>1, <1>2 DEF CrmInv, Markers
  <2> QED
    BY <2>1, <1>9, <1>10 DEF Markers, Went, Result
<1> QED
  BY <1>7, <1>11 DEF CrmInv

LEMMA LeaveStep == ASSUME CrmInv, NEW d, Queue!Leave(d) PROVE CrmInv'
<1>1. /\ dialogues' \subseteq dialogues
      /\ UNCHANGED <<hub, jobs, appCh, refs, njobs, dismissed>>
      /\ sent \subseteq sent' /\ sent' \ excused' \subseteq sent \ excused
  BY DEF Queue!Leave, Queue!busVars
<1>2. Numbers'
  BY <1>1 DEF CrmInv, Numbers, Result
<1>3. \A k : Marking(k) => Marking(k)'
  BY <1>1 DEF Marking, Went, Result
<1>4. Markers'
  BY <1>1, <1>3 DEF CrmInv, Markers, Went, Result
<1> QED
  BY <1>2, <1>4 DEF CrmInv

LEMMA ScanStep == ASSUME CrmInv, NEW k, Queue!Scan(k) PROVE CrmInv'
<1>1. /\ hub' = [hub EXCEPT !.has = @ \cup {k}]
      /\ UNCHANGED <<jobs, appCh, refs, dialogues, njobs, dismissed, sent, excused>>
  BY DEF Queue!Scan, Queue!busVars, Queue!appVars, Queue!history
<1>2. hub' = [has |-> hub'.has, marked |-> hub'.marked] /\ hub'.marked = hub.marked
  BY <1>1 DEF CrmInv, Numbers
<1> QED
  BY <1>1, <1>2 DEF CrmInv, Numbers, Markers, Marking, Went, Result

LEMMA CrmNext == CrmInv /\ [Queue!Next]_(Queue!vars) => CrmInv'
<1> SUFFICES ASSUME CrmInv, [Queue!Next]_(Queue!vars) PROVE CrmInv'
  OBVIOUS
<1>1. CASE UNCHANGED Queue!vars
  BY <1>1, CrmStill DEF crmCore, Queue!vars, Queue!pullVars, Queue!busVars, Queue!uiVars, Queue!appVars, Queue!history
<1>2. CASE Queue!Receive
  BY <1>2, CrmStill DEF crmCore, Queue!Receive, Queue!appVars
<1>3. CASE Queue!App
  <2>1. CASE Queue!BeginPull \/ Queue!ListPage \/ Queue!PullFails
    BY <2>1, CrmStill DEF crmCore, Queue!BeginPull, Queue!ListPage, Queue!PullFails, Queue!busVars, Queue!appVars, Queue!history
  <2> QED
    BY <1>3, <2>1, ObserveStep DEF Queue!App
<1>4. ASSUME NEW j, Queue!Analyzed(j) \/ Queue!Marked(j) \/ Queue!Prompted(j) PROVE CrmInv'
  BY <1>4, AnalyzedStep, MarkedStep, PromptedStep
<1>5. ASSUME NEW d, Queue!Send(d) \/ Queue!Leave(d) PROVE CrmInv'
  BY <1>5, SendStep, LeaveStep
<1>6. ASSUME NEW k, Queue!Scan(k) PROVE CrmInv'
  BY <1>6, ScanStep
<1> QED
  BY <1>1, <1>2, <1>3, <1>4, <1>5, <1>6, ReviewStep DEF Queue!Next

LEMMA CrmKept == CrmInv => Queue!FollowUpsRecorded
<1> SUFFICES ASSUME CrmInv PROVE Queue!FollowUpsRecorded
  OBVIOUS
<1>1. ASSUME NEW k, Marking(k)
      PROVE  \/ \E j \in jobs : j.kind = "mark" /\ j.who = k
             \/ \E i \in DOMAIN appCh : appCh[i].kind = "sent" /\ appCh[i].ok /\ refs[appCh[i].id] = k
  BY <1>1 DEF Marking, Went, Result, ToSet
<1> QED
  BY <1>1 DEF CrmInv, Markers, Queue!FollowUpsRecorded

\* "Send or dismiss writes the processed marker back" (src/app/crm_engine.go): the
\* marker is on nobody who was not dismissed or mailed, and under way for everybody
\* who was, however sends, retries, failures and lost events fall.
THEOREM SpecFollowUpsRecorded == Queue!Spec => []FollowUpsRecorded
<1>1. Queue!Spec => []CrmInv
  BY CrmInit, CrmNext, PTL DEF Queue!Spec
<1>2. CrmInv => FollowUpsRecorded
  BY CrmKept DEF FollowUpsRecorded
<1> QED
  BY <1>1, <1>2, PTL

-----------------------------------------------------------------------------
(* The lists of the queue, by what they hold.                              *)

LEMMA Counts == \A S : Queue!Cardinality(S) = Cardinality(S)
  BY Zenon DEF Queue!Cardinality, Cardinality

LEMMA SetOf == \A s : Queue!ToSet(s) = ToSet(s)
  BY Zenon DEF Queue!ToSet, ToSet

\* the rank of a number in a finite set tells it from the others, and each is taken
LEMMA Ranked ==
  ASSUME NEW S \in SUBSET Int, IsFiniteSet(S)
  PROVE  /\ Cardinality(S) \in Nat
         /\ \A k \in S : Cardinality({x \in S : x <= k}) \in 1..Cardinality(S)
         /\ \A i \in 1..Cardinality(S) : \E k \in S : Cardinality({x \in S : x <= k}) = i
         /\ \A j, k \in S : Cardinality({x \in S : x <= j}) = Cardinality({x \in S : x <= k}) => j = k
<1> DEFINE Below(k) == {x \in S : x <= k}
           f == [k \in S |-> Cardinality(Below(k))]
           n == Cardinality(S)
<1>1. n \in Nat
  BY FS_CardinalityType
<1>2. \A k \in S : IsFiniteSet(Below(k)) /\ Cardinality(Below(k)) \in Nat /\ Cardinality(Below(k)) <= n
  <2> TAKE k \in S
  <2>1. Below(k) \in SUBSET S
    OBVIOUS
  <2>2. IsFiniteSet(Below(k)) /\ Cardinality(Below(k)) <= n
    <3> HIDE DEF Below, n
    <3> QED
      BY <2>1, FS_Subset DEF n
  <2> QED
    BY <2>2, FS_CardinalityType
<1>3. \A k \in S : Cardinality(Below(k)) # 0
  <2> TAKE k \in S
  <2>1. k \in Below(k)
    OBVIOUS
  <2> HIDE DEF Below
  <2> QED
    BY <2>1, <1>2, FS_EmptySet
<1>4. \A j, k \in S : j < k => Cardinality(Below(j)) < Cardinality(Below(k))
  <2> SUFFICES ASSUME NEW j \in S, NEW k \in S, j < k
               PROVE  Cardinality(Below(j)) < Cardinality(Below(k))
    OBVIOUS
  <2>1. Below(j) \in SUBSET Below(k) /\ k \in Below(k) /\ k \notin Below(j)
    <3>1. \A x \in S : x \in Int
      OBVIOUS
    <3>2. k <= k /\ ~(k <= j) /\ \A x \in S : x <= j => x <= k
      BY <3>1
    <3> QED
      BY <3>2, Zenon
  <2>2. Cardinality(Below(j)) <= Cardinality(Below(k)) /\ Cardinality(Below(j)) # Cardinality(Below(k))
    <3> HIDE DEF Below
    <3> QED
      BY <2>1, <1>2, FS_Subset
  <2> HIDE DEF Below
  <2> QED
    BY <2>2, <1>2
<1>5. f \in [S -> 1..n]
  <2> HIDE DEF Below, n
  <2> QED
    BY <1>1, <1>2, <1>3
<1>6. \A j, k \in S : f[j] = f[k] => j = k
  <2> HIDE DEF Below, n
  <2> SUFFICES ASSUME NEW j \in S, NEW k \in S, f[j] = f[k], j # k PROVE FALSE
    OBVIOUS
  <2>1. j \in Int /\ k \in Int /\ f[j] = Cardinality(Below(j)) /\ f[k] = Cardinality(Below(k))
    OBVIOUS
  <2>2. j < k \/ k < j
    BY <2>1
  <2> QED
    BY <2>1, <2>2, <1>2, <1>4
<1>7. f \in Injection(S, 1..n)
  <2> HIDE DEF f, n
  <2> QED
    BY <1>5, <1>6 DEF Injection, IsInjective
<1>8. f \in Surjection(S, 1..n)
  <2>1. IsFiniteSet(1..n) /\ Cardinality(1..n) = n
    BY <1>1, FS_Interval
  <2> HIDE DEF f
  <2> QED
    BY <1>7, <2>1, FS_Injection
<1>9. \A i \in 1..n : \E k \in S : f[k] = i
  <2> HIDE DEF f, n
  <2> QED
    BY <1>8 DEF Surjection
<1> QED
  BY <1>1, <1>5, <1>6, <1>9

\* the numbers of a finite set in order: a list of those, each at its rank
LEMMA OrderedHolds ==
  ASSUME NEW S \in SUBSET Int, IsFiniteSet(S)
  PROVE  Queue!Ordered(S) \in Seq(S) /\ ToSet(Queue!Ordered(S)) = S
<1> DEFINE n == Cardinality(S)
           rank(k) == Queue!Cardinality({x \in S : x <= k})
           o == Queue!Ordered(S)
<1>1. /\ n \in Nat /\ Queue!Cardinality(S) = n
      /\ \A k \in S : rank(k) \in 1..n
      /\ \A i \in 1..n : \E k \in S : rank(k) = i
      /\ \A j, k \in S : rank(j) = rank(k) => j = k
  <2> DEFINE card(k) == Cardinality({x \in S : x <= k})
  <2>1. \A k : rank(k) = card(k)
    BY Counts
  <2>2. /\ n \in Nat
        /\ \A k \in S : card(k) \in 1..n
        /\ \A i \in 1..n : \E k \in S : card(k) = i
        /\ \A j, k \in S : card(j) = card(k) => j = k
    BY Ranked
  <2>3. Queue!Cardinality(S) = n
    BY Counts
  <2> HIDE DEF rank, card, n
  <2> QED
    BY <2>1, <2>2, <2>3
<1>2. o = [i \in 1..n |-> CHOOSE k \in S : rank(k) = i]
  BY <1>1 DEF Queue!Ordered
<1> HIDE DEF n, rank, o
<1>3. \A i \in 1..n : o[i] \in S /\ rank(o[i]) = i
  BY <1>1, <1>2
<1>4. o \in [1..n -> S]
  BY <1>2, <1>3
<1>5. o \in Seq(S)
  BY <1>1, <1>4, SeqDef
<1>6. \A k \in S : rank(k) \in DOMAIN o /\ o[rank(k)] = k
  BY <1>1, <1>3, <1>4
<1> QED
  BY <1>3, <1>4, <1>5, <1>6 DEF ToSet, o

\* a list at some of its places holds what it had there
LEMMA OnlyHolds ==
  ASSUME NEW S, NEW s \in Seq(S), NEW I \in SUBSET DOMAIN s
  PROVE  Queue!Only(s, I) \in Seq(S) /\ ToSet(Queue!Only(s, I)) = {s[i] : i \in I}
<1>1. Len(s) \in Nat /\ DOMAIN s = 1..Len(s) /\ s \in [1..Len(s) -> S]
  BY LenProperties
<1>2. I \in SUBSET Int /\ IsFiniteSet(I)
  <2>1. IsFiniteSet(1..Len(s))
    BY <1>1, FS_Interval
  <2> QED
    BY <1>1, <2>1, FS_Subset
<1> DEFINE o == Queue!Ordered(I)
           n == Cardinality(I)
           t == Queue!Only(s, I)
<1>3. o \in Seq(I) /\ ToSet(o) = I
  BY <1>2, OrderedHolds
<1>4. n \in Nat /\ Queue!Cardinality(I) = n
  BY <1>2, FS_CardinalityType, Counts
<1>5. DOMAIN o = 1..n
  BY <1>4 DEF Queue!Ordered
<1>6. t = [i \in 1..n |-> s[o[i]]]
  BY <1>4 DEF Queue!Only
<1> HIDE DEF o, n, t
<1>7. o \in [1..n -> I]
  BY <1>3, <1>5, LenProperties
<1>8. t \in [1..n -> S]
  BY <1>1, <1>6, <1>7
<1>9. t \in Seq(S)
  BY <1>4, <1>8, SeqDef
<1>10. ToSet(t) = {s[i] : i \in I}
  <2>1. ASSUME NEW i \in DOMAIN t PROVE t[i] \in {s[m] : m \in I}
    BY <2>1, <1>6, <1>7, <1>8
  <2>2. ASSUME NEW m \in I PROVE s[m] \in ToSet(t)
    <3>1. PICK i \in DOMAIN o : o[i] = m
      BY <1>3, <2>2 DEF ToSet
    <3>2. i \in DOMAIN t /\ t[i] = s[m]
      BY <3>1, <1>5, <1>6
    <3> QED
      BY <3>2 DEF ToSet
  <2> QED
    BY <2>1, <2>2 DEF ToSet
<1> QED
  BY <1>9, <1>10 DEF t

\* what a list holds has a first place in it
LEMMA FirstPlace ==
  ASSUME NEW S, NEW s \in Seq(S), NEW m \in DOMAIN s
  PROVE  \E i \in DOMAIN s : s[i] = s[m] /\ \A j \in 1..(i - 1) : s[j] # s[i]
<1> DEFINE T == {i \in DOMAIN s : s[i] = s[m]}
           R == {ss \in Nat \X Nat : ss[1] < ss[2]}
<1>1. Len(s) \in Nat /\ DOMAIN s = 1..Len(s)
  BY LenProperties
<1>2. IsWellFoundedOn(R, Nat)
  BY NatLessThanWellFounded, Zenon DEF OpToRel
<1>3. T # {} /\ T \subseteq Nat
  BY <1>1
<1>4. PICK i \in T : \A j \in T : ~(<<j, i>> \in R)
  <2> HIDE DEF T, R
  <2> QED
    BY <1>2, <1>3, WFMin
<1>5. ASSUME NEW j \in 1..(i - 1) PROVE s[j] # s[i]
  <2>1. j \in DOMAIN s /\ <<j, i>> \in R
    BY <1>1, <1>3
  <2> QED
    BY <2>1, <1>4
<1> QED
  BY <1>5

LEMMA OnceHolds ==
  ASSUME NEW S, NEW s \in Seq(S)
  PROVE  Queue!Once(s) \in Seq(S) /\ ToSet(Queue!Once(s)) = ToSet(s)
<1> DEFINE I == {i \in DOMAIN s : \A j \in 1..(i - 1) : s[j] # s[i]}
<1>1. Queue!Once(s) = Queue!Only(s, I)
  BY DEF Queue!Once
<1>2. I \in SUBSET DOMAIN s
  OBVIOUS
<1>3. \A m \in DOMAIN s : \E i \in I : s[i] = s[m]
  BY FirstPlace
<1> HIDE DEF I
<1>4. {s[i] : i \in I} = ToSet(s)
  BY <1>2, <1>3 DEF ToSet
<1> QED
  BY <1>1, <1>2, <1>4, OnlyHolds

LEMMA Joined ==
  ASSUME NEW S, NEW s \in Seq(S), NEW t \in Seq(S)
  PROVE  s \o t \in Seq(S) /\ ToSet(s \o t) = ToSet(s) \cup ToSet(t)
<1> DEFINE u == s \o t
<1>1. /\ u \in Seq(S) /\ Len(u) = Len(s) + Len(t)
      /\ \A i \in 1..(Len(s) + Len(t)) : u[i] = IF i <= Len(s) THEN s[i] ELSE t[i - Len(s)]
  BY ConcatProperties
<1>2. /\ Len(s) \in Nat /\ Len(t) \in Nat
      /\ DOMAIN s = 1..Len(s) /\ DOMAIN t = 1..Len(t) /\ DOMAIN u = 1..(Len(s) + Len(t))
  BY <1>1, LenProperties
<1> HIDE DEF u
<1>3. ASSUME NEW i \in DOMAIN u PROVE u[i] \in ToSet(s) \cup ToSet(t)
  <2>1. CASE i <= Len(s)
    BY <2>1, <1>1, <1>2 DEF ToSet
  <2>2. CASE ~(i <= Len(s))
    <3>1. i - Len(s) \in DOMAIN t /\ u[i] = t[i - Len(s)]
      BY <2>2, <1>1, <1>2
    <3> QED
      BY <3>1 DEF ToSet
  <2> QED
    BY <2>1, <2>2
<1>4. ASSUME NEW i \in DOMAIN s PROVE s[i] \in ToSet(u)
  <2>1. i \in DOMAIN u /\ u[i] = s[i]
    BY <1>1, <1>2
  <2> QED
    BY <2>1 DEF ToSet
<1>5. ASSUME NEW i \in DOMAIN t PROVE t[i] \in ToSet(u)
  <2>1. i + Len(s) \in DOMAIN u /\ u[i + Len(s)] = t[i]
    BY <1>1, <1>2
  <2> QED
    BY <2>1 DEF ToSet
<1>6. ToSet(u) = ToSet(s) \cup ToSet(t)
  BY <1>3, <1>4, <1>5 DEF ToSet
<1> QED
  BY <1>1, <1>6 DEF u

\* after a page: its contacts, and those under review that it lacks
LEMMA MergedHolds ==
  ASSUME NEW page, page \in Seq(ToSet(page)), queue.order \in Seq(ToSet(queue.order))
  PROVE  /\ Queue!Merged(page) \in Seq(ToSet(Queue!Merged(page)))
         /\ ToSet(Queue!Merged(page)) = ToSet(page) \cup {k \in ToSet(queue.order) :
              k \notin ToSet(page) /\ ~Queue!Past(queue.row[k].status)}
<1>1. PICK o : o = queue.order
  OBVIOUS
<1>2. PICK I : I = Queue!Left(page)
  OBVIOUS
<1>3. I = {i \in DOMAIN o : o[i] \notin ToSet(page) /\ ~Queue!Past(queue.row[o[i]].status)}
  BY <1>1, <1>2, SetOf DEF Queue!Left
<1>4. o \in Seq(ToSet(o)) /\ I \in SUBSET DOMAIN o
  BY <1>1, <1>3
<1> DEFINE a == Queue!Once(page)
           b == Queue!Only(o, I)
           K == {k \in ToSet(o) : k \notin ToSet(page) /\ ~Queue!Past(queue.row[k].status)}
           U == ToSet(page) \cup ToSet(o)
<1>5. a \in Seq(ToSet(page)) /\ ToSet(a) = ToSet(page)
  BY OnceHolds
<1>6. b \in Seq(ToSet(o)) /\ ToSet(b) = {o[i] : i \in I}
  BY <1>4, OnlyHolds
<1>7. {o[i] : i \in I} = K
  BY <1>3 DEF ToSet
<1>8. Queue!Merged(page) = a \o b
  BY <1>1, <1>2 DEF Queue!Merged
<1> HIDE DEF a, b, K
<1>9. a \in Seq(U) /\ b \in Seq(U)
  BY <1>5, <1>6, SeqMonotonic
<1>10. a \o b \in Seq(U) /\ ToSet(a \o b) = ToSet(page) \cup K
  BY <1>5, <1>6, <1>7, <1>9, Joined
<1>11. a \o b \in Seq(ToSet(a \o b))
  BY <1>10, Spans
<1> QED
  BY <1>1, <1>8, <1>10, <1>11 DEF K

\* the listing of the CRM holds the contacts without the marker
LEMMA UnmarkedHolds ==
  ASSUME NEW S \in SUBSET Int, IsFiniteSet(S), S = hub.has \ hub.marked
  PROVE  Queue!Unmarked \in Seq(S) /\ ToSet(Queue!Unmarked) = S
<1> DEFINE o == Queue!Ordered(S)
           u == Queue!Unmarked
           n == Len(o)
<1>1. o \in Seq(S) /\ ToSet(o) = S
  BY OrderedHolds
<1>2. n \in Nat /\ DOMAIN o = 1..n /\ o \in [1..n -> S]
  BY <1>1, LenProperties
<1>3. u = [i \in 1..n |-> o[(n - i) + 1]]
  BY DEF Queue!Unmarked, Queue!Reverse
<1> HIDE DEF o, u, n
<1>4. u \in [1..n -> S]
  BY <1>2, <1>3
<1>5. u \in Seq(S)
  BY <1>2, <1>4, SeqDef
<1>6. ASSUME NEW i \in 1..n PROVE (n - i) + 1 \in 1..n /\ u[(n - i) + 1] = o[i]
  <2>1. (n - i) + 1 \in 1..n /\ (n - ((n - i) + 1)) + 1 = i
    BY <1>2
  <2> QED
    BY <2>1, <1>3
<1>7. ToSet(u) = S
  <2>1. \A i \in 1..n : u[i] \in S
    BY <1>4
  <2>2. ASSUME NEW k \in S PROVE k \in ToSet(u)
    <3>1. PICK i \in 1..n : o[i] = k
      BY <1>1, <1>2 DEF ToSet
    <3>2. (n - i) + 1 \in DOMAIN u /\ u[(n - i) + 1] = k
      BY <3>1, <1>4, <1>6
    <3> QED
      BY <3>2 DEF ToSet
  <2> QED
    BY <1>4, <2>1, <2>2 DEF ToSet
<1> QED
  BY <1>5, <1>7 DEF u

\* the places of a list from one on, up to another
LEMMA Stretch ==
  ASSUME NEW S, NEW s \in Seq(S), NEW m \in Nat, NEW n \in Nat, m <= n, n <= Len(s)
  PROVE  SubSeq(s, m + 1, n) \in Seq(S) /\ ToSet(SubSeq(s, m + 1, n)) = {s[i] : i \in (m + 1)..n}
<1> DEFINE t == SubSeq(s, m + 1, n)
<1>1. Len(s) \in Nat /\ DOMAIN s = 1..Len(s) /\ \A i \in (m + 1)..n : s[i] \in S
  <2>1. Len(s) \in Nat /\ DOMAIN s = 1..Len(s)
    BY LenProperties
  <2> QED
    BY <2>1, ElementOfSeq
<1>2. /\ t \in Seq(S) /\ Len(t) = n - m
      /\ \A i \in 1..(n - m) : t[i] = s[m + i]
  <2>1. m + 1 \in Int /\ n \in Int
    OBVIOUS
  <2>2. /\ t \in Seq(S) /\ Len(t) = IF m + 1 <= n THEN n - (m + 1) + 1 ELSE 0
        /\ \A i \in 1..(n - (m + 1) + 1) : t[i] = s[(m + 1) + i - 1]
    BY <1>1, <2>1, SubSeqProperties
  <2> HIDE DEF t
  <2>3. \A i \in 1..(n - m) : i \in 1..(n - (m + 1) + 1) /\ (m + 1) + i - 1 = m + i
    OBVIOUS
  <2>4. Len(t) = n - m
    BY <2>2
  <2> QED
    BY <2>2, <2>3, <2>4
<1>3. DOMAIN t = 1..(n - m)
  BY <1>2, LenProperties
<1> HIDE DEF t
<1>4. ASSUME NEW i \in DOMAIN t PROVE t[i] \in {s[j] : j \in (m + 1)..n}
  <2>1. m + i \in (m + 1)..n /\ t[i] = s[m + i]
    BY <1>2, <1>3
  <2> QED
    BY <2>1
<1>5. ASSUME NEW j \in (m + 1)..n PROVE s[j] \in ToSet(t)
  <2>1. j - m \in DOMAIN t /\ m + (j - m) = j
    BY <1>3
  <2>2. t[j - m] = s[j]
    BY <2>1, <1>2, <1>3
  <2> QED
    BY <2>1, <2>2 DEF ToSet
<1>6. ToSet(t) = {s[j] : j \in (m + 1)..n}
  BY <1>4, <1>5 DEF ToSet
<1> QED
  BY <1>2, <1>6 DEF t

-----------------------------------------------------------------------------
(* Pages overtake nothing that matters: of those under way and the last    *)
(* one, a later whole page lacks a contact of an earlier only if it has    *)
(* the marker by now, and then none after it has it again.                 *)

Pages == {e \in ToSet(tuiCh) : e.kind = "page"} \cup {p \in {latest} : p.n > 0}

Whole(p) == ~p.torn

Gone(k, p) ==
  /\ k \in hub.marked
  /\ \A r \in Pages : Whole(r) /\ p.n <= r.n => k \notin ToSet(r.page)

(* A contact of the queue, or one that is done with, is absent only from    *)
(* pages it is gone from.                                                  *)
Settled(k) ==
  /\ k \in hub.has
  /\ \A p \in Pages : Whole(p) /\ seen <= p.n /\ k \notin ToSet(p.page) => Gone(k, p)

Shapes ==
  /\ tuiCh \in Seq(ToSet(tuiCh))
  /\ queue = [order |-> queue.order, row |-> queue.row, cur |-> queue.cur]
  /\ queue.order \in Seq(ToSet(queue.order)) /\ ToSet(queue.order) = DOMAIN queue.row
  /\ \A k \in DOMAIN queue.row : {"status", "inFlight"} \subseteq DOMAIN queue.row[k]
  /\ hub = [has |-> hub.has, marked |-> hub.marked]
  /\ IsFiniteSet(hub.has) /\ hub.has \subseteq Int
  /\ latest.n \in Nat /\ seen \in Nat
  /\ \A p \in Pages : p.n \in Nat /\ p.n <= latest.n /\ p.page \in Seq(ToSet(p.page))

Pulled ==
  /\ pull.on \in BOOLEAN
  /\ pull.on =>
       /\ pull = [on |-> TRUE, n |-> latest.n + 1, after |-> pull.after, got |-> pull.got, torn |-> pull.torn]
       /\ pull.after \in Nat /\ pull.got \in Seq(ToSet(pull.got))
  /\ pull.on /\ ~pull.torn =>
       /\ pull.after <= Len(Queue!Unmarked)
       /\ ToSet(pull.got) = {Queue!Unmarked[i] : i \in 1..pull.after}

InOrder == \A p \in Pages : Whole(p) =>
  /\ ToSet(p.page) \subseteq hub.has
  /\ \A r \in Pages : Whole(r) /\ p.n <= r.n => \A k \in ToSet(p.page) \ ToSet(r.page) : Gone(k, r)

Reviewed == ~odd =>
  /\ \A k \in handled \cup DOMAIN queue.row : Settled(k)
  /\ \A k \in handled \ DOMAIN queue.row : k \in hub.marked /\ \A p \in Pages : Whole(p) /\ seen <= p.n => k \notin ToSet(p.page)
  /\ \A k \in handled \cap DOMAIN queue.row : Queue!Past(queue.row[k].status) \/ k \in late

OfferInv == Shapes /\ Pulled /\ InOrder /\ Reviewed

LEMMA OfferInit == ServicesAssumption /\ Queue!Init => OfferInv
<1> SUFFICES ASSUME ServicesAssumption, Queue!Init PROVE OfferInv
  OBVIOUS
<1> USE DEF Queue!Init
<1>1. Pages = {}
  BY DEF Pages, ToSet
<1>2. Shapes
  <2>1. <<>> \in Seq(ToSet(<<>>)) /\ ToSet(<<>>) = {} /\ DOMAIN <<>> = {}
    BY DEF ToSet
  <2>2. hub.has = Old /\ IsFiniteSet(Old) /\ Old \subseteq Int
    BY DEF ServicesAssumption
  <2> QED
    BY <1>1, <2>1, <2>2 DEF Shapes
<1>3. Pulled
  BY DEF Pulled, Queue!Idle
<1>4. InOrder
  BY <1>1 DEF InOrder
<1>5. Reviewed
  <2>1. handled = {} /\ DOMAIN queue.row = {}
    OBVIOUS
  <2> QED
    BY <2>1 DEF Reviewed
<1> QED
  BY <1>2, <1>3, <1>4, <1>5 DEF OfferInv

\* the terminal's channel takes an event or loses it
LEMMA TuiBus ==
  ASSUME NEW e, tuiCh \in Seq(ToSet(tuiCh)), tuiCh' \in Queue!Into(tuiCh, e)
  PROVE  tuiCh' \in Seq(ToSet(tuiCh')) /\ ToSet(tuiCh') \subseteq ToSet(tuiCh) \cup {e}
<1>1. tuiCh' = tuiCh \/ tuiCh' = Append(tuiCh, e)
  BY DEF Queue!Into
<1>2. CASE tuiCh' = tuiCh
  BY <1>2
<1>3. CASE tuiCh' = Append(tuiCh, e)
  <2>1. PICK s : s = tuiCh
    OBVIOUS
  <2>2. /\ Append(s, e) \in Seq(ToSet(Append(s, e)))
        /\ ToSet(Append(s, e)) = ToSet(s) \cup {e}
    BY <2>1, Appended
  <2> QED
    BY <1>3, <2>1, <2>2
<1> QED
  BY <1>1, <1>2, <1>3

\* the listing is where it was while the CRM is
LEMMA SameUnmarked == ASSUME hub' = hub PROVE Queue!Unmarked' = Queue!Unmarked
<1>1. PICK S : S = hub.has \ hub.marked
  OBVIOUS
<1>2. Queue!Unmarked = Queue!Reverse(Queue!Ordered(S)) /\ Queue!Unmarked' = Queue!Reverse(Queue!Ordered(S))
  BY <1>1 DEF Queue!Unmarked
<1> QED
  BY <1>2

LEMMA PulledStill == ASSUME Pulled, UNCHANGED <<hub, latest, pull>> PROVE Pulled'
  BY SameUnmarked DEF Pulled

\* a step that brings no page and whose rows stay with the user's part
LEMMA NoPage ==
  ASSUME InOrder, Reviewed, Pages' \subseteq Pages,
         hub.has \subseteq hub'.has, hub.marked \subseteq hub'.marked,
         UNCHANGED <<seen, odd>>, DOMAIN queue'.row = DOMAIN queue.row,
         handled' \subseteq handled \cup DOMAIN queue.row,
         \A k \in handled' \cap DOMAIN queue.row :
           \/ Queue!Past(queue'.row[k].status) \/ k \in late'
           \/ k \in handled /\ queue'.row[k].status = queue.row[k].status /\ (k \in late => k \in late')
  PROVE  InOrder' /\ Reviewed'
<1>1. \A k, p : Gone(k, p) => Gone(k, p)'
  BY DEF Gone
<1>2. \A k : Settled(k) => Settled(k)'
  BY <1>1 DEF Settled
<1>3. InOrder'
  BY <1>1 DEF InOrder
<1>4. Reviewed'
  <2> SUFFICES ASSUME ~odd PROVE Reviewed'
    BY DEF Reviewed
  <2>1. \A k \in handled' \cup DOMAIN queue'.row : Settled(k)'
    BY <1>2 DEF Reviewed
  <2>2. \A k \in handled' \ DOMAIN queue'.row : k \in hub'.marked /\ \A p \in Pages' : Whole(p) /\ seen' <= p.n => k \notin ToSet(p.page)
    BY DEF Reviewed
  <2>3. \A k \in handled' \cap DOMAIN queue'.row : Queue!Past(queue'.row[k].status) \/ k \in late'
    BY DEF Reviewed, Queue!Past
  <2> QED
    BY <2>1, <2>2, <2>3 DEF Reviewed, Queue!Past, Whole
<1> QED
  BY <1>3, <1>4

\* the merge of a page
LEMMA QueueMerged ==
  ASSUME Shapes, NEW page, page \in Seq(ToSet(page)), queue' = Queue!OnQueue(page)
  PROVE  /\ queue' = [order |-> queue'.order, row |-> queue'.row, cur |-> queue'.cur]
         /\ queue'.order \in Seq(ToSet(queue'.order)) /\ ToSet(queue'.order) = DOMAIN queue'.row
         /\ DOMAIN queue'.row = ToSet(page) \cup {k \in DOMAIN queue.row :
              k \notin ToSet(page) /\ ~Queue!Past(queue.row[k].status)}
         /\ \A k \in DOMAIN queue'.row : {"status", "inFlight"} \subseteq DOMAIN queue'.row[k]
         /\ \A k \in DOMAIN queue'.row \cap DOMAIN queue.row : queue'.row[k] = queue.row[k]
<1>1. PICK o : o = Queue!Merged(page)
  OBVIOUS
<1>2. PICK c : c = Queue!CursorIn(o)
  OBVIOUS
<1>3. /\ o \in Seq(ToSet(o))
      /\ ToSet(o) = ToSet(page) \cup {k \in DOMAIN queue.row : k \notin ToSet(page) /\ ~Queue!Past(queue.row[k].status)}
  BY <1>1, MergedHolds DEF Shapes
<1>4. Queue!ToSet(o) = ToSet(o)
  BY SetOf
<1>5. PICK rows : rows = [k \in ToSet(o) |-> IF k \in DOMAIN queue.row THEN queue.row[k] ELSE Queue!NewRow]
  OBVIOUS
<1>6. queue' = [order |-> o, cur |-> c, row |-> rows]
  BY <1>1, <1>2, <1>4, <1>5 DEF Queue!OnQueue
<1>7. queue'.order = o /\ queue'.row = rows /\ queue' = [order |-> queue'.order, row |-> queue'.row, cur |-> queue'.cur]
  BY <1>6
<1>8. /\ DOMAIN rows = ToSet(o)
      /\ \A k \in DOMAIN rows : {"status", "inFlight"} \subseteq DOMAIN rows[k]
      /\ \A k \in DOMAIN rows \cap DOMAIN queue.row : rows[k] = queue.row[k]
  BY <1>5 DEF Shapes, Queue!NewRow
<1> HIDE DEF Shapes
<1> QED
  BY <1>3, <1>7, <1>8

\* a whole page that is not older than the last one merged: what it lacks is gone
\* from it on, and what is done with and not in the queue is not in it
LEMMA PageStep ==
  ASSUME OfferInv, NEW p \in Pages, queue' = Queue!OnQueue(p.page), Queue!Odd(p),
         Pages' \subseteq Pages, tuiCh' \in Seq(ToSet(tuiCh')),
         UNCHANGED <<hub, latest, pull, handled, late>>
  PROVE  OfferInv'
<1>1. /\ p.n \in Nat /\ p.page \in Seq(ToSet(p.page)) /\ seen \in Nat
      /\ odd' = (odd \/ p.torn \/ p.n < seen) /\ seen' = p.n
  BY DEF OfferInv, Shapes, Queue!Odd
<1>2. /\ queue' = [order |-> queue'.order, row |-> queue'.row, cur |-> queue'.cur]
      /\ queue'.order \in Seq(ToSet(queue'.order)) /\ ToSet(queue'.order) = DOMAIN queue'.row
      /\ DOMAIN queue'.row = ToSet(p.page) \cup {k \in DOMAIN queue.row :
           k \notin ToSet(p.page) /\ ~Queue!Past(queue.row[k].status)}
      /\ \A k \in DOMAIN queue'.row : {"status", "inFlight"} \subseteq DOMAIN queue'.row[k]
      /\ \A k \in DOMAIN queue'.row \cap DOMAIN queue.row : queue'.row[k] = queue.row[k]
  BY <1>1, QueueMerged DEF OfferInv
<1>3. Shapes'
  BY <1>1, <1>2 DEF OfferInv, Shapes
<1>4. Pulled'
  BY PulledStill DEF OfferInv
<1>5. \A k, r : Gone(k, r) => Gone(k, r)'
  BY DEF Gone
<1>6. InOrder'
  BY <1>5 DEF OfferInv, InOrder
<1>7. Reviewed'
  <2> SUFFICES ASSUME ~odd' PROVE Reviewed'
    BY DEF Reviewed
  <2>1. ~odd /\ Whole(p) /\ seen <= p.n
    <3>1. ~odd /\ ~p.torn /\ ~(p.n < seen)
      BY <1>1, Zenon
    <3>2. seen <= p.n
      BY <1>1, <3>1
    <3> QED
      BY <3>1, <3>2 DEF Whole
  <2>2. \A r \in Pages : r.n \in Nat /\ (seen' <= r.n => seen <= r.n)
    BY <1>1, <2>1 DEF OfferInv, Shapes
  <2>3. ASSUME NEW k, Settled(k) PROVE Settled(k)'
    BY <2>2, <2>3, <1>5 DEF Settled
  <2>4. ASSUME NEW k \in ToSet(p.page) PROVE Settled(k)'
    <3>1. k \in hub.has /\ \A r \in Pages : Whole(r) /\ p.n <= r.n /\ k \notin ToSet(r.page) => Gone(k, r)
      BY <2>1 DEF OfferInv, InOrder
    <3> QED
      BY <3>1, <1>1, <1>5 DEF Settled
  <2>5. \A k \in handled' \cup DOMAIN queue'.row : Settled(k)'
    BY <1>2, <2>1, <2>3, <2>4 DEF OfferInv, Reviewed
  <2>6. ASSUME NEW k \in handled', k \notin DOMAIN queue'.row
        PROVE  k \in hub'.marked /\ \A r \in Pages' : Whole(r) /\ seen' <= r.n => k \notin ToSet(r.page)
    <3>1. CASE k \notin DOMAIN queue.row
      BY <3>1, <2>1, <2>2, <2>6 DEF OfferInv, Reviewed
    <3>2. CASE k \in DOMAIN queue.row
      <4>1. k \notin ToSet(p.page) /\ Settled(k)
        BY <3>2, <1>2, <2>1, <2>6 DEF OfferInv, Reviewed
      <4>2. Gone(k, p)
        BY <4>1, <2>1 DEF Settled
      <4> QED
        BY <4>2, <1>1 DEF Gone
    <3> QED
      BY <3>1, <3>2
  <2>7. ASSUME NEW k \in handled', k \in DOMAIN queue'.row
        PROVE  Queue!Past(queue'.row[k].status) \/ k \in late'
    <3>1. k \in DOMAIN queue.row
      BY <2>1, <2>7, <1>2 DEF OfferInv, Reviewed
    <3> QED
      BY <3>1, <2>1, <2>7, <1>2 DEF OfferInv, Reviewed
  <2> QED
    BY <2>5, <2>6, <2>7 DEF Reviewed, Whole, Queue!Past
<1> QED
  BY <1>3, <1>4, <1>6, <1>7 DEF OfferInv

\* the last page of a listing: without a change of the CRM meanwhile, it is the
\* contacts without the marker
LEMMA ListedStep ==
  ASSUME OfferInv, NEW e, e.kind = "page", e.n = latest.n + 1, e.page \in Seq(ToSet(e.page)),
         Whole(e) => ToSet(e.page) = hub.has \ hub.marked,
         latest' = e, pull' = Queue!Idle, tuiCh' \in Queue!Into(tuiCh, e),
         UNCHANGED <<hub, queue, handled, late, odd, seen>>
  PROVE  OfferInv'
<1>1. tuiCh' \in Seq(ToSet(tuiCh')) /\ ToSet(tuiCh') \subseteq ToSet(tuiCh) \cup {e}
  BY TuiBus DEF OfferInv, Shapes
<1>2. /\ latest.n \in Nat /\ e.n \in Nat /\ latest.n < e.n
      /\ \A p \in Pages : p.n \in Nat /\ p.n < e.n
  BY DEF OfferInv, Shapes
<1>3. Pages' \subseteq Pages \cup {e}
  BY <1>1 DEF Pages
<1>4. Shapes'
  <2>1. \A p \in Pages' : p.n \in Nat /\ p.n <= e.n /\ p.page \in Seq(ToSet(p.page))
    BY <1>2, <1>3 DEF OfferInv, Shapes
  <2> QED
    BY <1>1, <1>2, <2>1 DEF OfferInv, Shapes
<1>5. Pulled'
  BY DEF Pulled, Queue!Idle
<1>6. \A k, p : Gone(k, p) => Gone(k, p)'
  BY <1>3 DEF Gone, Whole
<1>7. InOrder'
  <2> SUFFICES ASSUME NEW p \in Pages', Whole(p)
               PROVE  /\ ToSet(p.page) \subseteq hub.has
                      /\ \A r \in Pages' : Whole(r) /\ p.n <= r.n => \A k \in ToSet(p.page) \ ToSet(r.page) : Gone(k, r)'
    BY DEF InOrder, Whole
  <2>1. ToSet(p.page) \subseteq hub.has
    BY <1>3 DEF OfferInv, InOrder
  <2>2. ASSUME NEW r \in Pages', Whole(r), p.n <= r.n, NEW k \in ToSet(p.page), k \notin ToSet(r.page)
        PROVE  Gone(k, r)'
    <3>1. CASE r = e
      <4>1. k \in hub.marked
        BY <2>1, <2>2, <3>1
      <4>2. \A t \in Pages' : e.n <= t.n => t = e
        BY <1>2, <1>3
      <4> QED
        BY <4>1, <4>2, <2>2, <3>1 DEF Gone
    <3>2. CASE r \in Pages
      <4>1. p \in Pages
        BY <1>2, <1>3, <2>2, <3>2
      <4> QED
        BY <4>1, <3>2, <2>2, <1>6 DEF OfferInv, InOrder
    <3> QED
      BY <3>1, <3>2, <1>3, <2>2
  <2> QED
    BY <2>1, <2>2
<1>8. Reviewed'
  <2> SUFFICES ASSUME ~odd PROVE Reviewed'
    BY DEF Reviewed
  <2>1. ASSUME NEW k, Settled(k) PROVE Settled(k)'
    <3>1. ASSUME NEW p \in Pages', Whole(p), seen <= p.n, k \notin ToSet(p.page) PROVE Gone(k, p)'
      <4>1. CASE p \in Pages
        BY <4>1, <3>1, <2>1, <1>6 DEF Settled
      <4>2. CASE p = e
        <5>1. k \in hub.marked
          BY <2>1, <3>1, <4>2 DEF Settled
        <5>2. \A t \in Pages' : e.n <= t.n => t = e
          BY <1>2, <1>3
        <5> QED
          BY <5>1, <5>2, <3>1, <4>2 DEF Gone
      <4> QED
        BY <4>1, <4>2, <1>3, <3>1
    <3> QED
      BY <3>1, <2>1 DEF Settled, Whole
  <2>2. \A k \in handled \cup DOMAIN queue.row : Settled(k)'
    BY <2>1 DEF OfferInv, Reviewed
  <2>3. \A k \in handled \ DOMAIN queue.row : k \in hub.marked /\ \A p \in Pages' : Whole(p) /\ seen <= p.n => k \notin ToSet(p.page)
    BY <1>3 DEF OfferInv, Reviewed
  <2> QED
    BY <2>2, <2>3 DEF OfferInv, Reviewed, Whole
<1> QED
  BY <1>4, <1>5, <1>7, <1>8 DEF OfferInv

offerCore == <<hub, pull, tuiCh, latest, queue, handled, late, odd, seen>>

LEMMA OfferStill == ASSUME OfferInv, UNCHANGED offerCore PROVE OfferInv'
<1> USE DEF offerCore
<1>1. Pages' = Pages
  BY DEF Pages
<1>2. Shapes'
  BY <1>1 DEF OfferInv, Shapes
<1>3. Pulled'
  BY PulledStill DEF OfferInv
<1>4. InOrder' /\ Reviewed'
  BY <1>1, NoPage DEF OfferInv, Reviewed
<1> QED
  BY <1>2, <1>3, <1>4 DEF OfferInv

\* an event that is no page
LEMMA EventStep ==
  ASSUME OfferInv, NEW e, e.kind # "page", tuiCh' \in Queue!Into(tuiCh, e),
         UNCHANGED <<hub, pull, latest, queue, handled, late, odd, seen>>
  PROVE  OfferInv'
<1>1. tuiCh' \in Seq(ToSet(tuiCh')) /\ ToSet(tuiCh') \subseteq ToSet(tuiCh) \cup {e}
  BY TuiBus DEF OfferInv, Shapes
<1>2. Pages' \subseteq Pages
  BY <1>1 DEF Pages
<1>3. Shapes'
  BY <1>1, <1>2 DEF OfferInv, Shapes
<1>4. Pulled'
  BY PulledStill DEF OfferInv
<1>5. InOrder' /\ Reviewed'
  BY <1>2, NoPage DEF OfferInv, Reviewed
<1> QED
  BY <1>3, <1>4, <1>5 DEF OfferInv

\* the CRM changes: what is being listed meanwhile is torn
LEMMA HubStep ==
  ASSUME OfferInv, hub' = [has |-> hub'.has, marked |-> hub'.marked],
         hub.has \subseteq hub'.has, hub.marked \subseteq hub'.marked,
         IsFiniteSet(hub'.has), hub'.has \subseteq Int, Queue!Torn,
         UNCHANGED <<tuiCh, latest, queue, handled, late, odd, seen>>
  PROVE  OfferInv'
<1>1. Pages' = Pages
  BY DEF Pages
<1>2. Shapes'
  BY <1>1 DEF OfferInv, Shapes
<1>3. Pulled'
  <2>1. CASE pull.on
    <3>1. pull = [on |-> TRUE, n |-> latest.n + 1, after |-> pull.after, got |-> pull.got, torn |-> pull.torn]
      BY <2>1 DEF OfferInv, Pulled
    <3>2. pull' = [on |-> TRUE, n |-> latest.n + 1, after |-> pull.after, got |-> pull.got, torn |-> TRUE]
      <4>1. PICK p : p = pull
        OBVIOUS
      <4>2. pull' = [p EXCEPT !.torn = TRUE]
        BY <2>1, <4>1 DEF Queue!Torn
      <4>3. p = [on |-> TRUE, n |-> latest.n + 1, after |-> pull.after, got |-> pull.got, torn |-> pull.torn]
        BY <3>1, <4>1
      <4>4. DOMAIN p = {"on", "n", "after", "got", "torn"} /\ p.on = TRUE /\ p.n = latest.n + 1 /\ p.after = pull.after /\ p.got = pull.got
        BY <4>3
      <4> QED
        BY <4>2, <4>3, <4>4
    <3>3. pull'.on = TRUE /\ pull'.torn = TRUE /\ pull'.after = pull.after /\ pull'.got = pull.got
      BY <3>2
    <3> QED
      BY <2>1, <3>2, <3>3 DEF OfferInv, Pulled
  <2>2. CASE ~pull.on
    <3>1. pull' = pull
      BY <2>2 DEF Queue!Torn
    <3> QED
      BY <2>2, <3>1 DEF OfferInv, Pulled
  <2> QED
    BY <2>1, <2>2
<1>4. InOrder' /\ Reviewed'
  BY <1>1, NoPage DEF OfferInv, Reviewed
<1> QED
  BY <1>2, <1>3, <1>4 DEF OfferInv

\* a row gets another state
LEMMA RowSet ==
  ASSUME Shapes, NEW k, NEW r, queue' = Queue!WithRow(k, r), {"status", "inFlight"} \subseteq DOMAIN r
  PROVE  /\ queue' = [order |-> queue'.order, row |-> queue'.row, cur |-> queue'.cur]
         /\ queue'.order = queue.order /\ DOMAIN queue'.row = DOMAIN queue.row
         /\ \A i \in DOMAIN queue.row : queue'.row[i] = IF i = k THEN r ELSE queue.row[i]
         /\ \A i \in DOMAIN queue.row : {"status", "inFlight"} \subseteq DOMAIN queue'.row[i]
<1>1. PICK rows : rows = [queue.row EXCEPT ![k] = r]
  OBVIOUS
<1>2. /\ DOMAIN rows = DOMAIN queue.row
      /\ \A i \in DOMAIN queue.row : rows[i] = IF i = k THEN r ELSE queue.row[i]
  BY <1>1
<1>3. queue' = [queue EXCEPT !.row = rows]
  BY <1>1 DEF Queue!WithRow
<1>4. queue' = [order |-> queue.order, row |-> rows, cur |-> queue.cur]
  BY <1>3 DEF Shapes
<1> QED
  BY <1>2, <1>4 DEF Shapes

\* a row changes with the user's part: done with it, or not
LEMMA RowStep ==
  ASSUME OfferInv, NEW k \in DOMAIN queue.row, NEW r, queue' = Queue!WithRow(k, r), {"status", "inFlight"} \subseteq DOMAIN r,
         tuiCh' \in Seq(ToSet(tuiCh')), Pages' \subseteq Pages, UNCHANGED <<hub, pull, latest, odd, seen>>,
         \/ Queue!Past(r.status) /\ handled' = handled \cup {k} /\ late' = late \ {k}
         \/ handled' = handled /\ late' = late \cup {k}
         \/ r.status = queue.row[k].status /\ handled' = handled /\ late' = late
  PROVE  OfferInv'
<1>1. /\ queue' = [order |-> queue'.order, row |-> queue'.row, cur |-> queue'.cur]
      /\ queue'.order = queue.order /\ DOMAIN queue'.row = DOMAIN queue.row
      /\ \A i \in DOMAIN queue.row : queue'.row[i] = IF i = k THEN r ELSE queue.row[i]
      /\ \A i \in DOMAIN queue.row : {"status", "inFlight"} \subseteq DOMAIN queue'.row[i]
  BY RowSet DEF OfferInv
<1>2. Shapes'
  BY <1>1 DEF OfferInv, Shapes
<1>3. Pulled'
  BY PulledStill DEF OfferInv
<1>4. \A i \in handled' \cap DOMAIN queue.row :
        \/ Queue!Past(queue'.row[i].status) \/ i \in late'
        \/ i \in handled /\ queue'.row[i].status = queue.row[i].status /\ (i \in late => i \in late')
  BY <1>1
<1>5. InOrder' /\ Reviewed'
  BY <1>1, <1>4, NoPage DEF OfferInv
<1> QED
  BY <1>2, <1>3, <1>5 DEF OfferInv

\* the cursor is on a row that is held
LEMMA OnARow == ASSUME Shapes, Queue!Cursor # Queue!NoRow PROVE Queue!Cursor \in DOMAIN queue.row
  BY DEF Shapes, Queue!Cursor, ToSet

LEMMA ReceiveStep == ASSUME OfferInv, Queue!Receive PROVE OfferInv'
<1>1. PICK e : e = Head(tuiCh)
  OBVIOUS
<1>2. /\ tuiCh # <<>> /\ tuiCh' = Tail(tuiCh)
      /\ UNCHANGED <<hub, pull, latest, handled>>
      /\ \/ e.kind = "page" /\ Queue!OnPage(e)
         \/ e.kind = "briefing" /\ Queue!OnBriefing(e.who)
         \/ e.kind = "error" /\ Queue!OnRowError(e)
  BY <1>1 DEF Queue!Receive, Queue!pullVars
<1>3. /\ tuiCh' \in Seq(ToSet(tuiCh')) /\ e \in ToSet(tuiCh) /\ ToSet(tuiCh) = ToSet(tuiCh') \cup {e}
  <2>1. PICK s : s = tuiCh
    OBVIOUS
  <2>2. s \in Seq(ToSet(s)) /\ s # <<>>
    BY <1>2, <2>1 DEF OfferInv, Shapes
  <2>3. Tail(s) \in Seq(ToSet(Tail(s))) /\ Head(s) \in ToSet(s) /\ ToSet(s) = ToSet(Tail(s)) \cup {Head(s)}
    BY <2>2, Behead
  <2> QED
    BY <2>1, <2>3, <1>1, <1>2
<1>4. Pages' \subseteq Pages
  BY <1>2, <1>3 DEF Pages
<1>5. CASE e.kind = "page" /\ Queue!OnPage(e)
  <2>1. e \in Pages
    BY <1>3, <1>5 DEF Pages
  <2> QED
    BY <1>2, <1>3, <1>4, <1>5, <2>1, PageStep DEF Queue!OnPage
<1>6. ASSUME UNCHANGED <<queue, odd, seen>>, late' = late \/ late' = late \cup {e.who} PROVE OfferInv'
  <2>1. Shapes'
    BY <1>2, <1>3, <1>4, <1>6 DEF OfferInv, Shapes
  <2>2. Pulled'
    BY <1>2, PulledStill DEF OfferInv
  <2>3. InOrder' /\ Reviewed'
    BY <1>2, <1>4, <1>6, NoPage DEF OfferInv, Reviewed
  <2> QED
    BY <2>1, <2>2, <2>3 DEF OfferInv
<1>7. CASE Queue!OnBriefing(e.who)
  <2>1. UNCHANGED <<odd, seen>> /\ late' = late \cup {e.who}
    BY <1>7 DEF Queue!OnBriefing
  <2>2. CASE e.who \in DOMAIN queue.row
    <3>1. PICK r : r = [status |-> "briefing", briefing |-> TRUE, inFlight |-> FALSE]
      OBVIOUS
    <3>2. {"status", "inFlight"} \subseteq DOMAIN r
      BY <3>1
    <3>3. queue' = Queue!WithRow(e.who, r)
      BY <1>7, <2>2, <3>1 DEF Queue!OnBriefing, Queue!Held
    <3> QED
      BY <1>2, <1>3, <1>4, <2>1, <2>2, <3>2, <3>3, RowStep
  <2>3. CASE e.who \notin DOMAIN queue.row
    BY <1>7, <2>1, <2>3, <1>6 DEF Queue!OnBriefing, Queue!Held
  <2> QED
    BY <2>2, <2>3
<1>8. CASE Queue!OnRowError(e)
  <2>1. UNCHANGED <<odd, seen, late>>
    BY <1>8 DEF Queue!OnRowError
  <2>2. CASE e.who \in DOMAIN queue.row
    <3>1. PICK r : r = [queue.row[e.who] EXCEPT !.inFlight = FALSE]
      OBVIOUS
    <3>2. {"status", "inFlight"} \subseteq DOMAIN r /\ r.status = queue.row[e.who].status
      BY <2>2, <3>1 DEF OfferInv, Shapes
    <3>3. queue' = Queue!WithRow(e.who, r)
      BY <1>8, <2>2, <3>1 DEF Queue!OnRowError, Queue!Held
    <3> QED
      BY <1>2, <1>3, <1>4, <2>1, <2>2, <3>2, <3>3, RowStep
  <2>3. CASE e.who \notin DOMAIN queue.row
    BY <1>8, <2>1, <2>3, <1>6 DEF Queue!OnRowError, Queue!Held
  <2> QED
    BY <2>2, <2>3
<1> QED
  BY <1>2, <1>5, <1>7, <1>8

LEMMA OfferKeys == ASSUME OfferInv, Queue!Keys PROVE OfferInv'
<1> DEFINE c == Queue!Cursor
<1>1. CASE Queue!OpenQueue
  <2>1. /\ UNCHANGED <<hub, pull, handled, late, tuiCh, latest>>
        /\ IF latest.n > 0 THEN queue' = Queue!OnQueue(latest.page) /\ Queue!Odd(latest) ELSE UNCHANGED <<queue, odd, seen>>
    BY <1>1 DEF Queue!OpenQueue, Queue!busVars, Queue!ToApp
  <2>2. CASE latest.n > 0
    <3>1. PICK p : p = latest
      OBVIOUS
    <3>2. p \in Pages /\ Pages' = Pages
      BY <2>1, <2>2, <3>1 DEF Pages
    <3>3. queue' = Queue!OnQueue(p.page) /\ Queue!Odd(p)
      BY <2>1, <2>2, <3>1
    <3>4. tuiCh' \in Seq(ToSet(tuiCh'))
      BY <2>1 DEF OfferInv, Shapes
    <3> QED
      BY <2>1, <3>2, <3>3, <3>4, PageStep
  <2>3. CASE ~(latest.n > 0)
    BY <2>1, <2>3, OfferStill DEF offerCore
  <2> QED
    BY <2>2, <2>3
<1>2. CASE Queue!Close \/ Queue!Draft
  BY <1>2, OfferStill DEF offerCore, Queue!Close, Queue!Draft, Queue!busVars, Queue!pullVars, Queue!history
<1>3. CASE Queue!Move
  <2>1. PICK n : queue' = [queue EXCEPT !.cur = n]
    BY <1>3 DEF Queue!Move
  <2>2. UNCHANGED <<hub, pull, tuiCh, latest, handled, late, odd, seen>>
    BY <1>3 DEF Queue!Move, Queue!busVars, Queue!pullVars, Queue!history
  <2>3. /\ queue' = [order |-> queue'.order, row |-> queue'.row, cur |-> queue'.cur]
        /\ queue'.order = queue.order /\ queue'.row = queue.row
    BY <2>1 DEF OfferInv, Shapes
  <2>4. Pages' = Pages
    BY <2>2 DEF Pages
  <2>5. Shapes'
    BY <2>2, <2>3, <2>4 DEF OfferInv, Shapes
  <2>6. Pulled'
    BY <2>2, PulledStill DEF OfferInv
  <2>7. InOrder' /\ Reviewed'
    BY <2>2, <2>3, <2>4, NoPage DEF OfferInv, Reviewed
  <2> QED
    BY <2>5, <2>6, <2>7 DEF OfferInv
<1>4. ASSUME UNCHANGED <<tuiCh, latest>>
      PROVE  Pages' \subseteq Pages /\ tuiCh' \in Seq(ToSet(tuiCh'))
  BY <1>4 DEF OfferInv, Shapes, Pages
<1>5. CASE Queue!Analyze
  <2>1. /\ UNCHANGED <<hub, pull, tuiCh, latest, handled, late, odd, seen>>
        /\ c # Queue!NoRow /\ queue' = Queue!WithRow(c, [queue.row[c] EXCEPT !.inFlight = TRUE])
    BY <1>5 DEF Queue!Analyze, Queue!busVars, Queue!pullVars, Queue!history
  <2>2. PICK k, r : k = c /\ r = [queue.row[c] EXCEPT !.inFlight = TRUE]
    OBVIOUS
  <2>3. k \in DOMAIN queue.row
    BY <2>1, <2>2, OnARow DEF OfferInv
  <2>4. {"status", "inFlight"} \subseteq DOMAIN r /\ r.status = queue.row[k].status
    BY <2>2, <2>3 DEF OfferInv, Shapes
  <2>5. queue' = Queue!WithRow(k, r)
    BY <2>1, <2>2
  <2> QED
    BY <2>1, <2>3, <2>4, <2>5, <1>4, RowStep
<1>6. CASE Queue!Dismiss
  <2>1. /\ UNCHANGED <<hub, pull, tuiCh, latest, odd, seen>>
        /\ c # Queue!NoRow /\ queue' = Queue!WithRow(c, [queue.row[c] EXCEPT !.status = "dismissed"])
        /\ handled' = handled \cup {c} /\ late' = late \ {c}
    BY <1>6 DEF Queue!Dismiss, Queue!busVars, Queue!pullVars
  <2>2. PICK k, r : k = c /\ r = [queue.row[c] EXCEPT !.status = "dismissed"]
    OBVIOUS
  <2>3. k \in DOMAIN queue.row
    BY <2>1, <2>2, OnARow DEF OfferInv
  <2>4. {"status", "inFlight"} \subseteq DOMAIN r /\ Queue!Past(r.status)
    BY <2>2, <2>3 DEF OfferInv, Shapes, Queue!Past
  <2>5. queue' = Queue!WithRow(k, r) /\ handled' = handled \cup {k} /\ late' = late \ {k}
    BY <2>1, <2>2
  <2> QED
    BY <2>1, <2>3, <2>4, <2>5, <1>4, RowStep
<1>7. CASE Queue!Prompt
  <2>1. UNCHANGED <<hub, pull, tuiCh, latest, odd, seen>>
    BY <1>7 DEF Queue!Prompt, Queue!busVars, Queue!pullVars
  <2>2. CASE sel \notin DOMAIN queue.row
    <3>1. UNCHANGED <<queue, handled, late>>
      BY <1>7, <2>2 DEF Queue!Prompt, Queue!Held
    <3> QED
      BY <2>1, <3>1, OfferStill DEF offerCore
  <2>3. CASE sel \in DOMAIN queue.row
    <3>1. /\ queue' = Queue!WithRow(sel, [queue.row[sel] EXCEPT !.status = "drafted"])
          /\ handled' = handled \cup {sel} /\ late' = late \ {sel}
      BY <1>7, <2>3 DEF Queue!Prompt, Queue!Held
    <3>2. PICK k, r : k = sel /\ r = [queue.row[sel] EXCEPT !.status = "drafted"]
      OBVIOUS
    <3>3. k \in DOMAIN queue.row
      BY <2>3, <3>2
    <3>4. {"status", "inFlight"} \subseteq DOMAIN r /\ Queue!Past(r.status)
      BY <3>2, <3>3 DEF OfferInv, Shapes, Queue!Past
    <3>5. queue' = Queue!WithRow(k, r) /\ handled' = handled \cup {k} /\ late' = late \ {k}
      BY <3>1, <3>2
    <3> QED
      BY <2>1, <3>3, <3>4, <3>5, <1>4, RowStep
  <2> QED
    BY <2>2, <2>3
<1> QED
  BY <1>1, <1>2, <1>3, <1>5, <1>6, <1>7 DEF Queue!Keys

-----------------------------------------------------------------------------
(* The listing.                                                            *)

LEMMA Lesser ==
  ASSUME NEW a \in Nat, NEW b \in Nat
  PROVE  Queue!Min({a, b}) = IF a <= b THEN a ELSE b
<1> DEFINE m == IF a <= b THEN a ELSE b
<1>1. m \in {a, b} /\ m \in Nat /\ \A y \in {a, b} : m <= y
  OBVIOUS
<1>2. \A x \in {a, b} : (\A y \in {a, b} : x <= y) => x = m
  OBVIOUS
<1> HIDE DEF m
<1>3. Queue!Min({a, b}) = CHOOSE x \in {a, b} : \A y \in {a, b} : x <= y
  BY Zenon DEF Queue!Min
<1>4. Queue!Min({a, b}) = m
  BY <1>1, <1>2, <1>3
<1> QED
  BY <1>4 DEF m

\* what a request lists: the next places, as many as there are
LEMMA Request ==
  ASSUME ServicesAssumption, Shapes, Pulled, pull.on
  PROVE  LET got == pull.got \o SubSeq(Queue!Unmarked, pull.after + 1, Queue!Min({pull.after + PageSize, Len(Queue!Unmarked)}))
         IN  /\ Len(Queue!Unmarked) \in Nat /\ got \in Seq(ToSet(got))
             /\ ~pull.torn /\ pull.after + PageSize < Len(Queue!Unmarked) =>
                  ToSet(got) = {Queue!Unmarked[i] : i \in 1..(pull.after + PageSize)}
             /\ ~pull.torn /\ ~(pull.after + PageSize < Len(Queue!Unmarked)) =>
                  ToSet(got) = hub.has \ hub.marked
<1> DEFINE S == hub.has \ hub.marked
           u == Queue!Unmarked
           a == pull.after
           g == pull.got
           n == Len(u)
           m == Queue!Min({a + PageSize, n})
           t == SubSeq(u, a + 1, m)
           got == g \o t
<1>1. u \in Seq(S) /\ ToSet(u) = S
  <2>1. S \in SUBSET Int /\ IsFiniteSet(S)
    BY FS_Subset DEF Shapes
  <2> QED
    BY <2>1, UnmarkedHolds
<1>2. n \in Nat /\ n = Len(u) /\ DOMAIN u = 1..n
  BY <1>1, LenProperties
<1>3. a \in Nat /\ g \in Seq(ToSet(g)) /\ PageSize \in Nat
  BY DEF Pulled, ServicesAssumption
<1>4. ~pull.torn => a <= n /\ ToSet(g) = {u[i] : i \in 1..a}
  BY DEF Pulled
<1>5. m = IF a + PageSize <= n THEN a + PageSize ELSE n
  <2>1. a + PageSize \in Nat
    BY <1>3
  <2> HIDE DEF u
  <2> QED
    BY <2>1, <1>2, Lesser
<1> HIDE DEF S, u, a, g, n, m
<1>6. m \in Nat /\ m <= n /\ (a <= n => a <= m)
  BY <1>2, <1>3, <1>5
<1>7. t \in Seq(S) /\ (a <= m => ToSet(t) = {u[i] : i \in (a + 1)..m})
  <2>1. PICK x, lo, hi, D : x = u /\ lo = a /\ hi = m /\ D = S
    OBVIOUS
  <2>2. x \in Seq(D) /\ lo \in Nat /\ hi \in Nat /\ hi <= Len(x)
    BY <2>1, <1>1, <1>2, <1>3, <1>6
  <2>3. CASE lo <= hi
    <3>1. SubSeq(x, lo + 1, hi) \in Seq(D) /\ ToSet(SubSeq(x, lo + 1, hi)) = {x[i] : i \in (lo + 1)..hi}
      BY <2>2, <2>3, Stretch
    <3> QED
      BY <2>1, <3>1
  <2>4. CASE ~(lo <= hi)
    <3>1. lo + 1 \in Int /\ hi \in Int /\ hi < lo + 1
      BY <2>2, <2>4
    <3>2. SubSeq(x, lo + 1, hi) = <<>> /\ <<>> \in Seq(D)
      BY <3>1, SubSeqEmpty
    <3> QED
      BY <2>1, <2>4, <3>2
  <2> QED
    BY <2>3, <2>4
<1> HIDE DEF t
<1>8. got \in Seq(ToSet(got)) /\ ToSet(got) = ToSet(g) \cup ToSet(t)
  <2>1. PICK x, y, D, E : x = g /\ y = t /\ D = ToSet(g) \cup S /\ E = ToSet(g)
    OBVIOUS
  <2>2. x \in Seq(D) /\ y \in Seq(D)
    BY <2>1, <1>3, <1>7, SeqMonotonic
  <2>3. x \o y \in Seq(D) /\ ToSet(x \o y) = ToSet(x) \cup ToSet(y)
    BY <2>2, Joined
  <2>4. x \o y \in Seq(ToSet(x \o y))
    BY <2>3, Spans
  <2> QED
    BY <2>1, <2>3, <2>4
<1> HIDE DEF got
<1>9. ASSUME ~pull.torn PROVE ToSet(got) = {u[i] : i \in 1..m}
  <2>1. \A i : i \in 1..m <=> i \in 1..a \/ i \in (a + 1)..m
    BY <1>3, <1>4, <1>6, <1>9
  <2> QED
    BY <2>1, <1>4, <1>6, <1>7, <1>8, <1>9
<1>10. ASSUME ~pull.torn, a + PageSize < n PROVE ToSet(got) = {u[i] : i \in 1..(a + PageSize)}
  <2>1. m = a + PageSize
    BY <1>2, <1>3, <1>5, <1>10
  <2> QED
    BY <2>1, <1>9, <1>10
<1>11. ASSUME ~pull.torn, ~(a + PageSize < n) PROVE ToSet(got) = S
  <2>1. m = n
    BY <1>2, <1>3, <1>5, <1>11
  <2> QED
    BY <2>1, <1>1, <1>2, <1>9, <1>11 DEF ToSet
<1> QED
  BY <1>2, <1>8, <1>10, <1>11 DEF S, u, a, g, n, m, t, got

LEMMA ListPageStep == ASSUME ServicesAssumption, OfferInv, Queue!ListPage PROVE OfferInv'
<1> DEFINE u == Queue!Unmarked
           g == pull.got \o SubSeq(u, pull.after + 1, Queue!Min({pull.after + PageSize, Len(u)}))
<1>1. /\ pull.on /\ UNCHANGED <<hub, queue, handled, late, odd, seen>>
      /\ IF pull.after + PageSize < Len(u)
         THEN pull' = [pull EXCEPT !.got = g, !.after = pull.after + PageSize] /\ UNCHANGED Queue!busVars
         ELSE /\ pull' = Queue!Idle /\ latest' = [kind |-> "page", page |-> g, n |-> pull.n, torn |-> pull.torn]
              /\ tuiCh' \in Queue!Into(tuiCh, [kind |-> "page", page |-> g, n |-> pull.n, torn |-> pull.torn])
  BY DEF Queue!ListPage, Queue!uiVars, Queue!history
<1>2. PICK got : got = g
  OBVIOUS
<1>3. /\ Len(u) \in Nat /\ got \in Seq(ToSet(got))
      /\ ~pull.torn /\ pull.after + PageSize < Len(u) => ToSet(got) = {u[i] : i \in 1..(pull.after + PageSize)}
      /\ ~pull.torn /\ ~(pull.after + PageSize < Len(u)) => ToSet(got) = hub.has \ hub.marked
  BY <1>1, <1>2, Request DEF OfferInv
<1>4. /\ pull = [on |-> TRUE, n |-> latest.n + 1, after |-> pull.after, got |-> pull.got, torn |-> pull.torn]
      /\ pull.after \in Nat /\ PageSize \in Nat
  BY <1>1 DEF OfferInv, Pulled, ServicesAssumption
<1>5. CASE pull.after + PageSize < Len(u)
  <2>1. PICK a : a = pull.after + PageSize
    OBVIOUS
  <2>2. PICK x, tn, n : x = pull /\ tn = pull.torn /\ n = latest.n + 1
    OBVIOUS
  <2>3. pull' = [x EXCEPT !.got = got, !.after = a]
    BY <1>1, <1>2, <1>5, <2>1, <2>2
  <2>4. /\ DOMAIN x = {"on", "n", "after", "got", "torn"} /\ x = [on |-> TRUE, n |-> n, after |-> x.after, got |-> x.got, torn |-> tn]
        /\ x.on = TRUE /\ x.n = n /\ x.torn = tn
    BY <1>4, <2>2
  <2>5. pull' = [on |-> TRUE, n |-> n, after |-> a, got |-> got, torn |-> tn]
    BY <2>3, <2>4
  <2>6. /\ UNCHANGED <<tuiCh, latest>> /\ a \in Nat /\ a <= Len(u)
    BY <1>1, <1>3, <1>4, <1>5, <2>1 DEF Queue!busVars
  <2>7. Pages' = Pages
    BY <2>6 DEF Pages
  <2>8. Shapes' /\ InOrder' /\ Reviewed'
    <3>1. Shapes'
      BY <1>1, <2>6, <2>7 DEF OfferInv, Shapes
    <3> QED
      BY <3>1, <1>1, <2>7, NoPage DEF OfferInv, Reviewed
  <2>9. Queue!Unmarked' = u
    BY <1>1, SameUnmarked
  <2>10. /\ pull'.on = TRUE /\ pull'.after = a /\ pull'.got = got /\ pull'.torn = tn /\ latest'.n + 1 = n
         /\ pull' = [on |-> TRUE, n |-> n, after |-> a, got |-> got, torn |-> tn]
    BY <2>2, <2>5, <2>6
  <2>11. ~tn => ToSet(got) = {u[i] : i \in 1..a}
    BY <1>3, <1>5, <2>1, <2>2
  <2> HIDE DEF u
  <2>12. Pulled'
    BY <1>3, <2>6, <2>9, <2>10, <2>11 DEF Pulled
  <2> QED
    BY <2>8, <2>12 DEF OfferInv
<1>6. CASE ~(pull.after + PageSize < Len(u))
  <2>1. PICK e : e = [kind |-> "page", page |-> got, n |-> pull.n, torn |-> pull.torn]
    OBVIOUS
  <2>2. e.kind = "page" /\ e.page = got /\ e.n = pull.n /\ e.torn = pull.torn
    BY <2>1
  <2>3. pull.n = latest.n + 1
    BY <1>4
  <2>4. pull' = Queue!Idle /\ latest' = e /\ tuiCh' \in Queue!Into(tuiCh, e)
    BY <1>1, <1>2, <1>6, <2>1
  <2> QED
    BY <1>1, <1>3, <1>6, <2>2, <2>3, <2>4, ListedStep DEF Whole
<1> QED
  BY <1>5, <1>6

LEMMA BeginPullStep == ASSUME OfferInv, Queue!BeginPull PROVE OfferInv'
<1>1. /\ UNCHANGED <<hub, tuiCh, latest, queue, handled, late, odd, seen>>
      /\ pull' = pull \/ pull' = [on |-> TRUE, n |-> latest.n + 1, after |-> 0, got |-> <<>>, torn |-> FALSE]
  BY DEF Queue!BeginPull, Queue!busVars, Queue!uiVars, Queue!history
<1>2. CASE pull' = pull
  BY <1>1, <1>2, OfferStill DEF offerCore
<1>3. CASE pull' = [on |-> TRUE, n |-> latest.n + 1, after |-> 0, got |-> <<>>, torn |-> FALSE]
  <2>1. Pages' = Pages
    BY <1>1 DEF Pages
  <2>2. Shapes'
    BY <1>1, <2>1 DEF OfferInv, Shapes
  <2>3. InOrder' /\ Reviewed'
    BY <1>1, <2>1, NoPage DEF OfferInv, Reviewed
  <2>4. Pulled'
    <3>1. PICK S : S = hub.has \ hub.marked
      OBVIOUS
    <3>2. S \in SUBSET Int /\ IsFiniteSet(S)
      BY <3>1, FS_Subset DEF OfferInv, Shapes
    <3>3. Queue!Unmarked \in Seq(S) /\ Len(Queue!Unmarked) \in Nat
      BY <3>1, <3>2, UnmarkedHolds, LenProperties
    <3>4. Queue!Unmarked' = Queue!Unmarked
      BY <1>1, SameUnmarked
    <3>5. <<>> \in Seq(ToSet(<<>>)) /\ ToSet(<<>>) = {} /\ 1..0 = {}
      BY DEF ToSet
    <3>6. pull'.on = TRUE /\ pull'.after = 0 /\ pull'.got = <<>> /\ pull'.torn = FALSE
      BY <1>3
    <3>7. 0 <= Len(Queue!Unmarked')
      BY <3>3, <3>4
    <3> QED
      BY <1>1, <1>3, <3>5, <3>6, <3>7 DEF Pulled
  <2> QED
    BY <2>2, <2>3, <2>4 DEF OfferInv
<1> QED
  BY <1>1, <1>2, <1>3

LEMMA PullFailsStep == ASSUME OfferInv, Queue!PullFails PROVE OfferInv'
<1>1. UNCHANGED <<hub, tuiCh, latest, queue, handled, late, odd, seen>> /\ pull' = Queue!Idle
  BY DEF Queue!PullFails, Queue!busVars, Queue!uiVars, Queue!history
<1>2. Pages' = Pages
  BY <1>1 DEF Pages
<1>3. Shapes'
  BY <1>1, <1>2 DEF OfferInv, Shapes
<1>4. InOrder' /\ Reviewed'
  BY <1>1, <1>2, NoPage DEF OfferInv, Reviewed
<1>5. Pulled'
  BY <1>1 DEF Pulled, Queue!Idle
<1> QED
  BY <1>3, <1>4, <1>5 DEF OfferInv

-----------------------------------------------------------------------------
(* Jobs, mails, and the CRM.                                               *)

LEMMA FailedStep ==
  ASSUME OfferInv, NEW kind, NEW k, Queue!Failed(kind, k),
         UNCHANGED <<hub, pull, queue, handled, late, odd, seen>>
  PROVE  OfferInv'
<1>1. PICK e : e = [kind |-> "error", who |-> k, of |-> kind]
  OBVIOUS
<1>2. e.kind # "page" /\ tuiCh' \in Queue!Into(tuiCh, e) /\ latest' = latest
  BY <1>1 DEF Queue!Failed, Queue!ToTui
<1> QED
  BY <1>2, EventStep

LEMMA OfferJobs ==
  ASSUME OfferInv, NEW j, Queue!Analyzed(j) \/ Queue!Marked(j) \/ Queue!Prompted(j)
  PROVE  OfferInv'
<1>1. CASE Queue!Analyzed(j)
  <2>1. UNCHANGED <<hub, pull, queue, handled, late, odd, seen>>
    BY <1>1 DEF Queue!Analyzed, Queue!Ends, Queue!pullVars, Queue!uiVars, Queue!history
  <2>2. CASE Queue!Failed("analyze", j.who)
    BY <2>1, <2>2, FailedStep
  <2>3. CASE tuiCh' \in Queue!Into(tuiCh, [kind |-> "briefing", who |-> j.who]) /\ latest' = latest
    <3>1. PICK e : e = [kind |-> "briefing", who |-> j.who]
      OBVIOUS
    <3>2. e.kind # "page" /\ tuiCh' \in Queue!Into(tuiCh, e)
      BY <2>3, <3>1
    <3> QED
      BY <2>1, <2>3, <3>2, EventStep
  <2> QED
    BY <1>1, <2>2, <2>3 DEF Queue!Analyzed
<1>2. CASE Queue!Marked(j)
  <2>1. UNCHANGED <<queue, handled, late, odd, seen>>
    BY <1>2 DEF Queue!Marked, Queue!uiVars
  <2>2. CASE Queue!Failed("mark", j.who) /\ UNCHANGED <<hub, pull>>
    BY <2>1, <2>2, FailedStep
  <2>3. CASE hub' = [hub EXCEPT !.marked = @ \cup {j.who}] /\ Queue!Torn /\ UNCHANGED Queue!busVars
    <3>1. /\ hub' = [has |-> hub'.has, marked |-> hub'.marked]
          /\ hub'.has = hub.has /\ hub'.marked = hub.marked \cup {j.who}
      BY <2>3 DEF OfferInv, Shapes
    <3>2. UNCHANGED <<tuiCh, latest>> /\ IsFiniteSet(hub'.has) /\ hub'.has \subseteq Int
      BY <2>3, <3>1 DEF OfferInv, Shapes, Queue!busVars
    <3> QED
      BY <2>1, <2>3, <3>1, <3>2, HubStep
  <2> QED
    BY <1>2, <2>2, <2>3 DEF Queue!Marked
<1>3. CASE Queue!Prompted(j)
  <2>1. UNCHANGED <<hub, pull, queue, handled, late, odd, seen>>
    BY <1>3 DEF Queue!Prompted, Queue!Ends, Queue!pullVars, Queue!uiVars, Queue!history
  <2>2. CASE Queue!Failed("prompt", j.who)
    BY <2>1, <2>2, FailedStep
  <2>3. CASE UNCHANGED Queue!busVars
    BY <2>1, <2>3, OfferStill DEF offerCore, Queue!busVars
  <2> QED
    BY <1>3, <2>2, <2>3 DEF Queue!Prompted
<1> QED
  BY <1>1, <1>2, <1>3

LEMMA OfferMails == ASSUME OfferInv, NEW d, Queue!Send(d) \/ Queue!Leave(d) PROVE OfferInv'
  BY OfferStill DEF offerCore, Queue!Send, Queue!Leave, Queue!ToApp, Queue!pullVars, Queue!busVars, Queue!uiVars

LEMMA OfferScan == ASSUME ServicesAssumption, OfferInv, NEW k \in Contacts, Queue!Scan(k) PROVE OfferInv'
<1>1. /\ hub' = [hub EXCEPT !.has = @ \cup {k}] /\ Queue!Torn
      /\ UNCHANGED <<tuiCh, latest, queue, handled, late, odd, seen>>
  BY DEF Queue!Scan, Queue!busVars, Queue!uiVars, Queue!history
<1>2. /\ hub' = [has |-> hub'.has, marked |-> hub'.marked]
      /\ hub'.has = hub.has \cup {k} /\ hub'.marked = hub.marked
  BY <1>1 DEF OfferInv, Shapes
<1>3. IsFiniteSet(hub.has) /\ hub.has \subseteq Int /\ k \in Int
  BY DEF OfferInv, Shapes, ServicesAssumption
<1>4. IsFiniteSet(hub'.has) /\ hub'.has \subseteq Int
  <2>1. PICK H : H = hub.has
    OBVIOUS
  <2>2. IsFiniteSet(H \cup {k}) /\ H \cup {k} \subseteq Int
    BY <1>3, <2>1, FS_AddElement
  <2> QED
    BY <1>2, <2>1, <2>2
<1> QED
  BY <1>1, <1>2, <1>4, HubStep

LEMMA OfferNext == ServicesAssumption /\ OfferInv /\ [Queue!Next]_(Queue!vars) => OfferInv'
<1> SUFFICES ASSUME ServicesAssumption, OfferInv, [Queue!Next]_(Queue!vars) PROVE OfferInv'
  OBVIOUS
<1>1. CASE UNCHANGED Queue!vars
  BY <1>1, OfferStill DEF offerCore, Queue!vars, Queue!pullVars, Queue!busVars, Queue!uiVars, Queue!history
<1>2. CASE Queue!App
  <2>1. CASE Queue!Observe
    BY <2>1, OfferStill DEF offerCore, Queue!Observe, Queue!uiVars, Queue!history
  <2> QED
    BY <1>2, <2>1, BeginPullStep, ListPageStep, PullFailsStep DEF Queue!App
<1>3. ASSUME NEW j, Queue!Analyzed(j) \/ Queue!Marked(j) \/ Queue!Prompted(j) PROVE OfferInv'
  BY <1>3, OfferJobs
<1>4. ASSUME NEW d, Queue!Send(d) \/ Queue!Leave(d) PROVE OfferInv'
  BY <1>4, OfferMails
<1>5. ASSUME NEW k \in Contacts, Queue!Scan(k) PROVE OfferInv'
  BY <1>5, OfferScan
<1> QED
  BY <1>1, <1>2, <1>3, <1>4, <1>5, OfferKeys, ReceiveStep DEF Queue!Next

\* onQueue (src/tui/crm.go): a page is "the authoritative newest-first unprocessed
\* set", a held row keeps its status, and "past-queue absent rows leave".  So a contact
\* that was dismissed or drafted is never offered as new again, whatever pages, failures
\* and lost events come, while pages come in their order and the CRM does not change
\* under a listing.
THEOREM SpecNotOfferedAgain == Queue!Spec => []NotOfferedAgain
<1>1. Queue!Spec => []OfferInv
  BY ServicesAssumption, OfferInit, OfferNext, PTL DEF Queue!Spec
<1>2. OfferInv => NotOfferedAgain
  BY DEF OfferInv, Reviewed, NotOfferedAgain, Queue!NotOfferedAgain
<1> QED
  BY <1>1, <1>2, PTL

-----------------------------------------------------------------------------
(* The live configuration (Config): what the watcher took for loaded is     *)
(* what the store is made of, unless a file has a newer stamp since.        *)

cfgFiles == Settings!Files

(* A fingerprint of files that were there; the directory still has them.   *)
EarlierOf(f, p) == f \in DOMAIN p /\ p[f] \in Nat /\ p[f] <= stamp[f] /\ (p[f] = stamp[f] => dir[f] # Settings!Absent)
Earlier(p) == DOMAIN p \subseteq Settings!Names /\ \A f \in DOMAIN p : EarlierOf(f, p)
Same(p) == \A f \in DOMAIN p : stamp[f] = p[f]
Places(p) == {i \in DOMAIN cfgFiles : cfgFiles[i] \in DOMAIN p}

CfgTypes ==
  /\ dir = [f \in Settings!Names |-> dir[f]]
  /\ stamp \in [Settings!Names -> Nat] /\ edits \in Nat /\ \A f \in Settings!Names : stamp[f] <= edits
  /\ ch \in Seq({"ui", "view", "other"}) /\ Len(ch) <= Room
  /\ pc \in {"boot", "idle", "probe", "decode"}
  /\ store = [cfg |-> Settings!Build(store.from), from |-> store.from, active |-> store.active]
  /\ store.active \in DOMAIN store.cfg.views

Loaded ==
  /\ pc = "boot" /\ ~missed => store.from = Settings!Read(dir)
  /\ pc # "boot" /\ ~missed /\ Same(last) => store.from = Settings!ReadOf(dir, Places(last))

(* The load reads the files in order, and each of them as it stands.       *)
Loading ==
  pc \in {"probe", "decode"} =>
    /\ todo \subseteq Places(next) /\ (pc = "decode" => todo # {})
    /\ \A i \in Places(next) \ todo, j \in todo : i < j
    /\ Same(next) => merged = Settings!ReadOf(dir, Places(next) \ todo)

Obeyed == ~missed => shown = Settings!Bindings(store.cfg) \/ "ui" \in ToSet(ch)

CfgInv == CfgTypes /\ Earlier(last) /\ Earlier(next) /\ Loaded /\ Loading /\ Obeyed

LEMMA MergeIs ==
  ASSUME NEW a, NEW b
  PROVE  /\ DOMAIN Settings!Merge(a, b) = DOMAIN a \cup DOMAIN b
         /\ \A x \in DOMAIN b : Settings!Merge(a, b)[x] = b[x]
         /\ \A x \in DOMAIN a \ DOMAIN b : Settings!Merge(a, b)[x] = a[x]
  BY DEF Settings!Merge

\* files that are the same give the same settings
LEMMA ReadSame ==
  ASSUME NEW d, NEW e, NEW n \in Nat, NEW some \in SUBSET (1..n), \A i \in some : d[cfgFiles[i]] = e[cfgFiles[i]]
  PROVE  Settings!ReadOf(d, some) = Settings!ReadOf(e, some)
<1> DEFINE D(x) == UNION {DOMAIN x[cfgFiles[i]] : i \in some}
           T(x, s) == {i \in some : s \in DOMAIN x[cfgFiles[i]]}
<1>1. D(d) = D(e) /\ \A s : T(d, s) = T(e, s)
  OBVIOUS
<1>2. \A s : s \in D(d) <=> \E i \in some : i \in T(d, s)
  OBVIOUS
<1>3. \A x : Settings!ReadOf(x, some) = [s \in D(x) |-> x[cfgFiles[Settings!Max(T(x, s))]][s]]
  BY DEF Settings!ReadOf, cfgFiles
<1>4. \A s \in D(d) : Settings!Max(T(d, s)) \in some
  <2> SUFFICES ASSUME NEW s \in D(d) PROVE Settings!Max(T(d, s)) \in some
    OBVIOUS
  <2>1. T(d, s) \in SUBSET (1..n) /\ T(d, s) \subseteq some /\ T(d, s) # {}
    BY <1>2
  <2>2. Settings!Max(T(d, s)) = Max(T(d, s))
    BY DEF Settings!Max, Max
  <2> HIDE DEF T
  <2> QED
    BY <2>1, <2>2, Greatest
<1>5. ASSUME NEW s \in D(d)
      PROVE  d[cfgFiles[Settings!Max(T(d, s))]][s] = e[cfgFiles[Settings!Max(T(e, s))]][s]
  <2>1. PICK i \in some : i = Settings!Max(T(d, s))
    BY <1>4
  <2> QED
    BY <2>1, <1>1
<1> HIDE DEF D, T
<1> QED
  BY <1>1, <1>3, <1>5

LEMMA Topmost ==
  ASSUME NEW S \in SUBSET Nat, NEW m \in S, \A i \in S : i <= m
  PROVE  Settings!Max(S) = m
<1>1. m \in Nat /\ \A y \in S : m >= y
  BY SMT
<1>2. \A x \in S : (\A y \in S : x >= y) => x = m
  <2> SUFFICES ASSUME NEW x \in S, \A y \in S : x >= y PROVE x = m
    OBVIOUS
  <2>1. x \in Nat /\ x >= m /\ x <= m
    OBVIOUS
  <2> QED
    BY <1>1, <2>1
<1>3. Settings!Max(S) = CHOOSE x \in S : \A y \in S : x >= y
  BY Zenon DEF Settings!Max
<1> QED
  BY <1>1, <1>2, <1>3

\* the last file's settings go over those of the files before it
LEMMA ReadNext ==
  ASSUME NEW d, NEW some \in SUBSET Nat, NEW m \in Nat, \A i \in some : i < m
  PROVE  Settings!ReadOf(d, some \cup {m}) = Settings!Merge(Settings!ReadOf(d, some), d[cfgFiles[m]])
<1> DEFINE T(s) == {i \in some : s \in DOMAIN d[cfgFiles[i]]}
           U(s) == {i \in some \cup {m} : s \in DOMAIN d[cfgFiles[i]]}
           D == UNION {DOMAIN d[cfgFiles[i]] : i \in some}
           E == UNION {DOMAIN d[cfgFiles[i]] : i \in some \cup {m}}
           new == d[cfgFiles[m]]
           a == Settings!ReadOf(d, some)
           b == Settings!ReadOf(d, some \cup {m})
           c == Settings!Merge(a, new)
<1>1. a = [s \in D |-> d[cfgFiles[Settings!Max(T(s))]][s]] /\ b = [s \in E |-> d[cfgFiles[Settings!Max(U(s))]][s]]
  BY DEF Settings!ReadOf, cfgFiles
<1>2. E = D \cup DOMAIN new
  OBVIOUS
<1>3. c = [x \in DOMAIN a \cup DOMAIN new |-> IF x \in DOMAIN new THEN new[x] ELSE a[x]]
  BY DEF Settings!Merge
<1>4. ASSUME NEW s \in E PROVE b[s] = IF s \in DOMAIN new THEN new[s] ELSE a[s]
  <2>1. CASE s \in DOMAIN new
    <3>1. m \in U(s) /\ \A i \in U(s) : i \in Nat /\ i <= m
      <4>1. \A i \in some \cup {m} : i \in Nat /\ i <= m
        BY SMT
      <4> QED
        BY <2>1, <4>1
    <3>2. Settings!Max(U(s)) = m
      <4>1. U(s) \in SUBSET Nat
        BY <3>1
      <4> HIDE DEF U
      <4> QED
        BY <3>1, <4>1, Topmost
    <3> QED
      BY <2>1, <3>2, <1>1
  <2>2. CASE s \notin DOMAIN new
    <3>1. U(s) = T(s) /\ s \in D
      BY <2>2, <1>2
    <3> QED
      BY <2>2, <3>1, <1>1
  <2> QED
    BY <2>1, <2>2
<1> QED
  BY <1>1, <1>2, <1>3, <1>4

\* the least place of those that are left
LEMMA Least ==
  ASSUME NEW S \in SUBSET Nat, S # {}
  PROVE  Settings!Min(S) \in S /\ \A i \in S : Settings!Min(S) <= i
<1> DEFINE R == {ss \in Nat \X Nat : ss[1] < ss[2]}
<1>1. IsWellFoundedOn(R, Nat)
  BY NatLessThanWellFounded, Zenon DEF OpToRel
<1>2. PICK x \in S : \A y \in S : ~(<<y, x>> \in R)
  <2> HIDE DEF R
  <2> QED
    BY <1>1, WFMin
<1>3. ASSUME NEW y \in S PROVE x <= y
  <2>1. y \in Nat /\ x \in Nat
    OBVIOUS
  <2>2. ~(y < x)
    BY <2>1, <1>2, Zenon
  <2> QED
    BY <2>1, <2>2, SMT
<1> QED
  BY <1>3, Zenon DEF Settings!Min

LEMMA FilesIs == \E n \in Nat : DOMAIN cfgFiles = 1..n /\ \A p : Places(p) \in SUBSET (1..n) /\ Places(p) \subseteq Nat
<1>1. PICK S : S = Settings!Names \cup {"config.toml"}
  OBVIOUS
<1>2. cfgFiles \in Seq(S)
  <2>1. Splits \in Seq(Settings!Names) /\ Settings!Names \subseteq S /\ "config.toml" \in S
    BY <1>1, ServicesAssumption
  <2>2. Splits \in Seq(S)
    BY <2>1, SeqMonotonic
  <2>3. Append(Splits, "config.toml") \in Seq(S)
    BY <2>1, <2>2, AppendProperties
  <2> QED
    BY <2>3 DEF cfgFiles, Settings!Files
<1>3. Len(cfgFiles) \in Nat /\ DOMAIN cfgFiles = 1..Len(cfgFiles)
  BY <1>2, LenProperties
<1>4. \A p : Places(p) \in SUBSET (1..Len(cfgFiles)) /\ Places(p) \subseteq Nat
  <2>1. 1..Len(cfgFiles) \subseteq Nat
    BY SMT
  <2> QED
    BY <1>3, <2>1 DEF Places
<1> QED
  BY <1>3, <1>4

LEMMA NamesIs == \A i \in DOMAIN cfgFiles : cfgFiles[i] \in Settings!Names
  BY DEF Settings!Names, Settings!ToSet, cfgFiles

-----------------------------------------------------------------------------
(* What a configuration is built to, from any settings.                    *)

\* what a derivation leaves alone
LEMMA Derived ==
  ASSUME NEW c, {"views", "index", "derived"} \subseteq DOMAIN c
  PROVE  LET stale == {k \in DOMAIN c.derived \cap DOMAIN c.index : c.index[k] = Settings!Goto(c.derived[k])}
             tags == {Settings!TagOf(c.accounts, a) : a \in DOMAIN c.accounts}
             d == Settings!Derive(c)
         IN \E new : /\ d.views = Settings!Merge([t \in tags |-> "tag"], c.views)
                     /\ d.index = Settings!Merge(new, Settings!Drop(c.index, stale))
                     /\ d.accounts = c.accounts
<1> DEFINE stale == {k \in DOMAIN c.derived \cap DOMAIN c.index : c.index[k] = Settings!Goto(c.derived[k])}
           tags == {Settings!TagOf(c.accounts, a) : a \in DOMAIN c.accounts}
           index == Settings!Drop(c.index, stale)
           order == Settings!Sorted(c.accounts)
           seq == [i \in DOMAIN order |-> Settings!TagOf(c.accounts, order[i])]
           free == {Settings!GotoKey(i) : i \in DOMAIN order} \ DOMAIN index
           mine == [k \in free |-> seq[CHOOSE i \in DOMAIN order : Settings!GotoKey(i) = k]]
           x == Settings!Merge([t \in tags |-> "tag"], c.views)
           new == [k \in DOMAIN mine |-> Settings!Goto(mine[k])]
           y == Settings!Merge(new, index)
<1>1. Settings!Derive(c) = [c EXCEPT !.views = x, !.index = y, !.derived = mine]
  BY Zenon DEF Settings!Derive
<1> HIDE DEF x, y, mine
<1>2. /\ Settings!Derive(c).views = x /\ Settings!Derive(c).index = y
      /\ Settings!Derive(c).accounts = c.accounts
  BY <1>1
<1> HIDE DEF new, stale
<1>3. x = Settings!Merge([t \in tags |-> "tag"], c.views) /\ y = Settings!Merge(new, Settings!Drop(c.index, stale))
  BY DEF x, y
<1> HIDE DEF tags
<1>4. \E n : /\ Settings!Derive(c).views = Settings!Merge([t \in tags |-> "tag"], c.views)
             /\ Settings!Derive(c).index = Settings!Merge(n, Settings!Drop(c.index, stale))
             /\ Settings!Derive(c).accounts = c.accounts
  BY <1>2, <1>3
<1> QED
  BY <1>4 DEF tags, stale

LEMMA Built ==
  ASSUME NEW settings
  PROVE  LET cfg == Settings!Build(settings)
             keys == Settings!Of("key", settings)
             views == Settings!Of("view", settings)
         IN /\ \A k \in DOMAIN keys :
                 \/ cfg.index[k] = keys[k]
                 \/ k \in DOMAIN Settings!Default.derived /\ keys[k] = Settings!Goto(Settings!Default.derived[k])
            /\ \A v \in DOMAIN views : cfg.views[v] = views[v]
            /\ "inbox" \in DOMAIN cfg.views
            /\ \A a \in DOMAIN cfg.accounts : Settings!TagOf(cfg.accounts, a) \in DOMAIN cfg.views
<1> DEFINE keys == Settings!Of("key", settings)
           views == Settings!Of("view", settings)
           base == Settings!Default
           plain == [keymap |-> IF <<"keymap", "">> \in DOMAIN settings THEN settings[<<"keymap", "">>] ELSE base.keymap,
                     accounts |-> Settings!Merge(base.accounts, Settings!Of("account", settings)),
                     views |-> Settings!Merge(base.views, views),
                     index |-> Settings!Merge(BaseKeys, IF DOMAIN keys = {} THEN base.index ELSE keys),
                     derived |-> base.derived]
           cfg == Settings!Derive(plain)
<1>1. Settings!Build(settings) = cfg
  BY DEF Settings!Build
<1>2. PICK w : w = plain
  OBVIOUS
<1>3. /\ w.accounts = Settings!Merge(base.accounts, Settings!Of("account", settings))
      /\ w.views = Settings!Merge(base.views, views)
      /\ w.index = Settings!Merge(BaseKeys, IF DOMAIN keys = {} THEN base.index ELSE keys)
      /\ w.derived = base.derived
      /\ DOMAIN w = {"keymap", "accounts", "views", "index", "derived"}
  BY <1>2
<1>4. "inbox" \in DOMAIN base.views
  BY DEF Settings!Default
<1> HIDE DEF plain, base, keys, views
<1> DEFINE stale == {k \in DOMAIN w.derived \cap DOMAIN w.index : w.index[k] = Settings!Goto(w.derived[k])}
           index == Settings!Drop(w.index, stale)
           tags == {Settings!TagOf(w.accounts, a) : a \in DOMAIN w.accounts}
<1>5. PICK new : /\ cfg.views = Settings!Merge([t \in tags |-> "tag"], w.views)
                 /\ cfg.index = Settings!Merge(new, index)
                 /\ cfg.accounts = w.accounts
  <2>1. {"views", "index", "derived"} \subseteq DOMAIN w
    BY <1>3
  <2>2. cfg = Settings!Derive(w)
    BY <1>2
  <2> HIDE DEF index, cfg, stale, tags
  <2>3. \E new : /\ Settings!Derive(w).views = Settings!Merge([t \in tags |-> "tag"], w.views)
                 /\ Settings!Derive(w).index = Settings!Merge(new, Settings!Drop(w.index, stale))
                 /\ Settings!Derive(w).accounts = w.accounts
    BY <2>1, Derived DEF tags, stale
  <2> QED
    BY <2>2, <2>3 DEF index
<1>6. PICK a1 : a1 = [t \in tags |-> "tag"]
  OBVIOUS
<1> HIDE DEF index, cfg, stale
<1>7. DOMAIN cfg.views = tags \cup DOMAIN w.views /\ \A v \in DOMAIN w.views : cfg.views[v] = w.views[v]
  <2>1. DOMAIN a1 = tags /\ cfg.views = Settings!Merge(a1, w.views)
    BY <1>5, <1>6
  <2> HIDE DEF tags
  <2> QED
    BY <2>1 DEF Settings!Merge
<1>8. DOMAIN views \subseteq DOMAIN w.views /\ "inbox" \in DOMAIN w.views /\ \A v \in DOMAIN views : w.views[v] = views[v]
  BY <1>3, <1>4 DEF Settings!Merge
<1>9. ASSUME NEW k \in DOMAIN keys
      PROVE  cfg.index[k] = keys[k] \/ (k \in DOMAIN base.derived /\ keys[k] = Settings!Goto(base.derived[k]))
  <2>1. k \in DOMAIN w.index /\ w.index[k] = keys[k]
    BY <1>3, <1>9 DEF Settings!Merge
  <2>2. CASE k \in stale
    BY <2>1, <2>2, <1>3 DEF stale
  <2>3. CASE k \notin stale
    <3>1. k \in DOMAIN index /\ index[k] = keys[k]
      BY <2>1, <2>3 DEF Settings!Drop, index
    <3> QED
      BY <3>1, <1>5 DEF Settings!Merge
  <2> QED
    BY <2>2, <2>3
<1>10. \A a \in DOMAIN cfg.accounts : Settings!TagOf(cfg.accounts, a) \in DOMAIN cfg.views
  BY <1>5, <1>7
<1>11. "inbox" \in DOMAIN cfg.views /\ \A v \in DOMAIN views : cfg.views[v] = views[v]
  BY <1>7, <1>8
<1> QED
  BY <1>1, <1>9, <1>10, <1>11 DEF keys, views, base, cfg

-----------------------------------------------------------------------------
(* The steps.                                                              *)

Sections == {"ui", "view", "other"}

\* a channel that is not full takes the event, and keeps what it has
LEMMA OfferIs ==
  ASSUME NEW s \in Seq(Sections), Len(s) <= Room, NEW e \in Sections
  PROVE  /\ Settings!Offer(s, e) \in Seq(Sections) /\ Len(Settings!Offer(s, e)) <= Room
         /\ ToSet(s) \subseteq ToSet(Settings!Offer(s, e))
         /\ Len(s) # Room => e \in ToSet(Settings!Offer(s, e))
<1>1. Room \in Nat /\ Len(s) \in Nat
  BY ServicesAssumption, LenProperties
<1>2. CASE Len(s) < Room
  <2>1. Settings!Offer(s, e) = Append(s, e)
    BY <1>2 DEF Settings!Offer
  <2>2. Append(s, e) \in Seq(Sections) /\ Len(Append(s, e)) = Len(s) + 1
    BY AppendProperties
  <2>3. Len(s) + 1 <= Room
    BY <1>1, <1>2, SMT
  <2> QED
    BY <2>1, <2>2, <2>3, Appended
<1>3. CASE ~(Len(s) < Room)
  <2>1. Settings!Offer(s, e) = s
    BY <1>3 DEF Settings!Offer
  <2>2. Len(s) = Room
    BY <1>1, <1>3, SMT
  <2> QED
    BY <2>1, <2>2, <1>1, SMT
<1> QED
  BY <1>2, <1>3

LEMMA InstallIs ==
  ASSUME NEW m
  PROVE  /\ Settings!Install(m) = [cfg |-> Settings!Build(m), from |-> m, active |-> "inbox"]
         /\ "inbox" \in DOMAIN Settings!Build(m).views
  BY Built DEF Settings!Install, Settings!DefaultView

LEMMA NoPrint == Earlier(<<>>) /\ Earlier(<<>>)'
<1>1. DOMAIN <<>> = {}
  OBVIOUS
<1> QED
  BY <1>1 DEF Earlier, EarlierOf

LEMMA CfgInit == Settings!Init => CfgInv
<1> SUFFICES ASSUME Settings!Init PROVE CfgInv
  OBVIOUS
<1>1. /\ dir = Given /\ stamp = [f \in Settings!Names |-> 0] /\ pc = "boot" /\ last = <<>> /\ next = <<>>
      /\ store = Settings!Install(Settings!Read(Given)) /\ ch = <<>>
      /\ shown = Settings!Bindings(store.cfg) /\ edits = 0
  BY DEF Settings!Init
<1>2. PICK m : m = Settings!Read(Given)
  OBVIOUS
<1>3. store = [cfg |-> Settings!Build(m), from |-> m, active |-> "inbox"] /\ "inbox" \in DOMAIN Settings!Build(m).views
  BY <1>1, <1>2, InstallIs
<1>4. CfgTypes
  <2>1. ch \in Seq({"ui", "view", "other"}) /\ Len(ch) <= Room
    BY <1>1, ServicesAssumption, EmptySeq, SMT
  <2>2. dir = [f \in Settings!Names |-> dir[f]]
    BY <1>1, ServicesAssumption
  <2>3. stamp \in [Settings!Names -> Nat] /\ edits \in Nat /\ \A f \in Settings!Names : stamp[f] <= edits
    BY <1>1, SMT
  <2> QED
    BY <2>1, <2>2, <2>3, <1>1, <1>3 DEF CfgTypes
<1> QED
  BY <1>1, <1>2, <1>3, <1>4, NoPrint DEF CfgInv, Loaded, Loading, Obeyed

\* the user's edit gives its file a stamp no fingerprint has
LEMMA EditStep == ASSUME CfgInv, NEW f \in Settings!Names, NEW c, Settings!Edit(f, c) PROVE CfgInv'
<1> USE DEF CfgInv
<1>1. /\ dir' = [dir EXCEPT ![f] = c] /\ stamp' = [stamp EXCEPT ![f] = edits + 1] /\ edits' = edits + 1
      /\ missed' = (missed \/ pc = "boot")
      /\ UNCHANGED <<pc, last, next, todo, merged, store, ch, shown>>
  BY DEF Settings!Edit, Settings!watchVars, Settings!uiVars
<1>2. /\ \A g \in Settings!Names : g # f => stamp'[g] = stamp[g] /\ dir'[g] = dir[g]
      /\ stamp'[f] = edits + 1 /\ \A g \in Settings!Names : stamp[g] < edits + 1 /\ stamp[g] <= edits'
      /\ \A g \in Settings!Names : stamp[g] \in Nat
  <2>1. \A g \in Settings!Names : stamp[g] \in Nat /\ stamp[g] <= edits /\ edits \in Nat
    BY DEF CfgTypes
  <2>2. \A g \in Settings!Names : stamp[g] < edits + 1 /\ stamp[g] <= edits'
    BY <2>1, <1>1, SMT
  <2> QED
    BY <1>1, <2>1, <2>2 DEF CfgTypes
<1>3. CfgTypes'
  <2>1. dir' = [g \in Settings!Names |-> dir'[g]]
    BY <1>1 DEF CfgTypes
  <2>2. stamp' \in [Settings!Names -> Nat] /\ edits' \in Nat /\ \A g \in Settings!Names : stamp'[g] <= edits'
    <3>1. edits \in Nat /\ edits + 1 \in Nat /\ edits + 1 <= edits + 1
      BY SMT DEF CfgTypes
    <3> QED
      BY <3>1, <1>1, <1>2 DEF CfgTypes
  <2> QED
    BY <1>1, <2>1, <2>2 DEF CfgTypes
<1>4. ASSUME NEW p, Earlier(p)
      PROVE  /\ \A g \in DOMAIN p : p[g] \in Nat /\ p[g] <= stamp'[g] /\ (p[g] = stamp'[g] => dir'[g] # Settings!Absent)
             /\ (\A g \in DOMAIN p : stamp'[g] = p[g]) => f \notin DOMAIN p /\ \A g \in DOMAIN p : stamp[g] = p[g]
  <2>1. \A g \in DOMAIN p : /\ g \in Settings!Names /\ p[g] \in Nat /\ p[g] <= stamp[g]
                            /\ p[g] = stamp[g] => dir[g] # Settings!Absent
    BY <1>4 DEF Earlier, EarlierOf
  <2>2. ASSUME f \in DOMAIN p PROVE p[f] <= stamp'[f] /\ p[f] # stamp'[f]
    <3>1. PICK x, y, z : x = p[f] /\ y = stamp[f] /\ z = edits
      OBVIOUS
    <3>2. x \in Nat /\ y \in Nat /\ z \in Nat /\ x <= y /\ y <= z
      BY <2>1, <2>2, <3>1, <1>2 DEF CfgTypes
    <3>3. x <= z + 1 /\ x # z + 1
      BY <3>2, SMT
    <3> QED
      BY <3>1, <3>3, <1>2
  <2>3. ASSUME NEW g \in DOMAIN p
        PROVE  p[g] \in Nat /\ p[g] <= stamp'[g] /\ (p[g] = stamp'[g] => dir'[g] # Settings!Absent)
    <3>1. CASE g = f
      BY <3>1, <2>1, <2>2
    <3>2. CASE g # f
      BY <3>2, <2>1, <1>2
    <3> QED
      BY <3>1, <3>2
  <2> QED
    BY <2>1, <2>2, <2>3, <1>2
<1>5. PICK l, n : l = last /\ n = next
  OBVIOUS
<1>6. Earlier(last)' /\ Earlier(next)'
  <2>1. Earlier(l) /\ Earlier(n) /\ l = last' /\ n = next'
    BY <1>1, <1>5
  <2>2. DOMAIN l \subseteq Settings!Names /\ DOMAIN n \subseteq Settings!Names
    BY <2>1 DEF Earlier
  <2> QED
    BY <2>1, <2>2, <1>4 DEF Earlier, EarlierOf
<1>7. ASSUME NEW p, Earlier(p), \A g \in DOMAIN p : stamp'[g] = p[g], NEW some \in SUBSET Places(p)
      PROVE  Same(p) /\ Settings!ReadOf(dir', some) = Settings!ReadOf(dir, some)
  <2>1. f \notin DOMAIN p /\ Same(p)
    BY <1>4, <1>7 DEF Same
  <2>2. \A i \in some : dir'[cfgFiles[i]] = dir[cfgFiles[i]]
    BY <2>1, <1>2, NamesIs DEF Places
  <2>3. PICK k \in Nat : some \in SUBSET (1..k)
    BY FilesIs
  <2>4. PICK d, e : d = dir /\ e = dir'
    OBVIOUS
  <2>5. Settings!ReadOf(e, some) = Settings!ReadOf(d, some)
    BY <2>2, <2>3, <2>4, ReadSame
  <2> QED
    BY <2>1, <2>4, <2>5
<1>8. Places(last') = Places(l) /\ Places(next') = Places(n)
  BY <1>1, <1>5
<1>9. Loaded'
  <2>1. ASSUME pc' # "boot", ~missed', \A g \in DOMAIN l : stamp'[g] = l[g]
        PROVE  store'.from = Settings!ReadOf(dir', Places(l))
    <3>1. Earlier(l) /\ pc # "boot" /\ ~missed /\ store' = store
      BY <1>1, <1>5, <2>1
    <3>2. Same(l) /\ Settings!ReadOf(dir', Places(l)) = Settings!ReadOf(dir, Places(l))
      BY <3>1, <2>1, <1>7
    <3> QED
      BY <3>1, <3>2, <1>5 DEF Loaded
  <2> QED
    BY <2>1, <1>1, <1>5, <1>8 DEF Loaded, Same, Places
<1>10. Loading'
  <2>1. ASSUME pc' \in {"probe", "decode"}, \A g \in DOMAIN n : stamp'[g] = n[g]
        PROVE  merged' = Settings!ReadOf(dir', Places(n) \ todo')
    <3>1. Earlier(n) /\ pc \in {"probe", "decode"} /\ todo' = todo /\ merged' = merged
      BY <1>1, <1>5, <2>1
    <3>2. PICK some : some = Places(n) \ todo
      OBVIOUS
    <3>3. Same(n) /\ Settings!ReadOf(dir', some) = Settings!ReadOf(dir, some)
      BY <3>1, <3>2, <2>1, <1>7
    <3> QED
      BY <3>1, <3>2, <3>3, <1>5 DEF Loading
  <2> QED
    BY <2>1, <1>1, <1>5 DEF Loading, Same, Places
<1>11. Obeyed'
  BY <1>1 DEF Obeyed
<1> QED
  BY <1>3, <1>6, <1>9, <1>10, <1>11

\* a step that leaves the directory alone keeps what was read of it
LEMMA Untouched ==
  ASSUME CfgInv, UNCHANGED <<dir, stamp, edits>>, NEW p, Earlier(p)
  PROVE  /\ Earlier(p)' /\ Places(p)' = Places(p) /\ (Same(p)' <=> Same(p))
         /\ \A some : Settings!ReadOf(dir', some) = Settings!ReadOf(dir, some)
  BY DEF Earlier, EarlierOf, Same, Places

\* what the files have now
LEMMA FingerprintIs ==
  ASSUME CfgInv
  PROVE  /\ Earlier(Settings!Fingerprint) /\ Same(Settings!Fingerprint)
         /\ Places(Settings!Fingerprint) = {i \in DOMAIN cfgFiles : dir[cfgFiles[i]] # Settings!Absent}
         /\ Settings!Read(dir) = Settings!ReadOf(dir, Places(Settings!Fingerprint))
<1>1. PICK p : p = Settings!Fingerprint
  OBVIOUS
<1>2. /\ DOMAIN p = {g \in Settings!Names : dir[g] # Settings!Absent}
      /\ \A g \in DOMAIN p : p[g] = stamp[g]
  BY <1>1 DEF Settings!Fingerprint
<1>3. \A g \in Settings!Names : stamp[g] \in Nat /\ stamp[g] <= stamp[g]
  <2>1. \A g \in Settings!Names : stamp[g] \in Nat
    BY DEF CfgInv, CfgTypes
  <2> QED
    BY <2>1, SMT
<1>4. Earlier(p) /\ Same(p)
  BY <1>2, <1>3 DEF Earlier, EarlierOf, Same
<1>5. Places(p) = {i \in DOMAIN cfgFiles : dir[cfgFiles[i]] # Settings!Absent}
  BY <1>2, NamesIs DEF Places
<1>6. Settings!Read(dir) = Settings!ReadOf(dir, {i \in DOMAIN cfgFiles : dir[cfgFiles[i]] # Settings!Absent})
  BY DEF Settings!Read, cfgFiles
<1> QED
  BY <1>1, <1>4, <1>5, <1>6

\* the first look finds the files the store was loaded from
LEMMA WatchStep == ASSUME CfgInv, Settings!Watch PROVE CfgInv'
<1> USE DEF CfgInv
<1>1. PICK p : p = Settings!Fingerprint
  OBVIOUS
<1>2. /\ pc = "boot" /\ pc' = "idle" /\ last' = p
      /\ UNCHANGED <<dir, stamp, next, todo, merged, store, ch, shown, edits, missed>>
  BY <1>1 DEF Settings!Watch, Settings!uiVars
<1>3. CfgTypes' /\ Obeyed'
  BY <1>2 DEF CfgTypes, Obeyed
<1>4. /\ Earlier(p) /\ Same(p) /\ Settings!Read(dir) = Settings!ReadOf(dir, Places(p))
  BY <1>1, FingerprintIs
<1>5. Earlier(last)' /\ Earlier(next)'
  BY <1>2, <1>4 DEF Earlier, EarlierOf
<1>6. Places(last') = Places(p)
  BY <1>2
<1>7. Loaded'
  BY <1>2, <1>4, <1>6 DEF Loaded, Places
<1>8. Loading'
  BY <1>2 DEF Loading
<1> QED
  BY <1>3, <1>5, <1>7, <1>8

LEMMA ReadNone == Settings!ReadOf(dir, {}) = <<>>
  BY DEF Settings!ReadOf

\* a load begins with the files that are there, and nothing read
LEMMA TickStep == ASSUME CfgInv, Settings!Tick PROVE CfgInv'
<1> USE DEF CfgInv
<1>1. PICK p : p = Settings!Fingerprint
  OBVIOUS
<1>2. /\ pc = "idle" /\ pc' = "probe" /\ next' = p /\ merged' = <<>>
      /\ todo' = {i \in DOMAIN cfgFiles : dir[cfgFiles[i]] # Settings!Absent}
      /\ UNCHANGED <<dir, stamp, last, store, ch, shown, edits, missed>>
  BY <1>1 DEF Settings!Tick, Settings!uiVars, cfgFiles
<1>3. CfgTypes' /\ Obeyed'
  BY <1>2 DEF CfgTypes, Obeyed
<1>4. Earlier(p) /\ Same(p) /\ todo' = Places(p)
  BY <1>1, <1>2, FingerprintIs
<1>5. Earlier(last)' /\ Earlier(next)'
  BY <1>2, <1>4 DEF Earlier, EarlierOf
<1>6. Loaded'
  BY <1>2 DEF Loaded, Same, Places
<1>7. Loading'
  <2>1. Places(next)' = Places(p) /\ Places(p) \ todo' = {}
    BY <1>2, <1>4 DEF Places
  <2>2. merged' = Settings!ReadOf(dir', {})
    BY <1>2, ReadNone
  <2> QED
    BY <1>2, <1>4, <2>1, <2>2 DEF Loading
<1> QED
  BY <1>3, <1>5, <1>6, <1>7

\* a step of the load that leaves the store alone
LEMMA LoadStep ==
  ASSUME CfgInv, UNCHANGED <<dir, stamp, last, next, store, ch, shown, edits, missed>>,
         pc # "boot", pc' \in {"idle", "probe", "decode"}, Loading'
  PROVE  CfgInv'
<1> USE DEF CfgInv
<1>1. CfgTypes' /\ Obeyed'
  BY DEF CfgTypes, Obeyed
<1>2. Earlier(last)' /\ Earlier(next)'
  BY DEF Earlier, EarlierOf
<1>3. Loaded'
  BY DEF Loaded, Same, Places
<1> QED
  BY <1>1, <1>2, <1>3

LEMMA ProbeStep == ASSUME CfgInv, Settings!Probe PROVE CfgInv'
<1>1. /\ pc = "probe" /\ todo # {} /\ pc' \in {"idle", "decode"}
      /\ UNCHANGED <<dir, stamp, last, next, todo, merged, store, ch, shown, edits, missed>>
  BY DEF Settings!Probe, Settings!Fail, Settings!uiVars
<1>2. Loading'
  BY <1>1 DEF CfgInv, Loading, Same, Places
<1> QED
  BY <1>1, <1>2, LoadStep

\* the second reading merges the file as it stands
LEMMA DecodeStep == ASSUME CfgInv, Settings!Decode PROVE CfgInv'
<1>1. /\ pc = "decode" /\ UNCHANGED <<dir, stamp, last, next, store, ch, shown, edits, missed>>
      /\ \/ pc' = "idle"
         \/ /\ merged' = Settings!Merge(merged, dir[Settings!Up]) /\ todo' = todo \ {Settings!Min(todo)}
            /\ pc' = "probe"
  BY DEF Settings!Decode, Settings!Fail, Settings!uiVars
<1>2. CASE pc' = "idle"
  <2>1. Loading'
    BY <1>2 DEF Loading
  <2> QED
    BY <1>1, <1>2, <2>1, LoadStep
<1>3. CASE /\ merged' = Settings!Merge(merged, dir[Settings!Up]) /\ todo' = todo \ {Settings!Min(todo)}
           /\ pc' = "probe"
  <2>1. PICK m, n, all : m = Settings!Min(todo) /\ n = next /\ all = Places(next)
    OBVIOUS
  <2>2. /\ todo \subseteq all /\ todo # {} /\ \A i \in all \ todo, j \in todo : i < j
        /\ Same(next) => merged = Settings!ReadOf(dir, all \ todo)
    BY <1>1, <2>1 DEF CfgInv, Loading
  <2>3. all \subseteq Nat
    BY <2>1, FilesIs
  <2>4. m \in todo /\ \A i \in todo : m <= i
    BY <2>1, <2>2, <2>3, Least
  <2>5. all \ todo' = (all \ todo) \cup {m}
    BY <1>3, <2>1, <2>2, <2>4
  <2>6. \A i \in all \ todo', j \in todo' : i < j
    <3>1. ASSUME NEW j \in todo' PROVE m < j
      <4>1. j \in todo /\ j # m /\ m <= j /\ j \in Nat /\ m \in Nat
        BY <3>1, <1>3, <2>1, <2>2, <2>3, <2>4
      <4> QED
        BY <4>1, SMT
    <3>2. todo' \subseteq todo
      BY <1>3
    <3> QED
      BY <2>2, <2>5, <3>1, <3>2
  <2>7. ASSUME Same(next) PROVE merged' = Settings!ReadOf(dir, all \ todo')
    <3>1. PICK some, d, old : some = all \ todo /\ d = dir /\ old = merged
      OBVIOUS
    <3>2. some \in SUBSET Nat /\ m \in Nat /\ \A i \in some : i < m
      BY <3>1, <2>2, <2>3, <2>4
    <3>3. Settings!ReadOf(d, some \cup {m}) = Settings!Merge(Settings!ReadOf(d, some), d[cfgFiles[m]])
      BY <3>2, ReadNext
    <3>4. merged' = Settings!Merge(old, d[cfgFiles[m]])
      BY <1>3, <2>1, <3>1 DEF Settings!Up, cfgFiles
    <3>5. old = Settings!ReadOf(d, some)
      BY <2>2, <2>7, <3>1
    <3> QED
      BY <2>5, <3>1, <3>3, <3>4, <3>5
  <2>8. Places(next)' = all /\ (Same(next)' <=> Same(next)) /\ todo' \subseteq all
    BY <1>1, <1>3, <2>1, <2>2 DEF Places, Same
  <2>9. Loading'
    BY <1>1, <1>3, <2>6, <2>7, <2>8 DEF Loading
  <2> QED
    BY <1>1, <1>3, <2>9, LoadStep
<1> QED
  BY <1>1, <1>2, <1>3

\* what validates is in force, under the fingerprint its load began with
LEMMA ReplaceStep == ASSUME CfgInv, Settings!Replace PROVE CfgInv'
<1>1. /\ pc = "probe" /\ todo = {} /\ pc' = "idle"
      /\ UNCHANGED <<dir, stamp, next, todo, merged, shown, edits>>
      /\ \/ UNCHANGED <<store, last, ch, missed>>
         \/ /\ store' = Settings!Install(merged) /\ last' = next
            /\ ch' = Settings!Offer(ch, "ui") /\ missed' = (missed \/ Len(ch) = Room)
  BY DEF Settings!Replace
<1>2. Loading'
  BY <1>1 DEF Loading
<1>3. CASE UNCHANGED <<store, last, ch, missed>>
  BY <1>1, <1>2, <1>3, LoadStep
<1>4. CASE /\ store' = Settings!Install(merged) /\ last' = next
           /\ ch' = Settings!Offer(ch, "ui") /\ missed' = (missed \/ Len(ch) = Room)
  <2> USE DEF CfgInv
  <2>1. PICK m, s, n : m = merged /\ s = ch /\ n = next
    OBVIOUS
  <2>2. store' = [cfg |-> Settings!Build(m), from |-> m, active |-> "inbox"] /\ "inbox" \in DOMAIN Settings!Build(m).views
    BY <1>4, <2>1, InstallIs
  <2>3. /\ ch' \in Seq(Sections) /\ Len(ch') <= Room /\ (Len(s) # Room => "ui" \in ToSet(ch'))
    <3>1. s \in Seq(Sections) /\ Len(s) <= Room /\ "ui" \in Sections
      BY <2>1 DEF CfgTypes, Sections
    <3>2. /\ Settings!Offer(s, "ui") \in Seq(Sections) /\ Len(Settings!Offer(s, "ui")) <= Room
          /\ (Len(s) # Room => "ui" \in ToSet(Settings!Offer(s, "ui")))
      BY <3>1, OfferIs
    <3> QED
      BY <3>2, <1>4, <2>1
  <2>4. CfgTypes'
    BY <1>1, <2>2, <2>3 DEF CfgTypes, Sections
  <2>5. Obeyed'
    BY <1>4, <2>1, <2>3 DEF Obeyed
  <2>6. Earlier(last)' /\ Earlier(next)'
    BY <1>1, <1>4 DEF Earlier, EarlierOf
  <2>7. Loaded'
    <3>1. Same(next) => m = Settings!ReadOf(dir, Places(next))
      <4>1. Places(next) \ todo = Places(next)
        BY <1>1
      <4> QED
        BY <1>1, <2>1, <4>1 DEF Loading
    <3>2. Same(last)' <=> Same(next)
      BY <1>1, <1>4 DEF Same
    <3>3. Places(last)' = Places(next)
      BY <1>1, <1>4 DEF Places
    <3> QED
      BY <1>1, <2>2, <3>1, <3>2, <3>3 DEF Loaded
  <2> QED
    BY <1>2, <2>4, <2>5, <2>6, <2>7
<1> QED
  BY <1>1, <1>3, <1>4

\* the keys and the noise of the bus
LEMMA UiStep ==
  ASSUME CfgInv, UNCHANGED <<dir, stamp, pc, last, next, todo, merged, edits, missed>>,
         store' = [store EXCEPT !.active = store'.active], store'.active \in DOMAIN store.cfg.views,
         ch' \in Seq(Sections), Len(ch') <= Room,
         "ui" \in ToSet(ch) => "ui" \in ToSet(ch') \/ shown' = Settings!Bindings(store.cfg),
         shown' = shown \/ shown' = Settings!Bindings(store.cfg)
  PROVE  CfgInv'
<1> USE DEF CfgInv
<1>1. store'.cfg = store.cfg /\ store'.from = store.from /\ store' = [cfg |-> store.cfg, from |-> store.from, active |-> store'.active]
  BY DEF CfgTypes
<1>2. CfgTypes'
  BY <1>1 DEF CfgTypes, Sections
<1>3. Obeyed'
  BY <1>1 DEF Obeyed
<1>4. Earlier(last)' /\ Earlier(next)'
  BY DEF Earlier, EarlierOf
<1>5. Loaded' /\ Loading'
  BY <1>1 DEF Loaded, Loading, Same, Places
<1> QED
  BY <1>2, <1>3, <1>4, <1>5

LEMMA GotoStep == ASSUME CfgInv, NEW k, Settings!GotoView(k) PROVE CfgInv'
<1>1. /\ shown[k][2] \in DOMAIN store.cfg.views /\ store' = [store EXCEPT !.active = shown[k][2]]
      /\ ch' = Settings!Offer(ch, "view")
      /\ UNCHANGED <<dir, stamp, pc, last, next, todo, merged, shown, edits, missed>>
  BY DEF Settings!GotoView, Settings!watchVars
<1>2. store'.active = shown[k][2]
  BY <1>1 DEF CfgInv, CfgTypes
<1>3. ch \in Seq(Sections) /\ Len(ch) <= Room /\ "view" \in Sections
  BY DEF CfgInv, CfgTypes, Sections
<1>4. PICK s : s = ch
  OBVIOUS
<1>5. /\ Settings!Offer(s, "view") \in Seq(Sections) /\ Len(Settings!Offer(s, "view")) <= Room
      /\ ToSet(s) \subseteq ToSet(Settings!Offer(s, "view"))
  BY <1>3, <1>4, OfferIs
<1>6. ch' \in Seq(Sections) /\ Len(ch') <= Room /\ ToSet(ch) \subseteq ToSet(ch')
  BY <1>1, <1>4, <1>5
<1> QED
  BY <1>1, <1>2, <1>6, UiStep

LEMMA NoiseStep == ASSUME CfgInv, Settings!Noise PROVE CfgInv'
<1>1. /\ ch' = Settings!Offer(ch, "other")
      /\ UNCHANGED <<dir, stamp, pc, last, next, todo, merged, store, shown, edits, missed>>
  BY DEF Settings!Noise, Settings!watchVars
<1>2. store' = [store EXCEPT !.active = store'.active] /\ store'.active \in DOMAIN store.cfg.views
  BY <1>1 DEF CfgInv, CfgTypes
<1>3. ch \in Seq(Sections) /\ Len(ch) <= Room /\ "other" \in Sections
  BY DEF CfgInv, CfgTypes, Sections
<1>4. PICK s : s = ch
  OBVIOUS
<1>5. /\ Settings!Offer(s, "other") \in Seq(Sections) /\ Len(Settings!Offer(s, "other")) <= Room
      /\ ToSet(s) \subseteq ToSet(Settings!Offer(s, "other"))
  BY <1>3, <1>4, OfferIs
<1>6. ch' \in Seq(Sections) /\ Len(ch') <= Room /\ ToSet(ch) \subseteq ToSet(ch')
  BY <1>1, <1>4, <1>5
<1> QED
  BY <1>1, <1>2, <1>6, UiStep

LEMMA ConfigReceived == ASSUME CfgInv, Settings!Receive PROVE CfgInv'
<1>1. /\ ch # <<>> /\ ch' = Tail(ch)
      /\ shown' = IF Head(ch) = "ui" THEN Settings!Bindings(store.cfg) ELSE shown
      /\ UNCHANGED <<dir, stamp, pc, last, next, todo, merged, store, edits, missed>>
  BY DEF Settings!Receive, Settings!watchVars
<1>2. store' = [store EXCEPT !.active = store'.active] /\ store'.active \in DOMAIN store.cfg.views
  BY <1>1 DEF CfgInv, CfgTypes
<1>3. PICK s : s = ch
  OBVIOUS
<1>4. s \in Seq(Sections) /\ Len(s) <= Room /\ s # <<>>
  BY <1>1, <1>3 DEF CfgInv, CfgTypes, Sections
<1>5. ToSet(s) = ToSet(Tail(s)) \cup {Head(s)} /\ Tail(s) \in Seq(Sections) /\ Len(Tail(s)) = Len(s) - 1
  BY <1>4, Behead, HeadTailProperties
<1>6. Len(Tail(s)) <= Room
  <2>1. Len(s) \in Nat /\ Room \in Nat
    BY <1>4, LenProperties, ServicesAssumption
  <2> QED
    BY <2>1, <1>4, <1>5, SMT
<1>7. ch' \in Seq(Sections) /\ Len(ch') <= Room /\ ToSet(ch) = ToSet(ch') \cup {Head(ch)}
  BY <1>1, <1>3, <1>5, <1>6
<1> QED
  BY <1>1, <1>2, <1>7, UiStep

LEMMA CfgNext == CfgInv /\ [Settings!Next]_(Settings!vars) => CfgInv'
<1> SUFFICES ASSUME CfgInv, [Settings!Next]_(Settings!vars) PROVE CfgInv'
  OBVIOUS
<1>1. CASE UNCHANGED Settings!vars
  BY <1>1 DEF Settings!vars, Settings!watchVars, Settings!uiVars, CfgInv, CfgTypes, Earlier, EarlierOf, Loaded, Loading,
     Same, Places, Obeyed
<1>2. CASE Settings!Watch \/ Settings!Load
  BY <1>2, WatchStep, TickStep, ProbeStep, DecodeStep, ReplaceStep DEF Settings!Load
<1>3. CASE Settings!Receive \/ Settings!Noise
  BY <1>3, ConfigReceived, NoiseStep
<1>4. ASSUME NEW f \in Settings!Names, NEW c, Settings!Edit(f, c) PROVE CfgInv'
  BY <1>4, EditStep
<1>5. ASSUME NEW k, Settings!GotoView(k) PROVE CfgInv'
  BY <1>5, GotoStep
<1> QED
  BY <1>1, <1>2, <1>3, <1>4, <1>5 DEF Settings!Next

LEMMA CfgKept == CfgInv => Settings!UserWins /\ Settings!Current
<1> SUFFICES ASSUME CfgInv PROVE Settings!UserWins /\ Settings!Current
  OBVIOUS
<1>1. Settings!UserWins
  <2>1. PICK m, s : m = store.from /\ s = store
    OBVIOUS
  <2>2. s.cfg = Settings!Build(m) /\ s.active \in DOMAIN s.cfg.views
    BY <2>1 DEF CfgInv, CfgTypes
  <2> QED
    BY <2>1, <2>2, Built DEF Settings!UserWins
<1>2. Settings!Current
  <2> SUFFICES ASSUME pc = "idle", last = Settings!Fingerprint, ~missed
               PROVE  /\ store.from = Settings!Read(dir)
                      /\ ch = <<>> => shown = Settings!Bindings(store.cfg)
    BY DEF Settings!Current
  <2>1. store.from = Settings!Read(dir)
    <3>1. Same(last) /\ Settings!Read(dir) = Settings!ReadOf(dir, Places(last))
      BY FingerprintIs
    <3> QED
      BY <3>1 DEF CfgInv, Loaded
  <2>2. ASSUME ch = <<>> PROVE shown = Settings!Bindings(store.cfg)
    <3>1. ToSet(ch) = {}
      BY <2>2 DEF ToSet
    <3> QED
      BY <3>1 DEF CfgInv, Obeyed
  <2> QED
    BY <2>1, <2>2
<1> QED
  BY <1>1, <1>2

\* "A user view or bound key wins" (deriveAccountViews in src/config/config.go) over
\* what is derived from the accounts, for every content of the files, every order
\* of edits and every key an earlier derivation left.
THEOREM SpecUserWins == Settings!Spec => []UserWins
<1>1. Settings!Spec => []CfgInv
  BY CfgInit, CfgNext, PTL DEF Settings!Spec
<1>2. CfgInv => UserWins
  BY CfgKept DEF UserWins
<1> QED
  BY <1>1, <1>2, PTL

\* The watcher (src/app/configwatch.go) takes a fingerprint before it reads the
\* files one by one: when the directory is as its fingerprint has it, the store is
\* made of the files as they are, wherever the edits fell between the readings.
THEOREM SpecCurrent == Settings!Spec => []Current
<1>1. Settings!Spec => []CfgInv
  BY CfgInit, CfgNext, PTL DEF Settings!Spec
<1>2. CfgInv => Current
  BY CfgKept DEF Current
<1> QED
  BY <1>1, <1>2, PTL
================================================================================
