------------------------------- MODULE Compose -------------------------------
(***************************************************************************)
(* The hand-over of a mail (src/tui/model.go, src/app/send.go): dialogues   *)
(* are tabs of the terminal's one event loop, deliveries and stores are    *)
(* goroutines, and what a goroutine reports comes back over the bus: as an  *)
(* event of a bounded channel, which is dropped when the channel is full,  *)
(* and as the last result of its dialogue, which every message to the loop *)
(* looks at first.  A key, an event and a tick race for the loop.           *)
(***************************************************************************)
EXTENDS Naturals, Sequences, FiniteSets, SequencesExt

CONSTANTS
  MaxOpen,     \* bound: dialogues opened
  Searches,    \* search tabs, to the right of the dialogues
  Cap,         \* the channel's capacity (64 in the code)
  MaxJobs,     \* bound: sends and schedules started
  MaxSecond    \* bound: the seconds in which drafts are written

ASSUME ComposeAssumption ==
  {MaxOpen, Searches, Cap, MaxJobs, MaxSecond} \subseteq Nat

VARIABLES
  ui,          \* the model: tabs, at, phase, box, opened, crashed
  sendLast,    \* the bus: the last result of each dialogue's send
  openLast,    \* the bus: the dialogue opened last
  chan,        \* the loop's channel
  opening,     \* prefills that run
  keyring,     \* key listings that run, by their dialogue
  job,         \* the sends and schedules, by their number
  drafts,      \* the draft folder: the mail saved at each second
  spool,       \* the dialogues in the schedule's spool
  used,        \* ids given out
  mail,        \* mail[d]: the dialogue whose mail d goes on with
  resume,      \* resume[d]: the draft d edits, 0 for none
  clock,       \* the second of the last draft's name
  sends,       \* history: the deliveries of each dialogue
  overlaps,    \* history: jobs started before the result of another was taken
  gone         \* history: mails discarded by their user or with a draft of their second

bus == <<sendLast, openLast, chan>>
ids == <<used, mail, resume>>
\* an id is the time it is given out at
Dialogues == 1..MaxOpen
NoOne == 0

app == <<opening, keyring, job, drafts, spool, ids>>
history == <<sends, overlaps, gone>>
vars == <<ui, bus, app, clock, history>>

Jobs == 1..MaxJobs
NoJob == [kind |-> "none", tab |-> NoOne, step |-> "none", ok |-> FALSE]
NoBox == [kind |-> "none", tab |-> NoOne, of |-> "none"]

Init ==
  /\ ui = [tabs |-> <<>>, at |-> 0, phase |-> [d \in Dialogues |-> "editing"],
           box |-> NoBox, opened |-> {}, crashed |-> FALSE]
  /\ sendLast = [d \in Dialogues |-> "none"] /\ openLast = NoOne /\ chan = <<>>
  /\ opening = {} /\ keyring = {} /\ job = [j \in Jobs |-> NoJob]
  /\ drafts = [s \in 1..MaxSecond |-> NoOne] /\ spool = {}
  /\ used = {} /\ mail = [d \in Dialogues |-> d] /\ resume = [d \in Dialogues |-> 0]
  /\ clock = 1
  /\ sends = [d \in Dialogues |-> 0] /\ overlaps = [d \in Dialogues |-> 0]
  /\ gone = {}

-----------------------------------------------------------------------------
(* The tab strip: the mail, the dialogues, the search tabs.                *)

EndOf(u) == Len(u.tabs) + Searches
Active(u) == IF u.at \in 1..Len(u.tabs) THEN u.tabs[u.at] ELSE NoOne
PhaseOf(u, d, p) == [u EXCEPT !.phase[d] = p]
Crash(u) == [u EXCEPT !.crashed = TRUE]

\* every attach drops the box, whatever it asks
Attach(u, i) == [u EXCEPT !.at = i, !.box = NoBox]

\* mutant: what is on the screen stays where it was
CloseInPlace(u, i) ==
  [u EXCEPT !.tabs = RemoveAt(u.tabs, i), !.phase[u.tabs[i]] = "editing", !.box = NoBox]

\* the tab to the left follows an active one, the rest keep their place
CloseTab(u, i) ==
  LET left == [u EXCEPT !.tabs = RemoveAt(u.tabs, i), !.phase[u.tabs[i]] = "editing"]
      at == IF u.at >= i THEN u.at - 1 ELSE u.at
  IN Attach(left, IF at > EndOf(left) THEN EndOf(left) ELSE at)

Where(u, d) == CHOOSE i \in 1..Len(u.tabs) : u.tabs[i] = d
IsTab(u, d) == \E i \in 1..Len(u.tabs) : u.tabs[i] = d
ActivateTab(u, d) == IF IsTab(u, d) THEN Attach(u, Where(u, d)) ELSE u

\* an abort that is not confirmed is off
CancelBox(u) ==
  LET d == Active(u) closed == [u EXCEPT !.box = NoBox]
  IN IF d # NoOne /\ u.phase[d] = "aborting" THEN PhaseOf(closed, d, "editing")
     ELSE closed

FailedBox(d, of) == [kind |-> "failed", tab |-> d, of |-> of]

OnSendResult(u, d, ok) ==
  IF ~IsTab(u, d) THEN u
  ELSE IF ok THEN CloseTab(u, Where(u, d))
  ELSE [PhaseOf(u, d, "failed") EXCEPT !.box = FailedBox(d, "send")]

OnScheduledResult(u, d, ok) ==
  IF ~IsTab(u, d) THEN u
  ELSE IF ok THEN CloseTab(u, Where(u, d))
  ELSE [u EXCEPT !.box = FailedBox(d, "schedule")]

\* mutant: the dialogues that were opened before are not remembered
OpensAgain(u, d) ==
  Attach([u EXCEPT !.tabs = Append(@, d), !.opened = @ \cup {d}], Len(u.tabs) + 1)

OnComposeOpened(u, d) ==
  IF d \in u.opened THEN u
  ELSE Attach([u EXCEPT !.tabs = Append(@, d), !.opened = @ \cup {d}],
              Len(u.tabs) + 1)

OnKeysLoaded(u, d) ==
  IF u.at = 0 THEN u
  ELSE IF u.at > Len(u.tabs) THEN Crash(u)
  ELSE IF Active(u) = d THEN [u EXCEPT !.box = [NoBox EXCEPT !.kind = "choice"]]
  ELSE u

-----------------------------------------------------------------------------
(* Update: the last results first.  The loop's indices are those of the    *)
(* strip it began with.                                                    *)

Results == {i \in 1..Len(ui.tabs) : ui.phase[ui.tabs[i]] = "sending" /\ sendLast[ui.tabs[i]] # "none"}
Delivered == {i \in Results : sendLast[ui.tabs[i]] = "ok"}

\* a delivery closes its tab; one that is not the last leaves the loop an index too many
Settle ==
  LET n == Len(ui.tabs)
      failed == {ui.tabs[i] : i \in Results \ Delivered}
      u == IF failed = {} THEN ui
           ELSE [ui EXCEPT !.phase = [d \in Dialogues |-> IF d \in failed THEN "failed" ELSE ui.phase[d]],
                           !.box = FailedBox(ui.tabs[Max(Results \ Delivered)], "send")]
  IN CASE \E i \in Delivered : i < n -> Crash(ui)
       [] Delivered = {n} -> CloseTab(u, n)
       [] OTHER -> u

Polled == IF Settle.crashed \/ openLast = NoOne THEN Settle ELSE OnComposeOpened(Settle, openLast)

Sent(e) == IF Len(chan) < Cap THEN Append(chan, e) ELSE chan
Event(kind, d, ok) == [kind |-> kind, tab |-> d, ok |-> ok]

ReadEvent(u) ==
  /\ chan # <<>> /\ chan' = Tail(chan)
  /\ LET e == Head(chan) IN
     ui' = CASE e.kind = "send" -> OnSendResult(u, e.tab, e.ok)
             [] e.kind = "schedule" -> OnScheduledResult(u, e.tab, e.ok)
             [] e.kind = "open" -> OnComposeOpened(u, e.tab)
             [] e.kind = "keys" -> OnKeysLoaded(u, e.tab)
  /\ UNCHANGED <<sendLast, openLast, app, clock, history>>

-----------------------------------------------------------------------------
(* Keys.  A box on the screen takes them; a dialogue's tab has its own.    *)

NoKeyBox(u) == u.box.kind = "none"
Free(u) == Active(u) # NoOne /\ NoKeyBox(u)
Elsewhere(u) == Active(u) = NoOne /\ NoKeyBox(u)

Running(j) == job[j].step \notin {"none", "done"}

\* a job of d runs, or delivered and the loop has not taken its result
Pending(d) ==
  \/ \E j \in Jobs : job[j].tab = d /\ Running(j)
  \/ sendLast[d] = "ok"
  \/ \E i \in 1..Len(chan) : chan[i].tab = d /\ chan[i].kind = "send" /\ chan[i].ok

\* the numbers are given in order
StartJob(kind, d) ==
  /\ \E j \in Jobs :
       /\ job[j] = NoJob /\ \A i \in 1..(j - 1) : job[i] # NoJob
       /\ job' = [job EXCEPT ![j] = [kind |-> kind, tab |-> d, step |-> "start", ok |-> FALSE]]
  /\ overlaps' = IF Pending(d) THEN [overlaps EXCEPT ![d] = @ + 1] ELSE overlaps

Only(u) == ui' = u /\ UNCHANGED <<bus, app, clock, history>>

Send(u) ==
  LET d == Active(u) IN
  IF d = NoOne THEN Only(Crash(u))
  ELSE IF u.phase[d] = "sending" THEN Only(u)
  ELSE /\ ui' = PhaseOf(u, d, "sending")
       /\ sendLast' = [sendLast EXCEPT ![d] = "none"]
       /\ StartJob("send", d)
       /\ UNCHANGED <<openLast, chan, opening, keyring, drafts, spool, ids, clock,
                      sends, gone>>

SendKey(u) == Free(u) /\ Send(u)

\* the schedule prompt, and its time
ScheduleKey(u) ==
  /\ Free(u) /\ u.phase[Active(u)] # "sending"
  /\ Only([u EXCEPT !.box = [NoBox EXCEPT !.kind = "time"]])
CommitSchedule(u) ==
  /\ u.box.kind = "time" /\ Active(u) # NoOne
  /\ ui' = [u EXCEPT !.box = NoBox]
  /\ StartJob("schedule", Active(u))
  /\ UNCHANGED <<bus, opening, keyring, drafts, spool, ids, clock, sends, gone>>

\* q asks; the answer, or a second q, closes the dialogue for good
Abort(u) ==
  LET d == Active(u) IN
  CASE u.phase[d] = "sending" -> Only(u)
    [] u.phase[d] = "aborting" ->
         /\ ui' = CloseTab(u, u.at) /\ gone' = gone \cup {mail[d]}
         /\ UNCHANGED <<bus, app, clock, sends, overlaps>>
    [] OTHER -> Only([PhaseOf(u, d, "aborting") EXCEPT !.box =
                        [NoBox EXCEPT !.kind = "abort", !.tab = d]])
AbortKey(u) == Free(u) /\ Abort(u)
ConfirmAbort(u) == u.box.kind = "abort" /\ Abort([u EXCEPT !.box = NoBox])

\* the body's editor, or the prompt of a field (which only keeps the keys to
\* itself); a failed send is over
Reopened(u) == IF u.phase[Active(u)] = "failed" THEN PhaseOf(u, Active(u), "editing") ELSE u
EditKey(u) ==
  /\ Free(u) /\ u.phase[Active(u)] # "sending"
  /\ Only(Reopened(u))

\* signing without a key asks for the keys (bound: one listing at a time)
SecurityKey(u) ==
  /\ Free(u) /\ u.phase[Active(u)] # "sending"
  /\ keyring = {} /\ keyring' = {Active(u)} /\ ui' = u
  /\ UNCHANGED <<bus, opening, job, drafts, spool, ids, clock, history>>

\* enter closes the failure; esc, and the choice or the prompt, cancel
CloseBox(u) ==
  \/ u.box.kind = "failed" /\ Only([u EXCEPT !.box = NoBox])
  \/ u.box.kind \in {"abort", "choice", "time"} /\ Only(CancelBox(u))

\* y on a failure
Retry(u) == u.box.kind = "failed" /\ Send(ActivateTab(CancelBox(u), u.box.tab))
\* e on a failure
Review(u) ==
  /\ u.box.kind = "failed"
  /\ LET v == ActivateTab(CancelBox(u), u.box.tab) IN
     Only(IF Active(v) = NoOne THEN Crash(v)
          ELSE IF v.phase[Active(v)] = "sending" THEN v ELSE Reopened(v))

\* tab-next, tab-prev
TabKey(u) ==
  /\ NoKeyBox(u) /\ EndOf(u) > 0
  /\ \/ Only(Attach(u, IF u.at = EndOf(u) THEN 0 ELSE u.at + 1))
     \/ Only(Attach(u, IF u.at = 0 THEN EndOf(u) ELSE u.at - 1))

-----------------------------------------------------------------------------
(* Drafts.  The file's name is the second; the old draft goes last.        *)

\* writeFcc: a file of that name is overwritten
Overwritten(s, d) == {drafts[s]} \ {NoOne, mail[d]}
Written(s, m) == [drafts EXCEPT ![s] = m]
Retired(folder, s) == IF s = 0 THEN folder ELSE [folder EXCEPT ![s] = NoOne]

\* another draft of the second has taken the place of the one d resumes, and
\* goes in its stead
InItsPlace(d) == IF resume[d] = 0 THEN {} ELSE {drafts[resume[d]]} \ {NoOne, mail[d]}

\* mutant: the old draft goes first, and the writing fails
SaveDraftLast(u) ==
  LET d == Active(u) IN
  /\ u.box.kind = "abort"
  /\ \/ /\ ui' = CloseTab([u EXCEPT !.box = NoBox], u.at)
        /\ drafts' = Retired(drafts, resume[d])
        /\ UNCHANGED <<bus, opening, keyring, job, spool, ids, clock, history>>
     \/ \E s \in {clock, clock + 1} \cap 1..MaxSecond :
          /\ ui' = CloseTab([u EXCEPT !.box = NoBox], u.at) /\ clock' = s
          /\ \/ drafts' = Written(s, mail[d]) /\ gone' = gone \cup Overwritten(s, d)
             \/ /\ drafts' = Retired(Written(s, mail[d]), resume[d])
                /\ gone' = gone \cup Overwritten(s, d) \cup InItsPlace(d)
                             \cup (IF resume[d] = s THEN {mail[d]} ELSE {})
          /\ UNCHANGED <<bus, opening, keyring, job, spool, ids, sends, overlaps>>

\* d in the abort's box: written, indexed, the old one retired (or left, its
\* removal failing); a failure keeps the dialogue
SaveDraft(u) ==
  LET d == Active(u) IN
  /\ u.box.kind = "abort"
  /\ \/ Only([PhaseOf(u, d, "editing") EXCEPT !.box = FailedBox(NoOne, "draft")])
     \/ \E s \in {clock, clock + 1} \cap 1..MaxSecond :
          /\ ui' = CloseTab([u EXCEPT !.box = NoBox], u.at) /\ clock' = s
          /\ \/ drafts' = Written(s, mail[d]) /\ gone' = gone \cup Overwritten(s, d)
             \/ /\ drafts' = Retired(Written(s, mail[d]), resume[d])
                /\ gone' = gone \cup Overwritten(s, d) \cup InItsPlace(d)
                             \cup (IF resume[d] = s THEN {mail[d]} ELSE {})
          /\ UNCHANGED <<bus, opening, keyring, job, spool, ids, sends, overlaps>>

-----------------------------------------------------------------------------
(* Opening a dialogue: blank, from a mail, from a draft, from the spool.   *)

Fresh(d) == d = Cardinality(used) + 1

\* the prefill runs on its own
New(u, d) ==
  /\ Elsewhere(u) /\ Fresh(d)
  /\ used' = used \cup {d} /\ opening' = opening \cup {d}
  /\ \E s \in 0..MaxSecond :
       /\ s # 0 => drafts[s] # NoOne
       /\ resume' = [resume EXCEPT ![d] = s]
       /\ mail' = [mail EXCEPT ![d] = IF s = 0 THEN d ELSE drafts[s]]
  /\ ui' = u
  /\ UNCHANGED <<bus, keyring, job, drafts, spool, clock, history>>

PublishOpen(d) ==
  /\ openLast' = d /\ chan' = Sent(Event("open", d, TRUE))

Opened(d) ==
  /\ d \in opening /\ opening' = opening \ {d}
  /\ PublishOpen(d)
  /\ UNCHANGED <<ui, sendLast, keyring, job, drafts, spool, ids, clock, history>>

\* e in the list of the scheduled: out of the spool, into a new dialogue
EditScheduled(u, d, e) ==
  /\ Elsewhere(u) /\ Fresh(d) /\ e \in spool
  /\ spool' = spool \ {e} /\ used' = used \cup {d}
  /\ mail' = [mail EXCEPT ![d] = mail[e]] /\ resume' = [resume EXCEPT ![d] = resume[e]]
  /\ PublishOpen(d) /\ ui' = u
  /\ UNCHANGED <<sendLast, opening, keyring, job, drafts, clock, history>>

KeysLoaded(d) ==
  /\ d \in keyring /\ keyring' = keyring \ {d}
  /\ chan' = Sent(Event("keys", d, TRUE))
  /\ UNCHANGED <<ui, sendLast, openLast, opening, job, drafts, spool, ids, clock, history>>

-----------------------------------------------------------------------------
(* The jobs.                                                               *)

To(j, step, ok) == job' = [job EXCEPT ![j].step = step, ![j].ok = ok]

\* assembly, signing or the transport fails: nothing was sent
DeliverFails(j) ==
  /\ job[j].kind = "send" /\ job[j].step = "start" /\ To(j, "report", FALSE)
  /\ UNCHANGED <<ui, bus, opening, keyring, drafts, spool, ids, clock, history>>

Deliver(j) ==
  /\ job[j].kind = "send" /\ job[j].step = "start" /\ To(j, "sent", FALSE)
  /\ sends' = [sends EXCEPT ![job[j].tab] = @ + 1]
  /\ UNCHANGED <<ui, bus, opening, keyring, drafts, spool, ids, clock, overlaps, gone>>

\* mutant: the copy's failure is the send's
FileOrFail(j) ==
  /\ job[j].step = "sent" /\ \E ok \in BOOLEAN : To(j, "report", ok)
  /\ \/ UNCHANGED <<drafts, gone>>
     \/ drafts' = Retired(drafts, resume[job[j].tab]) /\ gone' = gone \cup InItsPlace(job[j].tab)
  /\ UNCHANGED <<ui, bus, opening, keyring, spool, ids, clock, sends, overlaps>>

\* the sent copy, the index, the tag of the original, the draft resumed: what
\* fails here is a note of a delivery that succeeded
File(j) ==
  /\ job[j].step = "sent" /\ To(j, "report", TRUE)
  /\ \/ UNCHANGED <<drafts, gone>>
     \/ drafts' = Retired(drafts, resume[job[j].tab]) /\ gone' = gone \cup InItsPlace(job[j].tab)
  /\ UNCHANGED <<ui, bus, opening, keyring, spool, ids, clock, sends, overlaps>>

\* the time is parsed, the dialogue written to the spool
Store(j) ==
  /\ job[j].kind = "schedule" /\ job[j].step = "start"
  /\ \/ To(j, "report", FALSE) /\ UNCHANGED spool
     \/ To(j, "report", TRUE) /\ spool' = spool \cup {job[j].tab}
  /\ UNCHANGED <<ui, bus, opening, keyring, drafts, ids, clock, history>>

\* mutant: the result is the event alone
ReportOnce(j) ==
  /\ job[j].step = "report"
  /\ job' = [job EXCEPT ![j].step = "done"]
  /\ chan' = Sent(Event(job[j].kind, job[j].tab, job[j].ok))
  /\ UNCHANGED <<ui, sendLast, openLast, opening, keyring, drafts, spool, ids, clock, history>>

\* only a send leaves its last result on the bus
Report(j) ==
  /\ job[j].step = "report"
  /\ job' = [job EXCEPT ![j].step = "done"]
  /\ chan' = Sent(Event(job[j].kind, job[j].tab, job[j].ok))
  /\ sendLast' = IF job[j].kind = "send"
                 THEN [sendLast EXCEPT ![job[j].tab] = IF job[j].ok THEN "ok" ELSE "failed"]
                 ELSE sendLast
  /\ UNCHANGED <<ui, openLast, opening, keyring, drafts, spool, ids, clock, history>>

-----------------------------------------------------------------------------
Key(u) ==
  \/ SendKey(u) \/ ScheduleKey(u) \/ CommitSchedule(u) \/ AbortKey(u) \/ ConfirmAbort(u)
  \/ EditKey(u) \/ SecurityKey(u) \/ CloseBox(u) \/ Retry(u) \/ Review(u) \/ TabKey(u)
  \/ SaveDraft(u)
  \/ \E d \in Dialogues : New(u, d) \/ \E e \in Dialogues : EditScheduled(u, d, e)

\* a message to the loop; a crash on the way stops the program
Update ==
  LET u == Polled IN IF u.crashed THEN Only(u) ELSE Key(u) \/ ReadEvent(u)

\* the spinner turns while a send is in flight, and looks at the results, too
Spin ==
  /\ \E i \in 1..Len(ui.tabs) : ui.phase[ui.tabs[i]] = "sending"
  /\ Only(Polled)

Work(j) == DeliverFails(j) \/ Deliver(j) \/ File(j) \/ Store(j) \/ Report(j)
Async == \E d \in Dialogues : Opened(d) \/ KeysLoaded(d)
Next == ~ui.crashed /\ (Update \/ Spin \/ (\E j \in Jobs : Work(j)) \/ Async)

Spec == Init /\ [][Next]_vars

-----------------------------------------------------------------------------
(* Properties.                                                             *)

Phases == {"editing", "aborting", "sending", "failed"}

\* The one type invariant of the module.
TypeOK ==
  /\ \A i \in 1..Len(ui.tabs) : ui.tabs[i] \in used
  /\ ~ui.crashed => ui.at \in 0..EndOf(ui)
  /\ ui.phase \in [Dialogues -> Phases] /\ ui.opened \subseteq used
  /\ sendLast \in [Dialogues -> {"none", "ok", "failed"}]
  /\ openLast \in used \cup {NoOne} /\ Len(chan) <= Cap
  /\ \A j \in Jobs : job[j] # NoJob => job[j].tab \in used
  /\ drafts \in [1..MaxSecond -> Dialogues \cup {NoOne}] /\ spool \subseteq used
  /\ opening \subseteq used /\ keyring \subseteq used /\ gone \subseteq Dialogues

\* What was delivered does not fail (send.go: "a retry would double-send"):
\* a mail goes out twice only if a job was started before the result of another
\* of its dialogue was taken, never after.
TwiceOnlyOverlapping == \A d \in Dialogues : sends[d] <= 1 + overlaps[d]

\* A dialogue is one tab, and one that was closed never comes back: neither
\* the event that was late nor the bus's memory of it opens a mail again.
ClosedStaysClosed ==
  [][\A d \in Dialogues : d \in ui.opened /\ ~IsTab(ui, d) => ~IsTab(ui', d)]_vars

\* A mail that was begun is in a dialogue, delivered, in a draft or in the
\* spool, unless its user discarded it, a draft of the same second overwrote
\* it or took it along when it was retired, or another dialogue opened before its own did.
KeptSomewhere ==
  \A d \in used :
    \/ mail[d] \in gone
    \/ \E e \in used :
         /\ mail[e] = mail[d]
         /\ IsTab(ui, e) \/ e \notin ui.opened \/ e \in spool \/ sends[e] > 0
    \/ \E s \in 1..MaxSecond : drafts[s] = mail[d]

\* A dialogue that is sending has something to wait for, though the event that
\* tells its result may be dropped (bus.go: "a completion dropped under
\* backpressure still resolves the dialogue instead of wedging it"): a job that
\* runs, or a result that the next message to the loop, a tick of the spinner
\* at the latest, looks at.
NeverWedged ==
  \A d \in Dialogues :
    IsTab(ui, d) /\ ui.phase[d] = "sending" =>
      \/ sendLast[d] # "none"
      \/ \E j \in Jobs : job[j].kind = "send" /\ job[j].tab = d /\ Running(j)

\* P schedules a message "instead of sending it" (usage.md), and a failure's
\* box offers "y = retry" (model.go): the retry of a failed schedule does not
\* start a send.
RetryRepeats ==
  [][\A j \in Jobs :
       job[j] = NoJob /\ job'[j].kind = "send" /\ job'[j].tab = ui.box.tab
         => ui.box.of # "schedule"]_vars
=============================================================================
