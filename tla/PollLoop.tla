------------------------------ MODULE PollLoop ------------------------------
(***************************************************************************)
(* The event loop of the refresher (src/app/app.go, runRefresher) and the  *)
(* goroutines it starts.  A poll brings new mail into the view in up to    *)
(* four hops:                                                              *)
(*                                                                         *)
(*   a sync command fetches mail     -> SyncDone on the bus                *)
(*   `notmuch new' indexes it        -> WorkerDone on the bus              *)
(*   the filter tags what is new     -> WorkerDone per tag write           *)
(*   cycle reads the revision and merges the changes into the view         *)
(*                                                                         *)
(* The hops are tied together by the bus only: a subscriber's channel has  *)
(* room for Capacity events, and an event that finds it full is dropped    *)
(* (src/core/bus.go).  While the loop runs cycle or `notmuch new' it takes *)
(* nothing from its channel.  Two gates hold the work back: pollRunning    *)
(* allows one sync command, filterJob.running one filter pipeline.         *)
(*                                                                         *)
(* What a cycle does to the rows is the matter of the module Refresh; here *)
(* the view is the revision it shows.                                      *)
(***************************************************************************)
EXTENDS Naturals, Sequences

CONSTANTS
  Views,      \* the [view] entries of the configuration
  HookViews,  \* those a refresh hook has a sync command for
  FirstView,  \* the view the program starts with
  Capacity,   \* of the loop's channel (64 in the code)
  Burst,      \* bound: the events a reload or a merge publishes
  MaxMail,    \* bound: the mails that arrive
  MaxActs,    \* bound: acts of the user, of other jobs and processes, failures
  MaxSpawn    \* bound: the filter goroutines that have not yet looked at the gate

ASSUME PollAssumption ==
  /\ HookViews \subseteq Views /\ FirstView \in Views
  /\ Capacity \in Nat \ {0} /\ Burst \in Nat \ {0} /\ MaxSpawn \in Nat \ {0}
  /\ MaxMail \in Nat /\ MaxActs \in Nat

Events == {"RefreshRequested", "SyncDone", "WorkerDone", "ConfigView",
           "ConfigRefresh", "Other"}  \* ConfigChanged by its section
JobPhases == {"start", "new", "window", "classify"}

VARIABLES
  (* mail and its database *)
  disk,        \* the mails on disk
  indexed,     \* those notmuch knows: the first `indexed' of them
  tagged,      \* those the filter has tagged
  rev,         \* the database's revision
  floor,       \* the last-classify file: the revision classified so far
  (* the configuration and the view *)
  filterOn,    \* [filter] enabled
  autoPoll,    \* [refresh] interval > 0
  want, view,  \* the store's active view, the shared view's identity
  seen,        \* the refresher's rPrev
  (* the event loop *)
  ch,          \* its channel
  pc,          \* "wait" is the select
  target,      \* the revision the cycle has read
  ticker,      \* there is a poll ticker
  pollRunning,
  stampSeen,   \* stampMtime
  (* goroutines and other processes *)
  syncs,       \* sync commands: running, and ended but not announced
  jobs,        \* filter goroutines in each phase
  jobRunning,  \* filterJob.running
  ext, stamp,  \* `notmutt poll' of another process, and its stamp file
  acts,        \* counts against MaxActs
  dropped      \* history: an event with no other wake-up found the channel full

mailVars == <<disk, indexed, tagged, rev, floor>>
cfgVars == <<filterOn, autoPoll, want>>
viewVars == <<view, seen>>
loopVars == <<viewVars, pc, target, ticker, pollRunning, stampSeen>>
jobVars == <<jobs, jobRunning>>
extVars == <<ext, stamp>>
vars == <<mailVars, cfgVars, loopVars, ch, syncs, jobVars, extVars, acts, dropped>>

-----------------------------------------------------------------------------
(* The bus.                                                                *)

\* mutant: a channel without a limit
OfferUnbounded(q, e) == Append(q, e)

\* Publish: never waits, a full channel drops the event
Offer(q, e) == IF Len(q) < Capacity THEN Append(q, e) ELSE q

\* some events nobody acts on here (Progress, ViewDiff), as many as there is room
Bursts(q) ==
  {q \o [i \in 1..n |-> "Other"] : n \in {k \in 0..Burst : Len(q) + k <= Capacity}}

\* what is not published again by a later poll
Lasting == {"SyncDone", "ConfigView", "ConfigRefresh"}

Publish(e) ==
  /\ ch' = Offer(ch, e)
  /\ dropped' = (dropped \/ (e \in Lasting /\ Len(ch) = Capacity))

\* Store.Replace notifies the live sections in turn: ui, view, theme, refresh
PublishConfig ==
  LET q == ch \o <<"Other", "ConfigView", "Other", "ConfigRefresh">>
  IN /\ ch' = IF Len(q) > Capacity THEN SubSeq(q, 1, Capacity) ELSE q
     /\ dropped' = (dropped \/ Len(q) > Capacity)

-----------------------------------------------------------------------------
Init ==
  /\ disk = 0 /\ indexed = 0 /\ tagged = 0 /\ rev = 1 /\ floor = 1
  /\ filterOn \in BOOLEAN /\ autoPoll \in BOOLEAN /\ ticker = autoPoll
  /\ want = FirstView /\ view = FirstView /\ seen = 0
  /\ ch = <<>> /\ pc = "cycle" /\ target = 0
  /\ pollRunning = FALSE
  /\ syncs = [running |-> 0, ended |-> 0]
  /\ jobs = [p \in JobPhases |-> 0] /\ jobRunning = FALSE
  /\ ext = "none" /\ stamp = 0 /\ stampSeen = 0
  /\ acts = 0 /\ dropped = FALSE

-----------------------------------------------------------------------------
(* Mail and the database.                                                  *)

\* notmuch new: every mail on disk is indexed
IndexMail ==
  /\ indexed' = disk
  /\ rev' = IF indexed < disk THEN rev + 1 ELSE rev

\* notmuch new fails or is cut off: what it had indexed stays
IndexSome ==
  /\ indexed' \in indexed..disk
  /\ rev' = IF indexed < indexed' THEN rev + 1 ELSE rev

\* a sync command, ours or another process's, delivers a mail
Deliver ==
  /\ disk < MaxMail
  /\ syncs.running > 0 \/ ext = "fetch"
  /\ disk' = disk + 1
  /\ UNCHANGED <<indexed, tagged, rev, floor, cfgVars, loopVars, ch, syncs,
                 jobVars, extVars, acts, dropped>>

-----------------------------------------------------------------------------
(* The sync command's goroutine.                                           *)

\* the command exits, fails or is cancelled: completeTask publishes TaskChanged
SyncExit ==
  /\ syncs.running > 0
  /\ syncs' = [running |-> syncs.running - 1, ended |-> syncs.ended + 1]
  /\ Publish("Other")
  /\ UNCHANGED <<mailVars, cfgVars, loopVars, jobVars, extVars, acts>>

SyncAnnounce ==
  /\ syncs.ended > 0
  /\ syncs' = [syncs EXCEPT !.ended = @ - 1]
  /\ Publish("SyncDone")
  /\ UNCHANGED <<mailVars, cfgVars, loopVars, jobVars, extVars, acts>>

-----------------------------------------------------------------------------
(* The event loop.                                                         *)

\* `go fj.run()', or notmuch new in the loop and then a cycle
AfterSync(q) ==
  /\ ch' = q
  /\ \/ /\ filterOn
        /\ jobs["start"] < MaxSpawn
        /\ jobs' = [jobs EXCEPT !["start"] = @ + 1]
        /\ UNCHANGED pc
     \/ /\ ~filterOn
        /\ pc' = "new"
        /\ UNCHANGED jobs

\* registerTask publishes TaskChanged, the command runs in a goroutine
StartSync(q) ==
  /\ syncs' = [syncs EXCEPT !.running = @ + 1]
  /\ ch' = Offer(q, "Other")
  /\ pollRunning' = TRUE
  /\ UNCHANGED <<pc, jobs>>

\* mutant: no single-flight gate
PollUngated(q) ==
  \/ view \in HookViews /\ StartSync(q)
  \/ AfterSync(q) /\ UNCHANGED <<pollRunning, syncs>>

\* the body of a poll.  A hook may have no command, or fail: a plain poll
Poll(q) ==
  \/ /\ pollRunning
     /\ ch' = q
     /\ UNCHANGED <<pc, pollRunning, syncs, jobs>>
  \/ ~pollRunning /\ view \in HookViews /\ StartSync(q)
  \/ ~pollRunning /\ AfterSync(q) /\ UNCHANGED <<pollRunning, syncs>>

Tick ==
  /\ pc = "wait" /\ ticker
  /\ Poll(ch)
  /\ UNCHANGED <<mailVars, cfgVars, viewVars, target, ticker, stampSeen,
                 jobRunning, extVars, acts, dropped>>

\* the stamp of `notmutt poll' has changed
Watch ==
  /\ pc = "wait" /\ stamp # stampSeen
  /\ stampSeen' = stamp
  /\ Poll(ch)
  /\ UNCHANGED <<mailVars, cfgVars, viewVars, target, ticker, jobRunning,
                 extVars, acts, dropped>>

ReceiveRefresh ==
  /\ pc = "wait" /\ ch # <<>> /\ Head(ch) = "RefreshRequested"
  /\ Poll(Tail(ch))
  /\ UNCHANGED <<mailVars, cfgVars, viewVars, target, ticker, stampSeen,
                 jobRunning, extVars, acts, dropped>>

ReceiveSyncDone ==
  /\ pc = "wait" /\ ch # <<>> /\ Head(ch) = "SyncDone"
  /\ pollRunning' = FALSE
  /\ AfterSync(Tail(ch))
  /\ UNCHANGED <<mailVars, cfgVars, viewVars, target, ticker, stampSeen,
                 syncs, jobRunning, extVars, acts, dropped>>

\* a changed interval: ticker.Reset, which panics on a duration of zero, or a
\* first ticker.  A panic ends the program; here it ends the loop
ReceiveConfigRefresh ==
  /\ pc = "wait" /\ ch # <<>> /\ Head(ch) = "ConfigRefresh"
  /\ ch' = Tail(ch)
  /\ pc' = IF ticker /\ ~autoPoll THEN "panic" ELSE "wait"
  /\ ticker' = (ticker \/ autoPoll)
  /\ UNCHANGED <<mailVars, cfgVars, viewVars, target, pollRunning, stampSeen,
                 syncs, jobVars, extVars, acts, dropped>>

\* onConfig takes the identity of the active view and reloads
ReceiveConfigView ==
  /\ pc = "wait" /\ ch # <<>> /\ Head(ch) = "ConfigView"
  /\ view' = want
  /\ pc' = "reload"
  /\ ch' = Tail(ch)
  /\ UNCHANGED <<mailVars, cfgVars, seen, target, ticker, pollRunning,
                 stampSeen, syncs, jobVars, extVars, acts, dropped>>

ReceiveOther ==
  /\ pc = "wait" /\ ch # <<>> /\ Head(ch) \in {"WorkerDone", "Other"}
  /\ pc' = IF Head(ch) = "WorkerDone" THEN "cycle" ELSE "wait"
  /\ ch' = Tail(ch)
  /\ UNCHANGED <<mailVars, cfgVars, viewVars, target, ticker, pollRunning,
                 stampSeen, syncs, jobVars, extVars, acts, dropped>>

\* without the filter: notmuch new, whose failure does not stop the cycle
LoopNew ==
  /\ pc = "new" /\ pc' = "cycle"
  /\ \/ IndexMail /\ Publish("WorkerDone") /\ UNCHANGED acts
     \/ /\ acts < MaxActs /\ acts' = acts + 1
        /\ IndexSome
        /\ UNCHANGED <<ch, dropped>>
  /\ UNCHANGED <<disk, tagged, floor, cfgVars, viewVars, target, ticker,
                 pollRunning, stampSeen, syncs, jobVars, extVars>>

\* cycle reads the revision; it may be the one it knows, or the call may fail
Cycle ==
  /\ pc = "cycle"
  /\ \/ rev # seen /\ pc' = "merge" /\ target' = rev /\ UNCHANGED acts
     \/ rev = seen /\ pc' = "wait" /\ UNCHANGED <<target, acts>>
     \/ /\ acts < MaxActs /\ acts' = acts + 1
        /\ pc' = "wait" /\ UNCHANGED target
  /\ UNCHANGED <<mailVars, cfgVars, viewVars, ch, ticker, pollRunning,
                 stampSeen, syncs, jobVars, extVars, dropped>>

\* the changes up to the revision read are merged, or a query fails
Merge ==
  /\ pc = "merge" /\ pc' = "wait" /\ target' = 0
  /\ \/ seen' = target /\ ch' \in Bursts(ch) /\ UNCHANGED acts
     \/ acts < MaxActs /\ acts' = acts + 1 /\ UNCHANGED <<seen, ch>>
  /\ UNCHANGED <<mailVars, cfgVars, view, ticker, pollRunning, stampSeen,
                 syncs, jobVars, extVars, dropped>>

\* fullReload publishes two events per chunk
Reload ==
  /\ pc = "reload" /\ pc' = "wait"
  /\ ch' \in Bursts(ch)
  /\ UNCHANGED <<mailVars, cfgVars, viewVars, target, ticker, pollRunning,
                 stampSeen, syncs, jobVars, extVars, acts, dropped>>

-----------------------------------------------------------------------------
(* The filter job: one goroutine per `go fj.run()'.                        *)

Move(p, q) == jobs' = [jobs EXCEPT ![p] = @ - 1, ![q] = @ + 1]
Leave(p) == jobs' = [jobs EXCEPT ![p] = @ - 1] /\ jobRunning' = FALSE

\* mutant: no gate before the pipeline
EnterUngated ==
  /\ jobs["start"] > 0
  /\ Move("start", "new") /\ jobRunning' = TRUE
  /\ UNCHANGED <<mailVars, cfgVars, loopVars, ch, syncs, extVars, acts,
                 dropped>>

\* a pipeline is running: this call does nothing
Enter ==
  /\ jobs["start"] > 0
  /\ \/ /\ jobRunning
        /\ jobs' = [jobs EXCEPT !["start"] = @ - 1]
        /\ UNCHANGED jobRunning
     \/ /\ ~jobRunning
        /\ Move("start", "new") /\ jobRunning' = TRUE
  /\ UNCHANGED <<mailVars, cfgVars, loopVars, ch, syncs, extVars, acts,
                 dropped>>

\* mutant: the worker announces `notmuch new' to nobody
JobNewSilent ==
  /\ jobs["new"] > 0
  /\ IndexMail
  /\ Move("new", "window")
  /\ UNCHANGED <<disk, tagged, floor, cfgVars, loopVars, ch, syncs,
                 jobRunning, extVars, acts, dropped>>

\* ActNew: the worker publishes WorkerDone, whatever was new
JobNew ==
  /\ jobs["new"] > 0
  /\ IndexMail
  /\ Publish("WorkerDone")
  /\ Move("new", "window")
  /\ UNCHANGED <<disk, tagged, floor, cfgVars, loopVars, syncs, jobRunning,
                 extVars, acts>>

\* the window (floor, cur]; an empty one ends the poll without a word
JobWindow ==
  /\ jobs["window"] > 0
  /\ \/ rev > floor /\ Move("window", "classify") /\ UNCHANGED jobRunning
     \/ rev <= floor /\ Leave("window")
  /\ UNCHANGED <<mailVars, cfgVars, loopVars, ch, syncs, extVars, acts,
                 dropped>>

\* ActTag for a mail of the window; what is tagged already needs no write
JobTag ==
  /\ jobs["classify"] > 0 /\ tagged < indexed
  /\ tagged' = tagged + 1 /\ rev' = rev + 1
  /\ Publish("WorkerDone")
  /\ UNCHANGED <<disk, indexed, floor, cfgVars, loopVars, syncs, jobVars,
                 extVars, acts>>

\* the revision the classification ends on becomes the floor; FilterDone
JobEnd ==
  /\ jobs["classify"] > 0
  /\ floor' = rev
  /\ Publish("Other")
  /\ Leave("classify")
  /\ UNCHANGED <<disk, indexed, tagged, rev, cfgVars, loopVars, syncs,
                 extVars, acts>>

\* a call of the pipeline fails: JobError
JobFail ==
  /\ acts < MaxActs /\ acts' = acts + 1
  /\ \/ jobs["new"] > 0 /\ IndexSome /\ Leave("new")
     \/ /\ \E p \in {"window", "classify"} : jobs[p] > 0 /\ Leave(p)
        /\ UNCHANGED <<indexed, rev>>
  /\ Publish("Other")
  /\ UNCHANGED <<disk, tagged, floor, cfgVars, loopVars, syncs, extVars>>

-----------------------------------------------------------------------------
(* `notmutt poll' in another process, after a sync command of its own.     *)

ExtStart ==
  /\ ext = "none" /\ ext' = "fetch"
  /\ acts < MaxActs /\ acts' = acts + 1
  /\ UNCHANGED <<mailVars, cfgVars, loopVars, ch, syncs, jobVars, stamp,
                 dropped>>

ExtNew ==
  /\ ext = "fetch"
  /\ IndexMail
  /\ ext' = "run"
  /\ UNCHANGED <<disk, tagged, floor, cfgVars, loopVars, ch, syncs, jobVars,
                 stamp, acts, dropped>>

\* its classification and its floor, and then the stamp
ExtTouch ==
  /\ ext = "run" /\ ext' = "none"
  /\ stamp' = stamp + 1
  /\ \/ /\ filterOn /\ rev > floor
        /\ \E n \in tagged..indexed : tagged' = n /\ rev' = rev + (n - tagged)
        /\ floor' = rev'
     \/ ~filterOn /\ UNCHANGED <<tagged, rev, floor>>
  /\ UNCHANGED <<disk, indexed, cfgVars, loopVars, ch, syncs, jobVars, acts,
                 dropped>>

\* a run whose window is empty, or that fails, leaves the stamp alone
ExtQuit ==
  /\ ext = "run" /\ ext' = "none"
  /\ UNCHANGED <<mailVars, cfgVars, loopVars, ch, syncs, jobVars, stamp, acts,
                 dropped>>

-----------------------------------------------------------------------------
(* The user, and the other publishers of the bus.                          *)

PressRefresh ==
  /\ acts < MaxActs /\ acts' = acts + 1
  /\ Publish("RefreshRequested")
  /\ UNCHANGED <<mailVars, cfgVars, loopVars, syncs, jobVars, extVars>>

SelectView(v) ==
  /\ v # want
  /\ acts < MaxActs /\ acts' = acts + 1
  /\ want' = v
  /\ Publish("ConfigView")
  /\ UNCHANGED <<mailVars, filterOn, autoPoll, loopVars, syncs, jobVars,
                 extVars>>

\* the configuration files are edited: the new configuration replaces the
\* store's, whose active view is the default one again
EditConfig ==
  /\ acts < MaxActs /\ acts' = acts + 1
  /\ filterOn' \in BOOLEAN /\ autoPoll' \in BOOLEAN
  /\ want' = FirstView
  /\ PublishConfig
  /\ UNCHANGED <<mailVars, loopVars, syncs, jobVars, extVars>>

\* another job publishes; the apply key writes tags
Noise ==
  /\ acts < MaxActs /\ acts' = acts + 1
  /\ \/ Publish("Other") /\ UNCHANGED rev
     \/ Publish("WorkerDone") /\ rev' = rev + 1
  /\ UNCHANGED <<disk, indexed, tagged, floor, cfgVars, loopVars, syncs,
                 jobVars, extVars>>

-----------------------------------------------------------------------------
Loop == \/ Tick \/ Watch \/ ReceiveRefresh \/ ReceiveSyncDone
        \/ ReceiveConfigView \/ ReceiveConfigRefresh \/ ReceiveOther
        \/ LoopNew \/ Cycle \/ Merge \/ Reload
Sync == Deliver \/ SyncExit \/ SyncAnnounce
Job == Enter \/ JobNew \/ JobWindow \/ JobTag \/ JobEnd \/ JobFail
External == ExtStart \/ ExtNew \/ ExtTouch \/ ExtQuit
User == PressRefresh \/ EditConfig \/ Noise \/ \E v \in Views : SelectView(v)

Next == Loop \/ Sync \/ Job \/ External \/ User

Spec == Init /\ [][Next]_vars

Receive == \/ ReceiveRefresh \/ ReceiveSyncDone
           \/ ReceiveConfigView \/ ReceiveConfigRefresh \/ ReceiveOther

(* Calls return, commands exit and goroutines are scheduled (weak          *)
(* fairness); select picks at random among the ready channels, so none of  *)
(* them is passed over for ever (strong fairness).  Failures are finite by *)
(* MaxActs.  Nothing is assumed of the user and of other processes but     *)
(* that a run of `notmutt poll' ends.                                      *)
Fairness ==
  /\ SF_vars(Tick) /\ SF_vars(Receive)
  /\ WF_vars(LoopNew \/ Cycle \/ Merge \/ Reload)
  /\ WF_vars(SyncExit) /\ WF_vars(SyncAnnounce)
  /\ WF_vars(Enter) /\ WF_vars(JobNew \/ JobWindow \/ JobEnd)
  /\ WF_vars(ExtNew \/ ExtTouch \/ ExtQuit)

FairSpec == Spec /\ Fairness

-----------------------------------------------------------------------------
(* Properties.                                                             *)

\* The one type invariant of the module.
TypeOK ==
  /\ disk \in Nat /\ indexed \in Nat /\ tagged \in Nat /\ rev \in Nat /\ floor \in Nat
  /\ filterOn \in BOOLEAN /\ autoPoll \in BOOLEAN /\ ticker \in BOOLEAN
  /\ want \in Views /\ view \in Views /\ seen \in Nat /\ target \in Nat
  /\ ch \in Seq(Events) /\ Len(ch) <= Capacity
  /\ pc \in {"wait", "new", "cycle", "merge", "reload", "panic"}
  /\ pollRunning \in BOOLEAN /\ jobRunning \in BOOLEAN /\ dropped \in BOOLEAN
  /\ syncs \in [running : Nat, ended : Nat]
  /\ jobs \in [JobPhases -> Nat]
  /\ ext \in {"none", "fetch", "run"}
  /\ stamp \in Nat /\ stampSeen \in Nat /\ acts \in Nat

Queued(e) == {i \in DOMAIN ch : ch[i] = e}

\* "pollRunning gates the sync exec to one in flight": however ticks, stamps,
\* refresh keys and completions follow each other, one sync command runs, and
\* the gate is shut from its start until the loop takes its completion.
SingleFlight ==
  /\ syncs.running + syncs.ended <= 1
  /\ \A i, j \in Queued("SyncDone") : i = j
  /\ syncs.running + syncs.ended = 1 => pollRunning /\ Queued("SyncDone") = {}
  /\ Queued("SyncDone") # {} => pollRunning

\* "the cadence must not pile jobs": overlapping polls start goroutines at
\* will, but one pipeline runs `notmuch new', classifies and moves mail.
OnePipeline ==
  jobs["new"] + jobs["window"] + jobs["classify"] = IF jobRunning THEN 1 ELSE 0

\* All mail on disk is indexed, and the view shows the database's revision.
UpToDate == indexed = disk /\ seen = rev /\ view = want

\* With the automatic poll on, the view catches up with the mail, the database
\* and the user, whatever was absorbed by a gate, failed, or was dropped --
\* unless the drop was one of the events nothing publishes again, or the loop
\* is dead.
Converges == <>[](UpToDate \/ ~ticker \/ dropped \/ pc = "panic")
=============================================================================
