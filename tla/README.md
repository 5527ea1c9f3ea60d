# notmutt in TLA+

Specifications, model-checking runs and machine-checked proofs of the parts of
notmutt where several actors share state: the goroutines of the client, its
notmuch worker, its terminal, other processes that hold the same notmuch
database, mail root, configuration and state directory, and the database
itself. Source paths below are relative to `src/src/`.

## 1. The system

notmutt is an asynchronous mail client. Every read and write of the notmuch
database is an `Action` sent to a worker goroutine that owns one handle
(`notmuch/worker.go`); goroutines call it synchronously and learn everything
else from a bus of events that may be dropped (`core/bus.go`).

| component | state | operations | talks to | hard behaviour | what makes it correct |
|---|---|---|---|---|---|
| event bus, `core/bus.go` | per-subscriber queues (64), last-value snapshots | Subscribe, Publish, Latest*/Clear* | everybody | a full queue drops the event | nobody waits for an event without a snapshot |
| view model, `core/view.go`, `diff.go`, `compare.go` | threads, staged ops with generations, cursor, window | MergeThreads, Reset, SetTags, Stage/Undo/ClearStaged, Remove | refresher, apply, TUI | shared `*Thread` objects, three writers, a cursor that is an identity and an index | a merge leaves the input's rows, staged ops are never lost, a key acts on what is highlighted |
| notmuch worker, `notmuch/*.go` | action queue, read handle | Call, handle, read; backends cgo and cli | every job | lock budget, late answers, foreign writers | an error means nothing was written (it does not) |
| refresher, `app/refresh.go` | `rPrev`, `uuid`, snapshot | cycle, prune, merge, fullReload, onConfig | walk worker, view, bus | database moves between two calls, calls fail | no consumed change is missing, no row is resurrected |
| event loop and poll, `app/app.go`, `filterjob.go` | pollRunning, ticker | poll, afterSync, fj.run | bus, worker | async sync process, dropped SyncDone | a poll is eventually followed by a cycle; one sync at a time |
| staged apply, `app/apply.go` | none of its own | applyStaged, execApply, tagWrite, keptBy | worker, views, mover | races the refresher, a view switch, Stage during apply | an op is cleared only when written; rows mirror the query |
| filter engine, `filter/filter.go`, `classify.go` | none (a bracket of revisions) | Run, classify | worker | delta bounds | every message of the delta is classified once |
| mover, `filter/mover.go` | per-root lock file | Move, lockLive, copyFile | worker, file system | crash or failure between copy, index and delete; two processes | no message loses its last file or its record |
| poll reconcile, `app/app.go`, `app/classify.go` | last-classified revision on disk | pollOnce, pollReconcile, runPoll | worker, file system | several processes, foreign commits | nothing that changed is skipped by the rules |
| scheduled send, `app/schedule.go`, `schedule_lock_*` | spool directory, flock | scheduleAt, sendDue, editScheduled | transport, file system | crash between delivery and removal, two processes | at least once, and what else is promised |
| send, drafts, `app/send.go` | sent and draft folders | deliverSend, writeFcc, saveDraft, retireDraftPath | transport, worker | partial failure, names by the second | a sent mail has its copy, a draft is not lost |
| compose, `compose/*.go`, `tui/model.go` | tabs, phase, box, last results | phases, boxes, assemble, resume | bus, send, schedule | a job's result arrives late, twice, or not at all | a mail is somewhere until sent or given up; no dialogue waits for ever |
| tag operations, `core/resolve.go` | none | ResolveOps, AccountTag | apply, view | exclusive groups | net ops applied to the tags give the target |
| configuration, `config/`, `app/configwatch.go` | store, active view, derived keys, fingerprint | Load, Set, watch, DeriveViews | everybody | files edited while they are read | the store is the files as they are, the user's settings win |
| terminal, `tui/` | tab strip, surfaces, pager, dialogues, cursor | key handlers, events, render | everything above | loads answer late, tabs come and go in the background | a surface shows what it asked for; the window is the text |
| images, `tui/img.go`, `app/imgfetch.go` | placements, transmitted pictures, pixels | fetch, decode, paint, erase | terminal emulator | replies in any order, two protocols | the terminal shows what the program thinks it shows |
| Lua plugins, `app/lua_action.go`, `lua_ipc_server.go` | waiters, runs | prompt, picker_argv, attach_add, socket | bus, TUI | several runs ask at once | each run gets its own answer, the loop keeps its reader |
| CRM queue, `tui/crm.go`, `app/crm_engine.go`, `lib/crm` | rows, briefings, references of dialogues | pull, analyse, prompt, dismiss, mark | an external service, compose | pages and failures overtake each other | the marker is written for who was handled, nobody is offered twice |
| tasks `app/task.go`, cache `app/cachejob.go`, AI, MCP, mail rendering, export, attachments, notifications, i18n, setup, `lib/` | registry, caches, none | | | external services, conversions | |

The status of each component, and every hazard of the code with its line and
the properties that cover it, is in `PROJECT.json` (`components`, `hazards`).
The same file maps every definition that stands for code to its source lines.

## 2. The modules and the code

### `Refresh` -- the refresher against a database that moves

| state | code |
|---|---|
| `uuid`, `rev`, `mod`, `tags`, `thread` | the notmuch database: identity, revision, and per message the revision of its last change, its tags and its thread |
| `want`, `cfgEvents` | `config.Store`'s active view and the `ConfigChanged` events not yet received |
| `active`, `view` | the shared `core.View`: identity and rows. A row is what it shows, a set of (message, tags) |
| `rUuid`, `rPrev`, `snapshot` | the refresher's fields (`app/refresh.go:24-37`) |
| `pc`, `curUuid`, `curRev`, `page`, `named`, `todo`, `kept`, `result`, `painted`, `byCycle` | the locals of `cycle`, `prune`, `fullReload` and `mergeWalk` between two worker calls |
| `shrunk`, `loaded` | history: threads that lost a message; whether the last full load went through |

One action per worker call and what follows it up to the next call:
`ReadRevision` (cycle reads the revision and uuid; a new uuid starts a full
reload, an equal revision ends the cycle), `Changed` (the `lastmod` query),
`Prune` (a batch of identities asked against the view's query, the unanswered
ones forgotten in rows and snapshot), `Fetch` (a thread read whole again),
`Merge` (`MergeThreads` of the changed set over the snapshot), `Abort` (any of
these calls fails: the consumed revision stays), `OnConfig` (view switch, rows
reset), `Preload`, `OpenWalk`, `Chunk`, `EndWalk`, `FailWalk` (the full reload).
Between any two, the environment may `Retag`, `Arrive` (a new message, which may
join two threads), `Expunge`, `Rebuild` (another database whose revisions start
over) and `SelectView`. A view is a set of tag sets (`Query`), threaded or flat.

Abstracted: order and width of rows, the cursor, message bodies, the size of a
prune batch and of a walk chunk (both may be any part of what is left), the
progress events, and the search tab (one walk into a view of its
own, `runSearchQuery`).

### `Apply` -- staged operations, read marks and the refresher

The rows of the view are Go objects that the refresher's snapshot may share
(`core/view.go:551-601` inserts the snapshot's own `*Thread` and message). The
module keeps the view (`units`, `rows`, `shown`), the snapshot (`sunits`,
`srows`, `sshown`), and which objects are common (`sharedThreads`,
`sharedMsgs`): a write through one is a write through both until a merge
replaces the object.

`Stage`, `Undo`, `StartApply` (`StagedOps`: the buffer and its generation are
copied), `StartRead` (opening a message) are the user's. A writer `job[j]` runs
`Resolve` (next entry: gone row and net no-op are cleared, otherwise the write
is due), `Tag` (`notmuch tag` commits), `TagFails` (the call fails, or commits
and is reported late), `ReadRow` and `SetRow` (the two lock holds of `tagWrite`),
`Clear` (`ClearStaged`, guarded by the generation), `KeptBy` and `Remove` (the
membership check and the removal), `Finish`. `Collect` and `Merge` are a
refresh cycle in two steps, its queries and its merge; `Switch` and `Load` a
view switch. `Refresh` shows what a cycle does when its own calls are
interleaved with the database; here it is enough that it acts on a state that
is older than the merge.

Abstracted: entries staged under a thread's identity, exclusive tag groups
(`AccountTag`), folder moves, error texts. `MaxRev` bounds the environment's
writes only: a writer's own writes always go through.

### `PollLoop` -- the event loop, its bus and its goroutines

`runRefresher` (`app/app.go:983-1110`) is a loop over a `select` with three
sources: the bus channel (`ch`), the poll ticker (`ticker`) and the stamp file
of `notmutt poll` (`stamp`, `stampSeen`). `pc` is where the loop is: waiting, in
`notmuch new`, in a cycle (two steps: the revision read, the merge) or in a
reload. `syncs` counts sync commands that run, and those that have ended and not
yet published `SyncDone`; `jobs` counts filter goroutines by phase, behind the
gate `jobRunning`; `pollRunning` is the sync gate. `ext` is a `notmutt poll` of
another process. The mail itself is three counters, `disk`, `indexed`, `tagged`,
with the revision `rev` and the classification's `floor`.

`Publish` never waits and drops the event when the channel is full, as
`Bus.Publish` does; `PublishConfig` is the sequence of sections
`Store.Replace` announces. The actions are named for the sources and handlers:
`Tick`, `Watch`, `ReceiveRefresh`, `ReceiveSyncDone`, `ReceiveConfigRefresh`,
`ReceiveConfigView`, `ReceiveOther`, `LoopNew`, `Cycle`, `Merge`, `Reload`;
`Deliver`, `SyncExit`, `SyncAnnounce`; `Enter`, `JobNew`, `JobWindow`, `JobTag`,
`JobEnd`, `JobFail`; `ExtStart` ... `ExtQuit`; `PressRefresh`, `SelectView`,
`EditConfig`, `Noise`.

Abstracted: the rows (a cycle is the revision it consumes), what the rules tag,
the mover, the dry-run mode of the filter.

### `Schedule` and `Outbox` -- scheduled mail

`spool[m]` is the file `<m>.pending`: absent, created and empty, or whole.
`saving`, `edit` and the round's `pc`, `todo`, `now`, `cur` are the locals of
`scheduleAt`, `editScheduled` and `sendDue`; `lock` is the flock, `up` the
processes that run. `Create`, `Write`, `WriteFails` are the two system calls of
`scheduleAt`; `EditRead`, `EditRemove` those of the edit, which takes no lock;
`Begin`, `Read`, `ReadFails`, `Transport`, `TransportFails`, `RemoveSent`,
`Drop`, `End` are `sendDue` from lock to unlock; a record that is not whole and
one whose read fails (no descriptor, an error of the disk or the permissions)
take the same way, to `Drop`; `Crash` and `Start` a process that dies anywhere
(the kernel releases the lock) and is started again; `Elapse` is the clock.
`sends`, `returned`, `missed`, `unread` are history. `Outbox` says what the spool
promises and no more: a mail that is in it leaves it only after it was delivered
at least once, or given back to the user, or at a read that failed, and each such
loss is paid by a failure of its own (`GiveUp` counts them). `Schedule`
implements it (`Promise`): a mail is `Pending` from the moment its record is
whole until it is removed or a round is about to drop it as unreadable, and as
long as a round that has read it is at its delivery. A removal that fails leaves
the record, and with it the mail.

### `Mover` -- copies, the index, removals

`disk` is the set of files, `index` the set of paths notmuch has; a file is its
message, its folder and the two parts of its name that other programs change
(maildir flags, the sync tool's UID). `pc`, `target`, `todo`, `paths`, `toAdd`,
`toRemove` are the locals of `Move`; `lock` is `mover.lock`. The steps are the
lock (at once, or until a timeout), the snapshot, each copy (temporary file and
rename), `ActAddPaths`, `ActRemovePaths`, each removal, each with its failure,
and a death between any two. Everybody else: `notmuch new` reads folder by
folder (`scan`, `gone`), a tag write renames a message's files, the sync tool
marks or flags a file. `cli` is the backend without path operations, which
leaves the index to the next `notmuch new`.

### `Reconcile` -- the floor of the classified revisions

`pc`, `dry`, `low`, `cur`, `rep`, `todo`, `final` are the locals of
`pollReconcile` and of the filter run in it, per process; `floor`, `tmp` and
`fd` are the floor file, its temporary file, which all processes share by name,
and what the temporary file each process has open is called by now; `rev`,
`lastmod`, `tags`, `path`, `loc` are the database and the files. One action per
call: `New`, the floor's read, the revision's read, the delta with its
snapshots, each tag write, the mover's batch (one step here, which succeeds, is
contended or fails), the final revision, and `writeLastClassify` in its four
steps (truncate, write, compare, rename). Beside the polls a user applies a
folder tag, mail arrives, the sync tool moves files. `met`, `raced` and `since`
are history, and are the exceptions of the properties: `raced` when a change
from outside, or a held lock, met a classification; `met` when two
classifications met or the mover did not find a file where its snapshot had it;
`since` the last revision a poll without a floor began at.

### `Compose` -- a mail from its dialogue to its delivery

`ui` is the model of `tui/model.go` as far as dialogues go: the strip, the
active tab, each dialogue's phase, the box on the screen. `chan` is the loop's
channel, `sendLast` and `openLast` the bus's last values, which `Update` looks
at before every message (`Polled`). `job` holds the deliveries and stores, each
a goroutine with its steps; `drafts` the draft folder by second, since a file's
name is the second (`app/send.go:155`); `spool` the scheduled dialogues.
`Update` is one message to the loop (an event, a tick, a key); `Work` a step of
a job; `Async` the openings, the key listings and the clock. A crash is a state
(an index out of range in the loop over the tabs, `tui/model.go:403-409`).
`sends`, `overlaps`, `gone` are history.

### `Surfaces` -- the tab strip and its one pager

`ui` has the strip (mail, dialogues, search tabs, queue, summary, in this
order), the mode, the rows, the pager with the view it belongs to (`home`), what
is parked under each view (`open`), the preview, and the summary with what it
displaced. `Attach` is `attachTab` with its branches (`mountSurface`, the
summary, the queue, a dialogue); `Go` a change of tab; `Land` what a closed tab
leaves; then one action per key and event: a load dispatched and answered,
previews, promotions, dialogues and search tabs that open and close, summaries
that start, stream and end. `asked` is history: what each view asked for; `met`
names the odd encounters the properties except, each of them a finding below:
`shifted` (a background search tab moves the strip under the queue or the
summary), `covered` (a summary starts under a preview), `clobbered` (a load
answers on the summary), `promoted` (a preview promoted on a search tab has no
home), `doubled` (a load leaves its surface two opens, one in the pager and one
parked, as after a promoted preview that an earlier load follows).

### `View` -- rows, folds, windows and the cursor

`v` is `core.View` (threads with their fold and window, the cursor, memoized
rows, the filter), `u` the terminal's copy of the rows and its page. `Tree` and
`Walk` are the flatten, `Fold` a long thread's window with its ghost rows,
`Merge` the sorted diff's edit scripts applied edit by edit, to the threads and in
each thread to its messages (`MergeMsgs`; rows without messages, which a
snapshot of summaries may hold, are left out), `Press` one of the
cursor and page keys with the walk over ghosts and slides. The terminal is one
repaint behind: it takes the rows with `OnEvent`.

### `Pager`, `Images`, `Scripts` -- what a surface shows, and who asks

`Pager` is the text: lines, the two caches of styled rows and what they were
styled for (boundary, theme, selection, pictures), offset and pan, and the
streamed text of a summary, cut anywhere and wrapped as it arrives. `Images` is
the pictures: a frame of the loop in its order (settle, erase, decode with the
text, paint), the terminal's own state in the kitty and the sixel protocol,
fetches and layouts whose replies come in any order or not at all. `Scripts` is
the Lua runs and the scripting socket: a run registers a waiter, publishes a
question and blocks; the terminal takes events with one-shot readers that every
event re-arms (`EventCmd`), and a chooser takes the terminal and the reader with
it; deadlines kill a run anywhere.

### `Config` and `Crm` -- the live configuration, the follow-up queue

`Config`: the directory and its edits, the watcher (fingerprint, files read one
by one and each twice, strict check, merge, derivation of views and keys,
validation, replacement of the store), and the terminal's copy of the bindings,
renewed by an event that may be lost. `todo` is the set of places in `Files` a
load has yet to read, the least one next; `ReadOf` says without an order of
steps what a load that nobody disturbs gives: of the files that have a setting,
the last one's value. `Crm`: the CRM with its contacts and
markers, the pull page by page over an offset while the CRM changes, the rows of
the queue merged by contact, the jobs (analysis, prompt, mark), and the
dialogues whose delivery writes the marker back.

### How they fit together

The modules overlap on purpose at a few operations, at different grains.
The refresh cycle: in `PollLoop` it brings `seen` to the revision it read, which
is what `Refresh` establishes in detail (`NothingMissed`, `NothingAlien`: what
was consumed is shown, what left is not); `Apply` takes the cycle as two steps,
and adds the aliasing of row objects, which `Refresh` has no other writer to
make visible. The mover: one step in `Reconcile`, all its steps in `Mover`. The
poll's process: a counter in `PollLoop`, its floor in `Reconcile`. The spool: a
set in `Compose`, files and a lock in `Schedule`. The terminal: `Compose` has
the dialogues and what the bus tells them, `Surfaces` the strip around them with
a dialogue as a number, `Pager`, `Images` and `View` what one surface shows.

`Terminal` puts `Scripts`, `Pager` and `Images` beside `Surfaces`, `Services`
puts `Config` and `Crm` beside `Compose`, through `INSTANCE`; `MCTerminal` and
`MCServices` choose the instances.
These components share no state, and a behaviour of such a run is a behaviour of
one of them while the others rest (`part` says of which). The theorems about an
instance are about its own specification (`Lua!Spec`, `Page!Spec`, `Pics!Spec`,
`Queue!Spec`, `Settings!Spec`), which says nothing of `part`.

## 3. What the runs check

| run | checks | shows |
|---|---|---|
| `refresh` | `NoMissedRow`, `NoAlienRow`, `CarryOver` | incremental cycles, thread re-fetches, switches and full reloads of a threaded and a flat view, any call failing, interleaved with every change of the database and its replacement: a unit whose last change is consumed is shown with the database's tags, a unit that left has no row, a merge touches its changed set only |
| `refresh_live` | `Converges` | when the database falls silent and the last full load went through, the rows become the query's answer, failures in between notwithstanding |
| `apply` | `NoGhostRow`, `Drains`, `StagedSurvive` | an apply and read marks beside the refresher, another client, failing writes, late replies, failing checks and a view switch: an apply clears only what it took, no row outlives its match when everything is at rest, and the user who goes on applying runs out of staged entries |
| `poll` | `SingleFlight`, `OnePipeline`, `Converges` | one sync command, one filter pipeline; with the poll on, mail on disk reaches the view whatever a gate absorbed or the bus dropped, except the drops named below |
| `mover` | `NoLoss`, `KeepsRecord`, `CopyStands` | two movers, `notmuch new` folder by folder, tag writes and the sync tool: no message loses its last file or its record, every source about to be removed has its copy |
| `schedule` | `OneDeliverer`, `TwiceOnlyAfterMiss`, `Promise`, `SentInTheEnd` | two clients on one spool: one deliverer per mail, a second delivery only after a missed removal, the spool implements an outbox that loses mail at failing reads only, and what is due is sent |
| `reconcile` | `NothingForgotten`, `FloorIsPast`, `ClassifiedInTheEnd` | two processes that poll over one floor file, dry or not: what is due is not left below the floor, and is classified in the end |
| `services` | `TwiceOnlyOverlapping`, `KeptSomewhere`, `NeverWedged`, `ClosedStaysClosed` (Compose); `UserWins`, `Current` (Config); `FollowUpsRecorded`, `NotOfferedAgain` (Crm) | a mail is somewhere until it is sent or given up, no dialogue waits for a result that is gone; the store is the files as they are and the user's bindings win; the marker is written for who was dismissed or mailed and for nobody else |
| `terminal` | `OwnSurface`, `NoGhosts`, `ScreenAgrees`, `OpensKept` (Surfaces); `OneReader`, `QuestionHeld` (Scripts); `WindowTrue`, `StreamWhole` (Pager); `PicturesAgree` (Images) | a load mounts on the surface that asked, an open survives a change of tabs, the bar points at what is on the screen; each question of a script is held somewhere and one reader takes events; the window is the text and the stream is whole; the terminal shows what the program thinks it shows |
| `view` | `ActsOnShown`, `StepsThrough`, `MergeExact` | a key acts on the row that is highlighted, stepping reaches every message whatever the window hides, the edit scripts turn the old threads and their messages into the new |
| `compose_retry` | violates `RetryRepeats` | finding 1 |
| `view_stops` | violates `StaysUp` | finding 2 |

### Bounds, and why they are enough

* `refresh`: two messages, two threads, one tag, a threaded and a flat view with
  complementary queries. Two messages are the least that make a thread with a
  matching and a non-matching part and that can be joined or split; the views'
  complementary queries make each tag change an arrival in one and a departure
  from the other, so a carried row of the other view would be seen. `MaxRev = 3`
  lets two changes fall between any two calls of one cycle, `MaxUuid = 2` lets
  the database be replaced once at any point, `MaxPending = 1` lets a switch wait
  while a cycle runs. 5.7 million states. The theorems remove the bounds.
* `refresh_live`: one thread, two revisions; the failures are not bounded.
* `apply`: one writer (an apply or a read mark) with all failures, two messages in one thread,
  one tag with both operations, two changes of the buffer (what is needed between
  the writer's snapshot and its clear), one switch, two writes of another client.
  `StagedSurvive` is a theorem for any number of writers.
* `poll`: a view with a sync command and one without, one mail, and one act:
  a key, a configuration edit, another job, another process or a failing call.
  The channel has room for four events instead of 64. That is the least
  capacity for which `Converges` holds: a poll puts at most three events that
  are not `WorkerDone` into the channel between two completions, so with room
  for four a `WorkerDone` gets in; with three, a schedule that fills the channel
  before each completion loses it for ever. `MaxSpawn = 1` bounds the filter
  goroutines that have not reached the gate yet, not those of the pipeline.
* `mover`: one message with a file in the inbox and perhaps one at a home or in
  a folder that is not managed, two homes, two movers that may want different
  ones, one failing call, death or rename. The safety theorems remove the bounds.
* `schedule`: two mails composed in two clients, two faults at any point, each a
  crash, a failing write, read or removal, so that the removal after a failing
  read fails, too, or a crash follows it. Two clients are the least that contend for the
  lock, two mails the least for which one round delivers what another has read.
* `reconcile`: one message, with a header rule or without, two processes, one
  change from outside, one fault, polls as long as the revision is below four.
  Messages interact through the revision only; that two of them do (a second
  message's change raises the floor over the first one's) is what the theorems
  cover, and what made `since` necessary (section 4).
* `services`: Compose has two dialogues, two jobs, two seconds of draft names and
  a channel of one event, which makes every second event of a burst a dropped
  one. Config has a split file and `config.toml`, eight contents (accounts with
  a folder of their own and without, views and keys that clash with the derived
  ones, a keymap, an invalid view, an unknown setting), two edits. Crm has one
  contact at the start and one that appears, pages of one contact, two pulls,
  two jobs.
* `terminal`: Surfaces has two messages, one search tab, a dialogue, a summary,
  two loads. Scripts has two runs, one of them another program's, and a channel
  of one event. Pager has lines shorter and longer than the window, a block and
  an inline picture, a link, and every cut of a stream around a blank and a
  line's end. Images has an embedded and a remote picture of different heights,
  two windows, both protocols, three layouts.
* `view`: a thread of up to four messages that branches and a single one, before
  and after the newest arrives, the oldest goes and one is deleted; a window of two rows and a page of two, so
  that there are messages hidden at each end and pages that end in a ghost.
* `compose_retry` and `view_stops` are the smallest instances that show their
  finding.

`CHECK_DEADLOCK FALSE` is in the configurations whose bounded environments
stop: the database has used up its revisions, the user the acts, and then an
idle refresher, a drained buffer or a loop without a ticker rests by design; a
program that crashed has stopped, too. `mover` and `schedule` check for
deadlock: a mover may start again, a scheduler ticks for ever.

### Fairness

* `Refresh`: each continuation of a cycle or a walk is taken (a worker call
  returns), a call that can succeed succeeds in the end if it is tried again and
  again, cycles keep being started (`WorkerDone` events and the ticker,
  `app/app.go:1070-1102`) and a pending configuration event is received.
* `Apply`: a goroutine goes on (weak fairness of each writer), and the tag
  writes of an apply do not fail for ever (strong fairness of `Tag`).
* `PollLoop`: Go's `select` picks at random among its ready sources, so neither
  the ticker nor the channel is passed over for ever (strong fairness of `Tick`
  and of the receipts); calls return, commands exit, goroutines are scheduled
  (weak fairness). Failures are finite because they count against `MaxActs`.
* `Schedule`: a round goes on to its end and a client that died is started again
  (weak fairness), some client's tick finds the lock free again and again, and
  the transport of a mail does not fail for ever (strong fairness).
* `Reconcile`: a poll and an apply go on to their ends (weak fairness), and the
  clients poll again and again, not always dry (strong fairness of `New`).

Nothing is assumed of the user, of other clients, or of other processes except
that a run of `notmutt poll` ends. The other modules have safety properties only
and state no fairness.

## 4. What is proved

The proofs hold for every value of the constants that satisfies the module's
assumption, which says what the code makes true by construction: message and
thread identities are disjoint (`RefreshAssumption`, `ApplyAssumption`), the
channel has room for one event (`PollAssumption`), a marker value is none of the
values it marks the absence of (`ScheduleAssumption`, `MoverAssumption`,
`ReconcileAssumption`), a bound is a number (`ComposeAssumption`,
`SurfacesAssumption`), the folders are finitely many (`MoverAssumption`), the
contacts the CRM has at the start are finitely many, the split files have names
and every file has a content or is absent (`ServicesAssumption`), a mail is a
sequence of rows whose pictures have a size in rows, and the terminal's protocol
is one of two (`TerminalAssumption`), a text is made of letters, blanks and ends
of lines, the pager's margin and its step are numbers, and its window has at
least one column (`PagerAssumption`; a width of 0 is that of a pager before the
first window size, and `NewPager` has it until `SetSize`).

| theorem | says |
|---|---|
| `Refresh_proofs!TypeCorrect` | `Spec => []TypeOK` |
| `Refresh_proofs!NothingMissed` | `Spec => []NoMissedRow` |
| `Refresh_proofs!NothingAlien` | `Spec => []NoAlienRow` |
| `Refresh_proofs!MergeCarriesOver` | `Spec => CarryOver` |
| `Apply_proofs!ApplyTypeCorrect` | `Spec => []TypeOK` |
| `Apply_proofs!GuardInvariant` | the generation guard's invariant is inductive |
| `Apply_proofs!StagedOpsSurvive` | `Spec => StagedSurvive` |
| `Apply_proofs!ApplyNoGhostRow` | `Spec => []NoGhostRow` |
| `PollLoop_proofs!PollTypeCorrect` | `Spec => []TypeOK`, with the channel's bound |
| `PollLoop_proofs!OneSyncCommand` | `Spec => []SingleFlight` |
| `PollLoop_proofs!OneFilterPipeline` | `Spec => []OnePipeline` |
| `Schedule_proofs!SpecTypeOK` | `Spec => []TypeOK` |
| `Schedule_proofs!SpecOneDeliverer` | `Spec => []OneDeliverer` |
| `Schedule_proofs!SpecTwiceOnlyAfterMiss` | `Spec => []TwiceOnlyAfterMiss` |
| `Schedule_proofs!SpecPromise` | `Spec => Promise`: the scheduler implements `Outbox`, failing reads counted |
| `Mover_proofs!SpecNoLoss` | `Spec => []NoLoss` |
| `Mover_proofs!SpecCopyStands` | `Spec => []CopyStands` |
| `Mover_proofs!SpecKeepsRecord` | `Spec => []KeepsRecord` |
| `Mover_proofs!SpecNoNewCopies` | `Spec => []NoNewCopies` |
| `Reconcile_proofs!SpecTypeOK` | `Spec => []TypeOK` |
| `Reconcile_proofs!SpecFloorIsPast` | `Spec => []FloorIsPast` |
| `Reconcile_proofs!SpecNothingForgotten` | `Spec => []NothingForgotten` |
| `Services_proofs!SpecTypeOK` | `Spec => []TypeOK` |
| `Services_proofs!Structure` | the strip is well formed whatever jobs, events and keys interleave |
| `Services_proofs!SpecClosedStaysClosed` | `Spec => ClosedStaysClosed` |
| `Services_proofs!SpecNeverWedged` | `Spec => []NeverWedged` |
| `Services_proofs!SpecTwiceOnlyOverlapping` | `Spec => []TwiceOnlyOverlapping` |
| `Services_proofs!SpecKeptSomewhere` | `Spec => []KeptSomewhere` |
| `Terminal_proofs!SpecTypeOK` | `Spec => []TypeOK` |
| `Terminal_proofs!SpecNoGhosts` | `Spec => []NoGhosts` |
| `Terminal_proofs!SpecScreenAgrees` | `Spec => []ScreenAgrees` |
| `Terminal_proofs!SpecOwnSurface` | `Spec => []OwnSurface` |
| `Terminal_proofs!SpecOpensKept` | `Spec => OpensKept` |
| `Terminal_proofs!SpecOneReader` | `Lua!Spec => []OneReader` |
| `Terminal_proofs!SpecQuestionHeld` | `Lua!Spec => []QuestionHeld` |
| `Terminal_proofs!SpecWindowTrue` | `Page!Spec => []WindowTrue` |
| `Terminal_proofs!SpecPicturesAgree` | `Pics!Spec => []PicturesAgree` |
| `Services_proofs!SpecFollowUpsRecorded` | `Queue!Spec => []FollowUpsRecorded` |
| `Services_proofs!SpecNotOfferedAgain` | `Queue!Spec => []NotOfferedAgain` |
| `Services_proofs!SpecUserWins` | `Settings!Spec => []UserWins` |
| `Services_proofs!SpecCurrent` | `Settings!Spec => []Current` |

*Refresh.* "What is consumed is shown" is not inductive: while a cycle is under
way the truth is spread over the changed set, prune's findings and the snapshot.
`IInv` says, of every unit that has not changed past a given revision
(`Settled`): the rows and the snapshot agree with the database up to `rPrev`
(`Shown`); the changed set agrees with it up to `curRev`, and a unit outside it
was settled already at `rPrev` (`PageCurrent`) -- this is where the range
`lastmod:rPrev..curRev` must have neither gap nor open end; the open walk's
remaining and painted parts make up the answer at the revision it opened
(`WalkCurrent`); after a full load the snapshot holds no row the view does not
show (`Carried`); and nothing read is ahead of the database (`InRange`). An
uuid that is not the database's makes each claim void, which is how a
replacement in the middle of a cycle is harmless. Lemma `Undisturbed` and
`DatabaseStep` carry all parts over the changes of the database at once, since
a changed unit is no longer settled.

*Apply.* An apply whose generation is still the buffer's has a snapshot from
which the buffer differs only by entries that were cleared (`Guarded`): every
change by the user moves the generation on, and a clear by another writer that
passes the guard removes an entry of the same snapshot. `StagedSurvive` follows
for each clear. For `NoGhostRow` the invariant is `Swept`: a row the refresher's
snapshot holds is answered by the query, or its thread changed after the
revision the refresher asks from next, so that the next cycle looks at it; and
between cycles the view has no row the snapshot lacks. Any write moves its
message above every revision read so far (lemma `WriteKeepsSwept`), and the
removals of an apply only take rows away, so the writers cannot break it in
whatever order their steps fall.

*PollLoop.* `SingleFlight` follows the sync command through three places:
running, ended, announced in the channel. At most one of them is occupied, by at
most one command, and the gate is shut while one is. The lemmas on the channel say what each
operation on it (offer, take, burst, configuration) does to the number of
`SyncDone` events in it. A dropped `SyncDone` leaves the gate shut, which keeps
the invariant and is why `Converges` names the drop.

*Schedule.* The flock carries everything: whoever is in a round holds it
(`Holder`), so what a round has read of a mail is disturbed by an edit only, and
then the mail was given back (`Excused`). A record that may be delivered has no
delivery behind it that is not accounted for by a missed removal, except the one
that is about to remove it (`Accounted`), and a mail whose dialogue is open has
not reached the spool as a whole (`Unsent`). The refinement has one lemma per
action: it maps to an action of `Outbox` or to a stutter under
`pending <- Pending`, where a mail read by a round stays pending though its file
is gone, and one that a round failed to read is given up at the failure, not at
the removal: if the removal fails, too, the mail is accepted again.

*Mover.* Nothing is lost because a source is removed only while its message has
a file at home (`CopyStands`, with `CopiesDue` before the copies are indexed);
a batch under way holds the lock (`Locked`), and it looks at its own messages
(`OwnBatch`). That the record stays is harder: `notmuch new` reads one folder
before the copy is made and the other after the source is gone, and then drops
what it did not find. `Recorded` says that each message has a folder that
answers for it (`Anchored`): its path is in the index and will not be dropped,
or the scan has not read that folder yet and its file is there; and that the
homes of a batch past its indexing are such folders. `NoNewCopies` is a count
(`Even`): while nothing failed and nobody renamed, a message has the files it
had at first and one more for each source the holder of the lock has yet to
remove. It is not among a run's properties; it says of the whole batch, for every
number of movers, what `CopyStands` says of one step.

*Reconcile.* `Clear(r)`: every message whose last change is at most `r` is as it
should be, or excused by the history. The floor and the temporary file are
clear, and so is every point of a poll on its way (`Bracket`): up to `low` when
the revision is read, outside the bracket when the delta is taken, outside what
is still `Owed` while tags are written, everywhere from the final revision on.
The temporary file that processes share needs the second half of `Past`: nothing
that is kept is ahead of the database. `Reports` says that a report is still
true of what nothing else has touched; lemma `Intrusion` says what is left of a
message that another process touched meanwhile: it lies where it should, because
no header rule and no race was involved. The invariant found an error of the
model: a poll without a floor starts at the revision before its own `notmuch
new`, so a message that is due and older is forgotten although nothing raced,
and with two messages it is the other one's change that raises the floor. The
history variable `since` names those messages ("never backfills"), and `met`
now also says that the mover missed a file.

*Compose.* Every change of the strip is one relation, `Moves(u, v, D)`: the tabs
that go are of `D`, the tabs that come are of dialogues never opened before, and
no dialogue begins to send. It composes, so an event after the polled results is
one chain of lemmas, and `Steps` classifies every action of the module by what
it does to strip, bus, jobs and folders. On it rest the invariants: `SInv`
(strip well formed, types, ids given in order and everything of an opened
dialogue); `Awaits` (a sending dialogue has a job or a result, tab or not);
`Balance` (the jobs of a dialogue that have not delivered, and its deliveries,
are at most its overlaps and one more, if the first one can be seen -- by what is
pending or by the tab that was closed); `KInv` (what is told as delivered was,
and the mail is held by an unopened dialogue, the spool, a delivery, a draft, or
a tab that is not about to lose it to a store). `Balance` is why "never sent
again after its result was read" needs no reference to time.

*Surfaces.* The invariant has two layers. `Housed` holds always: nothing open
belongs to a tab that is gone, only the summary's own tab shows the summary's
pager, what it displaced has a home that lives. `Agrees`, `Pointed` and `Owned`
hold as long as none of their encounters came (`Plain`, `Screened`,
`Faithful`). `Owned` is about every place an open message may be kept --
installed, parked, displaced, under a preview -- and not about the screen only.
`Attach` is proved once: from any state that is `Ready` (no preview, every open
of its surface) to one that is `Owned` and agrees with its tab; `Go`, the
closing of tabs and of the summary are then chains (`Leads`, `Settles`). A first
form of `Owned` was not inductive, and TLC showed why: a load that answers under
an open preview sets the mode to "pager"; when the preview is closed the mode
stays, over an empty pager without a home. `Owned` exempts that state, and it is
on the list below.

`OpensKept` relates two states, and needs more of the first one than that its
messages are on their own surfaces: a message that is parked where another one
is already parked is gone. So `Single` says that the surface the pager belongs
to, behind the summary too, has nothing else parked (`Alone`), that nothing is
parked under the surface that has the screen (`Cleared`), and that search tabs
are different views (`Numbered`, without which closing one would take the open
of another). `AttachKeeps` proves once that a change of tab keeps `Holds`, what
is open on a view wherever it is kept; `OpenOnIs` says that this is `OpenOn`.
Trying to prove it corrected the model: `doubled` was recorded at the wrong
loads, and is now, as `Twice`, any load after which its surface has two opens.

*Scripts.* `LuaInv` follows a question: what is asked carries an id that was
never used before (`Fresh`), a picker's request is in one place at a time and its
chooser not running yet (`OneChooser`, without which one event could arm two
readers), what is under way about a question has the question's kind
(`OfItsKind`, so that an answer resolves the waiter it reaches), and a run that
waits has its waiter or its answer (`Waits`). `Armed` and `Kept` are then the two
properties, said of the sets of what the channels hold.

*Images.* `PicturesAgree` is only claimed of a frame that decoded nothing, and
no frame establishes it alone: kitty leaves a picture whose rect is the same, so
its placement is right only if it was right before. `ImgInv` says so. `KittyHas`:
each transmitted picture is stored under its own number, the placements are those
of the painted pictures and have their rects, and a placement of the installed
content `Fits` the rows the picture has. That is enough, because the rect and the
rows determine the crop, of a picture that is as tall as the window at most
(`Seated`); decoded rows never change while the content stays, and a new content
brings objects that nothing has painted (`Unused`, which follows the numbers of
the layouts asked for). `SixelHas`: pixels are only where a painted rect is, and
none during a hold, so erasing the painted rects erases them all (`TtyCleared`),
and what a frame then paints is all there is. `NewIdsAre` shows that the numbers
of new pictures are new and different.

*Pager.* A frame styles only what its window lacks, so `WindowTrue` rests on what
is already in the two caches, and they are invalidated by different operations:
the styled lines by a selection, the theme and the boundary, the document's rows
by whatever changes which lines there are and how many rows each has. `PagerInv`
says what both are at any time. The document is absent, and with it the styled
lines, or its rows are those of the lines as they are now, the rows of pictures
are empty, and the window is inside (`Laid`); each styled line is empty or what
styling it now would give (`AllStyled`); what is styled was styled for the theme
and the boundary of now, unless a re-render kept the boundary (`Edged`); the
scroll range counts the document's rows (`Counted`). From these a frame's window
is determined: lemma `EnsureIs` says what `ensureStyled` makes of any such pager,
and `WindowIs` that it is the same as for one without caches. Each operation is
then a lemma that says it keeps `Sound`. The summary needs one more fact: before
the first delta it has one line, of one cell, which cannot be panned, so that the
delta that replaces it does not move the boundary. The document, the streamed
rows and the wrapping are recursive functions; what is needed of them is that the
function exists (`CountUp`, `Iterates`, `IteratesIn`, from the library's theorem
that a well-founded order has minimal elements) and that each of its steps keeps
what the pager's steps keep.

*Crm.* Two invariants. `CrmInv` is about markers: a draft's dialogue has the
number of the job that wrote it, which nothing had before and nothing has again
(`Numbers`), so a result that arrives late marks the contact its dialogue was
about; every mark under way goes to somebody who was dismissed or mailed, and a
mail that went has no dialogue left to send it again (`Markers`). `OfferInv` is
about pages: a listing that nobody changed under has read exactly the first
`after` contacts of the unmarked ones (`Pulled`); of the pages under way and the
last one, a later whole page lacks a contact of an earlier one only if it has the
marker, and then no page after it has it again (`InOrder`); and a contact of the
queue, or one that is done with, is absent only from pages it is gone from
(`Reviewed`). That is why a row that leaves the queue does not come back as new.

*Config.* `UserWins` is about one derivation from any keys and accounts.
`Current` needs `CfgInv`: a fingerprint of files that were there, which numbers
they had (`Earlier`); what is loaded is what `ReadOf` gives for the directory, if
no file of the last fingerprint changed since (`Loaded`); a load has merged just
the files before the ones it has yet to read, in their order, if none changed
since its fingerprint was taken (`Loading`) -- that it takes the fingerprint
before it reads is what makes an edit in the middle of a load seen by the next
tick; and the terminal obeys the store or has the event (`Obeyed`). Lemma
`ReadSame` says that files that are the same give the same settings.

### What is only model-checked, and why

* Liveness: `Converges` (twice), `Drains`, `SentInTheEnd`, `ClassifiedInTheEnd`
  rest on fairness, which is out of the prover's reach.
* `MergeExact`, `StepsThrough`, `ActsOnShown`: `View` flattens trees by
  recursion; what a recursive definition computes for every input is an
  induction over data, which the installed provers cannot take.
* `StreamWhole`: that a text wraps to the same rows wherever it was cut is a law
  of the wrapping, for every text, and an induction over it.

## 5. Findings

1. **The retry of a failed schedule sends at once** (`tui/model.go:4508`). A
   store that fails opens the box of a failed send; `y` there dispatches a send
   (4424-4430), so the mail that was to go out later goes out now.
   `docs/usage.md:228`: "`P` in the compose view schedules the message instead of
   sending it". Run `compose_retry`.
2. **A page key over a filtered deep thread ends the program**
   (`tui/model.go:3095`). The page walk slides the thread's window (2982-3009)
   past the only row that matches; the rows are empty and are indexed. The
   comment at 2977-2981 says that the slide keeps a thread "deeper than the
   window" readable "page by page". Run `view_stops`.

Seen while modelling, without a run of their own. The properties except those
that touch them by a history variable named in the module.

*Refresher, apply, poll.*

* A full reload that fails half way is consumed (`app/refresh.go:64-65`,
  `367-372`): rows the walk did not emit are in no later changed set. The comment
  at 297-299 promises "exactly the full result".
* `onConfig` resets the rows and not `r.snapshot` (`app/refresh.go:237`): when
  the reload fails before its first chunk the next merge carries the old view's
  rows over. Comment at 222-224: "never the previous view's rows".
* A message without tags has a nil tag list, which the apply takes for an unknown
  row: the entry is cleared and nothing written (`app/apply.go:57`). Doc comment
  at 46-47: "Every entry is attempted".
* `keptBy` looks at the error of the call, not at the error in the reply
  (`app/apply.go:124`). Comment at 73-75: "a check error keeps it".
* A removal on a stale check is final (`app/apply.go:76`): between check and
  removal another client's change may be merged and consumed. `core/view.go`
  1038-1039: "a later refresh reconciles truth".
* A stale tag write stays (`app/apply.go:277`): it may reach the refresher's
  snapshot through the shared object. Comment at 250-252: "the window self-heals".
* An interval edited to 0 panics in `Ticker.Reset(0)` (`app/app.go:1100`).
  `config/config.go:311`: "0 disables".
* A `SyncDone` that finds the loop's channel full is dropped (`core/bus.go:58`)
  and has no snapshot or second sender: no later poll does anything (`dropped`).
* The continuation of a sync command that ends while a pipeline runs is absorbed
  by the gate of `filterJob.run`; the mail it fetched waits for the next poll.
* `keptBy` conjoins the identity without parentheses (`app/apply.go:127`): a view
  query with an `or` keeps rows that left it, until the refresher's prune.
* Operations staged in one view and applied after a switch name rows the view no
  longer holds: they are cleared unwritten (`app/apply.go:57`).

*Spool, mover, reconcile.*

* A record that is created and not yet written when a round reads it is removed
  as unreadable (`app/schedule.go:220-225`, about 60): the mail is in no file.
* A whole record whose read fails, for want of a descriptor or by an error of the
  disk or the permissions, is removed like a corrupt one (`app/schedule.go:220-225`
  on any error of `readScheduled`): the mail is neither sent nor kept. Comment at
  194: "A corrupt file drops with a log"; `docs/features.md:26`: "The spool (XDG
  data home, 0600) survives restarts". `Promise` counts these losses (`unread`).
* A foreign `notmuch new` adds a source again between `RemovePaths` and
  `os.Remove` (`filter/mover.go:213`); the path stays until the next one.
* The floor advances although a held mover lock skipped the batch
  (`filter/mover.go:125-128`); a foreign change between the classification and
  the final revision is below the new floor (`app/app.go:1581`); polls that
  overlap classify from stale snapshots and share one temporary file; a failure
  between tag and move, or a file that is away when the mover looks, leaves a tag
  without its move; a dry or failing poll without a floor leaves what it indexed
  below the first floor; a rebuilt database has lower revisions than its floor.

*Send, drafts, dialogues.*

* `Update` ranges over the tabs while a result closes one of them
  (`tui/model.go:403-409`): index out of range when it was not the last.
* A failure that is late opens the retry box while a second job runs.
* `PGPKeysLoaded` and `AttachFiles` on a search tab, `quit` on the summary's
  tab (`closeTab(-1, true)`), and an attach or file dialogue that ends after an
  event changed the tab (`m.tabs[m.tabIdx-1]`) index out of range.
* `LatestComposeOpened` keeps only the last opening: of two that are dropped the
  first is lost. `ScheduledResult` has no last value at all, and no phase gate.
* Two sent copies or drafts of one process in one second have one name; the
  first is overwritten, and the dialogue that resumes it retires the file that by
  then holds the second (`app/send.go:130`, 155, 215, 229-243).
* `y` in the box of a failed draft sends. `quit` from the index ignores open
  dialogues and deliveries under way.

*Tabs and surfaces.*

* A background search tab that opens or closes shifts the queue and the summary
  under the active index (`shifted`); a summary's pager is replaced by a load
  that answers (`clobbered`); a preview on a compose tab forces the index mode,
  a summary may start under one (`covered`); a preview promoted on a search tab
  has no home (`promoted`); a load can leave a surface two opens (`doubled`); closing a
  tab lands to its left.
* A load that answers under an open preview sets the mode "pager"; after the
  preview is closed the mode stays over an empty pager.
* `back` in a message's pager closes a background summary
  (`tui/model.go:1411-1419`). `attachTab` drops an open prompt. An attachment view
  is cleared by a change of tab; after `q` the pager stays installed.

*Index.*

* A thread that rises in the order is removed and inserted by the diff and loses
  its fold and window, although the comment near `tui/model.go:1194` says "the
  collapse sticks until toggled again".
* The cursor can rest on a ghost (`CursorRow`'s fallback), step onto another
  thread's ghost and slide that thread's window; a fold that is toggled for all
  does not move it; the id under a fold is lost when the shown message changes.
* Page keys over a partial page may move the wrong way (`pageAtEdgeAt`);
  `slideFold`'s fallback and `gotoRow` use rows of before the slide
  (`tui/model.go:2948`); `renderBase` writes the offset to a copy (about 3446).
* With a filter on, rebuilds reuse the backing array of rows the terminal still
  reads (`core/view.go:287-298`): a data race.
* Messages that refer to each other in a cycle have no root and no row
  (`core/view.go:1099`).

*Pager, pictures, summaries.*

* `pager.append` does not update `maxX`, and nothing follows the bottom though
  its comment says so; `x` is not clamped when the window grows.
* The reply of a mail that is open sets `pager.x` after styling
  (`tui/model.go:2127-2131`): blank cells at the right, against the comment on the
  boundary.
* Sixel: an unchanged picture is not painted again, but the rects of the last
  frame are all erased (`paintRects`): it is gone after any repaint.
* `ImageFetched` that is dropped or comes while pictures are off leaves its url
  marked as under way for ever; a refine whose reply fails or is for another
  surface stays pending; replies to two presses of `alt+i` may come in the other
  order and leave pictures on. `m.imgRemoteSize` is handed to a goroutine and
  written by the loop: concurrent map access.
* The error of a summary is polled and overtakes its chunks, whose text is merged
  into the error's row.

*Lua, configuration, CRM.*

* Tab in the attach prompt arms a second reader for good
  (`tui/model.go:3845`), after which events may overtake each other.
* A `PromptRequest` replaces whatever dialogue is open, a box or a list of keys
  replaces a prompt, and a chooser may start while an editor has the terminal.
  A file picked by a script goes to whatever dialogue is active when it arrives.
* `applyBodyRenderHooks` falls back to the previous hook's lines
  (`app/app.go:543-558`), its comment says un-hooked ones. The socket is removed
  at the end whoever owns the path by then.
* `Load` decodes each file twice: an edit in between escapes the strict check
  (`config/config.go:1477-1490`); an edit between the boot's load and the first
  fingerprint is never seen; a dropped `ConfigChanged` leaves the bindings stale.
  Any edit sets the active view back to the default one (1503).
* A user's binding equal to the derived one is taken for derived and removed or
  renumbered; the derived view of an account whose folder changed stays
  (`config/config.go:1180-1210`). Goto targets are never validated.
* A draft of the queue that is scheduled, or saved and resumed, never writes the
  marker back (`README.md:156`: "send or dismiss writes the processed marker
  back"). A late briefing overwrites "dismissed"; the failure of one job of a row
  lets a second analysis start; `Q` merges the last page again, also over newer
  ones; a pull asked for while one runs is skipped; "scroll to the bottom" of an
  empty queue sets the cursor to -1.

## 6. Not modelled

AI and MCP: a request is one call of an external service (the tab its text
streams into is in `Surfaces` and `Pager`), an MCP tool one query filtered by a
scope. Mail rendering, HTML layout and MIME assembly are conversions of text;
export, attachments and notifications one-shot input and output; the attachment
cache is rebuilt on a miss; setup and translation run once; `lib/` are thin
wrappers. The Lua interpreter, notmuch, the file system's flock and the terminal
emulator are modelled from how the code uses them. The C handles of the cgo
backend and the iterators of both backends are one step of a query here. What is
partly modelled, and which part is missing, is said per component in
`PROJECT.json`; the largest parts are the exclusive tag groups and folder moves
of an apply, the search tab's own walk, summary rows, the tag menu and the file
chooser.

## 7. Plan

1. `core/resolve.go`: the net operations with exclusive groups as functions, with
   the law that they lead to the target; exclusive groups in `Apply`.
2. The MCP server's scope and its tools (`app/mcp.go`, `lua_http.go`); thread
   building (`mail/thread.go`) against a reference definition.
3. The attachment cache with its scan, and the search tab's walk.
4. The refinement of `Refresh` to a cached query: the rows are the answer at some
   revision between the last consumed one and the database's.
