------------------------------- MODULE Refresh -------------------------------
(***************************************************************************)
(* The view refresher of notmutt (src/app/refresh.go): the rows of a view  *)
(* are a cached copy of a notmuch query.  One goroutine keeps the copy up  *)
(* to date.  An incremental cycle asks the database which messages changed *)
(* since the revision it has consumed (lastmod:rPrev..cur), asks again     *)
(* which of them still belong to the view (prune), fetches changed threads *)
(* again, and merges; the rows nobody named are carried over from the last *)
(* snapshot.  A full reload walks the whole query in chunks; it runs when  *)
(* the database's uuid changed and when the user switches the view.        *)
(* Between any two calls to the notmuch worker the database may change:    *)
(* other notmuch clients, `notmuch new', the tag writes of this program.   *)
(*                                                                         *)
(* A row set is a function from units to contents.  A unit is what one     *)
(* *Thread of the view stands for: a message in a flat view (the synthetic *)
(* threads of groupThreads), a notmuch thread in a threaded one.  Its      *)
(* content is the set of its messages with their tags; an absent unit has  *)
(* the empty content, and so has a thread without messages, which renders  *)
(* no row.                                                                 *)
(***************************************************************************)
EXTENDS Naturals

CONSTANTS
  Msgs,       \* message ids
  Threads,    \* notmuch thread ids
  Tags,       \* tags
  Views,      \* the [view] entries of the configuration
  Flat,       \* those with threads = false
  Query,      \* Query[v]: the tag sets of the messages v's query matches
  FirstView,  \* the view the program starts with
  MaxRev,     \* bound: the revisions of the first database; each next has one less
  MaxUuid,    \* bound: the databases there are, one after the other
  MaxPending  \* bound: the ConfigChanged events waiting in the channel

ASSUME RefreshAssumption ==
  /\ Msgs \cap Threads = {}
  /\ Flat \subseteq Views
  /\ Query \in [Views -> SUBSET SUBSET Tags]
  /\ FirstView \in Views
  /\ MaxRev \in Nat \ {0}
  /\ MaxUuid \in Nat \ {0}
  /\ MaxPending \in Nat

Units == Msgs \cup Threads
Contents == SUBSET (Msgs \X SUBSET Tags)
Rows == [Units -> Contents]
NoRows == [u \in Units |-> {}]

VARIABLES
  (* the notmuch database *)
  uuid,       \* which database it is
  rev,        \* its revision
  mod,        \* mod[m]: the revision of m's last change, 0 if m is not there
  tags,       \* tags[m]
  thread,     \* thread[m]: the thread m belongs to
  shrunk,     \* history: the units that lost a message since the last walk
  (* the view and the configuration *)
  want,       \* the store's ActiveView
  cfgEvents,  \* the ConfigChanged events the refresher has not received
  active,     \* the identity of the shared view
  view,       \* its rows
  (* the refresher *)
  rUuid, rPrev, snapshot,
  pc,         \* where it is in cycle or onConfig
  curUuid, curRev,    \* the reply of ActRevision
  page,       \* the changed set, by unit
  named,      \* the units of the changed set
  todo,       \* units still to be asked for: prune, re-fetch, walk
  kept,       \* the units prune found in the view's query
  result,     \* what the open walk will emit
  painted,    \* the walk has emitted a chunk
  byCycle,    \* the reload was started by cycle, not by onConfig
  loaded      \* history: the last full reload ended without an error

dbVars == <<uuid, rev, mod, tags, thread, shrunk>>
viewVars == <<active, view>>
cfgVars == <<want, cfgEvents>>
callVars == <<curUuid, curRev, page, named, todo, kept, result, painted, byCycle>>
refVars == <<rUuid, rPrev, snapshot, loaded>>
vars == <<dbVars, viewVars, cfgVars, callVars, refVars, pc>>

-----------------------------------------------------------------------------
(* What a query answers.                                                   *)

Live == {m \in Msgs : mod[m] > 0}
UnitOf(v, m) == IF v \in Flat THEN m ELSE thread[m]
Members(v, u) == {m \in Live : UnitOf(v, m) = u}
Content(v, u) == {<<m, tags[m]>> : m \in Members(v, u)}
Matches(v, u) == \E m \in Members(v, u) : tags[m] \in Query[v]
Answer(v) == [u \in Units |-> IF Matches(v, u) THEN Content(v, u) ELSE {}]
Matched(v) == {u \in Units : Matches(v, u)}

\* mutant: an open upper end
ChangedUnitsOpen(v, lo, hi) ==
  {u \in Units : \E m \in Members(v, u) : lo <= mod[m] /\ mod[m] < hi}

\* lastmod:lo..hi, both ends included; a threaded query returns whole threads
ChangedUnits(v, lo, hi) ==
  {u \in Units : \E m \in Members(v, u) : lo <= mod[m] /\ mod[m] <= hi}

\* mutant: a merge of the partial feed alone
OverlayAlone(r, S, fresh) == [u \in Units |-> IF u \in S THEN fresh[u] ELSE {}]
\* mutant: pruned units stay in the snapshot
WithoutNone(r, S) == r

\* the rows of S, the others as they are in r
Overlay(r, S, fresh) == [u \in Units |-> IF u \in S THEN fresh[u] ELSE r[u]]
Without(r, S) == [u \in Units |-> IF u \in S THEN {} ELSE r[u]]

-----------------------------------------------------------------------------
Init ==
  /\ uuid = 1 /\ rev = 1 /\ shrunk = {}
  /\ mod \in [Msgs -> {0, 1}]
  /\ tags \in [Msgs -> SUBSET Tags]
  /\ \A m \in Msgs : mod[m] = 0 => tags[m] = {}
  /\ thread \in [Msgs -> Threads]
  /\ want = FirstView /\ active = FirstView /\ cfgEvents = 0
  /\ view = NoRows /\ snapshot = NoRows
  /\ rUuid = 0 /\ rPrev = 0 /\ loaded = FALSE
  /\ pc = "idle"
  /\ curUuid = 0 /\ curRev = 0
  /\ page = NoRows /\ result = NoRows
  /\ named = {} /\ todo = {} /\ kept = {}
  /\ painted = FALSE /\ byCycle = FALSE

-----------------------------------------------------------------------------
(* The database, changed by anybody who holds notmuch's write lock.        *)

Retag(m) ==
  /\ rev + uuid <= MaxRev /\ m \in Live
  /\ \E T \in SUBSET Tags : T # tags[m] /\ tags' = [tags EXCEPT ![m] = T]
  /\ rev' = rev + 1
  /\ mod' = [mod EXCEPT ![m] = rev + 1]
  /\ UNCHANGED <<uuid, thread, shrunk, viewVars, cfgVars, callVars, refVars, pc>>

\* notmuch new indexes a message.  A reply that refers to two threads joins
\* them: the messages of `from' move to the new message's thread `to'.
Arrive(m, to, from) ==
  /\ rev + uuid <= MaxRev /\ m \notin Live
  /\ LET moved == {n \in Live : thread[n] = from /\ from # to}
     IN /\ mod' = [n \in Msgs |-> IF n = m \/ n \in moved THEN rev + 1 ELSE mod[n]]
        /\ thread' = [n \in Msgs |-> IF n = m \/ n \in moved THEN to ELSE thread[n]]
        /\ shrunk' = shrunk \cup {thread[n] : n \in moved}
  /\ \E T \in SUBSET Tags : tags' = [tags EXCEPT ![m] = T]
  /\ rev' = rev + 1
  /\ UNCHANGED <<uuid, viewVars, cfgVars, callVars, refVars, pc>>

\* the last file of a message is gone: its record goes, and no lastmod names it
Expunge(m) ==
  /\ rev + uuid <= MaxRev /\ m \in Live
  /\ mod' = [mod EXCEPT ![m] = 0]
  /\ tags' = [tags EXCEPT ![m] = {}]
  /\ shrunk' = shrunk \cup {m, thread[m]}
  /\ rev' = rev + 1
  /\ UNCHANGED <<uuid, thread, viewVars, cfgVars, callVars, refVars, pc>>

\* the database is built anew (a restored dump): revisions start over
Rebuild ==
  /\ uuid < MaxUuid
  /\ uuid' = uuid + 1 /\ rev' = 1
  /\ mod' = [m \in Msgs |-> IF m \in Live THEN 1 ELSE 0]
  /\ UNCHANGED <<tags, thread, shrunk, viewVars, cfgVars, callVars, refVars, pc>>

\* the user selects a view: the store is written, the event is published
SelectView(v) ==
  /\ cfgEvents < MaxPending /\ v # want
  /\ want' = v /\ cfgEvents' = cfgEvents + 1
  /\ UNCHANGED <<dbVars, viewVars, callVars, refVars, pc>>

-----------------------------------------------------------------------------
(* cycle: one action per call to the walk worker.                          *)

\* the locals of cycle and fullReload end with the call
Return ==
  /\ pc' = "idle"
  /\ curUuid' = 0 /\ curRev' = 0
  /\ page' = NoRows /\ result' = NoRows
  /\ named' = {} /\ todo' = {} /\ kept' = {}
  /\ painted' = FALSE /\ byCycle' = FALSE

\* ActReopen and ActRevision; a failed call ends the cycle where it began
ReadRevision ==
  /\ pc = "idle"
  /\ curUuid' = uuid /\ curRev' = rev
  /\ \/ /\ uuid # rUuid
        /\ pc' = "preload" /\ byCycle' = TRUE /\ loaded' = FALSE
     \/ /\ uuid = rUuid /\ rev # rPrev
        /\ pc' = "changed" /\ UNCHANGED <<byCycle, loaded>>
  /\ UNCHANGED <<dbVars, viewVars, cfgVars, page, named, todo, kept, result,
                 painted, rUuid, rPrev, snapshot>>

\* mutant: a failed cycle consumes its range
AbortConsuming ==
  /\ \/ pc \in {"changed", "prune"}
     \/ pc = "fetch" /\ todo # {}
  /\ rPrev' = curRev
  /\ Return
  /\ UNCHANGED <<dbVars, viewVars, cfgVars, rUuid, snapshot, loaded>>

\* the call fails: the cycle gives up, and what it did to the snapshot stays
Abort ==
  /\ \/ pc \in {"changed", "prune"}
     \/ pc = "fetch" /\ todo # {}
  /\ Return
  /\ UNCHANGED <<dbVars, viewVars, cfgVars, refVars>>

\* the changed set, with the content of its units; an empty one is consumed
Changed ==
  /\ pc = "changed"
  /\ LET hit == ChangedUnits(active, rPrev, curRev)
     IN \/ /\ hit = {}
           /\ rPrev' = curRev /\ Return
        \/ /\ hit # {}
           /\ page' = Overlay(NoRows, hit, [u \in Units |-> Content(active, u)])
           /\ named' = hit /\ todo' = hit
           /\ pc' = "prune"
           /\ UNCHANGED <<curUuid, curRev, kept, result, painted, byCycle, rPrev>>
  /\ UNCHANGED <<dbVars, viewVars, cfgVars, rUuid, snapshot, loaded>>

\* one intersect query over S.  After the last one the units that no longer
\* belong to the view leave the snapshot, and a threaded view fetches again
\* the threads it shows (Hydrated)
Prune ==
  /\ pc = "prune"
  /\ \E S \in SUBSET todo :
       /\ S # {}
       /\ kept' = kept \cup (S \cap Matched(active))
       /\ \/ /\ S # todo
             /\ todo' = todo \ S
             /\ UNCHANGED <<snapshot, pc>>
          \/ /\ S = todo
             /\ snapshot' = Without(snapshot, named \ kept')
             /\ todo' = IF active \in Flat THEN {} ELSE {u \in kept' : view[u] # {}}
             /\ pc' = "fetch"
  /\ UNCHANGED <<dbVars, viewVars, cfgVars, curUuid, curRev, page, named, result,
                 painted, byCycle, rUuid, rPrev, loaded>>

\* fetchThread: the whole thread, as it is now
Fetch ==
  /\ pc = "fetch"
  /\ \E u \in todo :
       /\ page' = [page EXCEPT ![u] = Content(active, u)]
       /\ todo' = todo \ {u}
  /\ UNCHANGED <<dbVars, viewVars, cfgVars, refVars, pc, curUuid, curRev, named,
                 kept, result, painted, byCycle>>

\* the units kept replace the snapshot's, the others are carried over; the
\* view takes the result, and the changed range is consumed
Merge ==
  /\ pc = "fetch" /\ todo = {}
  /\ snapshot' = Overlay(snapshot, kept, page)
  /\ view' = snapshot'
  /\ rPrev' = curRev
  /\ Return
  /\ UNCHANGED <<dbVars, cfgVars, active, rUuid, loaded>>

-----------------------------------------------------------------------------
(* fullReload and onConfig.                                                *)

\* mutant: reloads without an event of the view section
OnConfigAlways ==
  /\ pc = "idle"
  /\ cfgEvents' = cfgEvents - 1
  /\ active' = want /\ view' = NoRows
  /\ loaded' = FALSE /\ pc' = "preload"
  /\ UNCHANGED <<dbVars, want, callVars, rUuid, rPrev, snapshot>>

\* the view takes the identity of the store's active view, its rows go
OnConfig ==
  /\ pc = "idle" /\ cfgEvents > 0
  /\ cfgEvents' = cfgEvents - 1
  /\ active' = want /\ view' = NoRows
  /\ loaded' = FALSE /\ pc' = "preload"
  /\ UNCHANGED <<dbVars, want, callVars, rUuid, rPrev, snapshot>>

\* phase 1: the first units of the answer, or nothing when it has none or fails
Preload ==
  /\ pc = "preload"
  /\ \/ UNCHANGED <<snapshot, view>>
     \/ \E S \in (SUBSET Matched(active)) \ {{}} :
          /\ snapshot' = Overlay(NoRows, S, Answer(active))
          /\ view' = snapshot'
  /\ pc' = "open"
  /\ UNCHANGED <<dbVars, cfgVars, active, callVars, rUuid, rPrev, loaded>>

\* phase 2 walks one revision of the database, from an empty snapshot
OpenWalk ==
  /\ pc = "open"
  /\ result' = Answer(active)
  /\ todo' = Matched(active)
  /\ shrunk' = {}
  /\ pc' = "walk"
  /\ UNCHANGED <<uuid, rev, mod, tags, thread, viewVars, cfgVars, refVars,
                 curUuid, curRev, page, named, kept, painted, byCycle>>

\* a chunk: the view takes what the walk has emitted so far
Chunk ==
  /\ pc = "walk"
  /\ \E S \in (SUBSET todo) \ {{}} :
       /\ todo' = todo \ S
       /\ snapshot' = Without(result, todo')
       /\ view' = snapshot'
  /\ painted' = TRUE
  /\ UNCHANGED <<dbVars, cfgVars, active, rUuid, rPrev, loaded, pc, curUuid,
                 curRev, page, named, kept, result, byCycle>>

\* mutant: the revision is read after the walk
ConsumedLate ==
  IF byCycle THEN rUuid' = uuid /\ rPrev' = rev
  ELSE UNCHANGED <<rUuid, rPrev>>

\* cycle consumes the revision it read, whatever became of the walk
Consumed ==
  IF byCycle THEN rUuid' = curUuid /\ rPrev' = curRev
  ELSE UNCHANGED <<rUuid, rPrev>>

\* an empty answer still empties the view
EndWalk ==
  /\ pc = "walk" /\ todo = {}
  /\ IF painted THEN UNCHANGED <<snapshot, view>>
     ELSE snapshot' = NoRows /\ view' = NoRows
  /\ loaded' = TRUE
  /\ Consumed /\ Return
  /\ UNCHANGED <<dbVars, cfgVars, active>>

FailWalk ==
  /\ pc \in {"open", "walk"}
  /\ Consumed /\ Return
  /\ UNCHANGED <<dbVars, cfgVars, viewVars, snapshot, loaded>>

-----------------------------------------------------------------------------
Database ==
  \/ \E m \in Msgs : Retag(m) \/ Expunge(m)
  \/ \E m \in Msgs, to, from \in Threads : Arrive(m, to, from)
  \/ Rebuild

User == \E v \in Views : SelectView(v)

Refresher ==
  \/ ReadRevision \/ Changed \/ Prune \/ Fetch \/ Merge \/ Abort
  \/ OnConfig \/ Preload \/ OpenWalk \/ Chunk \/ EndWalk \/ FailWalk

Next == Database \/ User \/ Refresher

Spec == Init /\ [][Next]_vars

(* The refresh ticker, WorkerDone and the event loop keep the refresher    *)
(* running, and a call that fails is made again by a later cycle and does  *)
(* not fail for ever: a prune, a fetch or a walk that is made again and    *)
(* again is completed at last.  The database and the user owe nothing.     *)
Fairness ==
  /\ SF_vars(ReadRevision) /\ SF_vars(OnConfig)
  /\ SF_vars(Changed) /\ SF_vars(Prune /\ pc' = "fetch")
  /\ SF_vars(Fetch /\ todo' = {}) /\ WF_vars(Merge)
  /\ WF_vars(Preload) /\ SF_vars(OpenWalk)
  /\ SF_vars(Chunk /\ todo' = {}) /\ SF_vars(EndWalk)

FairSpec == Spec /\ Fairness

-----------------------------------------------------------------------------
(* Properties.                                                             *)

\* The one type invariant of the module.
TypeOK ==
  /\ uuid \in Nat /\ rev \in Nat
  /\ mod \in [Msgs -> Nat] /\ tags \in [Msgs -> SUBSET Tags]
  /\ thread \in [Msgs -> Threads] /\ shrunk \subseteq Units
  /\ want \in Views /\ active \in Views /\ cfgEvents \in Nat
  /\ view \in Rows /\ snapshot \in Rows
  /\ rUuid \in Nat /\ rPrev \in Nat /\ loaded \in BOOLEAN
  /\ pc \in {"idle", "changed", "prune", "fetch", "preload", "open", "walk"}
  /\ curUuid \in Nat /\ curRev \in Nat
  /\ page \in Rows /\ result \in Rows
  /\ named \subseteq Units /\ todo \subseteq Units /\ kept \subseteq Units
  /\ painted \in BOOLEAN /\ byCycle \in BOOLEAN

\* nothing happened to u after revision r that lastmod would not name
Settled(u, r) ==
  u \notin shrunk /\ \A m \in Members(active, u) : mod[m] <= r

\* the refresher rests, after a full load, on the database it knows
Resting == pc = "idle" /\ loaded /\ rUuid = uuid

\* No lost change: what the refresher has consumed, it shows.  Once rPrev is
\* past the last change of a unit of the view's query, no later changed set
\* names it again, so the row must be there, with the tags of the database.
NoMissedRow ==
  Resting => \A u \in Matched(active) :
               Settled(u, rPrev) => view[u] = Content(active, u)

\* No resurrection: a unit that left the query at a revision the refresher
\* has consumed has no row, neither carried over from the snapshot nor left
\* by the view shown before.
NoAlienRow ==
  Resting => \A u \in Units \ Matched(active) :
               Settled(u, rPrev) => view[u] = {}

\* After a full load a merge changes the rows of its changed set and no
\* others: the feed is partial, a row it does not name keeps its content, and
\* the carry-over brings back none that is not shown.
CarryOver ==
  [][Merge /\ loaded =>
       \A u \in Units \ named :
         /\ view[u] = {} => view'[u] = {}
         /\ rUuid = uuid /\ Settled(u, rPrev) => view'[u] = view[u]]_vars

\* When the database and the user fall silent, and the last full load went
\* through, the view comes to show exactly the answer of its query -- except
\* for units that lost a message no lastmod names.
Converges ==
  <>[]loaded => <>[](\A u \in Units \ shrunk : view[u] = Answer(active)[u])
-----------------------------------------------------------------------------
(* The inductive invariant behind NoMissedRow and NoAlienRow.              *)

Cycling == pc \in {"changed", "prune", "fetch"}
Loading == pc \in {"preload", "open", "walk"}

\* what has been read or consumed is not ahead of the database
InRange ==
  /\ rUuid <= uuid /\ curUuid <= uuid
  /\ rUuid = uuid => rPrev <= rev
  /\ curUuid = uuid => curRev <= rev
  /\ Cycling => curUuid = rUuid /\ (rUuid = uuid => rPrev <= curRev)
  /\ Loading => ~loaded
  /\ ~Loading => ~byCycle
  /\ pc \in {"idle", "changed"} => kept = {}
  /\ pc # "walk" => ~painted

\* the rows and the snapshot agree with the database up to rPrev
Shown ==
  loaded /\ rUuid = uuid =>
    \A u \in Units : Settled(u, rPrev) =>
      snapshot[u] = Answer(active)[u] /\ view[u] = Answer(active)[u]

\* the changed set, as far as prune has gone, agrees with it up to curRev
PageCurrent ==
  /\ pc \in {"prune", "fetch"} => todo \subseteq named /\ kept \subseteq named
  /\ pc = "prune" => todo \cap kept = {}
  /\ pc = "fetch" => \A u \in named \ kept : snapshot[u] = {}
  /\ pc \in {"prune", "fetch"} /\ rUuid = uuid =>
       \A u \in Units : Settled(u, curRev) =>
         /\ u \notin named => Settled(u, rPrev)
         /\ u \in named => page[u] = Content(active, u)
         /\ u \in named /\ (pc = "prune" => u \notin todo) =>
              (u \in kept <=> Matches(active, u))

\* the walk emits the answer at the revision it opened, and the painted rows
\* are the part emitted so far
WalkCurrent ==
  pc = "walk" =>
    /\ byCycle /\ curUuid = uuid =>
         \A u \in Units : Settled(u, curRev) => result[u] = Answer(active)[u]
    /\ ~byCycle /\ rUuid = uuid =>
         \A u \in Units : Settled(u, rPrev) => result[u] = Answer(active)[u]
    /\ painted => snapshot = Without(result, todo) /\ view = snapshot
    /\ ~painted => \A u \in Units : result[u] # {} => u \in todo

\* after a full load the snapshot holds no row the view does not show
Carried == loaded => \A u \in Units : snapshot[u] \in {view[u], {}}

IInv == TypeOK /\ InRange /\ Carried /\ Shown /\ PageCurrent /\ WalkCurrent
=============================================================================
