------------------------------ MODULE Reconcile ------------------------------
(***************************************************************************)
(* The reconciling poll (src/app/app.go pollReconcile, src/app/classify.go, *)
(* src/filter/filter.go Run, src/app/apply.go execApply).  Every client and *)
(* every `notmutt poll' indexes new mail, reads the floor L from a file    *)
(* they share, classifies what changed in (L, cur], moves files, and       *)
(* writes the revision it ends at as the new floor.  Meanwhile the others  *)
(* do the same, a user applies folder tags, and mail and files arrive.     *)
(* A call of the mover is one step here, that succeeds or is contended     *)
(* (module Mover has its steps).                                           *)
(***************************************************************************)
EXTENDS Naturals, FiniteSets

CONSTANTS
  Msgs,
  Homes,      \* the folders of the exclusive group; each is its tag, too
  Inbox,      \* the home the poll never moves mail to
  None,       \* no folder, no tag
  NoTmp,      \* no temporary file
  Procs,      \* the processes that poll
  MaxChange,  \* bound: deliveries, moves by the sync tool, applies
  MaxFault,   \* bound: failing calls, held locks and dying processes
  MaxRev      \* bound: no poll starts at or above this revision

ASSUME ReconcileAssumption ==
  /\ Inbox \in Homes /\ None \notin Homes /\ NoTmp \notin Nat
  /\ MaxChange \in Nat /\ MaxFault \in Nat /\ MaxRev \in Nat

VARIABLES
  rule,       \* rule[m]: the folder tag a header rule gives m, or None
  rev,        \* the database's revision
  lastmod,    \* lastmod[m]
  tags,       \* tags[m]: the folder tags of m
  path, loc,  \* the folder the index has m in, and the one its file is in
  floor,      \* the floor file: NoFloor, or a revision
  tmp,        \* its temporary file: NoTmp, NoFloor (truncated) or a revision
  fd,         \* fd[p]: what the temporary file p has open is called now
  pc, dry,    \* pc[p]; dry[p]: its poll is a dry run
  low, cur,   \* the bracket (low[p], cur[p]]
  rep,        \* rep[p]: the entries of the report, by message
  todo,       \* todo[p]: those whose tags are still to write
  final,      \* final[p]: the revision read at the end
  user,       \* the apply under way
  met,        \* history: a classification met another, or missed a file it moves
  raced,      \* history: a change or a held lock met a classification
  since,      \* history: the last revision that a poll without a floor began at
  changes, faults

db == <<rev, lastmod, tags, path, loc>>
files == <<floor, tmp, fd>>
poll == <<pc, dry, low, cur, rep, todo, final>>
history == <<met, raced, since>>
vars == <<rule, db, files, poll, user, history, changes, faults>>

NoFloor == 0
NoUser == [at |-> "none"]
NoReport == [m \in {} |-> [tags |-> {}, from |-> Inbox, home |-> Inbox]]

Init ==
  /\ rule \in [Msgs -> (Homes \ {Inbox}) \cup {None}]
  /\ loc \in [Msgs -> Homes \cup {None}] /\ path = loc
  /\ tags = [m \in Msgs |-> {loc[m]} \ {None}]
  /\ rev = 1 /\ lastmod = [m \in Msgs |-> IF loc[m] = None THEN 0 ELSE 1]
  /\ floor \in {NoFloor, rev} /\ tmp = NoTmp
  /\ fd = [p \in Procs |-> "closed"]
  /\ pc = [p \in Procs |-> "idle"] /\ dry = [p \in Procs |-> FALSE]
  /\ low = [p \in Procs |-> 0] /\ cur = [p \in Procs |-> 0]
  /\ rep = [p \in Procs |-> NoReport] /\ todo = [p \in Procs |-> {}]
  /\ final = [p \in Procs |-> 0]
  /\ user = NoUser
  /\ met = FALSE /\ raced = FALSE /\ since = 0
  /\ changes = 0 /\ faults = 0

Indexed == {m \in Msgs : path[m] # None}
Fresh == {m \in Msgs : loc[m] # path[m]}

-----------------------------------------------------------------------------
(* Changes from outside the poll.                                          *)

\* from the read of cur to the write of the floor
Classifying(p) == pc[p] \notin {"idle", "floor", "rev"} /\ ~dry[p]

Changed(ms) ==
  /\ raced' = (raced \/ (ms # {} /\ \E p \in Procs : Classifying(p)))
  /\ UNCHANGED <<met, since>>

Deliver(m, h) ==
  /\ loc[m] = None /\ loc' = [loc EXCEPT ![m] = h]
  /\ changes < MaxChange /\ changes' = changes + 1
  /\ UNCHANGED <<rule, rev, lastmod, tags, path, files, poll, user, history, faults>>

\* another device has moved the mail
SyncMove(m, h) ==
  /\ m \in Indexed /\ h # loc[m] /\ loc' = [loc EXCEPT ![m] = h]
  /\ changes < MaxChange /\ changes' = changes + 1
  /\ UNCHANGED <<rule, rev, lastmod, tags, path, files, poll, user, history, faults>>

\* the net effect of a write of the ops that were resolved against `known'
Written(now, known, winner) == (now \ (known \ {winner})) \cup ({winner} \ known)

\* an apply of a folder tag: the tags of the row, the paths, the move, the write
ApplyStart(m, h) ==
  /\ user = NoUser /\ m \in Indexed /\ h \notin tags[m]
  /\ changes < MaxChange /\ changes' = changes + 1
  /\ user' = [at |-> "move", msg |-> m, home |-> h, tags |-> tags[m], loc |-> path[m]]
  /\ UNCHANGED <<rule, db, files, poll, history, faults>>

\* the files of the batch that are where they were seen go to their homes; the
\* path operations change the records
Moved(batch, home) ==
  LET here == {m \in DOMAIN home : m \in batch /\ loc[m] # home[m]}
  IN /\ loc' = [m \in Msgs |-> IF m \in here THEN home[m] ELSE loc[m]]
     /\ path' = [m \in Msgs |-> IF m \in here THEN home[m] ELSE path[m]]
     /\ rev' = IF here = {} THEN rev ELSE rev + 1
     /\ lastmod' = [m \in Msgs |-> IF m \in here THEN rev + 1 ELSE lastmod[m]]

ApplyMove ==
  /\ user.at = "move" /\ user' = [user EXCEPT !.at = "tag"]
  /\ LET m == user.msg
         batch == IF loc[m] = user.loc THEN {m} ELSE {}
     IN /\ Moved(batch, [x \in {m} |-> user.home])
        /\ Changed(IF rev' = rev THEN {} ELSE {m})
  /\ UNCHANGED <<rule, tags, files, poll, changes, faults>>

\* the lock is held for too long, or a call fails: no tag lands
ApplyMoveFails ==
  /\ user.at = "move" /\ faults < MaxFault /\ faults' = faults + 1
  /\ user' = NoUser
  /\ UNCHANGED <<rule, db, files, poll, history, changes>>

ApplyTag ==
  /\ user.at = "tag" /\ user' = NoUser
  /\ tags' = [tags EXCEPT ![user.msg] = Written(@, user.tags, user.home)]
  /\ rev' = rev + 1 /\ lastmod' = [lastmod EXCEPT ![user.msg] = rev + 1]
  /\ Changed({user.msg})
  /\ UNCHANGED <<rule, path, loc, files, poll, changes, faults>>

-----------------------------------------------------------------------------
(* pollReconcile.                                                          *)

Goto(p, next) == pc' = [pc EXCEPT ![p] = next]

\* the poll is over
Idle(p) ==
  /\ Goto(p, "idle") /\ dry' = [dry EXCEPT ![p] = FALSE]
  /\ low' = [low EXCEPT ![p] = 0] /\ cur' = [cur EXCEPT ![p] = 0]
  /\ rep' = [rep EXCEPT ![p] = NoReport] /\ todo' = [todo EXCEPT ![p] = {}]
  /\ final' = [final EXCEPT ![p] = 0]

\* notmuch new: new mail gets the inbox tag, a moved file's message keeps its tags
New(p, isDry) ==
  /\ pc[p] = "idle" /\ rev < MaxRev
  /\ Goto(p, "floor") /\ dry' = [dry EXCEPT ![p] = isDry]
  /\ low' = [low EXCEPT ![p] = rev]        \* rpl.Pre
  /\ rev' = IF Fresh = {} THEN rev ELSE rev + 1
  /\ lastmod' = [m \in Msgs |-> IF m \in Fresh THEN rev + 1 ELSE lastmod[m]]
  /\ tags' = [m \in Msgs |-> IF m \in Fresh \ Indexed THEN {Inbox} ELSE tags[m]]
  /\ path' = loc
  /\ Changed(Fresh)
  /\ UNCHANGED <<rule, loc, files, cur, rep, todo, final, user, changes, faults>>

\* readLastClassify: without a floor, or with one that cannot be read, the poll
\* starts from the revision before its own `notmuch new'
ReadFloor(p) ==
  /\ pc[p] = "floor" /\ Goto(p, "rev")
  /\ low' = [low EXCEPT ![p] = IF floor = NoFloor THEN @ ELSE floor]
  /\ since' = IF floor = NoFloor /\ ~dry[p] /\ low[p] > since THEN low[p] ELSE since
  /\ UNCHANGED <<rule, db, files, dry, cur, rep, todo, final, user, met, raced, changes, faults>>

\* mutant: one revision is not worth a classification
ReadRevisionLate(p) ==
  /\ pc[p] = "rev"
  /\ IF rev <= low[p] + 1
     THEN Idle(p)
     ELSE /\ Goto(p, "delta") /\ cur' = [cur EXCEPT ![p] = rev]
          /\ UNCHANGED <<dry, low, rep, todo, final>>
  /\ met' = (met \/ \E q \in Procs : Classifying(q))
  /\ UNCHANGED <<rule, db, files, user, raced, since, changes, faults>>

\* nothing mutated since L: the quiet poll
ReadRevision(p) ==
  /\ pc[p] = "rev"
  /\ IF rev <= low[p]
     THEN Idle(p)
     ELSE /\ Goto(p, "delta") /\ cur' = [cur EXCEPT ![p] = rev]
          /\ UNCHANGED <<dry, low, rep, todo, final>>
  /\ met' = (met \/ \E q \in Procs : Classifying(q))
  /\ UNCHANGED <<rule, db, files, user, raced, since, changes, faults>>

\* mutant: the bracket loses its first revision
DeltaShort(p) == {m \in Indexed : low[p] + 1 < lastmod[m] /\ lastmod[m] <= cur[p]}

Delta(p) == {m \in Indexed : low[p] < lastmod[m] /\ lastmod[m] <= cur[p]}

\* classify: a message's home is where it lies, unless a header rule gives it a
\* tag it does not have
Winner(m) == IF rule[m] # None /\ rule[m] \notin tags[m] THEN rule[m] ELSE path[m]

\* delta, the snapshots of its messages, and their entries
Snapshot(p) ==
  /\ pc[p] = "delta" /\ Goto(p, IF dry[p] THEN "dry" ELSE "tag")
  /\ rep' = [rep EXCEPT ![p] = [m \in Delta(p) |->
               [tags |-> tags[m], from |-> path[m], home |-> Winner(m)]]]
  /\ todo' = [todo EXCEPT ![p] = {m \in Delta(p) : tags[m] # {Winner(m)}}]
  /\ UNCHANGED <<rule, db, files, dry, low, cur, final, user, history, changes, faults>>

\* one ActTag for each entry with ops
Tag(p, m) ==
  /\ pc[p] = "tag" /\ m \in todo[p]
  /\ todo' = [todo EXCEPT ![p] = @ \ {m}]
  /\ tags' = [tags EXCEPT ![m] = Written(@, rep[p][m].tags, rep[p][m].home)]
  /\ IF tags' = tags
     THEN UNCHANGED <<rev, lastmod>>
     ELSE rev' = rev + 1 /\ lastmod' = [lastmod EXCEPT ![m] = rev + 1]
  /\ UNCHANGED <<rule, path, loc, files, pc, dry, low, cur, rep, final, user, history,
                 changes, faults>>

\* the mover's batch: what does not lie at its home, but for the inbox, which
\* is nobody's move target here; a file that is gone stays where it is
Wanted(p) == {m \in DOMAIN rep[p] : rep[p][m].home \notin {Inbox, rep[p][m].from}}
Batch(p) == {m \in Wanted(p) : loc[m] = rep[p][m].from}

Move(p) ==
  /\ pc[p] = "tag" /\ todo[p] = {} /\ Goto(p, "final")
  /\ Moved(Batch(p), [m \in DOMAIN rep[p] |-> rep[p][m].home])
  /\ met' = (met \/ Batch(p) # Wanted(p))
  /\ UNCHANGED <<rule, tags, files, dry, low, cur, rep, todo, final, user, raced, since,
                 changes, faults>>

\* another process holds the lock: the batch is skipped, and the run goes on
MoveSkipped(p) ==
  /\ pc[p] = "tag" /\ todo[p] = {} /\ Goto(p, "final")
  /\ faults < MaxFault /\ faults' = faults + 1 /\ raced' = TRUE
  /\ UNCHANGED <<rule, db, files, dry, low, cur, rep, todo, final, user, met, since, changes>>

DryRun(p) ==
  /\ pc[p] = "dry" /\ Idle(p)
  /\ UNCHANGED <<rule, db, files, user, history, changes, faults>>

\* a call fails, or the process dies, before the floor file is touched
Fails(p) ==
  /\ pc[p] \in {"floor", "rev", "delta", "tag", "dry", "final"}
  /\ faults < MaxFault /\ faults' = faults + 1
  /\ Idle(p)
  /\ UNCHANGED <<rule, db, files, user, history, changes>>

\* mutant: the floor is the revision the next change will have
FinalNext(p) ==
  /\ pc[p] = "final" /\ Goto(p, "open")
  /\ final' = [final EXCEPT ![p] = rev + 1]
  /\ UNCHANGED <<rule, db, files, dry, low, cur, rep, todo, user, history, changes, faults>>

ReadFinal(p) ==
  /\ pc[p] = "final" /\ Goto(p, "open")
  /\ final' = [final EXCEPT ![p] = rev]
  /\ UNCHANGED <<rule, db, files, dry, low, cur, rep, todo, user, history, changes, faults>>

-----------------------------------------------------------------------------
(* writeLastClassify.  os.WriteFile truncates the temporary file that all  *)
(* processes share and then writes it; the comparison with the floor and   *)
(* the rename are two more steps.                                          *)

Open(p) ==
  /\ pc[p] = "open" /\ Goto(p, "write")
  /\ tmp' = NoFloor /\ fd' = [fd EXCEPT ![p] = "tmp"]
  /\ UNCHANGED <<rule, db, floor, dry, low, cur, rep, todo, final, user, history, changes, faults>>

\* the bytes go to the file that was opened, whatever it is called now
WriteTmp(p) ==
  /\ pc[p] = "write" /\ Goto(p, "compare")
  /\ tmp' = IF fd[p] = "tmp" THEN final[p] ELSE tmp
  /\ floor' = IF fd[p] = "floor" THEN final[p] ELSE floor
  /\ fd' = [fd EXCEPT ![p] = "closed"]
  /\ UNCHANGED <<rule, db, dry, low, cur, rep, todo, final, user, history, changes, faults>>

\* the file open under the first name is called otherwise now
Renamed(old, new) == fd' = [p \in Procs |-> IF fd[p] = old THEN new ELSE fd[p]]

\* the higher-of-two guard
Compare(p) ==
  /\ pc[p] = "compare"
  /\ IF floor > final[p]
     THEN tmp' = NoTmp /\ Renamed("tmp", "gone") /\ Idle(p)
     ELSE Goto(p, "rename") /\ UNCHANGED <<tmp, fd, dry, low, cur, rep, todo, final>>
  /\ UNCHANGED <<rule, db, floor, user, history, changes, faults>>

\* mutant: the temporary file is taken to be there
RenameBlind(p) ==
  /\ pc[p] = "rename" /\ Idle(p)
  /\ floor' = tmp /\ tmp' = NoTmp
  /\ fd' = [q \in Procs |-> IF fd[q] = "tmp" THEN "floor" ELSE fd[q]]
  /\ UNCHANGED <<rule, db, user, history, changes, faults>>

\* a temporary file that another process has renamed or removed is an error
Rename(p) ==
  /\ pc[p] = "rename" /\ Idle(p)
  /\ IF tmp = NoTmp
     THEN UNCHANGED <<rule, floor, tmp, fd>>
     ELSE /\ floor' = tmp /\ tmp' = NoTmp
          /\ fd' = [q \in Procs |-> CASE fd[q] = "tmp" -> "floor"
                                      [] fd[q] = "floor" -> "gone"
                                      [] OTHER -> fd[q]]
  /\ UNCHANGED <<rule, db, user, history, changes, faults>>

\* the process dies, or a file operation fails, on the way to the floor
WriteFails(p) ==
  /\ pc[p] \in {"open", "write", "compare", "rename"}
  /\ faults < MaxFault /\ faults' = faults + 1
  /\ fd' = [fd EXCEPT ![p] = "closed"]
  /\ Idle(p)
  /\ UNCHANGED <<rule, db, floor, tmp, user, history, changes>>

-----------------------------------------------------------------------------
Poll(p) ==
  \/ ReadFloor(p) \/ ReadRevision(p) \/ Snapshot(p) \/ Move(p) \/ DryRun(p)
  \/ ReadFinal(p) \/ Open(p) \/ WriteTmp(p) \/ Compare(p) \/ Rename(p)
  \/ \E m \in Msgs : Tag(p, m)

Trouble(p) == MoveSkipped(p) \/ Fails(p) \/ WriteFails(p)

World == \E m \in Msgs, h \in Homes : Deliver(m, h) \/ SyncMove(m, h) \/ ApplyStart(m, h)

Next ==
  \/ World \/ ApplyMove \/ ApplyMoveFails \/ ApplyTag
  \/ \E p \in Procs : Poll(p) \/ Trouble(p) \/ \E isDry \in BOOLEAN : New(p, isDry)

Spec == Init /\ [][Next]_vars

(* A poll goes on to its end, an apply too, and the clients poll again and *)
(* again, not always dry.                                                  *)
Fairness ==
  /\ WF_vars(ApplyMove \/ ApplyTag)
  /\ \A p \in Procs : WF_vars(Poll(p)) /\ SF_vars(New(p, FALSE))

FairSpec == Spec /\ Fairness

-----------------------------------------------------------------------------
(* Properties.                                                             *)

PCs == {"idle", "floor", "rev", "delta", "tag", "dry", "final", "open", "write",
        "compare", "rename"}

\* The one type invariant of the module.
TypeOK ==
  /\ rule \in [Msgs -> Homes \cup {None}]
  /\ rev \in Nat /\ lastmod \in [Msgs -> Nat]
  /\ tags \in [Msgs -> SUBSET Homes]
  /\ path \in [Msgs -> Homes \cup {None}] /\ loc \in [Msgs -> Homes \cup {None}]
  /\ floor \in Nat /\ (tmp = NoTmp \/ tmp \in Nat)
  /\ fd \in [Procs -> {"closed", "tmp", "floor", "gone"}]
  /\ pc \in [Procs -> PCs] /\ dry \in [Procs -> BOOLEAN]
  /\ low \in [Procs -> Nat] /\ cur \in [Procs -> Nat] /\ final \in [Procs -> Nat]
  /\ \A p \in Procs : /\ DOMAIN rep[p] \subseteq Msgs /\ todo[p] \subseteq DOMAIN rep[p]
  /\ met \in BOOLEAN /\ raced \in BOOLEAN /\ since \in Nat
  /\ changes \in Nat /\ faults \in Nat

\* "location IS the home": a message has the tag of its folder and no other
Due(m) == tags[m] # {path[m]}

\* A message the polls have left behind: it is due, and below the floor.
Forgotten(m) == m \in Indexed /\ Due(m) /\ floor # NoFloor /\ lastmod[m] <= floor

\* "the poll owns classification, whatever moved the revision since L gets the
\* folder rules run on it": as long as no change and no held lock meets a
\* classification under way, in whatever order the polls of two processes run,
\* read and write the floor, die or are dry, nothing is forgotten that changed
\* since a poll without a floor began ("never backfills"); a message of a header
\* rule, as long as no two classifications meet, and the mover finds its file.
NothingForgotten ==
  \A m \in Msgs :
    Forgotten(m) => raced \/ lastmod[m] <= since \/ (rule[m] # None /\ met)

\* The floor is a revision the database has had: a floor above it would keep
\* every poll quiet.
FloorIsPast == floor <= rev /\ (tmp # NoTmp => tmp <= rev)

\* What is due is classified in the end, unless something raced, or there is no
\* floor to start from ("never backfills").
ClassifiedInTheEnd ==
  \A m \in Msgs : (m \in Indexed \ Fresh /\ Due(m))
                    ~> (~Due(m) \/ m \in Fresh \/ raced \/ met \/ floor = NoFloor
                        \/ lastmod[m] <= since \/ rev >= MaxRev)
=============================================================================
