-------------------------------- MODULE Mover --------------------------------
(***************************************************************************)
(* The mover (src/filter/mover.go): the files of tagged mail are copied to  *)
(* the folder of their tag, the index is moved to the copies, the sources  *)
(* are removed.  The index is notmuch's and the files are the sync tool's, *)
(* too: `notmuch new' of any process scans the folders one by one under    *)
(* the database's write lock, a tag write renames a message's files when   *)
(* flags are synchronised, and the sync tool renames files on its own.     *)
(* Every client of the machine may move, and may die at any point.         *)
(***************************************************************************)
EXTENDS Naturals, FiniteSets

CONSTANTS
  Msgs, Folders,
  Inbox,      \* the account's inbox
  Targets,    \* the folders a tag has as its home
  Movers,     \* calls of Move, of any process
  Nobody,     \* not a mover
  MaxTrouble  \* bound: failing calls, dying processes, renames by the others

ASSUME MoverAssumption ==
  /\ Targets \subseteq Folders /\ Inbox \in Folders
  /\ IsFiniteSet(Folders)
  /\ Nobody \notin Movers
  /\ MaxTrouble \in Nat

\* A file's base name is unique to its message but for what follows it: the
\* maildir flags, and the mark of the sync tool (",U=<uid>").
File == [msg : Msgs, folder : Folders, seen : BOOLEAN, uid : BOOLEAN]

VARIABLES
  cli,        \* the backend has no path operations
  disk,       \* the files
  index,      \* the paths the database has
  scan, gone, \* notmuch new: folders it has not yet read, paths it will drop
  lock,       \* the holder of mover.lock
  pc,         \* pc[p]
  target,     \* target[p]: the batch, a home for each of its messages
  todo,       \* todo[p]: the paths of the batch still to look at
  paths,      \* paths[p]: the snapshot the batch was made from
  toAdd, toRemove,
  first,      \* history: the files at the beginning
  faults, renames

moving == <<pc, target, todo, paths, toAdd, toRemove>>
vars == <<cli, disk, index, scan, gone, lock, moving, first, faults, renames>>

NoScan == scan = {} /\ gone = {}
Of(m, files) == {f \in files : f.msg = m}
NoBatch == [m \in {} |-> Inbox]

Init ==
  /\ cli \in BOOLEAN
  /\ disk \in SUBSET File /\ \A m \in Msgs : Of(m, disk) # {}
  /\ index = disk /\ first = disk
  /\ scan = {} /\ gone = {} /\ lock = Nobody
  /\ pc = [p \in Movers |-> "idle"]
  /\ target = [p \in Movers |-> NoBatch]
  /\ todo = [p \in Movers |-> {}] /\ paths = [p \in Movers |-> {}]
  /\ toAdd = [p \in Movers |-> {}] /\ toRemove = [p \in Movers |-> {}]
  /\ faults = 0 /\ renames = 0

-----------------------------------------------------------------------------
(* Move.                                                                   *)

\* managedTree: the inbox and the homes; other folders are left alone
Managed == Targets \cup {Inbox}

\* mutant: a home that is in no account's tree
DestUnresolved(p, f) == [f EXCEPT !.folder = Nobody, !.uid = FALSE]

\* stripUID and the target folder; the slot and the flags stay
Dest(p, f) == [msg |-> f.msg, folder |-> target[p][f.msg], seen |-> f.seen, uid |-> FALSE]

\* a message with a file at its home does not move
AtHome(p, m) == \E f \in Of(m, paths[p]) : f.folder = target[p][m]

\* the caller's batch: messages, their homes, and their paths in a snapshot
Take(p, batch) ==
  /\ pc[p] = "idle"
  /\ pc' = [pc EXCEPT ![p] = "wait"]
  /\ target' = [target EXCEPT ![p] = batch]
  /\ paths' = [paths EXCEPT ![p] = {f \in index : f.msg \in DOMAIN batch}]
  /\ UNCHANGED <<cli, disk, index, scan, gone, lock, todo, toAdd, toRemove,
                 first, faults, renames>>

\* the batch is over: Move returns and its descriptor closes
Return(p) ==
  /\ pc' = [pc EXCEPT ![p] = "done"]
  /\ target' = [target EXCEPT ![p] = NoBatch]
  /\ todo' = [todo EXCEPT ![p] = {}] /\ paths' = [paths EXCEPT ![p] = {}]
  /\ toAdd' = [toAdd EXCEPT ![p] = {}] /\ toRemove' = [toRemove EXCEPT ![p] = {}]
  /\ lock' = IF lock = p THEN Nobody ELSE lock

\* mutant: the batch starts whatever the lock
LockLiveAnyway(p) ==
  /\ pc[p] = "wait"
  /\ lock' = p
  /\ pc' = [pc EXCEPT ![p] = "copy"] /\ todo' = [todo EXCEPT ![p] = paths[p]]
  /\ UNCHANGED <<cli, disk, index, scan, gone, target, paths, toAdd, toRemove,
                 first, faults, renames>>

LockLive(p) ==
  /\ pc[p] = "wait"
  /\ lock = Nobody /\ lock' = p
  /\ pc' = [pc EXCEPT ![p] = "copy"] /\ todo' = [todo EXCEPT ![p] = paths[p]]
  /\ UNCHANGED <<cli, disk, index, scan, gone, target, paths, toAdd, toRemove,
                 first, faults, renames>>

\* the poll's mover skips the batch at once, the apply's after a timeout
GiveUp(p) ==
  /\ pc[p] = "wait" /\ lock # Nobody
  /\ Return(p)
  /\ UNCHANGED <<cli, disk, index, scan, gone, first, faults, renames>>

\* source gone, not managed, already home, dest exists
Skipped(p, f) ==
  \/ f \notin disk \/ f.folder \notin Managed
  \/ AtHome(p, f.msg) \/ Dest(p, f) \in disk

Skip(p, f) ==
  /\ pc[p] = "copy" /\ f \in todo[p] /\ Skipped(p, f)
  /\ todo' = [todo EXCEPT ![p] = @ \ {f}]
  /\ UNCHANGED <<cli, disk, index, scan, gone, lock, pc, target, paths, toAdd,
                 toRemove, first, faults, renames>>

\* mutant: a file that is at home already moves, too
CopyHome(p, f) ==
  /\ pc[p] = "copy" /\ f \in todo[p] /\ f \in disk /\ f.folder \in Managed
  /\ disk' = disk \cup {Dest(p, f)}
  /\ todo' = [todo EXCEPT ![p] = @ \ {f}]
  /\ toAdd' = [toAdd EXCEPT ![p] = @ \cup {Dest(p, f)}]
  /\ toRemove' = [toRemove EXCEPT ![p] = @ \cup {f}]
  /\ UNCHANGED <<cli, index, scan, gone, lock, pc, target, paths, first, faults,
                 renames>>

\* copyFile: a temporary file and a rename
Copy(p, f) ==
  /\ pc[p] = "copy" /\ f \in todo[p] /\ ~Skipped(p, f)
  /\ disk' = disk \cup {Dest(p, f)}
  /\ todo' = [todo EXCEPT ![p] = @ \ {f}]
  /\ toAdd' = [toAdd EXCEPT ![p] = @ \cup {Dest(p, f)}]
  /\ toRemove' = [toRemove EXCEPT ![p] = @ \cup {f}]
  /\ UNCHANGED <<cli, index, scan, gone, lock, pc, target, paths, first, faults,
                 renames>>

\* the first failing copy ends the batch; the copies before it stay
CopyFails(p) ==
  /\ pc[p] = "copy" /\ todo[p] # {} /\ faults + renames < MaxTrouble
  /\ faults' = faults + 1
  /\ Return(p)
  /\ UNCHANGED <<cli, disk, index, scan, gone, first, renames>>

Copied(p) ==
  /\ pc[p] = "copy" /\ todo[p] = {}
  /\ IF toAdd[p] = {}
     THEN Return(p)
     ELSE /\ pc' = [pc EXCEPT ![p] = IF cli THEN "delete" ELSE "add"]
          /\ UNCHANGED <<lock, target, todo, paths, toAdd, toRemove>>
  /\ UNCHANGED <<cli, disk, index, scan, gone, first, faults, renames>>

\* mutant: the sources leave the index before the copies are in it
RemoveFirst(p) ==
  /\ pc[p] = "add" /\ NoScan
  /\ index' = index \ toRemove[p]
  /\ pc' = [pc EXCEPT ![p] = "remove"]
  /\ UNCHANGED <<cli, disk, scan, gone, lock, target, todo, paths, toAdd,
                 toRemove, first, faults, renames>>

\* ActAddPaths, under the database's write lock: a file that is not there is
\* an error and leaves what was added before it, a busy database adds nothing
AddPaths(p) ==
  /\ pc[p] = "add" /\ NoScan
  /\ toAdd[p] \subseteq disk
  /\ index' = index \cup toAdd[p]
  /\ pc' = [pc EXCEPT ![p] = "remove"]
  /\ UNCHANGED <<cli, disk, scan, gone, lock, target, todo, paths, toAdd,
                 toRemove, first, faults, renames>>

AddPathsFails(p) ==
  /\ pc[p] = "add"
  /\ \/ faults + renames < MaxTrouble /\ faults' = faults + 1
     \/ ~(toAdd[p] \subseteq disk) /\ NoScan /\ UNCHANGED faults
  /\ \E some \in SUBSET (toAdd[p] \cap disk) :
       /\ NoScan \/ some = {}
       /\ index' = index \cup some
  /\ Return(p)
  /\ UNCHANGED <<cli, disk, scan, gone, first, renames>>

RemovePaths(p) ==
  /\ pc[p] = "remove" /\ NoScan
  /\ index' = index \ toRemove[p]
  /\ pc' = [pc EXCEPT ![p] = "delete"]
  /\ UNCHANGED <<cli, disk, scan, gone, lock, target, todo, paths, toAdd,
                 toRemove, first, faults, renames>>

RemovePathsFails(p) ==
  /\ pc[p] = "remove" /\ faults + renames < MaxTrouble
  /\ faults' = faults + 1
  /\ \E some \in SUBSET toRemove[p] :
       /\ NoScan \/ some = {}
       /\ index' = index \ some
  /\ Return(p)
  /\ UNCHANGED <<cli, disk, scan, gone, first, renames>>

\* os.Remove, of the path that was read: a file that is gone is as good
Delete(p, f) ==
  /\ pc[p] = "delete" /\ f \in toRemove[p]
  /\ disk' = disk \ {f}
  /\ toRemove' = [toRemove EXCEPT ![p] = @ \ {f}]
  /\ UNCHANGED <<cli, index, scan, gone, lock, pc, target, todo, paths, toAdd,
                 first, faults, renames>>

DeleteFails(p) ==
  /\ pc[p] = "delete" /\ toRemove[p] # {} /\ faults + renames < MaxTrouble
  /\ faults' = faults + 1
  /\ Return(p)
  /\ UNCHANGED <<cli, disk, index, scan, gone, first, renames>>

Finish(p) ==
  /\ pc[p] = "delete" /\ toRemove[p] = {}
  /\ Return(p)
  /\ UNCHANGED <<cli, disk, index, scan, gone, first, faults, renames>>

\* the process dies: the kernel releases the lock, the files stay as they are
Crash(p) ==
  /\ pc[p] \notin {"idle", "done"} /\ faults + renames < MaxTrouble /\ faults' = faults + 1
  /\ Return(p)
  /\ UNCHANGED <<cli, disk, index, scan, gone, first, renames>>

-----------------------------------------------------------------------------
(* Everybody else.                                                         *)

\* notmuch new takes the write lock, reads one folder after the other, and at
\* its end drops the paths it did not find
NewBegin ==
  /\ NoScan /\ scan' = Folders
  /\ UNCHANGED <<cli, disk, index, gone, lock, moving, first, faults, renames>>

NewScan(d) ==
  /\ d \in scan /\ scan' = scan \ {d}
  /\ index' = index \cup {f \in disk : f.folder = d}
  /\ gone' = gone \cup {f \in index : f.folder = d /\ f \notin disk}
  /\ UNCHANGED <<cli, disk, lock, moving, first, faults, renames>>

NewEnd ==
  /\ scan = {} /\ gone # {}
  /\ index' = index \ gone /\ gone' = {}
  /\ UNCHANGED <<cli, disk, scan, lock, moving, first, faults, renames>>

Flipped(f) == [f EXCEPT !.seen = ~f.seen]

\* a tag write that flips a flag renames every file of the message it knows
TagWrite(m) ==
  /\ NoScan /\ faults + renames < MaxTrouble /\ renames' = renames + 1
  /\ LET known == Of(m, index \cap disk)
     IN /\ known # {}
        /\ disk' = (disk \ known) \cup {Flipped(f) : f \in known}
        /\ index' = (index \ known) \cup {Flipped(f) : f \in known}
  /\ UNCHANGED <<cli, scan, gone, lock, moving, first, faults>>

\* the sync tool marks a file it has taken up, or sets the flag it was told
SyncRename(f, g) ==
  /\ f \in disk /\ g \notin disk
  /\ g \in {Flipped(f), [f EXCEPT !.uid = TRUE]}
  /\ faults + renames < MaxTrouble /\ renames' = renames + 1
  /\ disk' = (disk \ {f}) \cup {g}
  /\ UNCHANGED <<cli, index, scan, gone, lock, moving, first, faults>>

-----------------------------------------------------------------------------
Batches == UNION {[B -> Targets] : B \in SUBSET Msgs \ {{}}}

Step(p) ==
  \/ LockLive(p) \/ GiveUp(p) \/ CopyFails(p) \/ Copied(p) \/ AddPaths(p)
  \/ AddPathsFails(p) \/ RemovePaths(p) \/ RemovePathsFails(p) \/ DeleteFails(p)
  \/ Finish(p) \/ Crash(p)
  \/ \E batch \in Batches : Take(p, batch)
  \/ \E f \in File : Skip(p, f) \/ Copy(p, f) \/ Delete(p, f)

Notmuch == NewBegin \/ NewEnd \/ \E d \in Folders : NewScan(d)

Others == \/ \E m \in Msgs : TagWrite(m)
          \/ \E f, g \in File : SyncRename(f, g)

Next == (\E p \in Movers : Step(p)) \/ Notmuch \/ Others

Spec == Init /\ [][Next]_vars

-----------------------------------------------------------------------------
(* Properties.                                                             *)

PCs == {"idle", "wait", "copy", "add", "remove", "delete", "done"}

\* The one type invariant of the module.
TypeOK ==
  /\ cli \in BOOLEAN
  /\ disk \subseteq File /\ index \subseteq File /\ first \subseteq File
  /\ scan \subseteq Folders /\ gone \subseteq File
  /\ lock \in Movers \cup {Nobody}
  /\ pc \in [Movers -> PCs]
  /\ target \in [Movers -> Batches \cup {NoBatch}]
  /\ todo \in [Movers -> SUBSET File] /\ paths \in [Movers -> SUBSET File]
  /\ toAdd \in [Movers -> SUBSET File] /\ toRemove \in [Movers -> SUBSET File]
  /\ faults \in Nat /\ renames \in Nat

\* "orphan dests are harmless duplicates, never loss": whatever fails, dies or
\* is renamed between the steps of a batch, each message keeps a file.
NoLoss == \A m \in Msgs : Of(m, disk) # {}

\* "a remove of the last file deletes the message record and its tags": with
\* path operations the database has a path of each message at every moment, so
\* that no tag is lost, also when notmuch new reads one folder before the copy
\* is made and the other after the source is gone.
KeepsRecord == ~cli => \A m \in Msgs : Of(m, index) # {}

\* The lock keeps two clients from taking one message to two homes, or copying
\* it twice: when nothing failed and nobody else renamed a file, a message has
\* as many files after a batch as it had at first.
NoNewCopies ==
  (faults = 0 /\ renames = 0 /\ \A p \in Movers : pc[p] \in {"idle", "wait", "done"})
     => \A m \in Msgs : Cardinality(Of(m, disk)) = Cardinality(Of(m, first))

\* Every source a batch is about to remove has its message at home, under
\* whatever name: the copy was made, and nothing has taken it away since.
CopyStands ==
  \A p \in Movers : \A f \in toRemove[p] :
    /\ f.folder # target[p][f.msg]
    /\ \E g \in Of(f.msg, disk) : g.folder = target[p][f.msg]
=============================================================================
