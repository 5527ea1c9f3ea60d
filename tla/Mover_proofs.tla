----------------------------- MODULE Mover_proofs -----------------------------
(***************************************************************************)
(* Proofs about Mover, for every number of messages, folders, movers and   *)
(* of failing calls, deaths and renames.  Nothing is lost because a source *)
(* is removed only while its message has a file at home; the record stays  *)
(* because the index has that file, or will have read its folder, whenever *)
(* the source's path or file goes.  Nothing is copied twice because a      *)
(* batch that holds the lock has one file more for each source to remove.  *)
(***************************************************************************)
EXTENDS Mover, TLAPS, FiniteSetTheorems

Working == {"copy", "add", "remove", "delete"}

(* A batch under way holds the lock; nothing is left of one that is over.  *)
Locked ==
  \A p \in Movers : /\ pc[p] \in Working => lock = p
                    /\ pc[p] \notin Working => toRemove[p] = {} /\ todo[p] = {}

(* A mover looks at the files of its batch, as its snapshot has them.      *)
OwnBatch ==
  \A p \in Movers : /\ todo[p] \subseteq paths[p]
                    /\ \A f \in paths[p] : f.msg \in DOMAIN target[p]
                    /\ \A f \in toRemove[p] : f.msg \in DOMAIN target[p]

Has(m, d, files) == \E g \in files : g.msg = m /\ g.folder = d

(* Until the copies are in the index, they are the paths that will be.     *)
CopiesDue ==
  \A p \in Movers : pc[p] \in {"copy", "add"} =>
    \A f \in toRemove[p] : Has(f.msg, target[p][f.msg], toAdd[p])

FilesStand == NoLoss /\ CopyStands

(* The folder d answers for the message m: its path is in the index and    *)
(* stays there, or a scan of notmuch new that has not read the folder yet  *)
(* will find its file.                                                     *)
Anchored(m, d) == IF d \in scan THEN Has(m, d, disk) ELSE Has(m, d, index \ gone)

GoneIsRead == \A f \in gone : f.folder \notin scan

Recorded == ~cli =>
  /\ KeepsRecord
  /\ \A m \in Msgs : \E d \in Folders : Anchored(m, d)
  /\ \A p \in Movers : pc[p] \in {"remove", "delete"} =>
       \A f \in toRemove[p] : Anchored(f.msg, target[p][f.msg])

IInv == TypeOK /\ Locked /\ OwnBatch /\ CopiesDue /\ FilesStand /\ GoneIsRead /\ Recorded

-----------------------------------------------------------------------------
(* Files and homes.                                                        *)

\* A home is a target of the batch.
LEMMA HomeIsTarget ==
  ASSUME TypeOK, NEW p \in Movers, NEW m \in DOMAIN target[p]
  PROVE  m \in Msgs /\ target[p][m] \in Targets /\ target[p][m] \in Folders
<1>1. CASE target[p] = NoBatch
  BY <1>1, Zenon DEF NoBatch
<1>2. ASSUME NEW B \in SUBSET Msgs, target[p] \in [B -> Targets] PROVE m \in Msgs /\ target[p][m] \in Targets
  BY <1>2, SMT
<1>3. target[p] \in Batches \cup {NoBatch}
  BY DEF TypeOK
<1>4. m \in Msgs /\ target[p][m] \in Targets
  BY <1>1, <1>2, <1>3, SMT DEF Batches
<1> QED
  BY <1>4, MoverAssumption, SMT

\* The copy of a file is a file of the same message, at its home.
LEMMA DestIsHome ==
  ASSUME TypeOK, NEW p \in Movers, NEW f \in File, f.msg \in DOMAIN target[p]
  PROVE  /\ Dest(p, f) \in File /\ Dest(p, f).msg = f.msg
         /\ Dest(p, f).folder = target[p][f.msg]
<1>1. target[p][f.msg] \in Folders
  BY HomeIsTarget
<1> QED
  BY <1>1, SMT DEF Dest, File

\* A rename keeps the message and the folder.
LEMMA RenameKeeps ==
  ASSUME NEW f \in File
  PROVE  /\ Flipped(f) \in File /\ Flipped(f).msg = f.msg /\ Flipped(f).folder = f.folder
         /\ LET u == [f EXCEPT !.uid = TRUE] IN u \in File /\ u.msg = f.msg /\ u.folder = f.folder
<1>1. ASSUME NEW b \in BOOLEAN PROVE LET u == [f EXCEPT !.seen = b] IN u \in File /\ u.msg = f.msg /\ u.folder = f.folder
  <2>1. [f EXCEPT !.seen = b] \in File
    BY SMT DEF File
  <2>2. LET u == [f EXCEPT !.seen = b] IN u.msg = f.msg /\ u.folder = f.folder
    BY SMT DEF File
  <2> QED BY <2>1, <2>2
<1>2. (~f.seen) \in BOOLEAN
  OBVIOUS
<1>3. Flipped(f) \in File /\ Flipped(f).msg = f.msg /\ Flipped(f).folder = f.folder
  BY <1>1, <1>2, Zenon DEF Flipped
<1>4. ASSUME NEW b \in BOOLEAN PROVE LET u == [f EXCEPT !.uid = b] IN u \in File /\ u.msg = f.msg /\ u.folder = f.folder
  <2>1. [f EXCEPT !.uid = b] \in File
    BY SMT DEF File
  <2>2. LET u == [f EXCEPT !.uid = b] IN u.msg = f.msg /\ u.folder = f.folder
    BY SMT DEF File
  <2> QED BY <2>1, <2>2
<1> QED
  BY <1>3, <1>4, Zenon

-----------------------------------------------------------------------------
(* Types.                                                                  *)

LEMMA InitTypeOK == Init => TypeOK
  BY MoverAssumption, SMT DEF Init, TypeOK, PCs

LEMMA ReturnType ==
  ASSUME TypeOK, NEW p \in Movers, Return(p)
  PROVE  /\ lock' \in Movers \cup {Nobody} /\ pc' \in [Movers -> PCs]
         /\ target' \in [Movers -> Batches \cup {NoBatch}]
         /\ todo' \in [Movers -> SUBSET File] /\ paths' \in [Movers -> SUBSET File]
         /\ toAdd' \in [Movers -> SUBSET File] /\ toRemove' \in [Movers -> SUBSET File]
  BY SMT DEF TypeOK, PCs, Return

LEMMA TypeStep == TypeOK /\ OwnBatch /\ [Next]_vars => TypeOK'
<1> SUFFICES ASSUME TypeOK, OwnBatch, [Next]_vars PROVE TypeOK'
  OBVIOUS
<1> USE MoverAssumption DEF PCs
<1>1. ASSUME NEW p \in Movers, NEW batch \in Batches, Take(p, batch) PROVE TypeOK'
  BY <1>1, SMT DEF TypeOK, Take
<1>2. ASSUME NEW p \in Movers, LockLive(p) PROVE TypeOK'
  BY <1>2, SMT DEF TypeOK, LockLive
<1>3. ASSUME NEW p \in Movers, GiveUp(p) \/ CopyFails(p) \/ DeleteFails(p) \/ Finish(p) \/ Crash(p) PROVE TypeOK'
  <2>1. Return(p)
    BY <1>3 DEF GiveUp, CopyFails, DeleteFails, Finish, Crash
  <2>2. cli' \in BOOLEAN /\ disk' \subseteq File /\ index' \subseteq File /\ first' \subseteq File
        /\ scan' \subseteq Folders /\ gone' \subseteq File /\ faults' \in Nat /\ renames' \in Nat
    BY <1>3, SMT DEF TypeOK, GiveUp, CopyFails, DeleteFails, Finish, Crash
  <2> QED BY <2>1, <2>2, ReturnType, Zenon DEF TypeOK
<1>4. ASSUME NEW p \in Movers, NEW f \in File, Skip(p, f) \/ Delete(p, f) PROVE TypeOK'
  <2>1. CASE Skip(p, f)
    BY <2>1, SMT DEF TypeOK, Skip
  <2>2. CASE Delete(p, f)
    BY <2>2, SMT DEF TypeOK, Delete
  <2> QED BY <1>4, <2>1, <2>2
<1>5. ASSUME NEW p \in Movers, NEW f \in File, Copy(p, f) PROVE TypeOK'
  <2>1. Dest(p, f) \in File
    BY <1>5, DestIsHome, SMT DEF Copy, OwnBatch
  <2> QED BY <1>5, <2>1, SMT DEF TypeOK, Copy
<1>6. ASSUME NEW p \in Movers, Copied(p) PROVE TypeOK'
  <2>1. CASE Return(p)
    BY <1>6, <2>1, ReturnType, SMT DEF TypeOK, Copied
  <2>2. CASE ~Return(p)
    BY <1>6, <2>2, SMT DEF TypeOK, Copied
  <2> QED BY <2>1, <2>2
<1>7. ASSUME NEW p \in Movers, AddPaths(p) \/ RemovePaths(p) PROVE TypeOK'
  BY <1>7, SMT DEF TypeOK, AddPaths, RemovePaths
<1>8. ASSUME NEW p \in Movers, AddPathsFails(p) \/ RemovePathsFails(p) PROVE TypeOK'
  <2>1. Return(p)
    BY <1>8 DEF AddPathsFails, RemovePathsFails
  <2>2. cli' \in BOOLEAN /\ disk' \subseteq File /\ index' \subseteq File /\ first' \subseteq File
        /\ scan' \subseteq Folders /\ gone' \subseteq File /\ faults' \in Nat /\ renames' \in Nat
    BY <1>8, SMT DEF TypeOK, AddPathsFails, RemovePathsFails
  <2> QED BY <2>1, <2>2, ReturnType, Zenon DEF TypeOK
<1>9. CASE Notmuch
  BY <1>9, SMT DEF TypeOK, Notmuch, NewBegin, NewScan, NewEnd, moving
<1>10. ASSUME NEW m \in Msgs, TagWrite(m) PROVE TypeOK'
  <2>1. \A f \in Of(m, index \cap disk) : Flipped(f) \in File
    BY RenameKeeps, Zenon DEF TypeOK, Of
  <2> DEFINE known == Of(m, index \cap disk)
             flipped == {Flipped(f) : f \in known}
  <2>2. flipped \subseteq File
    BY <2>1, Zenon
  <2>3. disk' = (disk \ known) \cup flipped /\ index' = (index \ known) \cup flipped
    BY <1>10, Zenon DEF TagWrite
  <2>4. UNCHANGED <<cli, scan, gone, lock, moving, first, faults>> /\ renames' = renames + 1
    BY <1>10, Zenon DEF TagWrite
  <2> HIDE DEF known, flipped
  <2> QED BY <2>2, <2>3, <2>4, SMT DEF TypeOK, moving
<1>11. ASSUME NEW f \in File, NEW g \in File, SyncRename(f, g) PROVE TypeOK'
  BY <1>11, SMT DEF TypeOK, SyncRename, moving
<1>12. CASE UNCHANGED vars
  BY <1>12, SMT DEF TypeOK, vars, moving
<1> QED
  BY <1>1, <1>2, <1>3, <1>4, <1>5, <1>6, <1>7, <1>8, <1>9, <1>10, <1>11, <1>12, Zenon DEF Next, Step, Others

-----------------------------------------------------------------------------
(* The lock and the batches.                                               *)

LEMMA InitPlain == Init => Locked /\ OwnBatch /\ CopiesDue /\ GoneIsRead
  BY SMT DEF Init, Locked, Working, OwnBatch, CopiesDue, GoneIsRead

(* The ways a batch ends: all of it is forgotten, and the lock is free.    *)
Ends(p) == \/ GiveUp(p) \/ CopyFails(p) \/ AddPathsFails(p) \/ RemovePathsFails(p) \/ DeleteFails(p)
           \/ Finish(p) \/ Crash(p) \/ (Copied(p) /\ toAdd[p] = {})

LEMMA EndsReturns ==
  ASSUME NEW p \in Movers, Ends(p)
  PROVE  Return(p) /\ UNCHANGED <<cli, disk, scan, gone, first>>
  BY SMT DEF Ends, GiveUp, CopyFails, AddPathsFails, RemovePathsFails, DeleteFails, Finish, Crash, Copied

LEMMA PlainStep ==
  TypeOK /\ Locked /\ OwnBatch /\ CopiesDue /\ GoneIsRead /\ [Next]_vars
    => (Locked /\ OwnBatch /\ CopiesDue /\ GoneIsRead)'
<1> SUFFICES ASSUME TypeOK, Locked, OwnBatch, CopiesDue, GoneIsRead, [Next]_vars
             PROVE  (Locked /\ OwnBatch /\ CopiesDue /\ GoneIsRead)'
  OBVIOUS
<1> DEFINE Goal == (Locked /\ OwnBatch /\ CopiesDue /\ GoneIsRead)'
<1> USE MoverAssumption DEF TypeOK, PCs, Locked, Working, OwnBatch, CopiesDue, GoneIsRead, Has
<1>1. ASSUME NEW p \in Movers, NEW batch \in Batches, Take(p, batch) PROVE Goal
  BY <1>1, SMT DEF Take
<1>2. ASSUME NEW p \in Movers, LockLive(p) PROVE Goal
  BY <1>2, SMT DEF LockLive
<1>3. ASSUME NEW p \in Movers, Ends(p) PROVE Goal
  BY <1>3, EndsReturns, SMT DEF Return
<1>4. ASSUME NEW p \in Movers, NEW f \in File, Skip(p, f) PROVE Goal
  BY <1>4, SMT DEF Skip
<1>5. ASSUME NEW p \in Movers, NEW f \in File, Delete(p, f) PROVE Goal
  BY <1>5, SMT DEF Delete
<1>6. ASSUME NEW p \in Movers, NEW f \in File, Copy(p, f) PROVE Goal
  <2>1. f.msg \in DOMAIN target[p]
    BY <1>6, SMT DEF Copy
  <2>2. Dest(p, f).msg = f.msg /\ Dest(p, f).folder = target[p][f.msg]
    BY <2>1, DestIsHome
  <2>3. (Locked /\ OwnBatch /\ GoneIsRead)'
    BY <1>6, <2>1, SMT DEF Copy
  <2>4. ASSUME NEW q \in Movers, pc'[q] \in {"copy", "add"}, NEW g \in toRemove'[q]
        PROVE  Has(g.msg, target'[q][g.msg], toAdd'[q])
    <3>1. CASE q = p /\ g = f
      BY <1>6, <2>2, <3>1, SMT DEF Copy
    <3>2. CASE ~(q = p /\ g = f)
      BY <1>6, <2>4, <3>2, SMT DEF Copy
    <3> QED BY <3>1, <3>2
  <2> QED BY <2>3, <2>4, Zenon
<1>7. ASSUME NEW p \in Movers, Copied(p), toAdd[p] # {} PROVE Goal
  BY <1>7, SMT DEF Copied
<1>8. ASSUME NEW p \in Movers, AddPaths(p) \/ RemovePaths(p) PROVE Goal
  BY <1>8, SMT DEF AddPaths, RemovePaths
<1>9. CASE Notmuch
  BY <1>9, SMT DEF Notmuch, NewBegin, NewScan, NewEnd, NoScan, moving
<1>10. ASSUME NEW m \in Msgs, TagWrite(m) PROVE Goal
  BY <1>10, SMT DEF TagWrite, moving
<1>11. ASSUME NEW f \in File, NEW g \in File, SyncRename(f, g) PROVE Goal
  BY <1>11, SMT DEF SyncRename, moving
<1>12. ASSUME UNCHANGED vars PROVE Goal
  BY <1>12, SMT DEF vars, moving
<1> HIDE DEF Goal
<1> QED
  BY <1>1, <1>2, <1>3, <1>4, <1>5, <1>6, <1>7, <1>8, <1>9, <1>10, <1>11, <1>12, Zenon
     DEF Next, Step, Others, Ends, Goal

-----------------------------------------------------------------------------
(* The files.                                                              *)

LEMMA InitFiles == Init => FilesStand
  BY SMT DEF Init, FilesStand, NoLoss, CopyStands

(* Renames leave a message its files, folder by folder.                    *)
Renamed == \A m, d : Has(m, d, disk) => Has(m, d, disk')

LEMMA TagWriteRenames ==
  ASSUME TypeOK, NEW m \in Msgs, TagWrite(m)
  PROVE  Renamed /\ \A k, d : Has(k, d, index) => Has(k, d, index')
<1> DEFINE known == Of(m, index \cap disk)
           flipped == {Flipped(f) : f \in known}
<1>1. disk' = (disk \ known) \cup flipped /\ index' = (index \ known) \cup flipped
  BY Zenon DEF TagWrite
<1>2. known \subseteq File
  BY Zenon DEF Of, TypeOK
<1>3. \A f \in known : Flipped(f) \in flipped /\ Flipped(f).msg = f.msg /\ Flipped(f).folder = f.folder
  BY <1>2, RenameKeeps, Zenon
<1> HIDE DEF known, flipped
<1> QED
  BY <1>1, <1>3, Zenon DEF Renamed, Has

LEMMA SyncRenames ==
  ASSUME TypeOK, NEW f \in File, NEW g \in File, SyncRename(f, g)
  PROVE  Renamed
<1>1. g.msg = f.msg /\ g.folder = f.folder
  BY RenameKeeps, Zenon DEF SyncRename
<1>2. disk' = (disk \ {f}) \cup {g}
  BY Zenon DEF SyncRename
<1> QED
  BY <1>1, <1>2, Zenon DEF Renamed, Has

(* As long as every file keeps its place, the sources may go.              *)
LEMMA StandKept ==
  ASSUME FilesStand, Renamed, UNCHANGED <<target, toRemove>>
  PROVE  FilesStand'
<1>1. \A m, d : Has(m, d, disk) => Has(m, d, disk')
  BY DEF Renamed
<1>2. ASSUME NEW m \in Msgs PROVE Of(m, disk') # {}
  <2>1. PICK f \in disk : f.msg = m
    BY Zenon DEF FilesStand, NoLoss, Of
  <2>2. Has(m, f.folder, disk)
    BY <2>1, Zenon DEF Has
  <2>3. Has(m, f.folder, disk')
    BY <2>2, <1>1, Zenon
  <2> QED BY <2>3, Zenon DEF Has, Of
<1>3. ASSUME NEW p \in Movers, NEW f \in toRemove[p]
      PROVE  /\ f.folder # target[p][f.msg]
             /\ \E g \in Of(f.msg, disk') : g.folder = target[p][f.msg]
  <2>1. f.folder # target[p][f.msg] /\ Has(f.msg, target[p][f.msg], disk)
    BY Zenon DEF FilesStand, CopyStands, Has, Of
  <2>2. Has(f.msg, target[p][f.msg], disk')
    BY <2>1, <1>1, Zenon
  <2> QED BY <2>1, <2>2, Zenon DEF Has, Of
<1> QED
  BY <1>2, <1>3, Zenon DEF FilesStand, NoLoss, CopyStands

LEMMA FilesStep ==
  TypeOK /\ Locked /\ OwnBatch /\ FilesStand /\ [Next]_vars => FilesStand'
<1> SUFFICES ASSUME TypeOK, Locked, OwnBatch, FilesStand, [Next]_vars PROVE FilesStand'
  OBVIOUS
<1>same. ASSUME UNCHANGED <<disk, target, toRemove>> PROVE FilesStand'
  BY <1>same, Zenon DEF FilesStand, NoLoss, CopyStands, Of
<1>1. ASSUME NEW p \in Movers, NEW batch \in Batches, Take(p, batch) PROVE FilesStand'
  BY <1>1, SMT DEF Take, FilesStand, NoLoss, CopyStands, Of, TypeOK, Locked, Working
<1>2. ASSUME NEW p \in Movers, Ends(p) PROVE FilesStand'
  BY <1>2, EndsReturns, SMT DEF Return, FilesStand, NoLoss, CopyStands, Of, TypeOK
<1>3. ASSUME NEW p \in Movers, NEW f \in File, Copy(p, f) PROVE FilesStand'
  <2>1. f.msg \in DOMAIN target[p] /\ f.folder # target[p][f.msg]
    BY <1>3, SMT DEF Copy, Skipped, AtHome, Of, OwnBatch, TypeOK
  <2>2. Dest(p, f).msg = f.msg /\ Dest(p, f).folder = target[p][f.msg]
    BY <2>1, DestIsHome
  <2>3. disk' = disk \cup {Dest(p, f)} /\ target' = target
        /\ toRemove' = [toRemove EXCEPT ![p] = @ \cup {f}]
    BY <1>3 DEF Copy
  <2>4. NoLoss'
    BY <2>3, SMT DEF FilesStand, NoLoss, Of
  <2>5. ASSUME NEW q \in Movers, NEW g \in toRemove'[q]
        PROVE  g.folder # target'[q][g.msg] /\ \E h \in Of(g.msg, disk') : h.folder = target'[q][g.msg]
    <3>1. CASE q = p /\ g = f
      BY <3>1, <2>1, <2>2, <2>3, Zenon DEF Of
    <3>2. CASE ~(q = p /\ g = f)
      <4>1. g \in toRemove[q]
        BY <3>2, <2>3, <2>5, SMT DEF TypeOK
      <4> QED BY <4>1, <2>3, Zenon DEF FilesStand, CopyStands, Of
    <3> QED BY <3>1, <3>2
  <2> QED BY <2>4, <2>5, Zenon DEF FilesStand, CopyStands
<1>4. ASSUME NEW p \in Movers, NEW f \in File, Delete(p, f) PROVE FilesStand'
  <2>1. /\ disk' = disk \ {f} /\ target' = target /\ f \in toRemove[p]
        /\ toRemove' = [toRemove EXCEPT ![p] = @ \ {f}]
    BY <1>4 DEF Delete
  <2>2. PICK h \in disk : h.msg = f.msg /\ h.folder = target[p][f.msg] /\ h.folder # f.folder
    BY <2>1, Zenon DEF FilesStand, CopyStands, Of
  <2>3. ASSUME NEW m \in Msgs PROVE Of(m, disk') # {}
    <3>1. CASE m = f.msg
      BY <3>1, <2>1, <2>2, Zenon DEF Of
    <3>2. CASE m # f.msg
      BY <3>2, <2>1, Zenon DEF FilesStand, NoLoss, Of
    <3> QED BY <3>1, <3>2
  <2>4. \A q \in Movers : q # p => toRemove[q] = {}
    BY <1>4, SMT DEF Locked, Working, Delete
  <2>5. ASSUME NEW q \in Movers, NEW g \in toRemove'[q]
        PROVE  g.folder # target'[q][g.msg] /\ \E k \in Of(g.msg, disk') : k.folder = target'[q][g.msg]
    <3>1. q = p /\ g \in toRemove[p]
      BY <2>1, <2>4, <2>5, SMT DEF TypeOK
    <3>2. g.folder # target[p][g.msg] /\ \E k \in Of(g.msg, disk) : k.folder = target[p][g.msg]
      BY <3>1, Zenon DEF FilesStand, CopyStands
    <3>3. PICK k \in disk : k.msg = g.msg /\ k.folder = target[p][g.msg]
      BY <3>2, Zenon DEF Of
    <3>4. k # f
      BY <3>3, <2>2, Zenon
    <3> QED BY <3>1, <3>2, <3>3, <3>4, <2>1, Zenon DEF Of
  <2> QED BY <2>3, <2>5, Zenon DEF FilesStand, NoLoss, CopyStands
<1>5. ASSUME NEW m \in Msgs, TagWrite(m) PROVE FilesStand'
  BY <1>5, TagWriteRenames, StandKept DEF TagWrite, moving
<1>6. ASSUME NEW f \in File, NEW g \in File, SyncRename(f, g) PROVE FilesStand'
  BY <1>6, SyncRenames, StandKept DEF SyncRename, moving
<1>7. ASSUME NEW p \in Movers, NEW f \in File, Skip(p, f) PROVE FilesStand'
  BY <1>7, <1>same, Zenon DEF Skip
<1>8. CASE Notmuch
  BY <1>8, <1>same, Zenon DEF Notmuch, NewBegin, NewScan, NewEnd, moving
<1>9. ASSUME UNCHANGED vars PROVE FilesStand'
  BY <1>9, <1>same, Zenon DEF vars, moving
<1>10. ASSUME NEW p \in Movers, LockLive(p) \/ (Copied(p) /\ toAdd[p] # {}) \/ AddPaths(p) \/ RemovePaths(p)
       PROVE  FilesStand'
  BY <1>10, <1>same, Zenon DEF LockLive, Copied, AddPaths, RemovePaths
<1> QED
  BY <1>1, <1>2, <1>3, <1>4, <1>5, <1>6, <1>7, <1>8, <1>9, <1>10, Zenon DEF Next, Step, Others, Ends

-----------------------------------------------------------------------------
(* The index.                                                              *)

LEMMA InitRecord == Init => Recorded
<1> SUFFICES ASSUME Init PROVE Recorded
  OBVIOUS
<1>1. ASSUME NEW m \in Msgs PROVE Of(m, index) # {} /\ \E d \in Folders : Anchored(m, d)
  <2>1. PICK f \in disk : f.msg = m
    BY Zenon DEF Init, Of
  <2>2. f.folder \in Folders
    BY <2>1, SMT DEF Init, File
  <2>3. f \in index /\ f \notin gone /\ scan = {}
    BY <2>1, SMT DEF Init
  <2> QED BY <2>1, <2>2, <2>3, Zenon DEF Of, Anchored, Has
<1> QED
  BY <1>1, SMT DEF Init, Recorded, KeepsRecord

(* What is anchored stays so, if files and paths are renamed or added.     *)
LEMMA AnchorKept ==
  ASSUME UNCHANGED <<scan, gone>>,
         \A m, d : Has(m, d, disk) => Has(m, d, disk'),
         \A m, d : Has(m, d, index \ gone) => Has(m, d, index' \ gone)
  PROVE  \A m, d : Anchored(m, d) => Anchored(m, d)'
  BY Zenon DEF Anchored

(* The record and its anchors stay, if no anchor is lost and no batch has  *)
(* come to its removals.                                                   *)
LEMMA RecordKept ==
  ASSUME Recorded, cli' = cli,
         \A m, d : Anchored(m, d) => Anchored(m, d)',
         \A m \in Msgs : Of(m, index) # {} => Of(m, index') # {},
         \A p \in Movers : pc'[p] \in {"remove", "delete"} =>
           \A f \in toRemove'[p] : /\ pc[p] \in {"remove", "delete"} /\ f \in toRemove[p]
                                   /\ target'[p] = target[p]
  PROVE  Recorded'
<1> SUFFICES ASSUME ~cli PROVE Recorded'
  BY Zenon DEF Recorded
<1>1. KeepsRecord'
  BY Zenon DEF Recorded, KeepsRecord
<1>2. \A m \in Msgs : \E d \in Folders : Anchored(m, d)'
  BY Zenon DEF Recorded
<1>3. ASSUME NEW p \in Movers, pc'[p] \in {"remove", "delete"}, NEW f \in toRemove'[p]
      PROVE  Anchored(f.msg, target[p][f.msg])'
  <2>1. pc[p] \in {"remove", "delete"} /\ f \in toRemove[p] /\ target'[p] = target[p]
    BY <1>3, Zenon
  <2>2. Anchored(f.msg, target[p][f.msg])
    BY <2>1, Zenon DEF Recorded
  <2>3. PICK d : d = target[p][f.msg]
    OBVIOUS
  <2>4. Anchored(f.msg, d)'
    BY <2>2, <2>3, Zenon
  <2>5. d = target'[p][f.msg]
    BY <2>1, <2>3, Zenon
  <2> QED BY <2>4, <2>5, Zenon DEF Anchored
<1> QED
  BY <1>1, <1>2, <1>3, Zenon DEF Recorded

(* A step that leaves index and scan alone and loses no file.              *)
LEMMA RecordSame ==
  ASSUME Recorded, UNCHANGED <<cli, index, scan, gone>>,
         \A m, d : Has(m, d, disk) => Has(m, d, disk'),
         \A p \in Movers : pc'[p] \in {"remove", "delete"} =>
           \A f \in toRemove'[p] : /\ pc[p] \in {"remove", "delete"} /\ f \in toRemove[p]
                                   /\ target'[p] = target[p]
  PROVE  Recorded'
<1>1. \A m, d : Anchored(m, d) => Anchored(m, d)'
  BY AnchorKept, Zenon
<1> QED
  BY <1>1, RecordKept, Zenon

(* The paths of sources may go: each of their messages has one at home.    *)
LEMMA SourcesGo ==
  ASSUME IInv, ~cli, NoScan, NEW p \in Movers, pc[p] = "remove",
         NEW some \in SUBSET toRemove[p], index' = index \ some,
         UNCHANGED <<cli, scan, gone>>
  PROVE  /\ KeepsRecord'
         /\ \A m \in Msgs : \E d \in Folders : Anchored(m, d)'
         /\ \A f \in toRemove[p] : \E d \in Folders : d = target[p][f.msg] /\ Anchored(f.msg, d)'
<1>1. ASSUME NEW f \in toRemove[p]
      PROVE  \E d \in Folders : d = target[p][f.msg] /\ Anchored(f.msg, d)' /\ Of(f.msg, index') # {}
  <2>1. PICK d \in Folders : d = target[p][f.msg]
    BY HomeIsTarget, Zenon DEF IInv, OwnBatch
  <2>2. Anchored(f.msg, d)
    BY <2>1, Zenon DEF IInv, Recorded
  <2>3. PICK g \in index : g.msg = f.msg /\ g.folder = d
    BY <2>2, Zenon DEF Anchored, Has, NoScan
  <2>4. g \notin toRemove[p]
    BY <2>1, <2>3, Zenon DEF IInv, FilesStand, CopyStands
  <2>5. g \in index' /\ scan' = {} /\ gone' = {}
    BY <2>3, <2>4, SMT DEF NoScan
  <2> QED BY <2>1, <2>3, <2>5, Zenon DEF Anchored, Has, Of
<1>2. ASSUME NEW m \in Msgs, \A f \in toRemove[p] : f.msg # m
      PROVE  Of(m, index') # {} /\ \E d \in Folders : Anchored(m, d)'
  <2>1. PICK d \in Folders : Anchored(m, d)
    BY Zenon DEF IInv, Recorded
  <2>2. PICK g \in index : g.msg = m /\ g.folder = d
    BY <2>1, Zenon DEF Anchored, Has, NoScan
  <2>3. g \in index' /\ scan' = {} /\ gone' = {}
    BY <2>2, <1>2, SMT DEF NoScan
  <2> QED BY <2>2, <2>3, Zenon DEF Anchored, Has, Of
<1> QED
  BY <1>1, <1>2, Zenon DEF KeepsRecord

LEMMA RecordStep == IInv /\ TypeOK' /\ Locked' /\ [Next]_vars => Recorded'
<1> SUFFICES ASSUME IInv, TypeOK', Locked', [Next]_vars PROVE Recorded'
  OBVIOUS
<1>inv. TypeOK /\ Locked /\ OwnBatch /\ CopiesDue /\ FilesStand /\ GoneIsRead /\ Recorded
  BY DEF IInv
<1>1. ASSUME NEW p \in Movers, NEW batch \in Batches, Take(p, batch) PROVE Recorded'
  <2>1. \A q \in Movers : pc'[q] \in {"remove", "delete"} =>
          /\ pc[q] \in {"remove", "delete"} /\ toRemove'[q] = toRemove[q] /\ target'[q] = target[q]
    BY <1>1, <1>inv, SMT DEF Take, TypeOK
  <2> QED BY <1>1, <1>inv, <2>1, RecordSame, Zenon DEF Take
<1>2. ASSUME NEW p \in Movers, LockLive(p) \/ (Copied(p) /\ toAdd[p] # {}) PROVE Recorded'
  <2>1. ASSUME ~cli, NEW q \in Movers, pc'[q] \in {"remove", "delete"}
        PROVE  pc[q] \in {"remove", "delete"} /\ toRemove'[q] = toRemove[q] /\ target'[q] = target[q]
    BY <1>2, <1>inv, <2>1, SMT DEF LockLive, Copied, TypeOK
  <2>2. cli' = cli /\ UNCHANGED <<index, scan, gone, disk>>
    BY <1>2 DEF LockLive, Copied
  <2>3. CASE cli
    BY <2>2, <2>3 DEF Recorded
  <2>4. CASE ~cli
    BY <2>1, <2>2, <2>4, <1>inv, RecordSame, Zenon
  <2> QED BY <2>3, <2>4
<1>3. ASSUME NEW p \in Movers, NEW f \in File, Skip(p, f) \/ Copy(p, f) PROVE Recorded'
  <2>1. \A q \in Movers : pc'[q] \in {"remove", "delete"} =>
          /\ pc[q] \in {"remove", "delete"} /\ toRemove'[q] = toRemove[q] /\ target'[q] = target[q]
    BY <1>3, <1>inv, SMT DEF Skip, Copy, TypeOK
  <2>2. /\ UNCHANGED <<cli, index, scan, gone>>
        /\ \A m, d : Has(m, d, disk) => Has(m, d, disk')
    BY <1>3, Zenon DEF Skip, Copy, Has
  <2> QED BY <1>inv, <2>1, <2>2, RecordSame, Zenon
<1>4. ASSUME NEW p \in Movers, Ends(p), index' = index PROVE Recorded'
  <2>1. Return(p) /\ UNCHANGED <<cli, disk, scan, gone>>
    BY <1>4, EndsReturns
  <2>2. \A q \in Movers : pc'[q] \in {"remove", "delete"} =>
          /\ pc[q] \in {"remove", "delete"} /\ toRemove'[q] = toRemove[q] /\ target'[q] = target[q]
    BY <2>1, <1>inv, SMT DEF Return, TypeOK
  <2> QED BY <1>inv, <1>4, <2>1, <2>2, RecordSame, Zenon
<1>5. ASSUME NEW p \in Movers, AddPathsFails(p) PROVE Recorded'
  <2>1. Return(p) /\ UNCHANGED <<cli, disk, scan, gone>>
    BY <1>5 DEF AddPathsFails
  <2>2. \A q \in Movers : pc'[q] \in {"remove", "delete"} =>
          /\ pc[q] \in {"remove", "delete"} /\ toRemove'[q] = toRemove[q] /\ target'[q] = target[q]
    BY <2>1, <1>inv, SMT DEF Return, TypeOK
  <2>3. index \subseteq index'
    BY <1>5, Zenon DEF AddPathsFails
  <2>4. /\ \A m, d : Has(m, d, index \ gone) => Has(m, d, index' \ gone)
        /\ \A m \in Msgs : Of(m, index) # {} => Of(m, index') # {}
    BY <2>3, Zenon DEF Has, Of
  <2>5. \A m, d : Anchored(m, d) => Anchored(m, d)'
    BY <2>1, <2>4, AnchorKept, Zenon
  <2> QED BY <1>inv, <2>1, <2>2, <2>4, <2>5, RecordKept, Zenon
<1>6. ASSUME NEW p \in Movers, AddPaths(p) PROVE Recorded'
  <2>1. /\ index' = index \cup toAdd[p] /\ UNCHANGED <<cli, scan, gone, target, toRemove>>
        /\ pc' = [pc EXCEPT ![p] = "remove"] /\ pc[p] = "add" /\ NoScan
    BY <1>6 DEF AddPaths
  <2>2. \A m, d : Anchored(m, d) => Anchored(m, d)'
    BY <1>6, Zenon DEF AddPaths, Anchored, Has
  <2>3. ASSUME NEW q \in Movers, pc'[q] \in {"remove", "delete"}, ~cli, NEW f \in toRemove[q]
        PROVE  \E d : d = target[q][f.msg] /\ Anchored(f.msg, d)'
    <3>1. PICK d : d = target[q][f.msg]
      OBVIOUS
    <3>2. CASE q = p
      <4>1. Has(f.msg, d, toAdd[p])
        BY <2>1, <2>3, <3>1, <3>2, <1>inv, Zenon DEF CopiesDue
      <4>2. Anchored(f.msg, d)'
        BY <2>1, <4>1, Zenon DEF Anchored, Has, NoScan
      <4> QED BY <3>1, <4>2
    <3>3. CASE q # p
      <4>1. pc[q] \in {"remove", "delete"}
        BY <2>1, <2>3, <3>3, <1>inv, SMT DEF TypeOK
      <4>2. Anchored(f.msg, d)
        BY <2>3, <3>1, <4>1, <1>inv, Zenon DEF Recorded
      <4> QED BY <2>2, <3>1, <4>2, Zenon
    <3> QED BY <3>2, <3>3
  <2>4. ASSUME NEW q \in Movers, pc'[q] \in {"remove", "delete"}, ~cli, NEW f \in toRemove[q]
        PROVE  Anchored(f.msg, target[q][f.msg])'
    <3>1. PICK d : d = target[q][f.msg] /\ Anchored(f.msg, d)'
      BY <2>3, <2>4
    <3> QED BY <2>1, <3>1, Zenon DEF Anchored
  <2>5. ~cli => KeepsRecord'
    BY <2>1, <1>inv, Zenon DEF Recorded, KeepsRecord, Of
  <2>6. ~cli => \A m \in Msgs : \E d \in Folders : Anchored(m, d)'
    BY <2>2, <1>inv, Zenon DEF Recorded
  <2> QED BY <2>1, <2>4, <2>5, <2>6, Zenon DEF Recorded
<1>7. ASSUME NEW p \in Movers, RemovePaths(p) PROVE Recorded'
  <2> SUFFICES ASSUME ~cli PROVE Recorded'
    BY <1>7 DEF RemovePaths, Recorded
  <2>1. /\ index' = index \ toRemove[p] /\ UNCHANGED <<cli, scan, gone, target, toRemove>>
        /\ pc' = [pc EXCEPT ![p] = "delete"] /\ pc[p] = "remove" /\ NoScan
    BY <1>7 DEF RemovePaths
  <2>2. /\ KeepsRecord'
        /\ \A m \in Msgs : \E d \in Folders : Anchored(m, d)'
        /\ \A f \in toRemove[p] : \E d \in Folders : d = target[p][f.msg] /\ Anchored(f.msg, d)'
    BY <2>1, SourcesGo
  <2>3. \A q \in Movers : q # p => toRemove[q] = {}
    BY <2>1, <1>inv, SMT DEF Locked, Working
  <2>4. ASSUME NEW f \in toRemove[p] PROVE Anchored(f.msg, target[p][f.msg])'
    <3>1. PICK d \in Folders : d = target[p][f.msg] /\ Anchored(f.msg, d)'
      BY <2>2
    <3> QED BY <2>1, <3>1, Zenon DEF Anchored
  <2> QED BY <2>1, <2>2, <2>3, <2>4, Zenon DEF Recorded
<1>8. ASSUME NEW p \in Movers, RemovePathsFails(p) PROVE Recorded'
  <2> SUFFICES ASSUME ~cli PROVE Recorded'
    BY <1>8 DEF RemovePathsFails, Recorded
  <2>1. PICK some \in SUBSET toRemove[p] : (NoScan \/ some = {}) /\ index' = index \ some
    BY <1>8, Zenon DEF RemovePathsFails
  <2>2. CASE some = {}
    <3>1. index' = index
      BY <2>1, <2>2, Zenon
    <3> QED BY <1>8, <3>1, <1>4 DEF Ends
  <2>3. CASE NoScan
    <3>1. Return(p) /\ UNCHANGED <<cli, scan, gone>> /\ pc[p] = "remove"
      BY <1>8 DEF RemovePathsFails
    <3>2. KeepsRecord' /\ \A m \in Msgs : \E d \in Folders : Anchored(m, d)'
      BY <2>1, <2>3, <3>1, SourcesGo
    <3>3. \A q \in Movers : toRemove'[q] = {}
      BY <3>1, <1>inv, SMT DEF Return, TypeOK, Locked, Working
    <3> QED BY <3>2, <3>3, Zenon DEF Recorded
  <2> QED BY <2>1, <2>2, <2>3
<1>9. ASSUME NEW p \in Movers, NEW f \in File, Delete(p, f) PROVE Recorded'
  <2> SUFFICES ASSUME ~cli PROVE Recorded'
    BY <1>9 DEF Delete, Recorded
  <2>1. /\ disk' = disk \ {f} /\ UNCHANGED <<cli, index, scan, gone, target, pc>> /\ pc[p] = "delete"
        /\ f \in toRemove[p] /\ toRemove' = [toRemove EXCEPT ![p] = @ \ {f}]
    BY <1>9 DEF Delete
  <2>2. PICK h \in Folders : h = target[p][f.msg]
    BY <2>1, <1>inv, HomeIsTarget, Zenon DEF OwnBatch
  <2>3. f.folder # h
    BY <2>1, <2>2, <1>inv, Zenon DEF FilesStand, CopyStands
  <2>4. \A m, d : Anchored(m, d) /\ (m # f.msg \/ d # f.folder) => Anchored(m, d)'
    BY <2>1, Zenon DEF Anchored, Has
  <2>5. Anchored(f.msg, h)
    BY <2>1, <2>2, <1>inv, Zenon DEF Recorded
  <2>6. \A m \in Msgs : \E d \in Folders : Anchored(m, d)'
    BY <2>3, <2>4, <2>5, <1>inv, Zenon DEF Recorded
  <2>7. ASSUME NEW q \in Movers, pc'[q] \in {"remove", "delete"}, NEW g \in toRemove'[q]
        PROVE  Anchored(g.msg, target[q][g.msg])'
    <3>1. q = p /\ g \in toRemove[p]
      BY <2>1, <2>7, <1>inv, SMT DEF TypeOK, Locked, Working
    <3>2. PICK d : d = target[p][g.msg]
      OBVIOUS
    <3>3. Anchored(g.msg, d)
      BY <2>1, <3>1, <3>2, <1>inv, Zenon DEF Recorded
    <3>4. g.msg # f.msg \/ d # f.folder
      BY <2>2, <2>3, <3>2, Zenon
    <3>5. Anchored(g.msg, d)'
      BY <2>4, <3>3, <3>4, Zenon
    <3> QED BY <2>1, <3>1, <3>2, <3>5, Zenon DEF Anchored
  <2>8. KeepsRecord'
    BY <2>1, <1>inv, Zenon DEF Recorded, KeepsRecord, Of
  <2> QED BY <2>1, <2>6, <2>7, <2>8, Zenon DEF Recorded
<1>10. CASE NewBegin
  <2> SUFFICES ASSUME ~cli PROVE Recorded'
    BY <1>10 DEF NewBegin, Recorded
  <2>1. scan' = Folders /\ UNCHANGED <<cli, disk, index, gone, target, toRemove, pc>>
    BY <1>10 DEF NewBegin, moving
  <2>2. ASSUME NEW m \in Msgs PROVE \E d \in Folders : Anchored(m, d)'
    <3>1. PICK g \in disk : g.msg = m
      BY <1>inv, Zenon DEF FilesStand, NoLoss, Of
    <3>2. g.folder \in Folders
      BY <1>inv, SMT DEF TypeOK, File
    <3> QED BY <2>1, <3>1, <3>2, Zenon DEF Anchored, Has
  <2>3. ASSUME NEW q \in Movers, NEW f \in toRemove[q] PROVE Anchored(f.msg, target[q][f.msg])'
    <3>1. target[q][f.msg] \in Folders
      BY <1>inv, HomeIsTarget, Zenon DEF OwnBatch
    <3>2. Has(f.msg, target[q][f.msg], disk)
      BY <1>inv, Zenon DEF FilesStand, CopyStands, Of, Has
    <3> QED BY <2>1, <3>1, <3>2, Zenon DEF Anchored, Has
  <2>4. KeepsRecord'
    BY <2>1, <1>inv, Zenon DEF Recorded, KeepsRecord
  <2> QED BY <2>1, <2>2, <2>3, <2>4, Zenon DEF Recorded
<1>11. ASSUME NEW d0 \in Folders, NewScan(d0) PROVE Recorded'
  <2>1. /\ d0 \in scan /\ scan' = scan \ {d0} /\ index' = index \cup {f \in disk : f.folder = d0}
        /\ gone' = gone \cup {f \in index : f.folder = d0 /\ f \notin disk}
        /\ UNCHANGED <<cli, disk, target, toRemove, pc>>
    BY <1>11 DEF NewScan, moving
  <2>2. ASSUME NEW m, NEW d, Anchored(m, d) PROVE Anchored(m, d)'
    <3>1. CASE d = d0
      <4>1. PICK g \in disk : g.msg = m /\ g.folder = d0
        BY <2>1, <2>2, <3>1, Zenon DEF Anchored, Has
      <4>2. g \in index' /\ g \notin gone' /\ d0 \notin scan'
        BY <2>1, <4>1, <1>inv, Zenon DEF GoneIsRead
      <4> QED BY <3>1, <4>1, <4>2, Zenon DEF Anchored, Has
    <3>2. CASE d # d0 /\ d \in scan
      BY <2>1, <2>2, <3>2, Zenon DEF Anchored
    <3>3. CASE d # d0 /\ d \notin scan
      <4>1. PICK g \in index \ gone : g.msg = m /\ g.folder = d
        BY <2>2, <3>3, Zenon DEF Anchored, Has
      <4>2. g \in index' \ gone' /\ d \notin scan'
        BY <2>1, <3>3, <4>1, Zenon
      <4> QED BY <4>1, <4>2, Zenon DEF Anchored, Has
    <3> QED BY <3>1, <3>2, <3>3
  <2>3. \A m \in Msgs : Of(m, index) # {} => Of(m, index') # {}
    BY <2>1, Zenon DEF Of
  <2> QED BY <1>inv, <2>1, <2>2, <2>3, RecordKept, Zenon
<1>12. CASE NewEnd
  <2>1. scan = {} /\ index' = index \ gone /\ gone' = {} /\ UNCHANGED <<cli, disk, scan, target, toRemove, pc>>
    BY <1>12 DEF NewEnd, moving
  <2>2. \A m, d : Anchored(m, d) => Anchored(m, d)'
    BY <2>1, Zenon DEF Anchored, Has
  <2>3. CASE cli
    BY <2>1, <2>3 DEF Recorded
  <2>4. ASSUME ~cli, NEW m \in Msgs PROVE Of(m, index') # {}
    <3>1. PICK d \in Folders : Anchored(m, d)
      BY <2>4, <1>inv, Zenon DEF Recorded
    <3> QED BY <2>1, <3>1, Zenon DEF Anchored, Has, Of
  <2>5. CASE ~cli
    BY <2>1, <2>2, <2>4, <2>5, <1>inv, RecordKept, Zenon
  <2> QED BY <2>3, <2>5
<1>13. ASSUME NEW m \in Msgs, TagWrite(m) PROVE Recorded'
  <2>1. NoScan /\ UNCHANGED <<cli, scan, gone, target, toRemove, pc>>
    BY <1>13 DEF TagWrite, moving
  <2>2. /\ \A k, d : Has(k, d, disk) => Has(k, d, disk')
        /\ \A k, d : Has(k, d, index) => Has(k, d, index')
    BY <1>13, <1>inv, TagWriteRenames, Zenon DEF Renamed
  <2>3. index \ gone = index /\ index' \ gone = index'
    BY <2>1, Zenon DEF NoScan
  <2>4. \A k, d : Anchored(k, d) => Anchored(k, d)'
    BY <2>1, <2>2, <2>3, AnchorKept, Zenon
  <2>5. ASSUME NEW k \in Msgs, Of(k, index) # {} PROVE Of(k, index') # {}
    <3>1. PICK g \in index : g.msg = k
      BY <2>5, Zenon DEF Of
    <3>2. Has(k, g.folder, index)
      BY <3>1, Zenon DEF Has
    <3>3. Has(k, g.folder, index')
      BY <2>2, <3>2, Zenon
    <3> QED BY <3>3, Zenon DEF Has, Of
  <2> QED BY <1>inv, <2>1, <2>4, <2>5, RecordKept, Zenon
<1>14. ASSUME NEW f \in File, NEW g \in File, SyncRename(f, g) PROVE Recorded'
  <2>1. UNCHANGED <<cli, index, scan, gone, target, toRemove, pc>>
    BY <1>14 DEF SyncRename, moving
  <2>2. \A k, d : Has(k, d, disk) => Has(k, d, disk')
    BY <1>14, <1>inv, SyncRenames, Zenon DEF Renamed
  <2> QED BY <1>inv, <2>1, <2>2, RecordSame, Zenon
<1>15. ASSUME UNCHANGED vars PROVE Recorded'
  <2>1. UNCHANGED <<cli, disk, index, scan, gone, target, toRemove, pc>>
    BY <1>15 DEF vars, moving
  <2> QED BY <1>inv, <2>1, RecordSame, Zenon
<1>16. ASSUME NEW p \in Movers, Ends(p) PROVE Recorded'
  BY <1>16, <1>4, <1>5, <1>8, Zenon
     DEF Ends, GiveUp, CopyFails, DeleteFails, Finish, Crash, Copied
<1> QED
  BY <1>1, <1>2, <1>3, <1>6, <1>7, <1>9, <1>10, <1>11, <1>12, <1>13, <1>14, <1>15, <1>16, Zenon
     DEF Next, Step, Notmuch, Others, Ends

-----------------------------------------------------------------------------
(* The strengthened invariant of the mover holds in every state.           *)
THEOREM Invariant == Spec => []IInv
<1>1. Init => IInv
  BY InitTypeOK, InitPlain, InitFiles, InitRecord DEF IInv
<1>2. IInv /\ [Next]_vars => IInv'
  BY TypeStep, PlainStep, FilesStep, RecordStep DEF IInv
<1> QED
  BY <1>1, <1>2, PTL DEF Spec

(* No message loses its last file, for every number of movers and of       *)
(* failures, deaths and renames between the steps of their batches.        *)
THEOREM SpecNoLoss == Spec => []NoLoss
<1>1. IInv => NoLoss
  BY DEF IInv, FilesStand
<1> QED
  BY Invariant, <1>1, PTL

(* A source is only ever due for removal while its message has a file at   *)
(* home.                                                                   *)
THEOREM SpecCopyStands == Spec => []CopyStands
<1>1. IInv => CopyStands
  BY DEF IInv, FilesStand
<1> QED
  BY Invariant, <1>1, PTL

(* With path operations the database has a path of every message at every  *)
(* moment, whatever a scan of notmuch new reads before and after the steps *)
(* of a batch.                                                             *)
THEOREM SpecKeepsRecord == Spec => []KeepsRecord
<1>1. IInv => KeepsRecord
  BY Zenon DEF IInv, Recorded, KeepsRecord
<1> QED
  BY Invariant, <1>1, PTL

-----------------------------------------------------------------------------
(* No new copies.                                                          *)

Undisturbed == faults = 0 /\ renames = 0

(* The sources that are still to be removed; only the lock's holder has any. *)
Held == IF lock = Nobody THEN {} ELSE toRemove[lock]

(* What a batch has copied and has yet to remove is there, both files of it. *)
Present ==
  \A p \in Movers : /\ toRemove[p] \subseteq disk /\ toRemove[p] \cap todo[p] = {}
                    /\ pc[p] \in {"copy", "add"} => toAdd[p] \subseteq disk
                    /\ pc[p] \notin Working => toAdd[p] = {}

(* A message has its first files, and one more for each source still there.  *)
Count(m) == Cardinality(Of(m, disk)) = Cardinality(Of(m, first)) + Cardinality(Of(m, Held))
Even == Undisturbed => Present /\ \A m \in Msgs : Count(m)

\* A message can have finitely many files: a folder, a flag and a mark each.
LEMMA FilesFinite ==
  ASSUME NEW m, NEW files \in SUBSET File
  PROVE  IsFiniteSet(Of(m, files)) /\ Cardinality(Of(m, files)) \in Nat
<1> DEFINE S == Of(m, files)
           T == Folders \X (BOOLEAN \X BOOLEAN)
           inj == [f \in S |-> <<f.folder, <<f.seen, f.uid>>>>]
<1>1. IsFiniteSet(BOOLEAN)
  <2>1. IsFiniteSet({FALSE} \cup {TRUE})
    BY FS_EmptySet, FS_Singleton, FS_AddElement
  <2>2. BOOLEAN = {FALSE} \cup {TRUE}
    OBVIOUS
  <2> QED BY <2>1, <2>2
<1>2. IsFiniteSet(T)
  BY <1>1, FS_Product, MoverAssumption
<1>3. \A f \in S : f.msg = m /\ f.folder \in Folders /\ f.seen \in BOOLEAN /\ f.uid \in BOOLEAN
  BY DEF Of, File
<1>4. \A f, g \in S : f.folder = g.folder /\ f.seen = g.seen /\ f.uid = g.uid => f = g
  <2> SUFFICES ASSUME NEW f \in File, NEW g \in File, f.msg = g.msg, f.folder = g.folder,
                      f.seen = g.seen, f.uid = g.uid
               PROVE  f = g
    BY <1>3 DEF Of
  <2> QED BY SMT DEF File
<1>5. inj \in [S -> T]
  BY <1>3
<1>6. \A f, g \in S : inj[f] = inj[g] => f = g
  BY <1>4
<1>7. inj \in Injection(S, T)
  BY <1>5, <1>6, Zenon DEF Injection, IsInjective
<1>8. IsFiniteSet(S)
  BY <1>2, <1>7, FS_Injection
<1> QED
  BY <1>8, FS_CardinalityType

\* One file more, one file less.
LEMMA OneMore ==
  ASSUME NEW m, NEW files \in SUBSET File, NEW f \in File, f \notin files
  PROVE  Cardinality(Of(m, files \cup {f})) =
           Cardinality(Of(m, files)) + (IF f.msg = m THEN 1 ELSE 0)
<1>1. IsFiniteSet(Of(m, files)) /\ Cardinality(Of(m, files)) \in Nat
  BY FilesFinite
<1>2. CASE f.msg = m
  <2>1. Of(m, files \cup {f}) = Of(m, files) \cup {f} /\ f \notin Of(m, files)
    BY <1>2 DEF Of
  <2> QED BY <1>1, <1>2, <2>1, FS_AddElement
<1>3. CASE f.msg # m
  <2>1. Of(m, files \cup {f}) = Of(m, files)
    BY <1>3 DEF Of
  <2> QED BY <1>1, <1>3, <2>1
<1> QED BY <1>2, <1>3

LEMMA OneLess ==
  ASSUME NEW m, NEW files \in SUBSET File, NEW f \in File, f \in files
  PROVE  Cardinality(Of(m, files)) =
           Cardinality(Of(m, files \ {f})) + (IF f.msg = m THEN 1 ELSE 0)
<1>1. (files \ {f}) \cup {f} = files /\ files \ {f} \in SUBSET File /\ f \notin files \ {f}
  OBVIOUS
<1> QED BY <1>1, OneMore

LEMMA InitEven == Init => Even
<1> SUFFICES ASSUME Init PROVE Even
  OBVIOUS
<1>1. /\ disk = first /\ disk \in SUBSET File /\ Held = {}
      /\ \A p \in Movers : toRemove[p] = {} /\ todo[p] = {} /\ toAdd[p] = {}
  BY DEF Init, Held
<1>2. \A m \in Msgs : Of(m, Held) = {} /\ Cardinality(Of(m, disk)) \in Nat
  BY <1>1, FilesFinite DEF Of
<1>3. Cardinality({}) = 0
  BY FS_EmptySet
<1>4. \A m \in Msgs : Count(m)
  BY <1>1, <1>2, <1>3, SMT DEF Count
<1> QED BY <1>1, <1>4 DEF Even, Present

\* Nothing is copied or removed, and nobody lets go of a source.
LEMMA CountSame ==
  ASSUME \A m \in Msgs : Count(m), UNCHANGED <<disk, first>>, Held' = Held
  PROVE  (\A m \in Msgs : Count(m))'
<1>1. \A m \in Msgs : Of(m, disk') = Of(m, disk) /\ Of(m, first') = Of(m, first) /\ Of(m, Held') = Of(m, Held)
  OBVIOUS
<1> QED BY <1>1 DEF Count, Of

LEMMA EvenStep == IInv /\ Even /\ [Next]_vars => Even'
<1> SUFFICES ASSUME IInv, Even, [Next]_vars, Undisturbed'
             PROVE  Present' /\ (\A m \in Msgs : Count(m))'
  BY DEF Even
<1> DEFINE Counted == \A m \in Msgs : Count(m)
           Goal == Present' /\ Counted'
<1>0. /\ TypeOK /\ Locked /\ CopiesDue /\ OwnBatch /\ faults \in Nat /\ renames \in Nat
      /\ faults' = 0 /\ renames' = 0 /\ Nobody \notin Movers
  BY MoverAssumption DEF IInv, TypeOK, Undisturbed
<1>u. ASSUME faults' \in {faults, faults + 1}, renames' \in {renames, renames + 1}
      PROVE  faults = 0 /\ renames = 0 /\ Present /\ Counted
  BY <1>0, <1>u DEF Even, Undisturbed
<1>t. /\ toRemove \in [Movers -> SUBSET File] /\ todo \in [Movers -> SUBSET File]
      /\ toAdd \in [Movers -> SUBSET File] /\ disk \in SUBSET File /\ first \in SUBSET File
      /\ pc \in [Movers -> PCs]
  BY <1>0 DEF TypeOK
<1>1. ASSUME NEW p \in Movers, NEW batch \in Batches, Take(p, batch) PROVE Goal
  <2>1. Present /\ Counted /\ UNCHANGED <<disk, first, lock, toRemove, todo, toAdd>>
    BY <1>1, <1>u DEF Take
  <2>2. Present'
    BY <1>1, <1>t, <2>1 DEF Present, Take, Working
  <2>3. Held' = Held
    BY <2>1 DEF Held
  <2> QED BY <2>1, <2>2, <2>3, CountSame
<1>2. ASSUME NEW p \in Movers, LockLive(p) PROVE Goal
  <2>1. /\ Present /\ Counted /\ UNCHANGED <<disk, first, toRemove, toAdd>>
        /\ lock = Nobody /\ lock' = p /\ toRemove[p] = {} /\ pc[p] = "wait"
    BY <1>0, <1>2, <1>u DEF LockLive, Locked, Working
  <2>2. toAdd[p] = {}
    BY <2>1 DEF Present, Working
  <2>3. Present'
    BY <1>2, <1>t, <2>1, <2>2 DEF Present, LockLive, Working
  <2>4. Held' = Held
    BY <1>0, <2>1 DEF Held
  <2> QED BY <2>1, <2>3, <2>4, CountSame
\* a batch that ends undisturbed has removed its sources, or made no copy
<1>3. ASSUME NEW p \in Movers, Ends(p) PROVE Goal
  <2>1. Return(p) /\ UNCHANGED <<disk, first>>
    BY <1>3, EndsReturns
  <2>2. ~(\/ CopyFails(p) \/ RemovePathsFails(p) \/ DeleteFails(p) \/ Crash(p))
    BY <1>0 DEF CopyFails, RemovePathsFails, DeleteFails, Crash
  <2>3. renames' = renames /\ faults' \in {faults, faults + 1}
    BY <1>3 DEF Ends, GiveUp, CopyFails, AddPathsFails, RemovePathsFails, DeleteFails, Finish, Crash, Copied
  <2>4. faults = 0 /\ renames = 0 /\ Present /\ Counted
    BY <1>u, <2>3
  <2>5. ~AddPathsFails(p)
    BY <1>0, <2>4 DEF AddPathsFails, Present
  <2>6. toRemove[p] = {}
    <3>1. CASE GiveUp(p)
      BY <1>0, <3>1 DEF GiveUp, Locked, Working
    <3>2. CASE Finish(p)
      BY <3>2 DEF Finish
    <3>3. CASE Copied(p) /\ toAdd[p] = {}
      BY <1>0, <3>3 DEF Copied, CopiesDue, Has
    <3> QED BY <1>3, <2>2, <2>5, <3>1, <3>2, <3>3 DEF Ends
  <2>7. toRemove' = toRemove
    BY <1>t, <2>1, <2>6 DEF Return
  <2>8. Present'
    BY <1>t, <2>1, <2>4, <2>7 DEF Present, Return, Working
  <2>9. Held' = Held
    BY <2>1, <2>6, <2>7, <1>0 DEF Held, Return
  <2> QED BY <2>1, <2>4, <2>8, <2>9, CountSame
<1>4. ASSUME NEW p \in Movers, NEW f \in File, Skip(p, f) PROVE Goal
  <2>1. Present /\ Counted /\ UNCHANGED <<disk, first, lock, toRemove, toAdd, pc>>
    BY <1>4, <1>u DEF Skip
  <2>2. Present'
    BY <1>4, <1>t, <2>1 DEF Present, Skip
  <2>3. Held' = Held
    BY <2>1 DEF Held
  <2> QED BY <2>1, <2>2, <2>3, CountSame
\* a copy is one file more and one source more to remove
<1>5. ASSUME NEW p \in Movers, NEW f \in File, Copy(p, f) PROVE Goal
  <2> DEFINE d == Dest(p, f)
  <2>1. /\ Present /\ Counted /\ UNCHANGED <<first, lock, pc>> /\ pc[p] = "copy" /\ lock = p
        /\ f \in todo[p] /\ f \in disk /\ d \notin disk /\ disk' = disk \cup {d}
        /\ todo' = [todo EXCEPT ![p] = @ \ {f}]
        /\ toAdd' = [toAdd EXCEPT ![p] = @ \cup {d}]
        /\ toRemove' = [toRemove EXCEPT ![p] = @ \cup {f}]
    BY <1>0, <1>5, <1>u DEF Copy, Skipped, Locked, Working
  <2>2. d \in File /\ d.msg = f.msg
    <3>1. f.msg \in DOMAIN target[p]
      BY <1>0, <2>1 DEF OwnBatch
    <3> QED BY <1>0, <3>1, DestIsHome
  <2> HIDE DEF d
  <2>3. Present'
    BY <1>t, <2>1 DEF Present, Working
  <2>4. Held = toRemove[p] /\ Held' = Held \cup {f} /\ f \notin Held /\ Held \in SUBSET File
    BY <1>0, <1>t, <2>1 DEF Held, Present
  <2>5. ASSUME NEW m \in Msgs PROVE Count(m)'
    <3>1. /\ Cardinality(Of(m, disk')) = Cardinality(Of(m, disk)) + (IF d.msg = m THEN 1 ELSE 0)
          /\ Cardinality(Of(m, Held \cup {f})) = Cardinality(Of(m, Held)) + (IF f.msg = m THEN 1 ELSE 0)
      BY <1>t, <2>1, <2>2, <2>4, OneMore
    <3>2. /\ Cardinality(Of(m, disk)) \in Nat /\ Cardinality(Of(m, Held)) \in Nat
          /\ Cardinality(Of(m, first)) \in Nat
      BY <1>t, <2>4, FilesFinite
    <3>3. Cardinality(Of(m, disk)) = Cardinality(Of(m, first)) + Cardinality(Of(m, Held))
      BY <2>1 DEF Count
    <3>4. Cardinality(Of(m, disk')) = Cardinality(Of(m, first)) + Cardinality(Of(m, Held \cup {f}))
      BY <2>2, <3>1, <3>2, <3>3
    <3>5. Cardinality(Of(m, disk')) = Cardinality(Of(m, first')) + Cardinality(Of(m, Held'))
      BY <2>1, <2>4, <3>4
    <3> QED BY <3>5 DEF Count, Of
  <2> QED BY <2>3, <2>5
\* a removal is one file less and one source less
<1>6. ASSUME NEW p \in Movers, NEW f \in File, Delete(p, f) PROVE Goal
  <2>1. /\ Present /\ Counted /\ UNCHANGED <<first, lock, pc, todo, toAdd>> /\ pc[p] = "delete" /\ lock = p
        /\ f \in toRemove[p] /\ f \in disk /\ disk' = disk \ {f}
        /\ toRemove' = [toRemove EXCEPT ![p] = @ \ {f}]
    BY <1>0, <1>6, <1>u DEF Delete, Present, Locked, Working
  <2>2. \A q \in Movers \ {p} : pc[q] \notin Working /\ toRemove[q] = {}
    BY <1>0, <2>1 DEF Locked
  <2>3. Present'
    BY <1>t, <2>1, <2>2 DEF Present, Working
  <2>4. Held = toRemove[p] /\ Held' = Held \ {f} /\ f \in Held /\ Held \in SUBSET File
    BY <1>0, <1>t, <2>1 DEF Held
  <2>5. ASSUME NEW m \in Msgs PROVE Count(m)'
    <3>1. /\ Cardinality(Of(m, disk)) = Cardinality(Of(m, disk \ {f})) + (IF f.msg = m THEN 1 ELSE 0)
          /\ Cardinality(Of(m, Held)) = Cardinality(Of(m, Held \ {f})) + (IF f.msg = m THEN 1 ELSE 0)
      BY <1>t, <2>1, <2>4, OneLess
    <3>2. /\ Cardinality(Of(m, disk \ {f})) \in Nat /\ Cardinality(Of(m, Held \ {f})) \in Nat
          /\ Cardinality(Of(m, first)) \in Nat
      BY <1>t, <2>4, FilesFinite
    <3>3. Cardinality(Of(m, disk)) = Cardinality(Of(m, first)) + Cardinality(Of(m, Held))
      BY <2>1 DEF Count
    <3>4. Cardinality(Of(m, disk \ {f})) = Cardinality(Of(m, first)) + Cardinality(Of(m, Held \ {f}))
      BY <3>1, <3>2, <3>3
    <3>5. Cardinality(Of(m, disk')) = Cardinality(Of(m, first')) + Cardinality(Of(m, Held'))
      BY <2>1, <2>4, <3>4
    <3> QED BY <3>5 DEF Count, Of
  <2> QED BY <2>3, <2>5
<1>7. ASSUME NEW p \in Movers, (Copied(p) /\ toAdd[p] # {}) \/ AddPaths(p) \/ RemovePaths(p) PROVE Goal
  <2>1. Present /\ Counted /\ UNCHANGED <<disk, first, lock, toRemove, todo, toAdd>>
    BY <1>7, <1>u DEF Copied, AddPaths, RemovePaths
  <2>2. /\ pc[p] \in Working /\ (pc[p] = "copy" \/ pc'[p] # "add") /\ pc'[p] \in Working \ {"copy"}
        /\ \A q \in Movers \ {p} : pc'[q] = pc[q]
    BY <1>7, <1>t DEF Copied, AddPaths, RemovePaths, Working
  <2>3. Present'
    BY <1>7, <1>t, <2>1 DEF Present, Copied, AddPaths, RemovePaths, Working
  <2>4. Held' = Held
    BY <2>1 DEF Held
  <2> QED BY <2>1, <2>3, <2>4, CountSame
<1>8. ASSUME Notmuch \/ UNCHANGED vars PROVE Goal
  <2>1. UNCHANGED <<disk, first, lock, moving, faults, renames>>
    BY <1>8, Zenon DEF Notmuch, NewBegin, NewScan, NewEnd, vars
  <2>2. Present /\ Counted /\ UNCHANGED <<disk, first, lock, toRemove, todo, toAdd, pc>>
    BY <1>u, <2>1 DEF moving
  <2>3. Present' /\ Held' = Held
    BY <2>2 DEF Present, Held
  <2> QED BY <2>2, <2>3, CountSame
<1>9. ASSUME (\E m \in Msgs : TagWrite(m)) \/ (\E f, g \in File : SyncRename(f, g)) PROVE Goal
  BY <1>0, <1>9 DEF TagWrite, SyncRename
<1> HIDE DEF Goal
<1>10. ASSUME NEW p \in Movers, Step(p) PROVE Goal
  <2>1. CASE Copied(p)
    BY <1>3, <1>7, <2>1, Zenon DEF Ends
  <2>2. CASE ~Copied(p)
    BY <1>1, <1>2, <1>3, <1>4, <1>5, <1>6, <1>7, <1>10, <2>2, Zenon DEF Step, Ends
  <2> QED BY <2>1, <2>2
<1>11. Goal
  BY <1>8, <1>9, <1>10, Zenon DEF Next, Others
<1> QED BY <1>11 DEF Goal

(* Nobody else's hand in it, a message has as many files when no batch is  *)
(* under way as it had at first: the lock keeps two clients from copying   *)
(* it twice, or to two homes.                                              *)
THEOREM SpecNoNewCopies == Spec => []NoNewCopies
<1>1. TypeOK /\ Locked /\ Even => NoNewCopies
  <2> SUFFICES ASSUME TypeOK, Locked, Even, Undisturbed, NEW m \in Msgs,
                      \A p \in Movers : pc[p] \in {"idle", "wait", "done"}
               PROVE  Cardinality(Of(m, disk)) = Cardinality(Of(m, first))
    BY DEF NoNewCopies, Undisturbed
  <2>1. Held = {} /\ Count(m)
    BY DEF Held, Even, Locked, Working, TypeOK
  <2>2. Of(m, Held) = {} /\ Cardinality({}) = 0
    BY <2>1, FS_EmptySet DEF Of
  <2>3. Cardinality(Of(m, first)) \in Nat
    BY FilesFinite DEF TypeOK
  <2> QED BY <2>1, <2>2, <2>3 DEF Count
<1>2. IInv => TypeOK /\ Locked
  BY DEF IInv
<1> QED BY <1>1, <1>2, InitEven, EvenStep, Invariant, PTL DEF Spec

=============================================================================
