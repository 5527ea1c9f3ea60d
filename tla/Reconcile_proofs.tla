--------------------------- MODULE Reconcile_proofs ---------------------------
(***************************************************************************)
(* Proofs about Reconcile, for every number of messages, homes and         *)
(* processes, and every bound of the model.                                *)
(***************************************************************************)
EXTENDS Reconcile, TLAPS

Places == Homes \cup {None}
Entries == [tags : SUBSET Homes, from : Homes, home : Homes]
Applies == [at : {"move", "tag"}, msg : Msgs, home : Homes, tags : SUBSET Homes, loc : Places]

DbTypes ==
  /\ rule \in [Msgs -> (Homes \ {Inbox}) \cup {None}]
  /\ rev \in Nat /\ lastmod \in [Msgs -> Nat]
  /\ tags \in [Msgs -> SUBSET Homes] /\ path \in [Msgs -> Places] /\ loc \in [Msgs -> Places]
FileTypes ==
  /\ floor \in Nat /\ (tmp = NoTmp \/ tmp \in Nat)
  /\ fd \in [Procs -> {"closed", "tmp", "floor", "gone"}]
Report(p) == /\ DOMAIN rep[p] \subseteq Msgs /\ todo[p] \subseteq DOMAIN rep[p]
             /\ \A m \in DOMAIN rep[p] : rep[p][m] \in Entries
PollTypes ==
  /\ pc \in [Procs -> PCs] /\ dry \in [Procs -> BOOLEAN]
  /\ low \in [Procs -> Nat] /\ cur \in [Procs -> Nat] /\ final \in [Procs -> Nat]
  /\ DOMAIN rep = Procs /\ DOMAIN todo = Procs
  /\ \A p \in Procs : Report(p)
RestTypes ==
  /\ user = NoUser \/ user \in Applies
  /\ met \in BOOLEAN /\ raced \in BOOLEAN /\ since \in Nat
  /\ changes \in Nat /\ faults \in Nat
Types == DbTypes /\ FileTypes /\ PollTypes /\ RestTypes

(* A process that has decided to write the floor.                          *)
Closing(p) == pc[p] \in {"final", "open", "write", "compare", "rename"}

(* Every revision that is kept is one the database has had.                *)
Past ==
  /\ floor <= rev /\ (tmp # NoTmp => tmp <= rev) /\ since <= rev
  /\ \A p \in Procs : final[p] <= rev /\ low[p] <= rev /\ cur[p] <= rev
  /\ \A m \in Msgs : lastmod[m] <= rev /\ (m \in Indexed => lastmod[m] > 0)

(* As long as no two classifications met, there is at most one.             *)
Alone == ~met => \A p, q \in Procs : Classifying(p) /\ Classifying(q) => p = q

Wet == \A p \in Procs : /\ pc[p] = "tag" \/ Closing(p) => ~dry[p]
                        /\ pc[p] = "dry" => dry[p]

(* What a report says of a message that nothing else has touched.           *)
True(p, m) ==
  /\ m \in Indexed /\ path[m] = rep[p][m].from
  /\ rep[p][m].home \in {rep[p][m].from, rule[m]} \ {None}
  /\ tags[m] \in {rep[p][m].tags, {rep[p][m].home}}
  /\ m \notin todo[p] => tags[m] = {rep[p][m].home}
Reports ==
  \A p \in Procs : \A m \in Msgs :
    pc[p] = "tag" /\ m \in DOMAIN rep[p] /\ ~raced /\ (rule[m] = None \/ ~met) => True(p, m)

(* A message is as it should be, or excused; what is owed to it, by p.      *)
Excused(m) == raced \/ lastmod[m] <= since \/ (rule[m] # None /\ met)
Sure(m) == m \notin Indexed \/ ~Due(m) \/ Excused(m)
Owed(p) == todo[p] \cup Wanted(p)
Clear(r) == \A m \in Msgs : lastmod[m] <= r => Sure(m)

(* Below the floor, and below everything that may become the floor, every   *)
(* message is as it should be; while p classifies, so is every message out  *)
(* of its bracket.                                                         *)
Bracket(p) ==
  ~dry[p] =>
    /\ pc[p] = "rev" => Clear(low[p])
    /\ pc[p] = "delta" => \A m \in Msgs : Sure(m) \/ (low[p] < lastmod[m] /\ lastmod[m] <= cur[p])
    /\ pc[p] = "tag" => \A m \in Msgs : Sure(m) \/ m \in Owed(p)
    /\ Closing(p) => \A m \in Msgs : Sure(m)
Floors == Clear(floor) /\ (tmp # NoTmp => Clear(tmp))

IInv == Types /\ Past /\ Alone /\ Wet /\ Reports /\ Floors /\ \A p \in Procs : Bracket(p)

-----------------------------------------------------------------------------
(* What a step does to a message, and to what is kept of the past.          *)

Same(m) == path'[m] = path[m] /\ tags'[m] = tags[m] /\ lastmod'[m] = lastmod[m]
Grows == rule' = rule /\ (met => met') /\ (raced => raced') /\ since <= since' /\ rev <= rev'
Cause(m) == \/ (\E p \in Procs : Classifying(p)) => raced'
            \/ \E p \in Procs : Tag(p, m) \/ (Move(p) /\ m \in Batch(p))
Touched(m) == rev' = rev + 1 /\ lastmod'[m] = rev + 1 /\ Cause(m)
DbStep == Grows /\ \A m \in Msgs : Same(m) \/ Touched(m)

LEMMA Unmoved ==
  ASSUME UNCHANGED db, UNCHANGED <<rule, history>>, Types
  PROVE  DbStep
  BY SMT DEF Types, DbTypes, RestTypes, DbStep, Grows, Same, db, history

LEMMA MovedIs ==
  ASSUME Types, NEW batch \in SUBSET Msgs, NEW home, Moved(batch, home),
         \A m \in batch : m \in DOMAIN home /\ home[m] \in Places
  PROVE  /\ loc' \in [Msgs -> Places] /\ path' \in [Msgs -> Places]
         /\ lastmod' \in [Msgs -> Nat] /\ rev' \in Nat /\ rev <= rev'
         /\ \A m \in Msgs : \/ path'[m] = path[m] /\ lastmod'[m] = lastmod[m] /\ (m \notin batch \/ loc[m] = home[m])
                            \/ /\ m \in batch /\ path'[m] = home[m] /\ lastmod'[m] = rev + 1
                               /\ rev' = rev + 1
<1> DEFINE here == {m \in DOMAIN home : m \in batch /\ loc[m] # home[m]}
<1>1. /\ loc' = [m \in Msgs |-> IF m \in here THEN home[m] ELSE loc[m]]
      /\ path' = [m \in Msgs |-> IF m \in here THEN home[m] ELSE path[m]]
      /\ rev' = IF here = {} THEN rev ELSE rev + 1
      /\ lastmod' = [m \in Msgs |-> IF m \in here THEN rev + 1 ELSE lastmod[m]]
  BY DEF Moved
<1>2. \A m \in here : m \in batch /\ home[m] \in Places
  OBVIOUS
<1>3. \A m \in batch \ here : loc[m] = home[m]
  OBVIOUS
<1> HIDE DEF here
<1> QED
  BY <1>1, <1>2, <1>3, SMT DEF Types, DbTypes

LEMMA WrittenIs ==
  ASSUME NEW h, NEW S, NEW T, T = S \/ T = {h}
  PROVE  Written(T, S, h) = {h}
  BY Zenon DEF Written

(* The report of p, as long as it holds, and what it lets p do.             *)
Trusted(m) == ~raced /\ (rule[m] = None \/ ~met)

LEMMA TagIs ==
  ASSUME IInv, NEW p \in Procs, NEW m \in Msgs, Tag(p, m)
  PROVE  /\ Classifying(p) /\ m \in DOMAIN rep[p]
         /\ path'[m] = path[m] /\ \A n \in Msgs \ {m} : Same(n)
         /\ Same(m) \/ (rev' = rev + 1 /\ lastmod'[m] = rev + 1)
         /\ Trusted(m) => True(p, m) /\ tags'[m] = {rep[p][m].home}
<1>1. pc[p] = "tag" /\ m \in todo[p] /\ m \in DOMAIN rep[p] /\ ~dry[p]
  BY DEF Tag, IInv, Types, PollTypes, Report, Wet
<1>2. Classifying(p)
  BY <1>1 DEF Classifying
<1>3. /\ tags' = [tags EXCEPT ![m] = Written(@, rep[p][m].tags, rep[p][m].home)]
      /\ path' = path
      /\ IF tags' = tags THEN UNCHANGED <<rev, lastmod>>
         ELSE rev' = rev + 1 /\ lastmod' = [lastmod EXCEPT ![m] = rev + 1]
  BY DEF Tag
<1>4. tags \in [Msgs -> SUBSET Homes] /\ lastmod \in [Msgs -> Nat]
  BY DEF IInv, Types, DbTypes
<1>5. tags'[m] = Written(tags[m], rep[p][m].tags, rep[p][m].home) /\ \A n \in Msgs \ {m} : tags'[n] = tags[n]
  BY <1>3, <1>4
<1>6. ASSUME tags' = tags PROVE \A n \in Msgs : Same(n)
  BY <1>3, <1>6 DEF Same
<1>7. ASSUME tags' # tags
      PROVE  (\A n \in Msgs \ {m} : Same(n)) /\ rev' = rev + 1 /\ lastmod'[m] = rev + 1
  BY <1>3, <1>4, <1>5, <1>7, SMT DEF Same
<1>8. Trusted(m) => True(p, m)
  BY <1>1 DEF Trusted, IInv, Reports
<1>9. True(p, m) => tags'[m] = {rep[p][m].home}
  BY <1>5, WrittenIs DEF True
<1>10. (\A n \in Msgs \ {m} : Same(n)) /\ (Same(m) \/ (rev' = rev + 1 /\ lastmod'[m] = rev + 1))
  BY <1>6, <1>7
<1> QED
  BY <1>1, <1>2, <1>3, <1>8, <1>9, <1>10

LEMMA WantedIs ==
  ASSUME IInv, NEW p \in Procs, pc[p] = "tag", NEW m \in Wanted(p), Trusted(m)
  PROVE  rule[m] # None /\ True(p, m)
<1>1. True(p, m)
  BY DEF IInv, Reports, Trusted, Wanted, Types, PollTypes, Report
<1> QED
  BY <1>1 DEF True, Wanted

LEMMA MoveIs ==
  ASSUME IInv, NEW p \in Procs, Move(p)
  PROVE  /\ Classifying(p) /\ tags' = tags
         /\ loc' \in [Msgs -> Places] /\ path' \in [Msgs -> Places]
         /\ lastmod' \in [Msgs -> Nat] /\ rev' \in Nat /\ rev <= rev'
         /\ \A m \in Msgs : \/ Same(m) /\ m \notin Batch(p)
                            \/ /\ m \in Batch(p) /\ path'[m] = rep[p][m].home
                               /\ lastmod'[m] = rev + 1 /\ rev' = rev + 1
<1>1. pc[p] = "tag" /\ todo[p] = {} /\ ~dry[p] /\ tags' = tags
  BY DEF Move, IInv, Wet
<1>2. /\ Batch(p) \in SUBSET Msgs /\ \A m \in Batch(p) : m \in DOMAIN rep[p] /\ rep[p][m].home \in Places
      /\ \A m \in Batch(p) : loc[m] # rep[p][m].home
  BY SMT DEF Batch, Wanted, IInv, Types, PollTypes, Report, Entries, Places
<1> DEFINE home == [m \in DOMAIN rep[p] |-> rep[p][m].home]
<1>3. \A m \in Batch(p) : m \in DOMAIN home /\ home[m] = rep[p][m].home
  BY <1>2
<1>4. Moved(Batch(p), home)
  BY DEF Move
<1> HIDE DEF home
<1>5. /\ loc' \in [Msgs -> Places] /\ path' \in [Msgs -> Places]
      /\ lastmod' \in [Msgs -> Nat] /\ rev' \in Nat /\ rev <= rev'
      /\ \A m \in Msgs : \/ path'[m] = path[m] /\ lastmod'[m] = lastmod[m] /\ (m \notin Batch(p) \/ loc[m] = home[m])
                         \/ /\ m \in Batch(p) /\ path'[m] = home[m] /\ lastmod'[m] = rev + 1
                            /\ rev' = rev + 1
  <2>1. Types /\ \A m \in Batch(p) : m \in DOMAIN home /\ home[m] \in Places
    BY <1>2, <1>3 DEF IInv
  <2>2. Batch(p) \in SUBSET Msgs
    BY <1>2
  <2> HIDE DEF Types
  <2> QED
    BY <1>4, <2>1, <2>2, MovedIs
<1> QED
  BY <1>1, <1>2, <1>3, <1>5, Zenon DEF Same, Classifying

(* What a poll changes of its own state: only p's.                          *)
Others(p) == \A q \in Procs \ {p} :
  /\ pc'[q] = pc[q] /\ dry'[q] = dry[q] /\ low'[q] = low[q] /\ cur'[q] = cur[q]
  /\ rep'[q] = rep[q] /\ todo'[q] = todo[q] /\ final'[q] = final[q]

LEMMA IdleIs ==
  ASSUME PollTypes, NEW p \in Procs, Idle(p)
  PROVE  PollTypes' /\ Others(p) /\ pc'[p] = "idle" /\ low'[p] = 0 /\ cur'[p] = 0 /\ final'[p] = 0
<1>1. /\ pc' = [pc EXCEPT ![p] = "idle"] /\ dry' = [dry EXCEPT ![p] = FALSE]
      /\ low' = [low EXCEPT ![p] = 0] /\ cur' = [cur EXCEPT ![p] = 0]
      /\ rep' = [rep EXCEPT ![p] = NoReport] /\ todo' = [todo EXCEPT ![p] = {}]
      /\ final' = [final EXCEPT ![p] = 0]
  BY DEF Idle, Goto
<1>2. "idle" \in PCs
  BY DEF PCs
<1>3. /\ pc' \in [Procs -> PCs] /\ dry' \in [Procs -> BOOLEAN] /\ low' \in [Procs -> Nat]
      /\ cur' \in [Procs -> Nat] /\ final' \in [Procs -> Nat]
      /\ DOMAIN rep' = Procs /\ DOMAIN todo' = Procs
  BY <1>1, <1>2, SMT DEF PollTypes
<1>4. Others(p) /\ pc'[p] = "idle" /\ low'[p] = 0 /\ cur'[p] = 0 /\ final'[p] = 0
  BY <1>1, SMT DEF PollTypes, Others
<1>5. rep'[p] = NoReport /\ todo'[p] = {} /\ DOMAIN NoReport = {}
  BY <1>1 DEF PollTypes, NoReport
<1>6. \A q \in Procs : Report(q)'
  BY <1>4, <1>5, Zenon DEF PollTypes, Report, Others
<1> QED
  BY <1>3, <1>4, <1>6 DEF PollTypes

LEMMA GotoIs ==
  ASSUME PollTypes, NEW p \in Procs, NEW next \in PCs, Goto(p, next), UNCHANGED <<rep, todo>>,
         dry' = dry \/ \E d \in BOOLEAN : dry' = [dry EXCEPT ![p] = d],
         low' = low \/ \E l \in Nat : low' = [low EXCEPT ![p] = l],
         cur' = cur \/ \E c \in Nat : cur' = [cur EXCEPT ![p] = c],
         final' = final \/ \E f \in Nat : final' = [final EXCEPT ![p] = f]
  PROVE  PollTypes' /\ Others(p)
<1>1. pc' \in [Procs -> PCs] /\ DOMAIN rep' = Procs /\ DOMAIN todo' = Procs
  BY SMT DEF PollTypes, Goto
<1>2. dry' \in [Procs -> BOOLEAN] /\ \A q \in Procs \ {p} : dry'[q] = dry[q]
  BY SMT DEF PollTypes
<1>3. low' \in [Procs -> Nat] /\ \A q \in Procs \ {p} : low'[q] = low[q]
  BY SMT DEF PollTypes
<1>4. cur' \in [Procs -> Nat] /\ \A q \in Procs \ {p} : cur'[q] = cur[q]
  BY SMT DEF PollTypes
<1>5. final' \in [Procs -> Nat] /\ \A q \in Procs \ {p} : final'[q] = final[q]
  BY SMT DEF PollTypes
<1>6. \A q \in Procs : Report(q)'
  BY Zenon DEF PollTypes, Report
<1>7. \A q \in Procs \ {p} : pc'[q] = pc[q] /\ rep'[q] = rep[q] /\ todo'[q] = todo[q]
  BY SMT DEF PollTypes, Goto
<1> QED
  BY <1>1, <1>2, <1>3, <1>4, <1>5, <1>6, <1>7 DEF PollTypes, Others

-----------------------------------------------------------------------------
(* Types.                                                                  *)

LEMMA WorldTypes ==
  ASSUME Types,
         \/ \E m \in Msgs, h \in Homes : Deliver(m, h) \/ SyncMove(m, h) \/ ApplyStart(m, h)
         \/ ApplyMove \/ ApplyMoveFails \/ ApplyTag
  PROVE  Types'
<1> USE DEF db, files, poll, history
<1>1. ASSUME UNCHANGED poll PROVE PollTypes'
  BY <1>1, Zenon DEF Types, PollTypes, Report
<1>2. ASSUME NEW m \in Msgs, NEW h \in Homes, Deliver(m, h) \/ SyncMove(m, h) PROVE Types'
  <2>1. DbTypes' /\ FileTypes' /\ RestTypes'
    BY <1>2, SMT DEF Deliver, SyncMove, Types, DbTypes, FileTypes, RestTypes, Places
  <2> QED
    BY <1>1, <1>2, <2>1 DEF Types, Deliver, SyncMove
<1>3. ASSUME NEW m \in Msgs, NEW h \in Homes, ApplyStart(m, h) PROVE Types'
  <2>1. DbTypes' /\ FileTypes'
    BY <1>3, Zenon DEF ApplyStart, Types, DbTypes, FileTypes
  <2>2. user' = [at |-> "move", msg |-> m, home |-> h, tags |-> tags[m], loc |-> path[m]]
    BY <1>3 DEF ApplyStart
  <2>3. tags[m] \in SUBSET Homes /\ path[m] \in Places
    BY DEF Types, DbTypes
  <2>4. user' \in Applies
    BY <2>2, <2>3 DEF Applies
  <2>5. RestTypes'
    BY <1>3, <2>4, SMT DEF ApplyStart, Types, RestTypes
  <2> QED
    BY <1>1, <1>3, <2>1, <2>5 DEF Types, ApplyStart
<1>4. ASSUME user.at \in {"move", "tag"} PROVE user \in Applies
  BY <1>4, SMT DEF Types, RestTypes, NoUser
<1>5. ASSUME ApplyMove PROVE Types'
  <2>1. user \in Applies
    BY <1>4, <1>5 DEF ApplyMove
  <2>2. user' \in Applies
    BY <1>5, <2>1, SMT DEF ApplyMove, Applies
  <2> DEFINE m == user.msg
             batch == IF loc[m] = user.loc THEN {m} ELSE {}
             home == [x \in {m} |-> user.home]
  <2>3. batch \in SUBSET Msgs /\ \A x \in batch : x \in DOMAIN home /\ home[x] \in Places
    BY <2>1, SMT DEF Applies, Places
  <2>4. Moved(batch, home) /\ UNCHANGED <<rule, tags, files, poll, changes, faults>>
        /\ UNCHANGED <<met, since>> /\ raced' \in BOOLEAN
    BY <1>5 DEF ApplyMove, Changed
  <2> HIDE DEF batch, home
  <2>5. DbTypes'
    <3>1. /\ loc' \in [Msgs -> Places] /\ path' \in [Msgs -> Places]
          /\ lastmod' \in [Msgs -> Nat] /\ rev' \in Nat
      BY <2>3, <2>4, MovedIs
    <3> QED
      BY <2>4, <3>1, Zenon DEF Types, DbTypes
  <2> QED
    BY <1>1, <2>2, <2>4, <2>5, Zenon DEF Types, FileTypes, RestTypes
<1>6. ASSUME ApplyMoveFails PROVE Types'
  <2>1. RestTypes'
    BY <1>6, SMT DEF ApplyMoveFails, Types, RestTypes
  <2> QED
    BY <1>1, <1>6, <2>1, Zenon DEF ApplyMoveFails, Types, DbTypes, FileTypes
<1>7. ASSUME ApplyTag PROVE Types'
  <2>1. user \in Applies
    BY <1>4, <1>7 DEF ApplyTag
  <2>2. Written(tags[user.msg], user.tags, user.home) \in SUBSET Homes
    BY <2>1, SMT DEF Types, DbTypes, Applies, Written
  <2> DEFINE w == Written(tags[user.msg], user.tags, user.home)
  <2>5. tags' = [tags EXCEPT ![user.msg] = w]
    BY <1>7 DEF ApplyTag
  <2>6. w \in SUBSET Homes
    BY <2>2
  <2> HIDE DEF w
  <2>7. user.msg \in Msgs /\ UNCHANGED <<rule, path, loc>>
    BY <1>7, <2>1, SMT DEF Applies, ApplyTag
  <2>8. rev' = rev + 1 /\ lastmod' = [lastmod EXCEPT ![user.msg] = rev + 1]
    BY <1>7 DEF ApplyTag
  <2>3. DbTypes'
    BY <2>5, <2>6, <2>7, <2>8, SMT DEF Types, DbTypes
  <2>4. RestTypes'
    BY <1>7, SMT DEF ApplyTag, Changed, Types, RestTypes
  <2> QED
    BY <1>1, <1>7, <2>3, <2>4, Zenon DEF ApplyTag, Types, FileTypes
<1> QED
  BY <1>2, <1>3, <1>5, <1>6, <1>7

LEMMA PollTyped ==
  ASSUME IInv, NEW p \in Procs,
         \/ Poll(p) \/ Trouble(p) \/ \E isDry \in BOOLEAN : New(p, isDry)
  PROVE  Types' /\ Others(p)
<1> USE DEF db, files, history
<1> DEFINE Goal == Types' /\ Others(p)
<1>0. Types /\ PollTypes
  BY DEF IInv, Types
<1>a. PCs = {"idle", "floor", "rev", "delta", "tag", "dry", "final", "open", "write", "compare", "rename"}
  BY DEF PCs
<1>b. ASSUME UNCHANGED <<rule, db>> PROVE DbTypes'
  BY <1>0, <1>b DEF Types, DbTypes
<1>c. ASSUME UNCHANGED files PROVE FileTypes'
  BY <1>0, <1>c DEF Types, FileTypes
<1>d. ASSUME UNCHANGED user, met' \in BOOLEAN, raced' \in BOOLEAN, since' \in Nat, changes' \in Nat, faults' \in Nat
      PROVE  RestTypes'
  BY <1>0, <1>d DEF Types, RestTypes
<1>e. RestTypes
  BY <1>0 DEF Types
<1>1. ASSUME NEW isDry \in BOOLEAN, New(p, isDry) PROVE Goal
  <2>1. PollTypes' /\ Others(p)
    <3>1. rev \in Nat /\ "floor" \in PCs
      BY <1>0, <1>a DEF Types, DbTypes
    <3>2. Goto(p, "floor") /\ UNCHANGED <<rep, todo, cur, final>>
          /\ dry' = [dry EXCEPT ![p] = isDry] /\ low' = [low EXCEPT ![p] = rev]
      BY <1>1 DEF New
    <3> QED
      BY <1>0, <3>1, <3>2, GotoIs
  <2>2. DbTypes'
    <3>1. Inbox \in Homes
      BY ReconcileAssumption
    <3> QED
      BY <1>0, <1>1, <3>1, SMT DEF New, Types, DbTypes
  <2>3. RestTypes'
    BY <1>1, <1>d, <1>e, Zenon DEF New, Changed, RestTypes
  <2> QED
    BY <1>1, <1>c, <2>1, <2>2, <2>3, Zenon DEF New, Types
<1>2. ASSUME ReadFloor(p) PROVE Goal
  <2> DEFINE l == IF floor = NoFloor THEN low[p] ELSE floor
  <2>1. PollTypes' /\ Others(p)
    <3>1. l \in Nat /\ "rev" \in PCs
      BY <1>0, <1>a DEF Types, FileTypes, PollTypes
    <3>2. Goto(p, "rev") /\ UNCHANGED <<rep, todo, cur, final, dry>> /\ low' = [low EXCEPT ![p] = l]
      BY <1>2 DEF ReadFloor
    <3> QED
      BY <1>0, <3>1, <3>2, GotoIs
  <2>2. since' \in Nat
    BY <1>0, <1>2, <1>e DEF ReadFloor, RestTypes, PollTypes
  <2>3. RestTypes'
    BY <1>2, <1>d, <1>e, <2>2, Zenon DEF ReadFloor, RestTypes
  <2> QED
    BY <1>2, <1>b, <1>c, <2>1, <2>3, Zenon DEF ReadFloor, Types
<1>3. ASSUME ReadRevision(p) PROVE Goal
  <2>1. PollTypes' /\ Others(p)
    <3>1. rev \in Nat /\ "delta" \in PCs
      BY <1>0, <1>a DEF Types, DbTypes
    <3>2. \/ Idle(p)
          \/ Goto(p, "delta") /\ UNCHANGED <<rep, todo, low, final, dry>> /\ cur' = [cur EXCEPT ![p] = rev]
      BY <1>3, Zenon DEF ReadRevision
    <3>3. ASSUME Goto(p, "delta"), UNCHANGED <<rep, todo, low, final, dry>>, cur' = [cur EXCEPT ![p] = rev]
          PROVE PollTypes' /\ Others(p)
      BY <1>0, <3>1, <3>3, GotoIs
    <3> QED
      BY <1>0, <3>2, <3>3, IdleIs
  <2>2. RestTypes'
    BY <1>3, <1>d, <1>e, Zenon DEF ReadRevision, RestTypes
  <2> QED
    BY <1>3, <1>b, <1>c, <2>1, <2>2, Zenon DEF ReadRevision, Types
<1>4. ASSUME Snapshot(p) PROVE Goal
  <2>1. PollTypes' /\ Others(p)
    <3> DEFINE e == [m \in Delta(p) |-> [tags |-> tags[m], from |-> path[m], home |-> Winner(m)]]
    <3>1. Delta(p) \subseteq Msgs /\ \A m \in Delta(p) : e[m] \in Entries
      BY <1>0, SMT DEF Delta, Indexed, Entries, Winner, Types, DbTypes, Places
    <3>2. /\ rep' = [rep EXCEPT ![p] = e] /\ todo' = [todo EXCEPT ![p] = {m \in Delta(p) : tags[m] # {Winner(m)}}]
          /\ pc' = [pc EXCEPT ![p] = IF dry[p] THEN "dry" ELSE "tag"]
          /\ UNCHANGED <<dry, low, cur, final>>
      BY <1>4 DEF Snapshot, Goto
    <3>3. DOMAIN e = Delta(p)
      OBVIOUS
    <3> HIDE DEF e
    <3>4. /\ rep'[p] = e /\ todo'[p] \subseteq Delta(p) /\ DOMAIN rep' = Procs /\ DOMAIN todo' = Procs
          /\ \A q \in Procs \ {p} : rep'[q] = rep[q] /\ todo'[q] = todo[q]
      BY <1>0, <3>2 DEF PollTypes
    <3>5. \A q \in Procs : Report(q)'
      BY <1>0, <3>1, <3>3, <3>4, Zenon DEF PollTypes, Report
    <3>6. (IF dry[p] THEN "dry" ELSE "tag") \in PCs
      BY <1>a
    <3>7. pc' \in [Procs -> PCs] /\ \A q \in Procs \ {p} : pc'[q] = pc[q]
      BY <1>0, <3>2, <3>6 DEF PollTypes
    <3> QED
      BY <1>0, <3>2, <3>4, <3>5, <3>7, Zenon DEF PollTypes, Others
  <2> QED
    BY <1>4, <1>b, <1>c, <1>d, <1>e, <2>1, Zenon DEF Snapshot, Types, RestTypes
<1>5. ASSUME NEW m \in Msgs, Tag(p, m) PROVE Goal
  <2>1. PollTypes' /\ Others(p)
    <3>1. todo' = [todo EXCEPT ![p] = @ \ {m}] /\ UNCHANGED <<rep, pc, dry, low, cur, final>>
      BY <1>5 DEF Tag
    <3>2. \A q \in Procs : todo'[q] \subseteq todo[q]
      BY <1>0, <3>1 DEF PollTypes
    <3>3. DOMAIN todo' = Procs /\ \A q \in Procs \ {p} : todo'[q] = todo[q]
      BY <1>0, <3>1 DEF PollTypes
    <3>4. \A q \in Procs : Report(q)'
      BY <1>0, <3>1, <3>2 DEF PollTypes, Report
    <3> QED
      BY <1>0, <3>1, <3>3, <3>4, Zenon DEF PollTypes, Others
  <2>2. DbTypes'
    <3>1. m \in DOMAIN rep[p] /\ rep[p][m] \in Entries
      BY <1>0, <1>5 DEF Tag, PollTypes, Report
    <3> DEFINE w == Written(tags[m], rep[p][m].tags, rep[p][m].home)
    <3>2. w \in SUBSET Homes
      BY <1>0, <3>1, SMT DEF Written, Types, DbTypes, Entries
    <3>3. /\ tags' = [tags EXCEPT ![m] = w] /\ UNCHANGED <<rule, path, loc>>
          /\ IF tags' = tags THEN UNCHANGED <<rev, lastmod>>
             ELSE rev' = rev + 1 /\ lastmod' = [lastmod EXCEPT ![m] = rev + 1]
      BY <1>5 DEF Tag
    <3> HIDE DEF w
    <3> QED
      BY <1>0, <3>2, <3>3, SMT DEF Types, DbTypes
  <2> QED
    BY <1>5, <1>c, <1>d, <1>e, <2>1, <2>2, Zenon DEF Tag, Types, RestTypes
<1>6. ASSUME Move(p) \/ MoveSkipped(p) PROVE Goal
  <2>1. PollTypes' /\ Others(p)
    <3>1. Goto(p, "final") /\ UNCHANGED <<rep, todo, low, cur, final, dry>> /\ "final" \in PCs
      BY <1>6, <1>a, Zenon DEF Move, MoveSkipped
    <3> QED
      BY <1>0, <3>1, GotoIs
  <2>2. CASE Move(p)
    <3>1. DbTypes'
      BY <1>0, <2>2, MoveIs, Zenon DEF Move, Types, DbTypes
    <3> QED
      BY <2>2, <1>c, <1>d, <1>e, <2>1, <3>1, Zenon DEF Move, Types, RestTypes
  <2>3. CASE MoveSkipped(p)
    <3>1. faults' \in Nat
      BY <1>e, <2>3, SMT DEF MoveSkipped, RestTypes
    <3> QED
      BY <2>3, <1>b, <1>c, <1>d, <1>e, <2>1, <3>1, Zenon DEF MoveSkipped, Types, RestTypes
  <2> QED
    BY <1>6, <2>2, <2>3
<1>7. ASSUME DryRun(p) \/ Fails(p) PROVE Goal
  <2>1. PollTypes' /\ Others(p)
    BY <1>0, <1>7, IdleIs, Zenon DEF DryRun, Fails
  <2>2. faults' \in Nat
    BY <1>e, <1>7, SMT DEF DryRun, Fails, RestTypes
  <2> QED
    BY <1>7, <1>b, <1>c, <1>d, <1>e, <2>1, <2>2, Zenon DEF DryRun, Fails, Types, RestTypes
<1>8. ASSUME ReadFinal(p) PROVE Goal
  <2>1. PollTypes' /\ Others(p)
    <3>1. rev \in Nat /\ "open" \in PCs
      BY <1>0, <1>a DEF Types, DbTypes
    <3>2. Goto(p, "open") /\ UNCHANGED <<rep, todo, low, cur, dry>> /\ final' = [final EXCEPT ![p] = rev]
      BY <1>8 DEF ReadFinal
    <3> QED
      BY <1>0, <3>1, <3>2, GotoIs
  <2> QED
    BY <1>8, <1>b, <1>c, <1>d, <1>e, <2>1, Zenon DEF ReadFinal, Types, RestTypes
<1>9. ASSUME Open(p) \/ WriteTmp(p) PROVE Goal
  <2>1. PollTypes' /\ Others(p)
    <3>1. \E next \in PCs : Goto(p, next) /\ UNCHANGED <<rep, todo, low, cur, final, dry>>
      BY <1>9, <1>a DEF Open, WriteTmp
    <3> QED
      BY <1>0, <3>1, GotoIs
  <2>2. FileTypes'
    BY <1>0, <1>9, SMT DEF Open, WriteTmp, Types, FileTypes, PollTypes, NoFloor
  <2> QED
    BY <1>9, <1>b, <1>d, <1>e, <2>1, <2>2, Zenon DEF Open, WriteTmp, Types, RestTypes
<1>10. ASSUME Compare(p) \/ Rename(p) \/ WriteFails(p) PROVE Goal
  <2>1. PollTypes' /\ Others(p)
    <3>1. Idle(p) \/ (Goto(p, "rename") /\ UNCHANGED <<rep, todo, low, cur, final, dry>>)
      BY <1>10, Zenon DEF Compare, Rename, WriteFails
    <3>2. "rename" \in PCs
      BY <1>a
    <3> QED
      BY <1>0, <3>1, <3>2, IdleIs, GotoIs
  <2>2. FileTypes'
    <3>1. CASE Compare(p)
      BY <1>0, <3>1, SMT DEF Compare, Renamed, Types, FileTypes
    <3>2. CASE Rename(p)
      BY <1>0, <3>2, SMT DEF Rename, Types, FileTypes
    <3>3. CASE WriteFails(p)
      BY <1>0, <3>3, SMT DEF WriteFails, Types, FileTypes
    <3> QED
      BY <1>10, <3>1, <3>2, <3>3
  <2>3. faults' \in Nat
    BY <1>e, <1>10, SMT DEF Compare, Rename, WriteFails, RestTypes
  <2> QED
    BY <1>10, <1>b, <1>d, <1>e, <2>1, <2>2, <2>3, Zenon DEF Compare, Rename, WriteFails, Types, RestTypes
<1> HIDE DEF Goal
<1>11. Goal
  BY <1>1, <1>2, <1>3, <1>4, <1>5, <1>6, <1>7, <1>8, <1>9, <1>10, Zenon DEF Poll, Trouble
<1> QED
  BY <1>11 DEF Goal

(* Who steps: the world and its user, or one process.                      *)
Outside == \/ \E m \in Msgs, h \in Homes : Deliver(m, h) \/ SyncMove(m, h) \/ ApplyStart(m, h)
           \/ ApplyMove \/ ApplyMoveFails \/ ApplyTag
Steps(p) == Poll(p) \/ Trouble(p) \/ \E isDry \in BOOLEAN : New(p, isDry)

LEMMA NextIs == Next => Outside \/ \E p \in Procs : Steps(p)
  BY Zenon DEF Next, World, Outside, Steps

LEMMA ChangedIs ==
  ASSUME NEW ms, Changed(ms)
  PROVE  (met => met') /\ (raced => raced') /\ since' = since
  BY Zenon DEF Changed

LEMMA OutsideDb ==
  ASSUME IInv, Outside
  PROVE  DbStep /\ UNCHANGED <<poll, files>>
<1> USE DEF history
<1>0. Types /\ DbTypes /\ RestTypes /\ rev \in Nat /\ since \in Nat /\ rev <= rev + 1 /\ rev <= rev /\ since <= since
  <2>1. rev \in Nat /\ since \in Nat
    BY DEF IInv, Types, DbTypes, RestTypes
  <2> QED
    BY <2>1, SMT DEF IInv, Types
<1>1. ASSUME NEW m \in Msgs, NEW h \in Homes, Deliver(m, h) \/ SyncMove(m, h) \/ ApplyStart(m, h)
      PROVE  DbStep /\ UNCHANGED <<poll, files>>
  <2>1. Grows
    BY <1>0, <1>1, SMT DEF Deliver, SyncMove, ApplyStart, Grows, db
  <2>2. \A n \in Msgs : Same(n)
    BY <1>1, Zenon DEF Deliver, SyncMove, ApplyStart, Same, db
  <2> QED
    BY <1>1, <2>1, <2>2, Zenon DEF Deliver, SyncMove, ApplyStart, DbStep
<1>2. ASSUME ApplyMove PROVE DbStep /\ UNCHANGED <<poll, files>>
  <2> DEFINE m == user.msg
             batch == IF loc[m] = user.loc THEN {m} ELSE {}
             home == [x \in {m} |-> user.home]
  <2>1. user \in Applies
    BY <1>0, <1>2, SMT DEF RestTypes, NoUser, ApplyMove
  <2>2. batch \in SUBSET Msgs /\ \A x \in batch : x \in DOMAIN home /\ home[x] \in Places
    BY <2>1, SMT DEF Applies, Places
  <2>3. Moved(batch, home) /\ UNCHANGED <<rule, tags, files, poll>> /\ UNCHANGED <<met, since>>
        /\ Changed(IF rev' = rev THEN {} ELSE {m}) /\ m \in Msgs /\ batch \subseteq {m}
    BY <1>2, <2>1, SMT DEF ApplyMove, Changed, Applies
  <2> HIDE DEF batch, home, m
  <2>4. /\ rev <= rev'
        /\ \A x \in Msgs : \/ path'[x] = path[x] /\ lastmod'[x] = lastmod[x]
                           \/ x \in batch /\ lastmod'[x] = rev + 1 /\ rev' = rev + 1
    BY <1>0, <2>2, <2>3, MovedIs
  <2>5. Grows
    BY <1>0, <2>3, <2>4, ChangedIs, Zenon DEF Grows
  <2>6. rev' = rev + 1 => rev' # rev
    BY <1>0
  <2>7. \A x \in Msgs : Same(x) \/ Touched(x)
    BY <2>3, <2>4, <2>6 DEF Same, Touched, Cause, Changed
  <2> QED
    BY <2>3, <2>5, <2>7 DEF DbStep
<1>3. ASSUME ApplyMoveFails PROVE DbStep /\ UNCHANGED <<poll, files>>
  BY <1>0, <1>3, Unmoved, Zenon DEF ApplyMoveFails
<1>4. ASSUME ApplyTag PROVE DbStep /\ UNCHANGED <<poll, files>>
  <2>1. user \in Applies
    BY <1>0, <1>4, SMT DEF RestTypes, NoUser, ApplyTag
  <2> DEFINE m == user.msg
             w == Written(tags[m], user.tags, user.home)
  <2>2. m \in Msgs
    BY <2>1, SMT DEF Applies
  <2>3. /\ tags' = [tags EXCEPT ![m] = w] /\ rev' = rev + 1 /\ lastmod' = [lastmod EXCEPT ![m] = rev + 1]
        /\ Changed({m}) /\ UNCHANGED <<rule, path>> /\ UNCHANGED <<poll, files>>
    BY <1>4 DEF ApplyTag
  <2> HIDE DEF w, m
  <2>4. /\ \A x \in Msgs \ {m} : tags'[x] = tags[x] /\ lastmod'[x] = lastmod[x]
        /\ lastmod'[m] = rev + 1 /\ path' = path
    BY <1>0, <2>2, <2>3, SMT DEF DbTypes
  <2>5. Grows
    BY <1>0, <2>3, ChangedIs, Zenon DEF Grows
  <2>6. \A x \in Msgs : Same(x) \/ Touched(x)
    BY <2>3, <2>4 DEF Same, Touched, Cause, Changed
  <2> QED
    BY <2>3, <2>5, <2>6 DEF DbStep
<1> QED
  BY <1>1, <1>2, <1>3, <1>4 DEF Outside

LEMMA PollDb ==
  ASSUME IInv, NEW p \in Procs, Steps(p)
  PROVE  DbStep
<1> USE DEF history
<1>0. Types /\ DbTypes /\ RestTypes /\ rev \in Nat /\ since \in Nat /\ rev <= rev + 1 /\ rev <= rev /\ since <= since
  <2>1. rev \in Nat /\ since \in Nat
    BY DEF IInv, Types, DbTypes, RestTypes
  <2> QED
    BY <2>1, SMT DEF IInv, Types
<1>1. ASSUME NEW isDry \in BOOLEAN, New(p, isDry) PROVE DbStep
  <2>1. /\ rev' = IF Fresh = {} THEN rev ELSE rev + 1
        /\ lastmod' = [m \in Msgs |-> IF m \in Fresh THEN rev + 1 ELSE lastmod[m]]
        /\ tags' = [m \in Msgs |-> IF m \in Fresh \ Indexed THEN {Inbox} ELSE tags[m]]
        /\ path' = loc /\ Changed(Fresh) /\ rule' = rule
    BY <1>1 DEF New
  <2>2. \A m \in Msgs \ Fresh : loc[m] = path[m]
    BY DEF Fresh
  <2>3. \A m \in Msgs : Same(m) \/ (m \in Fresh /\ rev' = rev + 1 /\ lastmod'[m] = rev + 1)
    BY <2>1, <2>2 DEF Same
  <2>4. \A m \in Msgs : Same(m) \/ Touched(m)
    BY <2>1, <2>3, Zenon DEF Touched, Cause, Changed
  <2>5. Grows
    <3>1. rev <= rev'
      BY <1>0, <2>1
    <3> QED
      BY <1>0, <2>1, <3>1, ChangedIs, Zenon DEF Grows
  <2> QED
    BY <2>4, <2>5 DEF DbStep
<1>2. ASSUME rule' = rule, UNCHANGED db, met => met', raced => raced', since <= since' PROVE DbStep
  <2>1. rev <= rev' /\ \A m \in Msgs : Same(m)
    BY <1>0, <1>2, SMT DEF Same, db
  <2> QED
    BY <1>2, <2>1, Zenon DEF DbStep, Grows
<1>3. since <= since
  BY <1>0
<1>4. ASSUME ReadFloor(p) PROVE DbStep
  <2>1. low[p] \in Nat
    BY DEF IInv, Types, PollTypes
  <2>2. since <= since'
    BY <1>0, <1>4, <2>1, SMT DEF ReadFloor
  <2> QED
    BY <1>2, <1>4, <2>2 DEF ReadFloor
<1>5. ASSUME ReadRevision(p) \/ Snapshot(p) \/ MoveSkipped(p) \/ DryRun(p) \/ Fails(p) PROVE DbStep
  BY <1>2, <1>3, <1>5, Zenon DEF ReadRevision, Snapshot, MoveSkipped, DryRun, Fails
<1>6. ASSUME ReadFinal(p) \/ Open(p) \/ WriteTmp(p) \/ Compare(p) \/ Rename(p) \/ WriteFails(p) PROVE DbStep
  BY <1>2, <1>3, <1>6, Zenon DEF ReadFinal, Open, WriteTmp, Compare, Rename, WriteFails
<1>7. ASSUME NEW m \in Msgs, Tag(p, m) PROVE DbStep
  <2>1. rev <= rev'
    BY <1>0, <1>7, SMT DEF Tag
  <2>2. Grows
    BY <1>3, <1>7, <2>1, Zenon DEF Tag, Grows
  <2>3. \A n \in Msgs : Same(n) \/ Touched(n)
    BY <1>7, TagIs DEF Touched, Cause
  <2> QED
    BY <2>2, <2>3 DEF DbStep
<1>8. ASSUME Move(p) PROVE DbStep
  <2>1. Grows
    BY <1>3, <1>8, MoveIs, Zenon DEF Move, Grows
  <2>2. \A n \in Msgs : Same(n) \/ Touched(n)
    BY <1>8, MoveIs, Zenon DEF Touched, Cause
  <2> QED
    BY <2>1, <2>2 DEF DbStep
<1> QED
  BY <1>1, <1>4, <1>5, <1>6, <1>7, <1>8, Zenon DEF Steps, Poll, Trouble

-----------------------------------------------------------------------------
(* The revisions that are kept.                                            *)

LEMMA PastStep == ASSUME IInv, Next PROVE Past'
<1>0. /\ DbTypes /\ FileTypes /\ PollTypes /\ RestTypes /\ Past /\ rev \in Nat
      /\ low \in [Procs -> Nat] /\ cur \in [Procs -> Nat] /\ final \in [Procs -> Nat]
  BY DEF IInv, Types, DbTypes, PollTypes
<1>1. DbStep
  BY NextIs, OutsideDb, PollDb
<1>2. rev' \in Nat /\ rev <= rev'
  <2>1. Types'
    BY NextIs, WorldTypes, PollTyped DEF Outside, Steps, IInv
  <2> QED
    BY <1>1, <2>1 DEF DbStep, Grows, Types, DbTypes
<1>3. \A x \in Nat : x <= rev => x <= rev'
  BY <1>0, <1>2, SMT
<1>4. \A m \in Msgs : lastmod'[m] <= rev' /\ (m \in Indexed' => lastmod'[m] > 0)
  <2> SUFFICES ASSUME NEW m \in Msgs PROVE lastmod'[m] <= rev' /\ (m \in Indexed' => lastmod'[m] > 0)
    OBVIOUS
  <2>1. CASE Same(m)
    BY <1>0, <1>3, <2>1 DEF Same, Past, Indexed, DbTypes
  <2>2. CASE Touched(m)
    BY <1>0, <2>2, SMT DEF Touched
  <2> QED
    BY <1>1, <2>1, <2>2 DEF DbStep
<1> DEFINE Kept == /\ floor' <= rev' /\ (tmp' # NoTmp => tmp' <= rev') /\ since' <= rev'
                   /\ \A p \in Procs : final'[p] <= rev' /\ low'[p] <= rev' /\ cur'[p] <= rev'
<1>5. /\ floor <= rev' /\ (tmp # NoTmp => tmp <= rev') /\ since <= rev' /\ 0 <= rev' /\ rev <= rev'
      /\ \A p \in Procs : final[p] <= rev' /\ low[p] <= rev' /\ cur[p] <= rev'
  BY <1>0, <1>2, <1>3, SMT DEF Past, FileTypes, RestTypes
<1>6. ASSUME Outside PROVE Kept
  <2>1. UNCHANGED <<poll, files>>
    BY <1>6, OutsideDb
  <2>2. since' = since
    BY <1>6, Zenon DEF Outside, Deliver, SyncMove, ApplyStart, ApplyMove, ApplyMoveFails, ApplyTag, Changed, history
  <2> QED
    BY <1>5, <2>1, <2>2, Zenon DEF poll, files
<1>7. ASSUME NEW p \in Procs, Steps(p) PROVE Kept
  <2>1. Others(p)
    BY <1>7, PollTyped DEF Steps
  <2>2. ASSUME final'[p] <= rev', low'[p] <= rev', cur'[p] <= rev'
        PROVE  \A q \in Procs : final'[q] <= rev' /\ low'[q] <= rev' /\ cur'[q] <= rev'
    BY <1>5, <2>1, <2>2, Zenon DEF Others
  <2>3. ASSUME Idle(p) PROVE \A q \in Procs : final'[q] <= rev' /\ low'[q] <= rev' /\ cur'[q] <= rev'
    BY <1>0, <1>5, <2>2, <2>3, IdleIs
  <2>4. ASSUME UNCHANGED <<low, cur, final>>
        PROVE \A q \in Procs : final'[q] <= rev' /\ low'[q] <= rev' /\ cur'[q] <= rev'
    BY <1>5, <2>4
  <2> USE DEF history, files
  <2>5. ASSUME NEW isDry \in BOOLEAN, New(p, isDry) PROVE Kept
    <3>1. low'[p] = rev /\ final' = final /\ cur' = cur /\ UNCHANGED <<floor, tmp, since>>
      BY <1>0, <2>5, SMT DEF New, Changed
    <3> QED
      BY <1>5, <2>2, <3>1
  <2>6. ASSUME ReadFloor(p) PROVE Kept
    <3>1. low'[p] \in {low[p], floor} /\ final' = final /\ cur' = cur /\ UNCHANGED <<floor, tmp>>
          /\ since' \in {low[p], since}
      BY <1>0, <2>6, SMT DEF ReadFloor
    <3>2. low'[p] <= rev' /\ since' <= rev'
      BY <1>5, <3>1
    <3> QED
      BY <1>5, <2>2, <3>1, <3>2
  <2>7. ASSUME ReadRevision(p) PROVE Kept
    <3>1. UNCHANGED <<floor, tmp, since>> /\ (Idle(p) \/ (UNCHANGED <<low, final>> /\ cur' = [cur EXCEPT ![p] = rev]))
      BY <2>7, Zenon DEF ReadRevision
    <3>2. ASSUME UNCHANGED <<low, final>>, cur' = [cur EXCEPT ![p] = rev]
          PROVE  final'[p] <= rev' /\ low'[p] <= rev' /\ cur'[p] <= rev'
      BY <1>0, <1>5, <3>2
    <3> QED
      BY <1>5, <2>2, <2>3, <3>1, <3>2
  <2>8. ASSUME Snapshot(p) \/ Move(p) \/ MoveSkipped(p) \/ \E m \in Msgs : Tag(p, m) PROVE Kept
    <3>1. UNCHANGED <<low, cur, final, floor, tmp, since>>
      BY <2>8, Zenon DEF Snapshot, Move, MoveSkipped, Tag
    <3> QED
      BY <1>5, <2>4, <3>1
  <2>9. ASSUME DryRun(p) \/ Fails(p) \/ WriteFails(p) PROVE Kept
    <3>1. Idle(p) /\ UNCHANGED <<floor, tmp, since>>
      BY <2>9, Zenon DEF DryRun, Fails, WriteFails
    <3> QED
      BY <1>5, <2>3, <3>1
  <2>10. ASSUME ReadFinal(p) PROVE Kept
    <3>1. final'[p] = rev /\ low' = low /\ cur' = cur /\ UNCHANGED <<floor, tmp, since>>
      BY <1>0, <2>10, SMT DEF ReadFinal
    <3> QED
      BY <1>5, <2>2, <3>1
  <2>11. ASSUME Open(p) \/ WriteTmp(p) PROVE Kept
    <3>1. UNCHANGED <<low, cur, final, since>> /\ floor' \in {floor, final[p]} /\ tmp' \in {tmp, 0, final[p]}
      BY <2>11, SMT DEF Open, WriteTmp, NoFloor
    <3>2. floor' <= rev' /\ (tmp' # NoTmp => tmp' <= rev')
      BY <1>5, <3>1
    <3> QED
      BY <1>5, <2>4, <3>1, <3>2
  <2>12. ASSUME Compare(p) \/ Rename(p) PROVE Kept
    <3>1. since' = since /\ (Idle(p) \/ UNCHANGED <<low, cur, final>>)
      BY <2>12, Zenon DEF Compare, Rename
    <3>2. floor' <= rev' /\ (tmp' # NoTmp => tmp' <= rev')
      <4>1. CASE Compare(p)
        BY <1>5, <4>1 DEF Compare
      <4>2. CASE Rename(p)
        BY <1>5, <4>2 DEF Rename
      <4> QED
        BY <2>12, <4>1, <4>2
    <3> QED
      BY <1>5, <2>3, <2>4, <3>1, <3>2
  <2> HIDE DEF Kept
  <2> QED
    BY <1>7, <2>5, <2>6, <2>7, <2>8, <2>9, <2>10, <2>11, <2>12, Zenon DEF Steps, Poll, Trouble
<1> HIDE DEF Kept
<1>8. Kept
  BY <1>6, <1>7, NextIs
<1> QED
  BY <1>4, <1>8 DEF Past, Kept

-----------------------------------------------------------------------------
(* Who classifies.                                                         *)

LEMMA StepIs == ASSUME IInv, Next PROVE Types' /\ DbStep
<1>1. Types'
  BY NextIs, WorldTypes, PollTyped DEF Outside, Steps, IInv
<1>2. DbStep
  BY NextIs, OutsideDb, PollDb
<1> QED
  BY <1>1, <1>2

(* A process keeps all of its poll's state.                                *)
Keeps(q) ==
  /\ pc'[q] = pc[q] /\ dry'[q] = dry[q] /\ low'[q] = low[q] /\ cur'[q] = cur[q]
  /\ rep'[q] = rep[q] /\ todo'[q] = todo[q] /\ final'[q] = final[q]

LEMMA Keepers ==
  ASSUME IInv, Next
  PROVE  \/ Outside /\ \A q \in Procs : Keeps(q)
         \/ \E p \in Procs : Steps(p) /\ \A q \in Procs \ {p} : Keeps(q)
<1>1. ASSUME Outside PROVE \A q \in Procs : Keeps(q)
  BY <1>1, OutsideDb, Zenon DEF poll, Keeps
<1>2. ASSUME NEW p \in Procs, Steps(p) PROVE \A q \in Procs \ {p} : Keeps(q)
  <2>1. Types /\ (Poll(p) \/ Trouble(p) \/ \E isDry \in BOOLEAN : New(p, isDry))
    BY <1>2 DEF IInv, Steps
  <2>2. Others(p)
    BY <2>1, <1>2, PollTyped
  <2> QED
    BY <2>2 DEF Others, Keeps
<1> QED
  BY <1>1, <1>2, NextIs

LEMMA Walks ==
  ASSUME IInv, NEW p \in Procs, Steps(p)
  PROVE  \/ pc'[p] \in {"idle", "floor"}
         \/ /\ dry'[p] = dry[p]
            /\ \/ pc'[p] = "rev" /\ ReadFloor(p)
               \/ pc'[p] = "delta" /\ ReadRevision(p)
               \/ pc[p] = "delta" /\ pc'[p] = (IF dry[p] THEN "dry" ELSE "tag") /\ Snapshot(p)
               \/ pc[p] = "tag" /\ pc'[p] = "tag" /\ \E m \in Msgs : Tag(p, m)
               \/ pc[p] = "tag" /\ pc'[p] = "final" /\ (Move(p) \/ MoveSkipped(p))
               \/ Closing(p) /\ Closing(p)'
<1> DEFINE Goal == \/ pc'[p] \in {"idle", "floor"}
                   \/ /\ dry'[p] = dry[p]
                      /\ \/ pc'[p] = "rev" /\ ReadFloor(p)
                         \/ pc'[p] = "delta" /\ ReadRevision(p)
                         \/ pc[p] = "delta" /\ pc'[p] = (IF dry[p] THEN "dry" ELSE "tag") /\ Snapshot(p)
                         \/ pc[p] = "tag" /\ pc'[p] = "tag" /\ \E m \in Msgs : Tag(p, m)
                         \/ pc[p] = "tag" /\ pc'[p] = "final" /\ (Move(p) \/ MoveSkipped(p))
                         \/ Closing(p) /\ Closing(p)'
<1>0. pc \in [Procs -> PCs] /\ PollTypes
  BY DEF IInv, Types, PollTypes
<1>a. ASSUME Idle(p) PROVE Goal
  BY <1>0, <1>a DEF Idle, Goto
<1>1. ASSUME NEW isDry \in BOOLEAN, New(p, isDry) PROVE Goal
  BY <1>0, <1>1 DEF New, Goto
<1>2. ASSUME ReadFloor(p) PROVE Goal
  <2>1. pc'[p] = "rev" /\ dry' = dry
    BY <1>0, <1>2 DEF ReadFloor, Goto
  <2> QED
    BY <1>2, <2>1
<1>3. ASSUME ReadRevision(p) PROVE Goal
  <2>1. Idle(p) \/ (pc'[p] = "delta" /\ dry' = dry)
    BY <1>0, <1>3 DEF ReadRevision, Goto
  <2> QED
    BY <1>3, <1>a, <2>1
<1>4. ASSUME Snapshot(p) PROVE Goal
  <2>1. pc[p] = "delta" /\ pc'[p] = (IF dry[p] THEN "dry" ELSE "tag") /\ dry' = dry
    BY <1>0, <1>4 DEF Snapshot, Goto
  <2> QED
    BY <1>4, <2>1
<1>5. ASSUME NEW m \in Msgs, Tag(p, m) PROVE Goal
  BY <1>0, <1>5 DEF Tag
<1>6. ASSUME Move(p) \/ MoveSkipped(p) PROVE Goal
  <2>1. pc[p] = "tag" /\ pc'[p] = "final" /\ dry' = dry
    BY <1>0, <1>6 DEF Move, MoveSkipped, Goto
  <2> QED
    BY <1>6, <2>1
<1>7. ASSUME DryRun(p) \/ Fails(p) \/ WriteFails(p) PROVE Goal
  BY <1>a, <1>7 DEF DryRun, Fails, WriteFails
<1>8. ASSUME ReadFinal(p) \/ Open(p) \/ WriteTmp(p) PROVE Goal
  BY <1>0, <1>8 DEF ReadFinal, Open, WriteTmp, Goto, Closing
<1>9. ASSUME Compare(p) \/ Rename(p) PROVE Goal
  <2>1. Idle(p) \/ (pc[p] = "compare" /\ pc'[p] = "rename" /\ dry' = dry)
    BY <1>0, <1>9 DEF Compare, Rename, Goto
  <2> QED
    BY <1>a, <2>1 DEF Closing
<1> HIDE DEF Goal
<1>10. Goal
  BY <1>1, <1>2, <1>3, <1>4, <1>5, <1>6, <1>7, <1>8, <1>9, Zenon DEF Steps, Poll, Trouble
<1> QED
  BY <1>10 DEF Goal

LEMMA AloneStep == ASSUME IInv, Next PROVE Alone'
<1>0. Alone /\ DbStep
  BY StepIs DEF IInv
<1>1. ASSUME NEW q \in Procs, Keeps(q) PROVE Classifying(q)' = Classifying(q)
  BY <1>1 DEF Keeps, Classifying
<1>2. ASSUME \A q \in Procs : Keeps(q) PROVE Alone'
  BY <1>0, <1>1, <1>2, Zenon DEF Alone, DbStep, Grows
<1>3. ASSUME NEW p \in Procs, Steps(p), \A q \in Procs \ {p} : Keeps(q) PROVE Alone'
  <2>1. Classifying(p)' => Classifying(p) \/ ReadRevision(p)
    BY <1>3, Walks DEF Classifying, Closing
  <2>2. \A q \in Procs \ {p} : Classifying(q)' => Classifying(q)
    BY <1>1, <1>3
  <2>3. ASSUME ReadRevision(p), ~met' PROVE \A q \in Procs : ~Classifying(q)
    BY <2>3 DEF ReadRevision
  <2>4. met => met'
    BY <1>0 DEF DbStep, Grows
  <2> QED
    BY <1>0, <2>1, <2>2, <2>3, <2>4, Zenon DEF Alone
<1> QED
  BY <1>2, <1>3, Keepers

LEMMA WetStep == ASSUME IInv, Next PROVE Wet'
<1>0. Wet
  BY DEF IInv
<1>1. ASSUME NEW q \in Procs, Keeps(q)
      PROVE  (pc'[q] = "tag" \/ Closing(q)' => ~dry'[q]) /\ (pc'[q] = "dry" => dry'[q])
  BY <1>0, <1>1, Zenon DEF Keeps, Closing, Wet
<1>2. ASSUME NEW p \in Procs, Steps(p)
      PROVE  (pc'[p] = "tag" \/ Closing(p)' => ~dry'[p]) /\ (pc'[p] = "dry" => dry'[p])
  BY <1>0, <1>2, Walks DEF Closing, Wet
<1> QED
  BY <1>1, <1>2, Keepers, Zenon DEF Wet

-----------------------------------------------------------------------------
(* What is as it should be stays so.                                       *)

LEMMA SureIs ==
  ASSUME NEW m \in Msgs, m \in Indexed' => (tags'[m] = {path'[m]} \/ Excused(m)')
  PROVE  Sure(m)'
  BY Zenon DEF Sure, Due

LEMMA UntrustedIs ==
  ASSUME NEW m \in Msgs, ~Trusted(m)' PROVE Sure(m)'
  BY Zenon DEF Sure, Excused, Trusted

LEMMA SameSure ==
  ASSUME Types, Types', Grows, NEW m \in Msgs, Same(m), Sure(m)
  PROVE  Sure(m)'
<1>1. lastmod[m] <= since => lastmod'[m] <= since'
  BY SMT DEF Types, DbTypes, RestTypes, Grows, Same
<1>2. Excused(m) => Excused(m)'
  BY <1>1, Zenon DEF Excused, Grows
<1>3. path'[m] = path[m] /\ tags'[m] = tags[m] /\ (m \in Indexed' <=> m \in Indexed)
  BY DEF Same, Indexed
<1> QED
  BY <1>2, <1>3, Zenon DEF Sure, Due

LEMMA ClearStays ==
  ASSUME Types, Types', Past, DbStep, NEW r \in Nat, r <= rev, Clear(r)
  PROVE  \A m \in Msgs : lastmod'[m] <= r => Sure(m)'
<1> SUFFICES ASSUME NEW m \in Msgs, lastmod'[m] <= r PROVE Sure(m)'
  OBVIOUS
<1>1. CASE Same(m)
  BY <1>1, SameSure DEF DbStep, Clear, Same
<1>2. CASE Touched(m)
  BY <1>2, SMT DEF Touched, Types, DbTypes
<1> QED
  BY <1>1, <1>2 DEF DbStep

(* What becomes of a message that another touches while q classifies.       *)
LEMMA Intrusion ==
  ASSUME IInv, DbStep, NEW q \in Procs, Keeps(q), Classifying(q), NEW m \in Msgs, Touched(m),
         Trusted(m)'
  PROVE  rule[m] = None /\ m \in Indexed /\ path'[m] = path[m] /\ tags'[m] = {path[m]}
<1>1. Trusted(m) /\ ~raced'
  BY Zenon DEF Trusted, DbStep, Grows
<1>2. PICK p \in Procs : Tag(p, m) \/ (Move(p) /\ m \in Batch(p))
  BY <1>1, Zenon DEF Touched, Cause
<1>3. p # q
  <2>1. ASSUME Tag(q, m) PROVE FALSE
    BY <2>1 DEF Tag, Keeps, IInv, Types, PollTypes
  <2>2. ASSUME Move(q) PROVE FALSE
    BY <2>2 DEF Move, Goto, Keeps, IInv, Types, PollTypes
  <2> QED
    BY <1>2, <2>1, <2>2
<1>4. Classifying(p)
  BY <1>2, TagIs, MoveIs
<1>5. met /\ rule[m] = None
  BY <1>1, <1>3, <1>4, Zenon DEF IInv, Alone, Trusted
<1>6. CASE Tag(p, m)
  <2>1. True(p, m) /\ tags'[m] = {rep[p][m].home} /\ path'[m] = path[m]
    BY <1>1, <1>6, TagIs
  <2> QED
    BY <1>5, <2>1 DEF True
<1>7. CASE Move(p) /\ m \in Batch(p)
  <2>1. pc[p] = "tag" /\ m \in Wanted(p)
    BY <1>7 DEF Move, Batch
  <2> QED
    BY <1>1, <1>5, <2>1, WantedIs
<1> QED
  BY <1>2, <1>6, <1>7

-----------------------------------------------------------------------------
(* The reports.                                                            *)

LEMMA KeptReport ==
  ASSUME IInv, DbStep, NEW q \in Procs, Keeps(q), pc'[q] = "tag",
         NEW m \in Msgs, m \in DOMAIN rep'[q], Trusted(m)'
  PROVE  True(q, m)'
<1>1. pc[q] = "tag" /\ m \in DOMAIN rep[q] /\ rep'[q] = rep[q] /\ todo'[q] = todo[q] /\ ~dry[q]
  BY DEF Keeps, IInv, Wet
<1>2. Trusted(m) /\ rule'[m] = rule[m]
  BY Zenon DEF Trusted, DbStep, Grows
<1>3. True(q, m)
  BY <1>1, <1>2 DEF IInv, Reports, Trusted
<1>4. CASE Same(m)
  BY <1>1, <1>2, <1>3, <1>4 DEF Same, True, Indexed
<1>5. CASE Touched(m)
  <2>1. Classifying(q)
    BY <1>1 DEF Classifying
  <2>2. rule[m] = None /\ m \in Indexed /\ path'[m] = path[m] /\ tags'[m] = {path[m]}
    BY <1>5, <2>1, Intrusion
  <2>3. rep[q][m].home = rep[q][m].from /\ rep[q][m].from = path[m]
    BY <1>3, <2>2 DEF True
  <2> QED
    BY <1>1, <1>2, <1>3, <2>2, <2>3 DEF True, Indexed
<1> QED
  BY <1>4, <1>5 DEF DbStep

LEMMA SnapshotReport ==
  ASSUME IInv, NEW p \in Procs, Snapshot(p), NEW m \in Msgs, m \in DOMAIN rep'[p]
  PROVE  True(p, m)'
<1>1. DOMAIN rep = Procs /\ DOMAIN todo = Procs
  BY DEF IInv, Types, PollTypes
<1>2. rep'[p] = [n \in Delta(p) |-> [tags |-> tags[n], from |-> path[n], home |-> Winner(n)]]
  BY <1>1 DEF Snapshot
<1>3. m \in Delta(p) /\ m \in Indexed
  BY <1>2 DEF Delta
<1>4. rep'[p][m].tags = tags[m] /\ rep'[p][m].from = path[m] /\ rep'[p][m].home = Winner(m)
  BY <1>2, <1>3
<1>5. todo'[p] = {n \in Delta(p) : tags[n] # {Winner(n)}} /\ UNCHANGED <<rule, path, tags>>
  BY <1>1 DEF Snapshot, db
<1>6. Winner(m) \in {path[m], rule[m]} \ {None}
  BY <1>3 DEF Winner, Indexed
<1>7. m \notin todo'[p] => tags[m] = {Winner(m)}
  BY <1>3, <1>5
<1> HIDE DEF Winner
<1> QED
  BY <1>3, <1>4, <1>5, <1>6, <1>7 DEF True, Indexed

LEMMA TagReport ==
  ASSUME IInv, DbStep, NEW p \in Procs, NEW t \in Msgs, Tag(p, t),
         NEW m \in Msgs, m \in DOMAIN rep'[p], Trusted(m)'
  PROVE  True(p, m)'
<1>1. rep' = rep /\ rule' = rule /\ pc[p] = "tag" /\ todo'[p] = todo[p] \ {t}
  BY DEF Tag, IInv, Types, PollTypes
<1>2. Trusted(m)
  BY Zenon DEF Trusted, DbStep, Grows
<1>3. True(p, m)
  BY <1>1, <1>2 DEF IInv, Reports, Trusted
<1>4. CASE m = t
  <2>1. path'[m] = path[m] /\ tags'[m] = {rep[p][m].home}
    BY <1>2, <1>4, TagIs
  <2> QED
    BY <1>1, <1>3, <2>1 DEF True, Indexed
<1>5. CASE m # t
  <2>1. Same(m)
    BY <1>5, TagIs
  <2> QED
    BY <1>1, <1>3, <1>5, <2>1 DEF True, Indexed, Same
<1> QED
  BY <1>4, <1>5

LEMMA ReportsStep == ASSUME IInv, Next PROVE Reports'
<1>0. DbStep
  BY StepIs
<1> SUFFICES ASSUME NEW q \in Procs, NEW m \in Msgs, pc'[q] = "tag", m \in DOMAIN rep'[q], Trusted(m)'
             PROVE  True(q, m)'
  BY Zenon DEF Reports, Trusted
<1>1. CASE Keeps(q)
  BY <1>0, <1>1, KeptReport
<1>2. CASE Steps(q)
  <2>1. Snapshot(q) \/ \E t \in Msgs : Tag(q, t)
    BY <1>2, Walks DEF Closing
  <2> QED
    BY <1>0, <2>1, SnapshotReport, TagReport
<1> QED
  BY <1>1, <1>2, Keepers

-----------------------------------------------------------------------------
(* The brackets.                                                           *)

LEMMA KeptBracket ==
  ASSUME IInv, DbStep, Types', NEW q \in Procs, Keeps(q)
  PROVE  Bracket(q)'
<1>0. Types /\ Past /\ Grows /\ Bracket(q) /\ low[q] \in Nat /\ low[q] <= rev
  BY DEF IInv, Past, Types, PollTypes, DbStep
<1> SUFFICES ASSUME ~dry[q] PROVE Bracket(q)'
  BY DEF Keeps, Bracket
<1>1. ASSUME pc[q] = "rev" PROVE Clear(low[q])'
  <2>1. \A m \in Msgs : lastmod'[m] <= low[q] => Sure(m)'
    BY <1>0, <1>1, ClearStays DEF Bracket
  <2> QED
    BY <2>1 DEF Clear, Keeps
<1>2. ASSUME Classifying(q), NEW m \in Msgs PROVE Sure(m)' \/ (Same(m) /\ ~Sure(m))
  <2>1. CASE Same(m)
    BY <1>0, <2>1, SameSure
  <2>2. CASE Touched(m)
    BY <1>2, <2>2, Intrusion, SureIs, UntrustedIs
  <2> QED
    BY <2>1, <2>2 DEF DbStep
<1>3. ASSUME pc[q] = "delta", NEW m \in Msgs
      PROVE  Sure(m)' \/ (low'[q] < lastmod'[m] /\ lastmod'[m] <= cur'[q])
  <2>1. Classifying(q)
    BY <1>3 DEF Classifying
  <2>2. Sure(m)' \/ (Same(m) /\ ~Sure(m))
    BY <1>2, <2>1
  <2>3. ~Sure(m) => low[q] < lastmod[m] /\ lastmod[m] <= cur[q]
    BY <1>0, <1>3 DEF Bracket
  <2> QED
    BY <2>2, <2>3 DEF Same, Keeps
<1>4. ASSUME pc[q] = "tag", NEW m \in Msgs PROVE Sure(m)' \/ m \in Owed(q)'
  <2>1. Classifying(q)
    BY <1>4 DEF Classifying
  <2>2. Sure(m)' \/ (Same(m) /\ ~Sure(m))
    BY <1>2, <2>1
  <2>3. Owed(q)' = Owed(q)
    BY DEF Owed, Wanted, Keeps
  <2> QED
    BY <1>0, <1>4, <2>2, <2>3 DEF Bracket
<1>5. ASSUME Closing(q), NEW m \in Msgs PROVE Sure(m)'
  <2>1. Classifying(q)
    BY <1>5 DEF Classifying, Closing
  <2>2. Sure(m)' \/ (Same(m) /\ ~Sure(m))
    BY <1>2, <2>1
  <2> QED
    BY <1>0, <1>5, <2>2 DEF Bracket
<1>6. pc'[q] = pc[q] /\ (Closing(q)' <=> Closing(q))
  BY DEF Keeps, Closing
<1> QED
  BY <1>1, <1>3, <1>4, <1>5, <1>6, Zenon DEF Bracket

(* A step that leaves the database alone.                                  *)
LEMMA StillSure ==
  ASSUME IInv, DbStep, Types', UNCHANGED db, NEW m \in Msgs, Sure(m)
  PROVE  Sure(m)'
  BY SameSure DEF IInv, DbStep, Same, db

LEMMA FloorBracket ==
  ASSUME IInv, DbStep, Types', NEW p \in Procs, ReadFloor(p), ~dry[p]
  PROVE  Clear(low[p])'
<1>0. /\ Types /\ Past /\ Clear(floor) /\ floor \in Nat /\ floor <= rev
      /\ low \in [Procs -> Nat] /\ since \in Nat /\ since' \in Nat /\ lastmod' \in [Msgs -> Nat]
  BY DEF IInv, Past, Floors, Types, FileTypes, PollTypes, RestTypes, DbTypes
<1>1. CASE floor = NoFloor
  <2>1. low'[p] = low[p] /\ low[p] <= since'
    BY <1>0, <1>1, SMT DEF ReadFloor
  <2>2. \A m \in Msgs : lastmod'[m] <= low'[p] => lastmod'[m] <= since'
    BY <1>0, <2>1, SMT
  <2> QED
    BY <2>2, Zenon DEF Clear, Sure, Excused
<1>2. CASE floor # NoFloor
  <2>1. low'[p] = floor
    BY <1>0, <1>2 DEF ReadFloor
  <2>2. \A m \in Msgs : lastmod'[m] <= floor => Sure(m)'
    BY <1>0, ClearStays
  <2> QED
    BY <2>1, <2>2, Zenon DEF Clear
<1> QED
  BY <1>1, <1>2

LEMMA RevisionBracket ==
  ASSUME IInv, DbStep, Types', NEW p \in Procs, ReadRevision(p), pc'[p] = "delta", ~dry[p], NEW m \in Msgs
  PROVE  Sure(m)' \/ (low'[p] < lastmod'[m] /\ lastmod'[m] <= cur'[p])
<1>0. /\ pc \in [Procs -> PCs] /\ low \in [Procs -> Nat] /\ cur \in [Procs -> Nat] /\ Past /\ Bracket(p)
      /\ lastmod \in [Msgs -> Nat] /\ rev \in Nat
  BY DEF IInv, Types, PollTypes, DbTypes
<1>1. low' = low /\ cur'[p] = rev /\ pc[p] = "rev" /\ UNCHANGED db
  <2>1. ~Idle(p)
    BY <1>0 DEF Idle, Goto
  <2> QED
    BY <1>0, <2>1 DEF ReadRevision
<1>2. lastmod[m] <= low[p] => Sure(m)
  BY <1>0, <1>1 DEF Bracket, Clear
<1>3. lastmod[m] <= low[p] => Sure(m)'
  BY <1>1, <1>2, StillSure
<1>4. lastmod[m] <= rev /\ lastmod' = lastmod
  BY <1>0, <1>1 DEF Past, db
<1> QED
  BY <1>0, <1>1, <1>3, <1>4, SMT

LEMMA SnapshotBracket ==
  ASSUME IInv, DbStep, Types', NEW p \in Procs, Snapshot(p), ~dry[p], NEW m \in Msgs
  PROVE  Sure(m)' \/ m \in Owed(p)'
<1>0. DOMAIN todo = Procs /\ pc[p] = "delta" /\ Bracket(p) /\ UNCHANGED db
  BY DEF IInv, Types, PollTypes, Snapshot
<1>1. Sure(m) \/ (m \in Indexed /\ m \in Delta(p) /\ tags[m] # {path[m]})
  BY <1>0 DEF Bracket, Delta, Sure, Due
<1>2. todo'[p] = {n \in Delta(p) : tags[n] # {Winner(n)}}
  BY <1>0 DEF Snapshot
<1>3. tags[m] # {path[m]} => tags[m] # {Winner(m)}
  BY DEF Winner
<1>4. Sure(m) \/ m \in todo'[p]
  BY <1>1, <1>2, <1>3
<1> QED
  BY <1>0, <1>4, StillSure DEF Owed

LEMMA TagBracket ==
  ASSUME IInv, DbStep, Types', NEW p \in Procs, NEW t \in Msgs, Tag(p, t), ~dry[p], NEW m \in Msgs
  PROVE  Sure(m)' \/ m \in Owed(p)'
<1>0. /\ Types /\ Grows /\ Bracket(p) /\ pc[p] = "tag" /\ todo'[p] = todo[p] \ {t} /\ rep' = rep
      /\ rule'[m] = rule[m] /\ rule[m] # Inbox
  BY ReconcileAssumption, SMT DEF IInv, Types, PollTypes, DbTypes, DbStep, Grows, Tag
<1>1. Sure(m) \/ m \in Owed(p)
  BY <1>0 DEF Bracket
<1>2. Wanted(p)' = Wanted(p)
  BY <1>0 DEF Wanted
<1>3. CASE m # t
  <2>1. Same(m)
    BY <1>3, TagIs
  <2>2. m \in Owed(p) => m \in Owed(p)'
    BY <1>0, <1>2, <1>3 DEF Owed
  <2> QED
    BY <1>0, <1>1, <2>1, <2>2, SameSure
<1>4. CASE m = t
  <2>1. SUFFICES ASSUME Trusted(m)' PROVE Sure(m)' \/ m \in Owed(p)'
    BY UntrustedIs
  <2>2. Trusted(m)
    BY <2>1, Zenon DEF Trusted, DbStep, Grows
  <2>3. True(p, m) /\ tags'[m] = {rep[p][m].home} /\ path'[m] = path[m] /\ m \in DOMAIN rep[p]
    BY <1>4, <2>2, TagIs
  <2>4. rep[p][m].home = path'[m] \/ m \in Wanted(p)
    BY <1>0, <2>3 DEF True, Wanted
  <2>5. rep[p][m].home = path'[m] => Sure(m)'
    BY <2>3, SureIs
  <2> QED
    BY <1>2, <2>4, <2>5 DEF Owed
<1> QED
  BY <1>3, <1>4

LEMMA MoveBracket ==
  ASSUME IInv, DbStep, Types', NEW p \in Procs, Move(p), NEW m \in Msgs
  PROVE  Sure(m)'
<1>0. Types /\ Grows /\ Bracket(p) /\ pc[p] = "tag" /\ todo[p] = {} /\ ~dry[p]
      /\ rule'[m] = rule[m]
  BY DEF IInv, DbStep, Grows, Move, Wet
<1>1. Sure(m) \/ m \in Wanted(p)
  BY <1>0 DEF Bracket, Owed
<1> SUFFICES ASSUME Trusted(m)' PROVE Sure(m)'
  BY UntrustedIs
<1>2. Trusted(m)
  BY Zenon DEF Trusted, DbStep, Grows
<1>3. m \in Wanted(p) => rule[m] # None /\ True(p, m)
  BY <1>0, <1>2, WantedIs
<1>4. CASE Same(m) /\ m \notin Batch(p)
  <2>1. ASSUME m \in Wanted(p) PROVE FALSE
    <3>1. Batch(p) # Wanted(p)
      BY <1>4, <2>1
    <3>2. met'
      BY <3>1, Zenon DEF Move
    <3> QED
      BY <1>0, <1>3, <2>1, <3>2, Zenon DEF Trusted
  <2> QED
    BY <1>0, <1>1, <1>4, <2>1, SameSure
<1>5. CASE m \in Batch(p) /\ path'[m] = rep[p][m].home
  <2>1. m \in Wanted(p)
    BY <1>5 DEF Batch
  <2>2. tags'[m] = {rep[p][m].home}
    BY <1>0, <1>3, <2>1, MoveIs DEF True
  <2> QED
    BY <1>5, <2>2, SureIs
<1> QED
  BY <1>4, <1>5, MoveIs

LEMMA ActorBracket ==
  ASSUME IInv, DbStep, Types', NEW p \in Procs, Steps(p)
  PROVE  Bracket(p)'
<1>0. IInv /\ Types /\ Bracket(p)
  BY DEF IInv
<1>1. CASE pc'[p] \in {"idle", "floor", "dry"}
  BY <1>1 DEF Bracket, Closing
<1>2. ASSUME dry'[p] = dry[p], dry[p] PROVE Bracket(p)'
  BY <1>2 DEF Bracket
<1>3. ASSUME dry'[p] = dry[p], ~dry[p], pc'[p] = "rev", ReadFloor(p) PROVE Bracket(p)'
  <2>1. Clear(low[p])'
    BY <1>3, FloorBracket
  <2> QED
    BY <1>3, <2>1 DEF Bracket, Closing
<1>4. ASSUME dry'[p] = dry[p], ~dry[p], pc'[p] = "delta", ReadRevision(p) PROVE Bracket(p)'
  <2>1. \A m \in Msgs : Sure(m)' \/ (low'[p] < lastmod'[m] /\ lastmod'[m] <= cur'[p])
    BY <1>4, RevisionBracket
  <2> QED
    BY <1>4, <2>1 DEF Bracket, Closing
<1>5. ASSUME dry'[p] = dry[p], ~dry[p], pc'[p] = "tag", Snapshot(p) \/ \E t \in Msgs : Tag(p, t)
      PROVE  Bracket(p)'
  <2>1. \A m \in Msgs : Sure(m)' \/ m \in Owed(p)'
    BY <1>5, SnapshotBracket, TagBracket
  <2> QED
    BY <1>5, <2>1 DEF Bracket, Closing
<1>6. ASSUME \A m \in Msgs : Sure(m)', Closing(p)' PROVE Bracket(p)'
  BY <1>6 DEF Bracket, Closing
<1>7. ASSUME Move(p) PROVE \A m \in Msgs : Sure(m)'
  BY <1>7, MoveBracket
<1>8. ASSUME MoveSkipped(p) PROVE \A m \in Msgs : Sure(m)'
  BY <1>8, Zenon DEF MoveSkipped, Sure, Excused
<1>9. ASSUME Closing(p), Closing(p)' PROVE \A m \in Msgs : Sure(m)'
  <2>1. \A m \in Msgs : Sure(m)
    BY <1>0, <1>9 DEF Bracket, IInv, Wet
  <2>2. ~Idle(p)
    BY <1>9 DEF Idle, Goto, Closing, IInv, Types, PollTypes
  <2>3. UNCHANGED db
    <3>1. ReadFinal(p) \/ Open(p) \/ WriteTmp(p) \/ Compare(p) \/ Rename(p)
      <4>1. ASSUME NEW isDry \in BOOLEAN, New(p, isDry) PROVE FALSE
        BY <1>9, <4>1 DEF New, Closing
      <4>2. ASSUME ReadFloor(p) \/ ReadRevision(p) \/ Snapshot(p) \/ DryRun(p) \/ Move(p)
                   \/ MoveSkipped(p) \/ \E t \in Msgs : Tag(p, t)
            PROVE FALSE
        BY <1>9, <4>2 DEF ReadFloor, ReadRevision, Snapshot, DryRun, Move, MoveSkipped, Tag, Closing
      <4>3. ~Fails(p) /\ ~WriteFails(p)
        BY <2>2 DEF Fails, WriteFails
      <4> QED
        BY <4>1, <4>2, <4>3, Zenon DEF Steps, Poll, Trouble
    <3> QED
      BY <3>1, Zenon DEF ReadFinal, Open, WriteTmp, Compare, Rename
  <2> QED
    BY <2>1, <2>3, StillSure
<1>10. pc'[p] = "final" => Closing(p)'
  BY DEF Closing
<1> QED
  BY <1>1, <1>2, <1>3, <1>4, <1>5, <1>6, <1>7, <1>8, <1>9, <1>10, Walks, Zenon

-----------------------------------------------------------------------------
(* The floor and what may become it.                                       *)

LEMMA FloorsStep == ASSUME IInv, Next PROVE Floors'
<1>0. /\ Types /\ Types' /\ Past /\ Past' /\ DbStep /\ Floors /\ floor \in Nat /\ floor <= rev
      /\ (tmp # NoTmp => tmp \in Nat /\ tmp <= rev)
  BY StepIs, PastStep DEF IInv, Types, FileTypes, Past
<1>1. floor' = floor => Clear(floor)'
  <2>1. \A m \in Msgs : lastmod'[m] <= floor => Sure(m)'
    BY <1>0, ClearStays DEF Floors
  <2> QED
    BY <2>1, Zenon DEF Clear
<1>2. ASSUME tmp # NoTmp PROVE \A m \in Msgs : lastmod'[m] <= tmp => Sure(m)'
  BY <1>0, <1>2, ClearStays DEF Floors
<1>3. tmp' = tmp => (tmp' # NoTmp => Clear(tmp)')
  BY <1>2, Zenon DEF Clear
<1>4. CASE UNCHANGED <<floor, tmp>>
  BY <1>1, <1>3, <1>4 DEF Floors
<1>5. ASSUME NEW p \in Procs, Open(p) PROVE Floors'
  <2>1. tmp' = 0 /\ floor' = floor
    BY <1>5 DEF Open, files, NoFloor
  <2>2. \A m \in Msgs : lastmod'[m] <= 0 => m \notin Indexed'
    BY <1>0, SMT DEF Past, Types, DbTypes
  <2>3. Clear(tmp)'
    BY <2>1, <2>2, Zenon DEF Clear, Sure
  <2> QED
    BY <1>1, <2>1, <2>3 DEF Floors
<1>6. ASSUME NEW p \in Procs, WriteTmp(p) PROVE Floors'
  <2>1. pc[p] = "write" /\ UNCHANGED db
    BY <1>6 DEF WriteTmp
  <2>2. \A m \in Msgs : Sure(m)
    BY <2>1 DEF IInv, Wet, Bracket, Closing
  <2>3. \A m \in Msgs : Sure(m)'
    BY <1>0, <2>1, <2>2, StillSure
  <2> QED
    BY <2>3, Zenon DEF Floors, Clear
<1>7. ASSUME NEW p \in Procs, Compare(p) PROVE Floors'
  <2>1. floor' = floor /\ (tmp' = tmp \/ tmp' = NoTmp)
    BY <1>7, Zenon DEF Compare
  <2> QED
    BY <1>1, <1>3, <2>1 DEF Floors
<1>8. ASSUME NEW p \in Procs, Rename(p) PROVE Floors'
  <2>1. UNCHANGED <<floor, tmp>> \/ (tmp # NoTmp /\ floor' = tmp /\ tmp' = NoTmp)
    BY <1>8, Zenon DEF Rename
  <2>2. ASSUME tmp # NoTmp, floor' = tmp PROVE Clear(floor)'
    BY <1>2, <2>2, Zenon DEF Clear
  <2> QED
    BY <1>4, <2>1, <2>2 DEF Floors
<1>9. ASSUME Outside PROVE UNCHANGED <<floor, tmp>>
  BY <1>9, OutsideDb DEF files
<1>10. ASSUME NEW p \in Procs, Steps(p)
       PROVE  UNCHANGED <<floor, tmp>> \/ Open(p) \/ WriteTmp(p) \/ Compare(p) \/ Rename(p)
  BY <1>10, Zenon DEF Steps, Poll, Trouble, New, ReadFloor, ReadRevision, Snapshot, Tag, Move,
     MoveSkipped, DryRun, Fails, WriteFails, ReadFinal, files
<1> QED
  BY <1>4, <1>5, <1>6, <1>7, <1>8, <1>9, <1>10, NextIs

-----------------------------------------------------------------------------
(* The theorems.                                                           *)

LEMMA InitIInv == Init => IInv
<1> SUFFICES ASSUME Init PROVE IInv
  OBVIOUS
<1>1. \A m \in Msgs : /\ path[m] = loc[m] /\ tags[m] = {loc[m]} \ {None}
                      /\ lastmod[m] = (IF loc[m] = None THEN 0 ELSE 1)
  BY DEF Init
<1>2. DbTypes
  <2>1. tags \in [Msgs -> SUBSET Homes]
    BY SMT DEF Init
  <2>2. lastmod \in [Msgs -> Nat]
    BY SMT DEF Init
  <2> QED
    BY <2>1, <2>2, SMT DEF Init, DbTypes, Places
<1>3. FileTypes /\ RestTypes
  <2>1. floor \in {0, 1} /\ tmp = NoTmp /\ since = 0 /\ changes = 0 /\ faults = 0
    BY DEF Init, NoFloor
  <2>2. fd \in [Procs -> {"closed", "tmp", "floor", "gone"}]
    BY DEF Init
  <2>3. user = NoUser /\ met = FALSE /\ raced = FALSE
    BY DEF Init
  <2>4. FileTypes
    BY <2>1, <2>2 DEF FileTypes
  <2>5. RestTypes
    <3> HIDE DEF NoUser
    <3> QED
      BY <2>1, <2>3 DEF RestTypes
  <2> QED
    BY <2>4, <2>5
<1>4. \A p \in Procs : pc[p] = "idle" /\ low[p] = 0 /\ cur[p] = 0 /\ final[p] = 0
  BY DEF Init
<1>5. PollTypes
  <2>1. "idle" \in PCs
    BY DEF PCs
  <2>2. \A p \in Procs : Report(p)
    BY DEF Init, Report, NoReport
  <2> QED
    BY <2>1, <2>2, SMT DEF Init, PollTypes
<1>6. Past
  <2>1. rev = 1 /\ floor \in {0, 1} /\ tmp = NoTmp /\ since = 0
    BY DEF Init, NoFloor
  <2>2. \A m \in Msgs : lastmod[m] <= rev /\ (m \in Indexed => lastmod[m] > 0)
    BY <1>1, <2>1, SMT DEF Indexed
  <2> QED
    BY <1>4, <2>1, <2>2, SMT DEF Past
<1>7. \A m \in Msgs : Sure(m)
  BY <1>1 DEF Sure, Indexed, Due
<1>8. Floors
  BY <1>7 DEF Floors, Clear, Init
<1>9. Alone /\ Wet /\ Reports /\ \A p \in Procs : Bracket(p)
  BY <1>4 DEF Alone, Wet, Reports, Bracket, Classifying, Closing
<1> QED
  BY <1>2, <1>3, <1>5, <1>6, <1>8, <1>9 DEF IInv, Types

LEMMA NextIInv == IInv /\ [Next]_vars => IInv'
<1> SUFFICES ASSUME IInv, [Next]_vars PROVE IInv'
  OBVIOUS
<1>1. CASE Next
  <2>1. Types' /\ DbStep
    BY <1>1, StepIs
  <2>2. \A q \in Procs : Bracket(q)'
    BY <1>1, <2>1, Keepers, KeptBracket, ActorBracket
  <2> QED
    BY <1>1, <2>1, <2>2, PastStep, AloneStep, WetStep, ReportsStep, FloorsStep DEF IInv
<1>2. CASE UNCHANGED vars
  <2>1. Types' /\ Past'
    BY <1>2, Zenon DEF vars, db, files, poll, history, IInv, Types, DbTypes, FileTypes, PollTypes,
       RestTypes, Report, Past, Indexed
  <2>2. Alone' /\ Wet' /\ Reports'
    BY <1>2, Zenon DEF vars, db, files, poll, history, IInv, Alone, Wet, Reports, Classifying, Closing,
       True, Indexed
  <2>3. Floors' /\ \A p \in Procs : Bracket(p)'
    BY <1>2, Zenon DEF vars, db, files, poll, history, IInv, Floors, Bracket, Clear, Sure, Excused,
       Owed, Wanted, Closing, Indexed, Due
  <2> QED
    BY <2>1, <2>2, <2>3 DEF IInv
<1> QED
  BY <1>1, <1>2

(* The inductive invariant: the types, and what the polls may still rely on *)
(* and owe to the messages of their brackets.                              *)
THEOREM SpecIInv == Spec => []IInv
  BY InitIInv, NextIInv, PTL DEF Spec

(* Every variable has its type.                                            *)
THEOREM SpecTypeOK == Spec => []TypeOK
<1>1. IInv => TypeOK
  BY Zenon DEF IInv, Types, DbTypes, FileTypes, PollTypes, RestTypes, Report, Places, TypeOK
<1> QED
  BY <1>1, SpecIInv, PTL

(* writeLastClassify never leaves a floor, nor a temporary file that may     *)
(* still be renamed to it, above the revision of the database, whatever      *)
(* the processes that share the file interleave.                           *)
THEOREM SpecFloorIsPast == Spec => []FloorIsPast
<1>1. IInv => FloorIsPast
  BY DEF IInv, Past, FloorIsPast
<1> QED
  BY <1>1, SpecIInv, PTL

(* pollReconcile leaves no message behind: one below the floor lies where    *)
(* its tags say, unless a change raced a classification, or it last changed *)
(* before a poll began that found no floor.                                *)
THEOREM SpecNothingForgotten == Spec => []NothingForgotten
<1>1. IInv => NothingForgotten
  BY Zenon DEF IInv, Floors, Clear, Sure, Excused, NothingForgotten, Forgotten
<1> QED
  BY <1>1, SpecIInv, PTL

=============================================================================
