--------------------------- MODULE Refresh_proofs ---------------------------
(***************************************************************************)
(* The refresher loses no change and resurrects no row, for every mailbox, *)
(* every set of views and every bound: IInv of Refresh is inductive, and   *)
(* it implies NoMissedRow and NoAlienRow.                                  *)
(***************************************************************************)
EXTENDS Refresh, TLAPS

USE RefreshAssumption DEF Units, Contents, Rows

\* A step of the database that keeps its uuid.
DBStep ==
  \/ \E m \in Msgs : Retag(m) \/ Expunge(m)
  \/ \E m \in Msgs, to, from \in Threads : Arrive(m, to, from)

-----------------------------------------------------------------------------
\* Every write to the database stamps what it touches: a unit that is still
\* settled at an earlier revision was settled before, and its answer is the
\* same (external notmuch semantics: lastmod, thread joins).
LEMMA Undisturbed ==
  ASSUME TypeOK, DBStep, NEW u \in Units, NEW r \in Nat, r <= rev, Settled(u, r)'
  PROVE  /\ Settled(u, r)
         /\ Members(active, u)' = Members(active, u)
         /\ \A n \in Members(active, u) : mod'[n] = mod[n]
         /\ Content(active, u)' = Content(active, u)
         /\ Matches(active, u)' <=> Matches(active, u)
         /\ Answer(active)'[u] = Answer(active)[u]
<1>1. /\ active' = active /\ shrunk \subseteq shrunk'
      /\ u \notin shrunk' /\ \A n \in Members(active, u)' : mod'[n] <= r
  BY DEF DBStep, Retag, Expunge, Arrive, Settled, viewVars
<1>2. /\ Members(active, u)' = Members(active, u)
      /\ \A n \in Members(active, u) : mod'[n] = mod[n] /\ tags'[n] = tags[n]
  <2>1. CASE \E m \in Msgs : Retag(m)
    <3> PICK m \in Msgs : Retag(m) BY <2>1
    <3>1. m \notin Members(active, u)' /\ Members(active, u)' = Members(active, u)
      BY <1>1 DEF Retag, Members, UnitOf, Live, TypeOK, viewVars
    <3> QED BY <3>1 DEF Retag, TypeOK, Members, Live
  <2>2. CASE \E m \in Msgs : Expunge(m)
    <3> PICK m \in Msgs : Expunge(m) BY <2>2
    <3>1. m # u /\ thread[m] # u
      BY <1>1 DEF Expunge
    <3>2. m \notin Members(active, u) /\ m \notin Members(active, u)'
      BY <3>1 DEF Expunge, Members, UnitOf, Live, viewVars, TypeOK
    <3> QED BY <3>2, <1>1 DEF Expunge, Members, UnitOf, Live, viewVars, TypeOK
  <2>3. CASE \E m \in Msgs, to, from \in Threads : Arrive(m, to, from)
    <3> PICK m \in Msgs, to \in Threads, from \in Threads : Arrive(m, to, from)
      BY <2>3
    <3> DEFINE moved == {n \in Live : thread[n] = from /\ from # to}
    <3>1. /\ m \notin Live
          /\ mod' = [n \in Msgs |-> IF n = m \/ n \in moved THEN rev + 1 ELSE mod[n]]
          /\ thread' = [n \in Msgs |-> IF n = m \/ n \in moved THEN to ELSE thread[n]]
          /\ shrunk' = shrunk \cup {thread[n] : n \in moved}
          /\ \E T \in SUBSET Tags : tags' = [tags EXCEPT ![m] = T]
      BY DEF Arrive
    <3>2. m \notin Members(active, u)' /\ \A n \in moved : n \notin Members(active, u)'
      BY <3>1, <1>1 DEF TypeOK, Members, Live
    <3>3. \A n \in moved : n \notin Members(active, u)
      <4>1. TAKE n \in moved
      <4>2. CASE active \in Flat
        BY <3>1, <3>2, <4>2, <1>1 DEF TypeOK, Members, Live, UnitOf
      <4>3. CASE active \notin Flat
        BY <3>1, <4>3, <1>1 DEF TypeOK, Members, Live, UnitOf
      <4> QED BY <4>2, <4>3
    <3>4. m \notin Members(active, u)
      BY <3>1 DEF Members
    <3> HIDE DEF moved
    <3>5. \A n \in Msgs : n # m /\ n \notin moved =>
            mod'[n] = mod[n] /\ thread'[n] = thread[n] /\ tags'[n] = tags[n]
      BY <3>1 DEF TypeOK
    <3>6. Members(active, u)' = Members(active, u)
      BY <3>2, <3>3, <3>4, <3>5, <1>1 DEF Members, Live, UnitOf
    <3> QED BY <3>3, <3>4, <3>5, <3>6 DEF Members, Live
  <2> QED BY <2>1, <2>2, <2>3 DEF DBStep
<1>3. Content(active, u)' = Content(active, u)
  BY <1>1, <1>2 DEF Content
<1>4. Matches(active, u)' <=> Matches(active, u)
  BY <1>1, <1>2 DEF Matches
<1>5. Settled(u, r)
  BY <1>1, <1>2 DEF Settled
<1> QED BY <1>1, <1>2, <1>3, <1>4, <1>5 DEF Answer

\* What a query answers is a row set.
LEMMA AnswerType ==
  ASSUME TypeOK
  PROVE  /\ \A u \in Units : Content(active, u) \in Contents
         /\ Answer(active) \in Rows
         /\ Matched(active) \subseteq Units
         /\ \A u \in Units : Answer(active)[u] # {} => u \in Matched(active)
<1>1. \A u \in Units : Content(active, u) \in Contents
  BY DEF Content, Members, Live, TypeOK
<1> QED BY <1>1 DEF Answer, Matched

-----------------------------------------------------------------------------
\* Every variable keeps its type, whatever the database, the user and the
\* refresher do.
LEMMA TypeStep == ASSUME TypeOK, [Next]_vars PROVE TypeOK'
<1> USE AnswerType DEF TypeOK
<1>1. ASSUME NEW m \in Msgs, Retag(m) PROVE TypeOK'
  BY <1>1 DEF Retag, viewVars, cfgVars, callVars, refVars
<1>2. ASSUME NEW m \in Msgs, Expunge(m) PROVE TypeOK'
  BY <1>2 DEF Expunge, viewVars, cfgVars, callVars, refVars
<1>3. ASSUME NEW m \in Msgs, NEW to \in Threads, NEW from \in Threads,
             Arrive(m, to, from)
      PROVE TypeOK'
  BY <1>3 DEF Arrive, Live, viewVars, cfgVars, callVars, refVars
<1>4. CASE Rebuild
  BY <1>4 DEF Rebuild, viewVars, cfgVars, callVars, refVars
<1>5. ASSUME NEW v \in Views, SelectView(v) PROVE TypeOK'
  BY <1>5 DEF SelectView, dbVars, viewVars, callVars, refVars
<1>6. CASE ReadRevision
  BY <1>6 DEF ReadRevision, dbVars, viewVars, cfgVars
<1>7. CASE Abort
  BY <1>7 DEF Abort, Return, NoRows, dbVars, viewVars, cfgVars, refVars
<1>8. CASE Changed
  <2> DEFINE hit == ChangedUnits(active, rPrev, curRev)
  <2>1. hit \subseteq Units /\ Overlay(NoRows, hit, [u \in Units |-> Content(active, u)]) \in Rows
    BY DEF ChangedUnits, Overlay, NoRows
  <2> HIDE DEF hit
  <2>2. \/ hit = {} /\ rPrev' = curRev /\ Return
        \/ /\ page' = Overlay(NoRows, hit, [u \in Units |-> Content(active, u)])
           /\ named' = hit /\ todo' = hit /\ pc' = "prune"
           /\ UNCHANGED <<curUuid, curRev, kept, result, painted, byCycle, rPrev>>
    BY <1>8 DEF Changed, hit
  <2>3. CASE pc' = "idle"
    <3>1. rPrev' = curRev /\ Return
      BY <2>2, <2>3
    <3> QED BY <1>8, <3>1 DEF Changed, Return, NoRows, dbVars, viewVars, cfgVars
  <2>4. CASE pc' = "prune"
    <3>1. /\ page' \in Rows /\ named' \subseteq Units /\ todo' \subseteq Units
          /\ UNCHANGED <<curUuid, curRev, kept, result, painted, byCycle, rPrev>>
      BY <2>1, <2>2, <2>4 DEF Return
    <3> QED BY <1>8, <2>4, <3>1 DEF Changed, dbVars, viewVars, cfgVars
  <2> QED BY <2>2, <2>3, <2>4 DEF Return
<1>9. CASE Prune
  BY <1>9 DEF Prune, Without, dbVars, viewVars, cfgVars
<1>10. CASE Fetch
  BY <1>10 DEF Fetch, dbVars, viewVars, cfgVars, refVars
<1>11. CASE Merge
  BY <1>11 DEF Merge, Return, NoRows, Overlay, dbVars, cfgVars
<1>12. CASE OnConfig
  <2>1. cfgEvents' \in Nat /\ view' \in Rows /\ active' \in Views
    BY <1>12 DEF OnConfig, NoRows
  <2> QED BY <1>12, <2>1 DEF OnConfig, dbVars, callVars
<1>13. CASE Preload
  <2>1. snapshot' \in Rows /\ view' \in Rows
    BY <1>13 DEF Preload, NoRows, Overlay
  <2> QED BY <1>13, <2>1 DEF Preload, dbVars, cfgVars, callVars
<1>14. CASE OpenWalk
  BY <1>14 DEF OpenWalk, viewVars, cfgVars, refVars
<1>15. CASE Chunk
  BY <1>15 DEF Chunk, Without, dbVars, cfgVars
<1>16. CASE EndWalk
  <2>1. rUuid' \in Nat /\ rPrev' \in Nat
    BY <1>16 DEF EndWalk, Consumed
  <2>2. snapshot' \in Rows /\ view' \in Rows
    BY <1>16 DEF EndWalk, NoRows
  <2> QED BY <1>16, <2>1, <2>2 DEF EndWalk, Return, NoRows, dbVars, cfgVars
<1>17. CASE FailWalk
  BY <1>17 DEF FailWalk, Consumed, Return, NoRows, dbVars, cfgVars, viewVars
<1>18. CASE UNCHANGED vars
  BY <1>18 DEF vars, dbVars, viewVars, cfgVars, callVars, refVars
<1> QED BY <1>1, <1>2, <1>3, <1>4, <1>5, <1>6, <1>7, <1>8, <1>9, <1>10, <1>11,
           <1>12, <1>13, <1>14, <1>15, <1>16, <1>17, <1>18
        DEF Next, Database, User, Refresher

\* What the refresher read or consumed is never ahead of the database.
LEMMA RangeStep == ASSUME TypeOK, InRange, [Next]_vars PROVE InRange'
<1> USE DEF TypeOK, InRange, Cycling, Loading
<1>1. CASE Database
  BY <1>1 DEF Database, Retag, Expunge, Arrive, Rebuild, callVars, refVars
<1>2. CASE User
  BY <1>2 DEF User, SelectView, dbVars, callVars, refVars
<1>3. CASE ReadRevision \/ Abort
  BY <1>3 DEF ReadRevision, Abort, Return, dbVars, refVars
<1>4. CASE Changed
  BY <1>4 DEF Changed, Return, dbVars
<1>5. CASE Prune \/ Fetch
  BY <1>5 DEF Prune, Fetch, dbVars, refVars
<1>6. CASE Merge
  BY <1>6 DEF Merge, Return, dbVars
<1>7. CASE OnConfig \/ Preload
  BY <1>7 DEF OnConfig, Preload, dbVars, callVars
<1>8. CASE OpenWalk \/ Chunk
  BY <1>8 DEF OpenWalk, Chunk, dbVars, refVars
<1>9. CASE EndWalk \/ FailWalk
  BY <1>9 DEF EndWalk, FailWalk, Consumed, Return, dbVars
<1>10. CASE UNCHANGED vars
  BY <1>10 DEF vars, dbVars, callVars, refVars
<1> QED BY <1>1, <1>2, <1>3, <1>4, <1>5, <1>6, <1>7, <1>8, <1>9, <1>10
        DEF Next, Refresher

-----------------------------------------------------------------------------
\* A change of the database disturbs none of the agreements of IInv: it only
\* unsettles units.
LEMMA DatabaseStep ==
  ASSUME IInv, DBStep
  PROVE  Shown' /\ PageCurrent' /\ WalkCurrent'
<1> USE DEF IInv
<1>1. /\ uuid' = uuid
      /\ UNCHANGED <<viewVars, cfgVars, callVars, refVars, pc>>
  BY DEF DBStep, Retag, Expunge, Arrive
<1>2. ASSUME NEW u \in Units, NEW r \in Nat, r <= rev, Settled(u, r)'
      PROVE  /\ Settled(u, r)
             /\ Content(active, u)' = Content(active, u)
             /\ Matches(active, u)' <=> Matches(active, u)
             /\ Answer(active)'[u] = Answer(active)[u]
  BY <1>2, Undisturbed
<1>3. Shown'
  <2>1. SUFFICES ASSUME loaded, rUuid = uuid, NEW u \in Units, Settled(u, rPrev)'
                 PROVE  snapshot[u] = Answer(active)'[u] /\ view[u] = Answer(active)'[u]
    BY <1>1 DEF Shown, refVars, viewVars, Settled
  <2>2. rPrev' = rPrev /\ rPrev \in Nat /\ rPrev <= rev
    BY <1>1, <2>1 DEF refVars, TypeOK, InRange
  <2>3. Settled(u, rPrev) /\ Answer(active)'[u] = Answer(active)[u]
    BY <1>2, <2>1, <2>2 DEF Settled
  <2> QED BY <2>1, <2>3 DEF Shown
<1>4. PageCurrent'
  <2>1. SUFFICES ASSUME pc \in {"prune", "fetch"}, rUuid = uuid,
                        NEW u \in Units, Settled(u, curRev)'
                 PROVE  /\ u \notin named => Settled(u, rPrev)'
                        /\ u \in named => page[u] = Content(active, u)'
                        /\ u \in named /\ (pc = "prune" => u \notin todo) =>
                             (u \in kept <=> Matches(active, u)')
    BY <1>1 DEF PageCurrent, refVars, viewVars, callVars
  <2>2. curRev' = curRev /\ curRev \in Nat /\ curRev <= rev /\ rPrev' = rPrev
    BY <1>1, <2>1 DEF callVars, refVars, TypeOK, InRange, Cycling
  <2>3. /\ Settled(u, curRev)
        /\ Content(active, u)' = Content(active, u)
        /\ Matches(active, u)' <=> Matches(active, u)
    BY <1>2, <2>1, <2>2 DEF Settled
  <2>4. u \notin named => Settled(u, rPrev)
    BY <2>1, <2>3 DEF PageCurrent
  <2>5. u \notin named => Settled(u, rPrev)'
    <3>1. ASSUME u \notin named PROVE Settled(u, rPrev)'
      <4>1. Members(active, u)' = Members(active, u)
        BY <2>1, <2>2, Undisturbed DEF Settled
      <4>2. \A m \in Members(active, u)' : mod'[m] = mod[m]
        BY <4>1, <2>1, <2>2, Undisturbed DEF Settled
      <4> QED BY <3>1, <2>2, <2>4, <4>1, <4>2, <2>1 DEF Settled
    <3> QED BY <3>1
  <2> QED BY <2>1, <2>3, <2>5 DEF PageCurrent
<1>5. WalkCurrent'
  <2>1. SUFFICES ASSUME pc = "walk"
                 PROVE  /\ byCycle /\ curUuid = uuid =>
                             \A u \in Units : Settled(u, curRev)' => result[u] = Answer(active)'[u]
                        /\ ~byCycle /\ rUuid = uuid =>
                             \A u \in Units : Settled(u, rPrev)' => result[u] = Answer(active)'[u]
    BY <1>1 DEF WalkCurrent, refVars, viewVars, callVars, Without
  <2>2. curRev' = curRev /\ rPrev' = rPrev /\ curRev \in Nat /\ rPrev \in Nat
    BY <1>1 DEF callVars, refVars, TypeOK
  <2>3. ASSUME byCycle, curUuid = uuid, NEW u \in Units, Settled(u, curRev)'
        PROVE  result[u] = Answer(active)'[u]
    BY <1>2, <2>1, <2>2, <2>3 DEF WalkCurrent, InRange, Settled
  <2>4. ASSUME ~byCycle, rUuid = uuid, NEW u \in Units, Settled(u, rPrev)'
        PROVE  result[u] = Answer(active)'[u]
    BY <1>2, <2>1, <2>2, <2>4 DEF WalkCurrent, InRange, Settled
  <2> QED BY <2>3, <2>4
<1> QED BY <1>3, <1>4, <1>5

\* After Rebuild nothing of the old database counts as known.
LEMMA RebuildStep ==
  ASSUME IInv, Rebuild PROVE Shown' /\ PageCurrent' /\ WalkCurrent'
<1>1. /\ rUuid' # uuid' /\ curUuid' # uuid'
      /\ UNCHANGED <<viewVars, cfgVars, callVars, refVars, pc>>
  BY DEF IInv, InRange, Rebuild, TypeOK, refVars, callVars
<1> QED BY <1>1 DEF IInv, Shown, PageCurrent, WalkCurrent, viewVars, cfgVars,
                    callVars, refVars, Without

\* A step of the refresher that leaves the database and the view's identity
\* alone leaves every answer alone.
LEMMA SameAnswers ==
  ASSUME UNCHANGED dbVars, active' = active
  PROVE  /\ shrunk' = shrunk /\ mod' = mod /\ uuid' = uuid /\ rev' = rev
         /\ Answer(active)' = Answer(active)
         /\ \A u : /\ Content(active, u)' = Content(active, u)
                   /\ Members(active, u)' = Members(active, u)
                   /\ Matches(active, u)' <=> Matches(active, u)
BY DEF Answer, Content, Matches, Members, Live, UnitOf, Settled, dbVars

\* Nothing the agreements of IInv speak of changes when the user selects a view.
LEMMA QuietStep ==
  ASSUME IInv,
         UNCHANGED <<dbVars, viewVars, callVars, refVars, pc>>
  PROVE  Shown' /\ PageCurrent' /\ WalkCurrent'
<1>1. Shown'
  BY SameAnswers DEF IInv, Shown, Settled, viewVars, refVars
<1>2. PageCurrent'
  BY SameAnswers DEF IInv, PageCurrent, Settled, viewVars, refVars, callVars
<1>3. WalkCurrent'
  BY SameAnswers DEF IInv, WalkCurrent, Settled, Without, viewVars, refVars, callVars
<1> QED BY <1>1, <1>2, <1>3

LEMMA ReadRevisionStep ==
  ASSUME IInv, ReadRevision PROVE Shown' /\ PageCurrent' /\ WalkCurrent'
<1> USE DEF IInv, ReadRevision, viewVars
<1>1. PageCurrent' /\ WalkCurrent'
  BY DEF PageCurrent, WalkCurrent
<1>2. CASE uuid # rUuid
  BY <1>1, <1>2 DEF Shown
<1>3. CASE uuid = rUuid
  BY <1>1, <1>3, SameAnswers DEF Shown, Settled
<1> QED BY <1>2, <1>3

LEMMA AbortStep ==
  ASSUME IInv, Abort PROVE Shown' /\ PageCurrent' /\ WalkCurrent'
<1>1. PageCurrent' /\ WalkCurrent'
  BY DEF Abort, Return, PageCurrent, WalkCurrent
<1>2. Shown'
  BY SameAnswers DEF IInv, Abort, Shown, Settled, viewVars, refVars
<1> QED BY <1>1, <1>2

\* A changed set names every unit the database stamped in its range; the
\* others have not changed since the revision consumed before.
LEMMA ChangedStep ==
  ASSUME IInv, Changed PROVE Shown' /\ PageCurrent' /\ WalkCurrent'
<1> DEFINE hit == ChangedUnits(active, rPrev, curRev)
<1>1. ASSUME NEW u \in Units \ hit, Settled(u, curRev) PROVE Settled(u, rPrev)
  BY <1>1 DEF ChangedUnits, Settled, IInv, TypeOK, Members, Live
<1> HIDE DEF hit
<1>2. \/ hit = {} /\ rPrev' = curRev /\ Return
      \/ /\ page' = Overlay(NoRows, hit, [u \in Units |-> Content(active, u)])
         /\ named' = hit /\ todo' = hit /\ pc' = "prune"
         /\ UNCHANGED <<curUuid, curRev, kept, result, painted, byCycle, rPrev>>
  BY DEF Changed, hit
<1>3. /\ UNCHANGED <<dbVars, active, view, rUuid, snapshot, loaded>>
      /\ pc = "changed"
  BY DEF Changed, viewVars
<1>4. WalkCurrent'
  BY <1>2, <1>3 DEF WalkCurrent, Return
<1>5. CASE hit = {} /\ rPrev' = curRev /\ Return
  <2>1. PageCurrent'
    BY <1>5 DEF PageCurrent, Return
  <2>2. Shown'
    BY <1>1, <1>3, <1>5, SameAnswers DEF Shown, Settled, IInv, dbVars
  <2> QED BY <1>4, <2>1, <2>2
<1>6. CASE pc' = "prune"
  <2>1. /\ page' = Overlay(NoRows, hit, [u \in Units |-> Content(active, u)])
        /\ named' = hit /\ todo' = hit /\ kept' = kept /\ rPrev' = rPrev /\ curRev' = curRev
    BY <1>2, <1>6 DEF Return
  <2>2. Shown'
    BY <1>3, <2>1, SameAnswers DEF Shown, Settled, IInv
  <2>3. kept' = {}
    BY <1>3, <2>1 DEF IInv, InRange
  <2>4. ASSUME NEW u \in Units, Settled(u, curRev)'
        PROVE  /\ u \notin named' => Settled(u, rPrev)'
               /\ u \in named' => page'[u] = Content(active, u)'
    BY <1>1, <1>3, <2>1, <2>4, SameAnswers DEF Settled, Overlay
  <2>5. PageCurrent'
    BY <1>6, <2>1, <2>3, <2>4 DEF PageCurrent
  <2> QED BY <1>4, <2>2, <2>5
<1> QED BY <1>2, <1>5, <1>6

\* Pruning takes from the snapshot only units the query did not answer, and
\* a unit that is still settled has not come back since it was asked for.
LEMMA PruneStep ==
  ASSUME IInv, Prune PROVE Shown' /\ PageCurrent' /\ WalkCurrent'
<1> USE DEF IInv
<1>1. PICK S \in SUBSET todo :
        /\ kept' = kept \cup (S \cap Matched(active))
        /\ \/ /\ S # todo
              /\ todo' = todo \ S
              /\ UNCHANGED <<snapshot, pc>>
           \/ /\ S = todo
              /\ snapshot' = Without(snapshot, named \ kept')
              /\ todo' = IF active \in Flat THEN {} ELSE {u \in kept' : view[u] # {}}
              /\ pc' = "fetch"
  BY DEF Prune
<1>2. /\ UNCHANGED <<dbVars, active, view, rUuid, rPrev, loaded, curRev, page, named>>
      /\ pc = "prune"
      /\ todo \subseteq named /\ kept \subseteq named /\ todo \cap kept = {}
      /\ named \subseteq Units
  BY DEF Prune, viewVars, PageCurrent, TypeOK
<1>3. ASSUME rUuid = uuid, NEW u \in Units, Settled(u, curRev)
      PROVE  /\ u \notin named => Settled(u, rPrev)
             /\ u \in named => page[u] = Content(active, u)
             /\ u \in named /\ u \notin todo => (u \in kept <=> Matches(active, u))
  BY <1>2, <1>3 DEF PageCurrent
<1>4. ASSUME rUuid = uuid, NEW u \in Units, Settled(u, curRev), u \in named, u \notin todo \ S
      PROVE  u \in kept' <=> Matches(active, u)
  BY <1>1, <1>2, <1>3, <1>4 DEF Matched
<1>5. WalkCurrent'
  BY <1>1, <1>2 DEF WalkCurrent
<1>6. PageCurrent'
  <2>1. todo' \subseteq named /\ kept' \subseteq named /\ (pc' = "prune" => todo' \cap kept' = {})
    BY <1>1, <1>2
  <2>2. ASSUME rUuid = uuid, NEW u \in Units, Settled(u, curRev), u \in named,
               pc' = "prune" => u \notin todo'
        PROVE  u \in kept' <=> Matches(active, u)
    BY <1>1, <1>2, <1>4, <2>2
  <2>3. pc' = "fetch" => \A u \in named \ kept' : snapshot'[u] = {}
    BY <1>1, <1>2 DEF Without
  <2> QED BY <1>2, <1>3, <2>1, <2>2, <2>3, SameAnswers DEF PageCurrent, Settled
<1>7. Shown'
  <2>1. CASE S # todo
    BY <1>1, <1>2, <2>1, SameAnswers DEF Shown, Settled
  <2>2. CASE S = todo
    <3>1. SUFFICES ASSUME loaded, rUuid = uuid, NEW u \in Units, Settled(u, rPrev)
                   PROVE  snapshot'[u] = Answer(active)[u] /\ view[u] = Answer(active)[u]
      BY <1>2, SameAnswers DEF Shown, Settled
    <3>2. snapshot[u] = Answer(active)[u] /\ view[u] = Answer(active)[u]
      BY <3>1 DEF Shown
    <3>3. Settled(u, curRev)
      BY <1>2, <3>1 DEF Settled, InRange, TypeOK, Cycling, Members, Live
    <3>4. u \in named \ kept' => Answer(active)[u] = {}
      BY <1>4, <2>2, <3>1, <3>3 DEF Answer
    <3>5. snapshot' = Without(snapshot, named \ kept')
      BY <1>1, <2>2
    <3> QED BY <3>2, <3>4, <3>5 DEF Without
  <2> QED BY <2>1, <2>2
<1> QED BY <1>5, <1>6, <1>7

LEMMA FetchStep ==
  ASSUME IInv, Fetch PROVE Shown' /\ PageCurrent' /\ WalkCurrent'
<1>1. PICK v \in todo : /\ page' = [page EXCEPT ![v] = Content(active, v)]
                        /\ todo' = todo \ {v}
  BY DEF Fetch
<1>2. /\ UNCHANGED <<dbVars, active, view, rUuid, rPrev, snapshot, loaded, curRev, named, kept, pc>>
      /\ pc = "fetch" /\ page \in Rows /\ todo \subseteq Units
  BY DEF Fetch, viewVars, refVars, IInv, TypeOK
<1>3. WalkCurrent'
  BY <1>2 DEF WalkCurrent
<1>4. Shown'
  BY <1>2, SameAnswers DEF IInv, Shown, Settled
<1>5. PageCurrent'
  BY <1>1, <1>2, SameAnswers DEF IInv, PageCurrent, Settled
<1> QED BY <1>3, <1>4, <1>5

\* The merge: a unit settled at curRev was named, and then kept or pruned as
\* its query answers, or it is settled at rPrev and its row carried over.
LEMMA MergeStep ==
  ASSUME IInv, Merge PROVE Shown' /\ PageCurrent' /\ WalkCurrent'
<1> USE DEF IInv
<1>1. /\ UNCHANGED <<dbVars, active, rUuid, loaded>> /\ rPrev' = curRev
      /\ snapshot' = Overlay(snapshot, kept, page) /\ view' = snapshot'
      /\ pc = "fetch" /\ kept \subseteq named
      /\ pc' = "idle" /\ todo' = {} /\ kept' = {}
  BY DEF Merge, Return, PageCurrent
<1>2. PageCurrent' /\ WalkCurrent'
  BY <1>1 DEF PageCurrent, WalkCurrent
<1>3. Shown'
  <2>1. SUFFICES ASSUME loaded, rUuid = uuid, NEW u \in Units, Settled(u, curRev)
                 PROVE  snapshot'[u] = Answer(active)[u]
    BY <1>1, SameAnswers DEF Shown, Settled
  <2>2. CASE u \in named
    <3>1. page[u] = Content(active, u) /\ (u \in kept <=> Matches(active, u))
      BY <1>1, <2>1, <2>2 DEF PageCurrent
    <3>2. CASE u \in kept
      BY <1>1, <3>1, <3>2 DEF Overlay, Answer
    <3>3. CASE u \notin kept
      BY <1>1, <2>2, <3>1, <3>3 DEF PageCurrent, Overlay, Answer
    <3> QED BY <3>2, <3>3
  <2>3. CASE u \notin named
    <3>1. Settled(u, rPrev) /\ u \notin kept
      BY <1>1, <2>1, <2>3 DEF PageCurrent
    <3> QED BY <1>1, <2>1, <3>1 DEF Shown, Overlay
  <2> QED BY <2>2, <2>3
<1> QED BY <1>2, <1>3

-----------------------------------------------------------------------------
(* The full reload.                                                        *)

LEMMA LoadStep ==
  ASSUME IInv, OnConfig \/ Preload PROVE Shown' /\ PageCurrent' /\ WalkCurrent'
<1>1. pc' \in {"preload", "open"} /\ ~loaded'
  BY DEF OnConfig, Preload, IInv, InRange, Loading
<1> QED BY <1>1 DEF Shown, PageCurrent, WalkCurrent

\* The walk opens on the database as it is.
LEMMA OpenWalkStep ==
  ASSUME IInv, OpenWalk PROVE Shown' /\ PageCurrent' /\ WalkCurrent'
<1>1. /\ result' = Answer(active) /\ todo' = Matched(active) /\ pc' = "walk"
      /\ ~loaded' /\ painted' = painted
      /\ UNCHANGED <<uuid, rev, mod, tags, thread, active>>
  BY DEF OpenWalk, IInv, InRange, Loading, viewVars, refVars
<1>2. Answer(active)' = Answer(active)
  BY <1>1 DEF Answer, Content, Matches, Members, Live, UnitOf
<1>3. ~painted
  BY DEF OpenWalk, IInv, InRange
<1>4. \A u \in Units : Answer(active)[u] # {} => u \in Matched(active)
  BY AnswerType DEF IInv
<1> QED BY <1>1, <1>2, <1>3, <1>4 DEF Shown, PageCurrent, WalkCurrent

LEMMA ChunkStep ==
  ASSUME IInv, Chunk PROVE Shown' /\ PageCurrent' /\ WalkCurrent'
<1>1. /\ snapshot' = Without(result, todo') /\ view' = snapshot' /\ painted'
      /\ pc = "walk" /\ pc' = "walk" /\ ~loaded'
      /\ UNCHANGED <<dbVars, active, rUuid, rPrev, curUuid, curRev, result, byCycle>>
  BY DEF Chunk, IInv, InRange, Loading
<1>2. Without(result, todo)' = Without(result, todo')
  BY <1>1 DEF Without
<1>3. WalkCurrent'
  BY <1>1, <1>2, SameAnswers DEF IInv, WalkCurrent, Settled
<1> QED BY <1>1, <1>3 DEF Shown, PageCurrent

\* At its end the walk has painted all of its answer.
LEMMA EndWalkStep ==
  ASSUME IInv, EndWalk PROVE Shown' /\ PageCurrent' /\ WalkCurrent'
<1> USE DEF IInv
<1>1. /\ UNCHANGED <<dbVars, active>> /\ pc = "walk" /\ todo = {}
      /\ pc' = "idle"
  BY DEF EndWalk, Return
<1>2. PageCurrent' /\ WalkCurrent'
  BY <1>1 DEF PageCurrent, WalkCurrent
<1>3. \A u \in Units : snapshot'[u] = result[u] /\ view'[u] = result[u]
  <2>1. CASE painted
    BY <1>1, <2>1 DEF EndWalk, WalkCurrent, Without, TypeOK
  <2>2. CASE ~painted
    <3>1. snapshot' = NoRows /\ view' = NoRows
      BY <2>2 DEF EndWalk
    <3>2. \A u \in Units : result[u] = {}
      BY <1>1, <2>2 DEF WalkCurrent
    <3> QED BY <3>1, <3>2 DEF NoRows
  <2> QED BY <2>1, <2>2
<1>4. Shown'
  <2>1. CASE byCycle
    <3>1. rUuid' = curUuid /\ rPrev' = curRev
      BY <2>1 DEF EndWalk, Consumed
    <3> QED BY <1>1, <1>3, <2>1, <3>1, SameAnswers DEF Shown, WalkCurrent, Settled
  <2>2. CASE ~byCycle
    <3>1. rUuid' = rUuid /\ rPrev' = rPrev
      BY <2>2 DEF EndWalk, Consumed
    <3> QED BY <1>1, <1>3, <2>2, <3>1, SameAnswers DEF Shown, WalkCurrent, Settled
  <2> QED BY <2>1, <2>2
<1> QED BY <1>2, <1>4

LEMMA FailWalkStep ==
  ASSUME IInv, FailWalk PROVE Shown' /\ PageCurrent' /\ WalkCurrent'
<1>1. ~loaded' /\ pc' = "idle"
  BY DEF FailWalk, Return, IInv, InRange, Loading
<1> QED BY <1>1 DEF Shown, PageCurrent, WalkCurrent

-----------------------------------------------------------------------------
\* The snapshot loses rows before the view does, and gains none without it.
LEMMA CarriedStep ==
  ASSUME TypeOK, InRange, WalkCurrent, Carried, [Next]_vars PROVE Carried'
<1> USE DEF Carried, TypeOK
<1>1. CASE Database \/ User
  BY <1>1 DEF Database, User, Retag, Expunge, Arrive, Rebuild, SelectView, viewVars, refVars
<1>2. CASE ReadRevision \/ Abort \/ Changed \/ Fetch
  BY <1>2 DEF ReadRevision, Abort, Changed, Fetch, viewVars, refVars
<1>3. CASE Prune
  BY <1>3 DEF Prune, Without, viewVars
<1>4. CASE Merge
  BY <1>4 DEF Merge
<1>5. CASE OnConfig \/ Preload \/ OpenWalk \/ Chunk \/ FailWalk
  BY <1>5 DEF OnConfig, Preload, OpenWalk, Chunk, FailWalk, InRange, Loading, refVars
<1>6. CASE EndWalk
  <2>1. \A u \in Units : snapshot'[u] = view'[u]
    BY <1>6 DEF EndWalk, WalkCurrent, NoRows
  <2> QED BY <2>1
<1>7. CASE UNCHANGED vars
  BY <1>7 DEF vars, viewVars, refVars
<1> QED BY <1>1, <1>2, <1>3, <1>4, <1>5, <1>6, <1>7 DEF Next, Refresher

-----------------------------------------------------------------------------
LEMMA InvInit == Init => IInv
<1> SUFFICES ASSUME Init PROVE IInv
  OBVIOUS
<1>1. TypeOK
  <2>1. NoRows \in Rows
    BY DEF NoRows
  <2>2. mod \in [Msgs -> Nat]
    BY DEF Init
  <2> QED BY <2>1, <2>2 DEF Init, TypeOK
<1>2. InRange
  BY DEF Init, InRange, Cycling, Loading
<1>3. Carried /\ Shown /\ PageCurrent /\ WalkCurrent
  BY DEF Init, Carried, Shown, PageCurrent, WalkCurrent
<1> QED BY <1>1, <1>2, <1>3 DEF IInv

LEMMA InvStep == IInv /\ [Next]_vars => IInv'
<1> SUFFICES ASSUME IInv, [Next]_vars PROVE IInv'
  OBVIOUS
<1>1. TypeOK' /\ InRange'
  BY TypeStep, RangeStep DEF IInv
<1>3. Carried'
  BY CarriedStep DEF IInv
<1>2. Shown' /\ PageCurrent' /\ WalkCurrent'
  <2>1. CASE Database
    BY <2>1, DatabaseStep, RebuildStep DEF Database, DBStep
  <2>2. CASE User
    BY <2>2, QuietStep DEF User, SelectView
  <2>3. CASE UNCHANGED vars
    BY <2>3, QuietStep DEF vars
  <2>4. CASE Refresher
    BY <2>4, ReadRevisionStep, ChangedStep, PruneStep, FetchStep, MergeStep, AbortStep,
       LoadStep, OpenWalkStep, ChunkStep, EndWalkStep, FailWalkStep DEF Refresher
  <2> QED BY <2>1, <2>2, <2>3, <2>4 DEF Next
<1> QED BY <1>1, <1>2, <1>3 DEF IInv

THEOREM InductiveInvariant == Spec => []IInv
BY InvInit, InvStep, PTL DEF Spec

\* Type correctness of the refresher and of what it caches.
THEOREM TypeCorrect == Spec => []TypeOK
<1>1. IInv => TypeOK
  BY DEF IInv
<1> QED BY <1>1, InductiveInvariant, PTL

\* No change the refresher consumed is missing from the view.
THEOREM NothingMissed == Spec => []NoMissedRow
<1>1. IInv => NoMissedRow
  BY DEF IInv, Shown, NoMissedRow, Resting, Matched, Answer
<1> QED BY <1>1, InductiveInvariant, PTL

\* No row outlives the membership of its unit, nor comes from another view.
THEOREM NothingAlien == Spec => []NoAlienRow
<1>1. IInv => NoAlienRow
  BY DEF IInv, Shown, NoAlienRow, Resting, Matched, Answer
<1> QED BY <1>1, InductiveInvariant, PTL

\* A merge touches no row outside its changed set, and shows none that was
\* not shown.
THEOREM MergeCarriesOver == Spec => CarryOver
<1>1. IInv /\ [Next]_vars =>
        [Merge /\ loaded =>
           \A u \in Units \ named :
             /\ view[u] = {} => view'[u] = {}
             /\ rUuid = uuid /\ Settled(u, rPrev) => view'[u] = view[u]]_vars
  <2>1. ASSUME IInv, Merge, loaded, NEW u \in Units \ named
        PROVE  /\ view[u] = {} => view'[u] = {}
               /\ rUuid = uuid /\ Settled(u, rPrev) => view'[u] = view[u]
    <3>1. view'[u] = snapshot[u]
      BY <2>1 DEF Merge, Overlay, IInv, PageCurrent
    <3> QED BY <2>1, <3>1 DEF IInv, Carried, Shown
  <2> QED BY <2>1
<1> QED BY <1>1, InductiveInvariant, PTL DEF Spec, CarryOver

=============================================================================
