---------------------------- MODULE Apply_proofs ----------------------------
(***************************************************************************)
(* An apply clears only what it took into its snapshot, for every set of   *)
(* messages, writers and operations and every bound: IInv of Apply is      *)
(* inductive, and the steps that clear the buffer start from it.  And no   *)
(* row outlives its match: Swept of Apply is inductive beside it.          *)
(***************************************************************************)
EXTENDS Apply, TLAPS

USE ApplyAssumption DEF Units, OpSeqs, TagLists

-----------------------------------------------------------------------------
\* What the operations compute is again a tag set (ResolveOps, apply.go).
LEMMA TagSets ==
  ASSUME NEW T \in SUBSET Tags, NEW r \in [add : SUBSET Tags, del : SUBSET Tags],
         NEW s \in OpSeqs
  PROVE  /\ Written(T, r) \in SUBSET Tags
         /\ Net(T, s) \in SUBSET Tags
         /\ Resolved(T, s) \in [add : SUBSET Tags, del : SUBSET Tags]
<1>1. Net(T, s) \in SUBSET Tags
  BY DEF Net
<1>2. Written(T, r) \in SUBSET Tags
  BY DEF Written
<1> QED BY <1>1, <1>2 DEF Resolved

\* The idle goroutine is a goroutine, and nothing it holds is an operation.
LEMMA IdleJob ==
  /\ Idle \in JobStates /\ NoOps \in [Msgs -> OpSeqs]
  /\ Idle.todo = {} /\ Idle.kind = "none" /\ Idle.pc = "idle"
<1>1. NoOps \in [Msgs -> OpSeqs]
  BY DEF NoOps
<1>2. (CHOOSE m \in Msgs : TRUE) \in Msgs
  OBVIOUS
<1> QED BY <1>1, <1>2 DEF Idle, JobStates, NoChange

\* An operation staged on a row leaves a sequence of operations (Stage, view.go).
LEMMA StagedSeqs ==
  ASSUME NEW s \in OpSeqs, NEW op \in Ops
  PROVE  /\ Append(s, op) \in OpSeqs
         /\ \A i \in 1 .. Len(s) : Without(s, i) \in OpSeqs
<1>1. ASSUME NEW i \in 1 .. Len(s) PROVE Without(s, i) \in OpSeqs
  <2>1. \A k \in 1 .. Len(s) - 1 : (IF k < i THEN s[k] ELSE s[k + 1]) \in Ops
    OBVIOUS
  <2> QED BY <2>1 DEF Without
<1> QED BY <1>1

\* The answer of a view and its units (the walk of a load, refresh.go).
LEMMA AnswerType ==
  ASSUME TypeOK, NEW v \in Views
  PROVE  /\ Answer(v) \subseteq Msgs /\ Live \subseteq Msgs
         /\ MatchedUnits(v) \subseteq Units
         /\ \A S \in SUBSET Msgs : UnitsOf(v, S) \subseteq Units
<1>1. \A m \in Msgs : UnitOf(v, m) \in Units
  BY DEF UnitOf
<1>2. Live \subseteq Msgs
  BY DEF Live
<1> QED BY <1>1, <1>2 DEF Answer, MatchedUnits, UnitsOf

-----------------------------------------------------------------------------
LEMMA InitOK == Init => IInv
<1> SUFFICES ASSUME Init PROVE IInv
  OBVIOUS
<1>1. rows \subseteq Msgs /\ active \in Views /\ units \subseteq Units
  BY DEF Init, Answer, UnitsOf, UnitOf, Live
<1>2. /\ shown \in [Msgs -> TagLists] /\ \A m \in Msgs \ rows : shown[m] = Nil
      /\ mod \in [Msgs -> Nat] /\ tags \in [Msgs -> SUBSET Tags]
  BY <1>1 DEF Init, RowTags
<1>3. page \in [cur : Nat, rows : SUBSET Msgs, tags : [Msgs -> TagLists],
                kept : SUBSET Units]
  BY DEF Init, EmptyPage, NoTags
<1>4. job \in [Jobs -> JobStates] /\ staged \in [Msgs -> OpSeqs]
  BY IdleJob DEF Init
<1>5. TypeOK
  BY <1>1, <1>2, <1>3, <1>4 DEF Init, TypeOK
<1>6. Guarded
  BY IdleJob DEF Init, Guarded
<1> QED BY <1>5, <1>6 DEF IInv

\* What the database does is of no concern to the rows and the buffer.
LEMMA DatabaseOK == IInv /\ Database => IInv'
<1> SUFFICES ASSUME IInv, Database PROVE IInv'
  OBVIOUS
<1>1. /\ rev' \in Nat /\ mod' \in [Msgs -> Nat] /\ tags' \in [Msgs -> SUBSET Tags]
      /\ UNCHANGED <<viewVars, bufVars, refVars, job>>
  <2>1. rev \in Nat /\ mod \in [Msgs -> Nat] /\ tags \in [Msgs -> SUBSET Tags]
    BY DEF IInv, TypeOK
  <2> PICK m \in Msgs : Retag(m) \/ Arrive(m)
    BY DEF Database
  <2>2. \E T \in SUBSET Tags : tags' = [tags EXCEPT ![m] = T]
    BY DEF Retag, Arrive
  <2>3. /\ rev' = rev + 1 /\ mod' = [mod EXCEPT ![m] = rev + 1]
        /\ UNCHANGED <<viewVars, bufVars, refVars, job>>
    BY DEF Retag, Arrive
  <2> QED BY <2>1, <2>2, <2>3
<1>2. TypeOK'
  BY <1>1 DEF IInv, TypeOK, viewVars, bufVars, refVars
<1>3. Guarded'
  BY <1>1 DEF IInv, Guarded, bufVars
<1> QED BY <1>2, <1>3 DEF IInv

LEMMA StageOK ==
  ASSUME IInv, NEW m \in Msgs, \/ Undo(m) \/ \E op \in Ops : Stage(m, op)
  PROVE  IInv'
<1>1. staged' \in [Msgs -> OpSeqs]
  <2>1. CASE Undo(m)
    BY <2>1 DEF Undo, IInv, TypeOK
  <2>2. ASSUME NEW op \in Ops, Stage(m, op) PROVE staged' \in [Msgs -> OpSeqs]
    <3>1. staged \in [Msgs -> OpSeqs] /\ staged[m] \in OpSeqs
      BY DEF IInv, TypeOK
    <3>2. /\ Append(staged[m], op) \in OpSeqs
          /\ \A i \in 1 .. Len(staged[m]) : Without(staged[m], i) \in OpSeqs
      BY <3>1, StagedSeqs
    <3>3. \E q \in OpSeqs : staged' = [staged EXCEPT ![m] = q]
      BY <2>2, <3>2 DEF Stage
    <3> HIDE DEF OpSeqs
    <3> QED BY <3>1, <3>3
  <2> QED BY <2>1, <2>2
<1>2. /\ stagedGen' = stagedGen + 1
      /\ UNCHANGED <<dbVars, viewVars, refVars, job>>
  BY DEF Undo, Stage
<1>3. stagedGen \in Nat /\ \A j \in Jobs : job[j].gen \in Nat
  BY DEF IInv, TypeOK, JobStates
<1>4. Guarded'
  BY <1>2, <1>3 DEF Guarded, IInv
<1> QED BY <1>1, <1>2, <1>3, <1>4 DEF IInv, TypeOK, dbVars, viewVars, refVars

-----------------------------------------------------------------------------
\* A writer's own step leaves the goroutines of the others alone; what it must
\* show is that its own record stays one, and that its guard stays true.
LEMMA JobOK ==
  ASSUME IInv, NEW j \in Jobs, NEW r \in JobStates, job' = [job EXCEPT ![j] = r],
         UNCHANGED stagedGen,
         r.todo # {} \/ r.pc = "clear" => r.kind = "apply",
         \A m \in Msgs : staged'[m] \in {staged[m], <<>>},
         r.kind = "apply" =>
           \/ job[j].kind = "apply" /\ r.gen = job[j].gen /\ r.ops = job[j].ops
           \/ r.gen = stagedGen /\ r.ops = staged
  PROVE  job' \in [Jobs -> JobStates] /\ Guarded'
<1>1. job \in [Jobs -> JobStates] /\ stagedGen \in Nat
  BY DEF IInv, TypeOK
<1>2. ASSUME NEW k \in Jobs
      PROVE  /\ job'[k].todo # {} \/ job'[k].pc = "clear" => job'[k].kind = "apply"
             /\ job'[k].kind = "apply" =>
                  /\ job'[k].gen <= stagedGen
                  /\ job'[k].gen = stagedGen =>
                       \A m \in Msgs : staged'[m] \in {job'[k].ops[m], <<>>}
  <2>1. CASE k = j
    <3>1. job'[k] = r
      BY <1>1, <2>1
    <3>2. CASE job[j].kind = "apply" /\ r.gen = job[j].gen /\ r.ops = job[j].ops
      BY <3>1, <3>2 DEF IInv, Guarded
    <3>3. CASE r.gen = stagedGen /\ r.ops = staged
      BY <1>1, <3>1, <3>3
    <3>4. CASE r.kind # "apply"
      BY <3>1, <3>4
    <3> QED BY <3>2, <3>3, <3>4
  <2>2. CASE k # j
    <3>1. job'[k] = job[k]
      BY <1>1, <2>2
    <3> QED BY <3>1 DEF IInv, Guarded
  <2> QED BY <2>1, <2>2
<1>3. Guarded'
  BY <1>2 DEF Guarded
<1> QED BY <1>1, <1>3

\* Every field of a goroutine's record, and the records made from it.
LEMMA JobFields ==
  ASSUME TypeOK, NEW j \in Jobs
  PROVE  /\ job[j] \in JobStates /\ job \in [Jobs -> JobStates]
         /\ job[j].msg \in Msgs /\ job[j].res \in [add : SUBSET Tags, del : SUBSET Tags]
         /\ job[j].ops \in [Msgs -> OpSeqs] /\ job[j].todo \subseteq Msgs
         /\ job[j].nw \in SUBSET Tags
  BY DEF TypeOK, JobStates

LEMMA StartOK ==
  ASSUME IInv, NEW j \in Jobs, StartApply(j) \/ \E m \in Msgs : StartRead(j, m)
  PROVE  IInv'
<1> USE IdleJob, JobFields
<1>1. /\ UNCHANGED <<dbVars, viewVars, bufVars, refVars>>
      /\ job[j].pc = "idle"
  BY DEF StartApply, StartRead
<1>2. job' \in [Jobs -> JobStates] /\ Guarded'
  <2>1. CASE StartApply(j)
    <3> DEFINE r == [Idle EXCEPT !.pc = "next", !.kind = "apply",
                       !.gen = stagedGen, !.ops = staged, !.todo = InBuffer]
    <3>1. r \in JobStates /\ r.kind = "apply" /\ r.gen = stagedGen /\ r.ops = staged
      BY DEF IInv, TypeOK, JobStates, InBuffer
    <3>2. job' = [job EXCEPT ![j] = r]
      BY <2>1 DEF StartApply
    <3> HIDE DEF r
    <3> QED BY <1>1, <3>1, <3>2, JobOK DEF bufVars
  <2>2. ASSUME NEW m \in Msgs, StartRead(j, m)
        PROVE job' \in [Jobs -> JobStates] /\ Guarded'
    <3> DEFINE r == [Idle EXCEPT !.pc = "tag", !.kind = "read", !.msg = m,
                       !.res = [add |-> IF ReadOp.add THEN {ReadOp.tag} ELSE {},
                                del |-> IF ReadOp.add THEN {} ELSE {ReadOp.tag}]]
    <3>1. r \in JobStates /\ r.kind = "read" /\ r.todo = {} /\ r.pc = "tag"
      BY DEF JobStates
    <3>2. job' = [job EXCEPT ![j] = r]
      BY <2>2 DEF StartRead
    <3> HIDE DEF r
    <3> QED BY <1>1, <3>1, <3>2, JobOK DEF bufVars
  <2> QED BY <2>1, <2>2 DEF StartApply, StartRead
<1>3. TypeOK'
  BY <1>1, <1>2 DEF IInv, TypeOK, dbVars, viewVars, bufVars, refVars
<1> QED BY <1>2, <1>3 DEF IInv

\* Most steps of a goroutine change nothing but its record, the database or
\* the buffer's entries, and keep the generation and the snapshot they took.
LEMMA KeepsGuard ==
  ASSUME IInv, NEW j \in Jobs, NEW r \in JobStates, job' = [job EXCEPT ![j] = r],
         UNCHANGED stagedGen, \A m \in Msgs : staged'[m] \in {staged[m], <<>>},
         r.kind = job[j].kind, r.gen = job[j].gen, r.ops = job[j].ops,
         r.todo \subseteq job[j].todo, r.pc = "clear" => r.kind = "apply"
  PROVE  job' \in [Jobs -> JobStates] /\ Guarded'
<1>1. r.todo # {} => r.kind = "apply"
  BY DEF IInv, Guarded
<1> QED BY <1>1, JobOK

\* The next entry after one that failed or is done.
LEMMA GoOnOK ==
  ASSUME IInv, NEW j \in Jobs, GoOn(j), UNCHANGED bufVars
  PROVE  job' \in [Jobs -> JobStates] /\ Guarded'
<1>f. /\ job[j] \in JobStates /\ job \in [Jobs -> JobStates]
      /\ job[j].ops \in [Msgs -> OpSeqs] /\ job[j].todo \subseteq Msgs
  BY JobFields DEF IInv
<1> DEFINE r == [job[j] EXCEPT !.pc = "next", !.res = NoChange, !.nw = {}]
<1>1. /\ r \in JobStates /\ r.kind = job[j].kind /\ r.gen = job[j].gen
      /\ r.ops = job[j].ops /\ r.todo = job[j].todo /\ r.pc = "next"
  BY <1>f DEF JobStates, NoChange
<1>2. job' = [job EXCEPT ![j] = r]
  BY DEF GoOn
<1> HIDE DEF r
<1> QED BY <1>1, <1>2, KeepsGuard DEF bufVars

LEMMA ClearedOK ==
  ASSUME IInv, NEW j \in Jobs, NEW m \in Msgs, ClearStaged(job[j].gen, m)
  PROVE  /\ staged' \in [Msgs -> OpSeqs] /\ UNCHANGED stagedGen
         /\ \A n \in Msgs : staged'[n] \in {staged[n], <<>>}
         /\ staged' # staged => job[j].gen = stagedGen
<1>1. staged \in [Msgs -> OpSeqs] /\ <<>> \in OpSeqs
  BY DEF IInv, TypeOK
<1> HIDE DEF OpSeqs
<1> QED BY <1>1 DEF ClearStaged

LEMMA ResolveOK ==
  ASSUME IInv, NEW j \in Jobs, Resolve(j)
  PROVE  IInv'
<1>f. /\ job[j] \in JobStates /\ job \in [Jobs -> JobStates]
      /\ job[j].ops \in [Msgs -> OpSeqs] /\ job[j].todo \subseteq Msgs
  BY JobFields DEF IInv
<1> PICK m \in job[j].todo :
      LET q == Due(j, m)
      IN \/ /\ q = NoChange
            /\ ClearStaged(job[j].gen, m)
            /\ job' = [job EXCEPT ![j].todo = @ \ {m}]
         \/ /\ q # NoChange
            /\ job' = [job EXCEPT ![j].todo = @ \ {m}, ![j].msg = m,
                                  ![j].res = q, ![j].pc = "tag"]
            /\ UNCHANGED bufVars
  BY DEF Resolve
<1>1. /\ m \in Msgs /\ UNCHANGED <<dbVars, viewVars, refVars>>
      /\ Due(j, m) \in [add : SUBSET Tags, del : SUBSET Tags]
  <2>1. m \in Msgs /\ shown[m] \in TagLists /\ job[j].ops[m] \in OpSeqs
    BY <1>f DEF IInv, TypeOK
  <2>2. NoChange \in [add : SUBSET Tags, del : SUBSET Tags]
    BY DEF NoChange
  <2>3. UNCHANGED <<dbVars, viewVars, refVars>>
    BY DEF Resolve
  <2> HIDE DEF OpSeqs
  <2>4. Due(j, m) \in [add : SUBSET Tags, del : SUBSET Tags]
    <3>1. CASE shown[m] = Nil
      BY <3>1, <2>2 DEF Due
    <3>2. CASE shown[m] \in SUBSET Tags
      <4>1. \A T \in SUBSET Tags, s \in OpSeqs :
              Resolved(T, s) \in [add : SUBSET Tags, del : SUBSET Tags]
        BY <2>2, TagSets
      <4> QED BY <4>1, <2>1, <2>2, <3>2 DEF Due
    <3> QED BY <2>1, <3>1, <3>2
  <2> QED BY <2>1, <2>3, <2>4
<1>2. /\ job' \in [Jobs -> JobStates] /\ Guarded'
      /\ staged' \in [Msgs -> OpSeqs] /\ UNCHANGED stagedGen
  <2>1. CASE /\ ClearStaged(job[j].gen, m)
             /\ job' = [job EXCEPT ![j].todo = @ \ {m}]
    <3> DEFINE r == [job[j] EXCEPT !.todo = @ \ {m}]
    <3>1. /\ r \in JobStates /\ r.kind = job[j].kind /\ r.gen = job[j].gen
          /\ r.ops = job[j].ops /\ r.todo \subseteq job[j].todo /\ r.pc = job[j].pc
      BY <1>f DEF JobStates
    <3>2. job' = [job EXCEPT ![j] = r] /\ (r.pc = "clear" => r.kind = "apply")
      BY <2>1, <3>1 DEF IInv, Guarded
    <3> HIDE DEF r
    <3> QED BY <1>1, <2>1, <3>1, <3>2, KeepsGuard, ClearedOK
  <2>2. CASE /\ UNCHANGED bufVars
             /\ job' = [job EXCEPT ![j].todo = @ \ {m}, ![j].msg = m,
                          ![j].res = Due(j, m), ![j].pc = "tag"]
    <3> DEFINE r == [job[j] EXCEPT !.todo = @ \ {m}, !.msg = m,
                       !.res = Due(j, m), !.pc = "tag"]
    <3>1. /\ r \in JobStates /\ r.kind = job[j].kind /\ r.gen = job[j].gen
          /\ r.ops = job[j].ops /\ r.todo \subseteq job[j].todo /\ r.pc = "tag"
      BY <1>1, <1>f DEF JobStates
    <3>2. job' = [job EXCEPT ![j] = r]
      BY <2>2
    <3>3. staged \in [Msgs -> OpSeqs]
      BY DEF IInv, TypeOK
    <3> HIDE DEF r
    <3> QED BY <2>2, <3>1, <3>2, <3>3, KeepsGuard DEF bufVars
  <2> QED BY <2>1, <2>2
<1>3. TypeOK'
  BY <1>1, <1>2 DEF IInv, TypeOK, dbVars, viewVars, refVars
<1> QED BY <1>2, <1>3 DEF IInv

LEMMA TagOK ==
  ASSUME IInv, NEW j \in Jobs, Tag(j) \/ TagFails(j)
  PROVE  IInv'
<1>f. /\ job[j] \in JobStates /\ job \in [Jobs -> JobStates] /\ job[j].msg \in Msgs
      /\ job[j].res \in [add : SUBSET Tags, del : SUBSET Tags]
  BY JobFields DEF IInv
<1>1. UNCHANGED <<viewVars, bufVars, refVars>>
  BY DEF Tag, TagFails
<1>2. rev' \in Nat /\ mod' \in [Msgs -> Nat] /\ tags' \in [Msgs -> SUBSET Tags]
  <2>1. rev \in Nat /\ mod \in [Msgs -> Nat] /\ tags \in [Msgs -> SUBSET Tags]
    BY DEF IInv, TypeOK
  <2>2. CASE UNCHANGED dbVars
    BY <2>1, <2>2 DEF dbVars
  <2>3. CASE WriteTags(j)
    <3>1. Written(tags[job[j].msg], job[j].res) \in SUBSET Tags
      BY <2>1, <1>f DEF Written
    <3>2. tags' = [tags EXCEPT ![job[j].msg] = Written(@, job[j].res)]
      BY <2>3 DEF WriteTags
    <3>3. \/ UNCHANGED <<rev, mod>>
          \/ rev' = rev + 1 /\ mod' = [mod EXCEPT ![job[j].msg] = rev + 1]
      BY <2>3 DEF WriteTags
    <3> QED BY <2>1, <1>f, <3>1, <3>2, <3>3
  <2> QED BY <2>2, <2>3 DEF Tag, TagFails
<1>3. job' \in [Jobs -> JobStates] /\ Guarded'
  <2>1. CASE Tag(j)
    <3> DEFINE r == [job[j] EXCEPT !.pc = "row"]
    <3>1. /\ r \in JobStates /\ r.kind = job[j].kind /\ r.gen = job[j].gen
          /\ r.ops = job[j].ops /\ r.todo = job[j].todo /\ r.pc = "row"
      BY <1>f DEF JobStates
    <3>2. job' = [job EXCEPT ![j] = r]
      BY <2>1 DEF Tag
    <3> HIDE DEF r
    <3> QED BY <1>1, <3>1, <3>2, KeepsGuard DEF bufVars
  <2>2. CASE TagFails(j)
    BY <1>1, <2>2, GoOnOK DEF TagFails
  <2> QED BY <2>1, <2>2
<1>4. TypeOK'
  BY <1>1, <1>2, <1>3 DEF IInv, TypeOK, viewVars, bufVars, refVars
<1> QED BY <1>3, <1>4 DEF IInv

LEMMA ReadRowOK ==
  ASSUME IInv, NEW j \in Jobs, ReadRow(j)
  PROVE  IInv'
<1>f. /\ job[j] \in JobStates /\ job \in [Jobs -> JobStates] /\ job[j].msg \in Msgs
      /\ job[j].res \in [add : SUBSET Tags, del : SUBSET Tags]
  BY JobFields DEF IInv
<1>1. UNCHANGED <<dbVars, viewVars, bufVars, refVars>>
  BY DEF ReadRow
<1>2. job' \in [Jobs -> JobStates] /\ Guarded'
  <2> DEFINE nw == IF shown[job[j].msg] = Nil THEN Nil
                    ELSE Written(shown[job[j].msg], job[j].res)
             s == [job[j] EXCEPT !.nw = nw, !.pc = "set"]
             r == [job[j] EXCEPT !.pc = AfterRow(j)]
  <2>1. nw # shown[job[j].msg] => nw \in SUBSET Tags
    BY <1>f DEF Written, IInv, TypeOK
  <2>2. nw # shown[job[j].msg] =>
          /\ s \in JobStates /\ s.kind = job[j].kind /\ s.gen = job[j].gen
          /\ s.ops = job[j].ops /\ s.todo = job[j].todo /\ s.pc = "set"
    <3> HIDE DEF nw
    <3> QED BY <1>f, <2>1 DEF JobStates
  <2>3. /\ r \in JobStates /\ r.kind = job[j].kind /\ r.gen = job[j].gen
        /\ r.ops = job[j].ops /\ r.todo = job[j].todo
        /\ r.pc = "clear" => r.kind = "apply"
    BY <1>f DEF JobStates, AfterRow
  <2>4. \/ nw # shown[job[j].msg] /\ job' = [job EXCEPT ![j] = s]
        \/ job' = [job EXCEPT ![j] = r]
    <3>1. IF nw # shown[job[j].msg]
          THEN job' = [job EXCEPT ![j].nw = nw, ![j].pc = "set"]
          ELSE job' = [job EXCEPT ![j].pc = AfterRow(j)]
      BY DEF ReadRow
    <3> HIDE DEF nw
    <3> QED BY <3>1, <1>f
  <2> HIDE DEF s, r, nw
  <2> QED BY <1>1, <2>2, <2>3, <2>4, KeepsGuard DEF bufVars
<1>3. TypeOK'
  BY <1>1, <1>2 DEF IInv, TypeOK, dbVars, viewVars, bufVars, refVars
<1> QED BY <1>2, <1>3 DEF IInv

LEMMA SetRowOK ==
  ASSUME IInv, NEW j \in Jobs, SetRow(j)
  PROVE  IInv'
<1>f. /\ job[j] \in JobStates /\ job \in [Jobs -> JobStates] /\ job[j].msg \in Msgs
      /\ job[j].nw \in SUBSET Tags
  BY JobFields DEF IInv
<1>1. /\ UNCHANGED <<dbVars, active, units, rows, sharedThreads, sharedMsgs, bufVars,
                     rPrev, sunits, srows, rpc, page, switches>>
  BY DEF SetRow
<1>2. /\ shown' \in [Msgs -> TagLists] /\ sshown' \in [Msgs -> TagLists]
      /\ \A m \in Msgs \ rows : shown'[m] = Nil
  <2>1. /\ shown \in [Msgs -> TagLists] /\ sshown \in [Msgs -> TagLists]
        /\ \A m \in Msgs \ rows : shown[m] = Nil
    BY DEF IInv, TypeOK
  <2>2. \/ UNCHANGED <<shown, sshown>>
        \/ /\ job[j].msg \in rows /\ shown' = [shown EXCEPT ![job[j].msg] = job[j].nw]
           /\ sshown' \in {sshown, [sshown EXCEPT ![job[j].msg] = job[j].nw]}
    BY DEF SetRow
  <2> QED BY <1>f, <2>1, <2>2
<1>3. job' \in [Jobs -> JobStates] /\ Guarded'
  <2> DEFINE r == [job[j] EXCEPT !.pc = AfterRow(j)]
  <2>1. /\ r \in JobStates /\ r.kind = job[j].kind /\ r.gen = job[j].gen
        /\ r.ops = job[j].ops /\ r.todo = job[j].todo
        /\ r.pc = "clear" => r.kind = "apply"
    BY <1>f DEF JobStates, AfterRow
  <2>2. job' = [job EXCEPT ![j] = r]
    BY DEF SetRow
  <2> HIDE DEF r
  <2> QED BY <1>1, <2>1, <2>2, KeepsGuard DEF bufVars
<1>4. TypeOK'
  BY <1>1, <1>2, <1>3 DEF IInv, TypeOK, dbVars, bufVars
<1> QED BY <1>3, <1>4 DEF IInv

LEMMA ClearOK ==
  ASSUME IInv, NEW j \in Jobs, Clear(j)
  PROVE  IInv'
<1>f. /\ job[j] \in JobStates /\ job \in [Jobs -> JobStates] /\ job[j].msg \in Msgs
  BY JobFields DEF IInv
<1>1. /\ UNCHANGED <<dbVars, viewVars, refVars, stagedGen>>
      /\ staged' \in [Msgs -> OpSeqs]
      /\ \A n \in Msgs : staged'[n] \in {staged[n], <<>>}
  BY <1>f, ClearedOK DEF Clear
<1>2. job' \in [Jobs -> JobStates] /\ Guarded'
  <2> DEFINE r == [job[j] EXCEPT !.pc = "check"]
  <2>1. /\ r \in JobStates /\ r.kind = job[j].kind /\ r.gen = job[j].gen
        /\ r.ops = job[j].ops /\ r.todo = job[j].todo /\ r.pc = "check"
    BY <1>f DEF JobStates
  <2>2. job' = [job EXCEPT ![j] = r]
    BY DEF Clear
  <2> HIDE DEF r
  <2> QED BY <1>1, <2>1, <2>2, KeepsGuard
<1>3. TypeOK'
  BY <1>1, <1>2 DEF IInv, TypeOK, dbVars, viewVars, refVars
<1> QED BY <1>2, <1>3 DEF IInv

LEMMA KeptByOK ==
  ASSUME IInv, NEW j \in Jobs, KeptBy(j)
  PROVE  IInv'
<1>f. job[j] \in JobStates /\ job \in [Jobs -> JobStates]
  BY JobFields DEF IInv
<1>1. UNCHANGED <<dbVars, viewVars, bufVars, refVars>>
  BY DEF KeptBy
<1>2. job' \in [Jobs -> JobStates] /\ Guarded'
  <2> DEFINE r == [job[j] EXCEPT !.pc = "remove"]
  <2>1. CASE GoOn(j)
    BY <1>1, <2>1, GoOnOK
  <2>2. CASE job' = [job EXCEPT ![j] = r]
    <3>1. /\ r \in JobStates /\ r.kind = job[j].kind /\ r.gen = job[j].gen
          /\ r.ops = job[j].ops /\ r.todo = job[j].todo /\ r.pc = "remove"
      BY <1>f DEF JobStates
    <3> HIDE DEF r
    <3> QED BY <1>1, <2>2, <3>1, KeepsGuard DEF bufVars
  <2> QED BY <2>1, <2>2 DEF KeptBy
<1>3. TypeOK'
  BY <1>1, <1>2 DEF IInv, TypeOK, dbVars, viewVars, bufVars, refVars
<1> QED BY <1>2, <1>3 DEF IInv

LEMMA RemoveOK ==
  ASSUME IInv, NEW j \in Jobs, Remove(j)
  PROVE  IInv'
<1>f. job[j] \in JobStates /\ job \in [Jobs -> JobStates] /\ job[j].msg \in Msgs
  BY JobFields DEF IInv
<1>1. /\ UNCHANGED <<dbVars, active, bufVars, rPrev, sunits, rpc, page, switches>>
  BY DEF Remove
<1>2. /\ rows' \subseteq rows /\ units' \subseteq units /\ srows' \subseteq srows
      /\ sharedThreads' \subseteq sharedThreads /\ sharedMsgs' \subseteq sharedMsgs
  BY DEF Remove
<1>3. /\ shown' \in [Msgs -> TagLists] /\ sshown' \in [Msgs -> TagLists]
      /\ \A m \in Msgs \ rows' : shown'[m] = Nil
  <2>1. /\ shown \in [Msgs -> TagLists] /\ sshown \in [Msgs -> TagLists]
        /\ \A m \in Msgs \ rows : shown[m] = Nil
    BY DEF IInv, TypeOK
  <2>2. \/ UNCHANGED <<rows, shown, sshown>>
        \/ /\ rows' = rows \ {job[j].msg} /\ shown' = [shown EXCEPT ![job[j].msg] = Nil]
           /\ sshown' \in {sshown, [sshown EXCEPT ![job[j].msg] = Nil]}
    BY DEF Remove
  <2> QED BY <1>f, <2>1, <2>2
<1>4. job' \in [Jobs -> JobStates] /\ Guarded'
  BY <1>1, GoOnOK DEF Remove
<1>5. TypeOK'
  BY <1>1, <1>2, <1>3, <1>4 DEF IInv, TypeOK, dbVars, bufVars
<1> QED BY <1>4, <1>5 DEF IInv

LEMMA FinishOK ==
  ASSUME IInv, NEW j \in Jobs, Finish(j)
  PROVE  IInv'
<1>1. UNCHANGED <<dbVars, viewVars, bufVars, refVars>>
  BY DEF Finish
<1>2. job' \in [Jobs -> JobStates] /\ Guarded'
  BY <1>1, IdleJob, JobOK DEF Finish, bufVars
<1>3. TypeOK'
  BY <1>1, <1>2 DEF IInv, TypeOK, dbVars, viewVars, bufVars, refVars
<1> QED BY <1>2, <1>3 DEF IInv

-----------------------------------------------------------------------------
\* The refresher and the view switch leave the buffer and the goroutines alone.
LEMMA SameGuard ==
  ASSUME IInv, UNCHANGED <<bufVars, job>>
  PROVE  Guarded' /\ job' \in [Jobs -> JobStates]
  BY DEF IInv, TypeOK, Guarded, bufVars

LEMMA CollectOK == IInv /\ Collect => IInv'
<1> SUFFICES ASSUME IInv, Collect PROVE IInv'
  OBVIOUS
<1>1. /\ UNCHANGED <<dbVars, active, units, rows, shown, bufVars, rPrev, switches, job>>
      /\ rpc' = "merge"
  BY DEF Collect
<1>2. /\ sunits' \subseteq sunits /\ srows' \subseteq srows
      /\ sharedThreads' \subseteq sharedThreads /\ sharedMsgs' \subseteq sharedMsgs
  BY DEF Collect
<1>3. sshown' \in [Msgs -> TagLists]
  BY DEF Collect, IInv, TypeOK
<1>4. page' \in [cur : Nat, rows : SUBSET Msgs, tags : [Msgs -> TagLists],
                 kept : SUBSET Units]
  <2> DEFINE kept == ChangedUnits \cap MatchedUnits(active)
             fresh == {m \in Live : UnitOf(active, m) \in kept}
             ptags == [m \in Msgs |-> IF m \in fresh THEN RowTags(m) ELSE Nil]
  <2>1. kept \subseteq Units /\ fresh \subseteq Msgs /\ rev \in Nat
    <3>1. TypeOK /\ active \in Views
      BY DEF IInv, TypeOK
    <3>2. MatchedUnits(active) \subseteq Units /\ Live \subseteq Msgs
      BY <3>1, AnswerType
    <3> QED BY <3>1, <3>2 DEF TypeOK
  <2>2. ptags \in [Msgs -> TagLists]
    BY DEF IInv, TypeOK, RowTags
  <2>3. page' = [cur |-> rev, rows |-> fresh, kept |-> kept, tags |-> ptags]
    BY DEF Collect
  <2> HIDE DEF kept, fresh, ptags
  <2> QED BY <2>1, <2>2, <2>3
<1>5. TypeOK'
  BY <1>1, <1>2, <1>3, <1>4 DEF IInv, TypeOK, dbVars, bufVars
<1> QED BY <1>1, <1>5, SameGuard DEF IInv

LEMMA MergeOK == IInv /\ Merge => IInv'
<1> SUFFICES ASSUME IInv, Merge PROVE IInv'
  OBVIOUS
<1>1. /\ UNCHANGED <<dbVars, active, bufVars, switches, job>>
      /\ rpc' = "idle"
      /\ rPrev' = page.cur /\ page' = EmptyPage
  BY DEF Merge
<1>2. /\ units \subseteq Units /\ sunits \subseteq Units /\ srows \subseteq Msgs
      /\ page \in [cur : Nat, rows : SUBSET Msgs, tags : [Msgs -> TagLists],
                   kept : SUBSET Units]
      /\ sshown \in [Msgs -> TagLists] /\ sharedThreads \subseteq Units
  BY DEF IInv, TypeOK
<1>3. /\ sunits' \subseteq Units /\ units' \subseteq Units
      /\ srows' \subseteq Msgs /\ rows' = srows'
  BY <1>2 DEF Merge
<1>4. /\ sshown' \in [Msgs -> TagLists] /\ shown' = sshown'
      /\ \A m \in Msgs \ rows' : shown'[m] = Nil
  <2>1. /\ sshown' = [m \in Msgs |-> IF m \in page.rows THEN page.tags[m]
                                     ELSE IF m \in srows' THEN sshown[m] ELSE Nil]
        /\ page.rows \subseteq srows' /\ shown' = sshown' /\ rows' = srows'
    BY DEF Merge
  <2> QED BY <1>2, <2>1
<1>5. sharedThreads' \subseteq Units /\ sharedMsgs' \subseteq Msgs
  BY <1>2, <1>3 DEF Merge
<1>6. page' \in [cur : Nat, rows : SUBSET Msgs, tags : [Msgs -> TagLists],
                 kept : SUBSET Units] /\ rPrev' \in Nat
  BY <1>1, <1>2 DEF EmptyPage, NoTags
<1>7. TypeOK'
  BY <1>1, <1>3, <1>4, <1>5, <1>6 DEF IInv, TypeOK, dbVars, bufVars
<1> QED BY <1>1, <1>7, SameGuard DEF IInv

LEMMA SwitchOK == ASSUME IInv, NEW v \in Views, Switch(v) PROVE IInv'
<1>1. TypeOK'
  BY DEF Switch, IInv, TypeOK, dbVars, bufVars, NoTags
<1> QED BY <1>1, SameGuard DEF IInv, Switch

LEMMA LoadOK == IInv /\ Load => IInv'
<1> SUFFICES ASSUME IInv, Load PROVE IInv'
  OBVIOUS
<1>1. Answer(active) \subseteq Msgs /\ MatchedUnits(active) \subseteq Units
  BY AnswerType DEF IInv, TypeOK
<1>2. shown' \in [Msgs -> TagLists] /\ \A m \in Msgs \ rows' : shown'[m] = Nil
  BY <1>1 DEF Load, IInv, TypeOK, RowTags
<1>3. TypeOK'
  BY <1>1, <1>2 DEF Load, IInv, TypeOK, dbVars, bufVars
<1> QED BY <1>3, SameGuard DEF IInv, Load

-----------------------------------------------------------------------------
\* The buffer and the goroutines agree about what was taken, in every
\* behaviour of the writers, the refresher, the user and other clients.
THEOREM GuardInvariant == Spec => []IInv
<1>1. IInv /\ [Next]_vars => IInv'
  <2> SUFFICES ASSUME IInv, [Next]_vars PROVE IInv'
    OBVIOUS
  <2>1. CASE Database
    BY <2>1, DatabaseOK
  <2>2. CASE User
    BY <2>2, StageOK, StartOK, SwitchOK DEF User
  <2>3. CASE Collect \/ Merge \/ Load
    BY <2>3, CollectOK, MergeOK, LoadOK
  <2>4. ASSUME NEW j \in Jobs, Writer(j) PROVE IInv'
    BY <2>4, ResolveOK, TagOK, ReadRowOK, SetRowOK, ClearOK, KeptByOK, RemoveOK,
       FinishOK DEF Writer
  <2>5. CASE UNCHANGED vars
    BY <2>5 DEF IInv, TypeOK, Guarded, vars, dbVars, viewVars, bufVars, refVars
  <2> QED BY <2>1, <2>2, <2>3, <2>4, <2>5 DEF Next
<1> QED BY <1>1, InitOK, PTL DEF Spec

\* Type correctness of the writers' model.
THEOREM ApplyTypeCorrect == Spec => []TypeOK
<1>1. IInv => TypeOK
  BY DEF IInv
<1> QED BY <1>1, GuardInvariant, PTL

\* ClearStaged's generation guard (view.go): what an apply clears is what it
\* took, whatever the user staged or undid while it was in flight.
THEOREM StagedOpsSurvive == Spec => StagedSurvive
<1>1. IInv /\ [Next]_vars =>
        [\A j \in Jobs : Resolve(j) \/ Clear(j) =>
           \A m \in Msgs : staged'[m] # staged[m] => staged[m] = job[j].ops[m]]_vars
  <2> SUFFICES ASSUME IInv, NEW j \in Jobs, Resolve(j) \/ Clear(j),
                      NEW m \in Msgs, staged'[m] # staged[m]
               PROVE  staged[m] = job[j].ops[m]
    OBVIOUS
  <2>1. job[j].msg \in Msgs /\ job[j].todo \subseteq Msgs
    BY JobFields DEF IInv
  <2>2. PICK n \in Msgs : ClearStaged(job[j].gen, n)
    <3>1. CASE Resolve(j)
      BY <2>1, <3>1 DEF Resolve, bufVars
    <3>2. CASE Clear(j)
      BY <2>1, <3>2 DEF Clear
    <3> QED BY <3>1, <3>2
  <2>3. job[j].gen = stagedGen /\ job[j].kind = "apply"
    BY <2>2, ClearedOK DEF IInv, Guarded, Resolve, Clear
  <2>4. staged'[m] \in {staged[m], <<>>}
    BY <2>2, ClearedOK
  <2>5. staged[m] \in {job[j].ops[m], <<>>}
    BY <2>3 DEF IInv, Guarded
  <2> QED BY <2>4, <2>5
<1> QED BY <1>1, GuardInvariant, PTL DEF Spec, StagedSurvive

-----------------------------------------------------------------------------
(* No ghost rows: a changed thread is either still due to the refresher or  *)
(* answered, in the view and in the snapshot.                               *)

\* A unit that is answered matches by one live message of it.
LEMMA FreshIs ==
  ASSUME TypeOK, NEW m \in Msgs, NEW r \in Nat
  PROVE  Fresh(m, r) <=> \E n \in Live : /\ UnitOf(active, n) = UnitOf(active, m)
                                         /\ tags[n] \in Query[active] \/ mod[n] > r
<1>1. UnitOf(active, m) \in MatchedUnits(active)
        <=> \E n \in Live : UnitOf(active, n) = UnitOf(active, m) /\ tags[n] \in Query[active]
  BY Zenon DEF MatchedUnits, UnitsOf
<1> QED
  BY <1>1, Zenon DEF Fresh

\* A write makes its thread due, whatever the refresher has read (ActTag and
\* the other clients: notmuch counts the revision up).
LEMMA WriteKeepsSwept ==
  ASSUME TypeOK, Swept, NEW k \in Msgs, NEW T \in SUBSET Tags,
         tags' = [tags EXCEPT ![k] = T], rev' = rev + 1,
         mod' = [mod EXCEPT ![k] = rev + 1],
         UNCHANGED <<active, rows, srows, rpc, page, rPrev>>, TypeOK'
  PROVE  Swept'
<1>1. /\ rev \in Nat /\ mod \in [Msgs -> Nat] /\ tags \in [Msgs -> SUBSET Tags]
      /\ rPrev \in Nat /\ page.cur \in Nat /\ srows \subseteq Msgs /\ page.rows \subseteq Msgs
  BY DEF TypeOK
<1>2. /\ k \in Live' /\ Live \subseteq Live' /\ mod'[k] = rev + 1
      /\ \A n \in Msgs \ {k} : mod'[n] = mod[n] /\ tags'[n] = tags[n]
  BY <1>1 DEF Live
<1>3. \A n : UnitOf(active, n)' = UnitOf(active, n)
  BY DEF UnitOf
<1>4. ASSUME NEW m \in Live, NEW r \in Nat, r <= rev, Fresh(m, r)
      PROVE  \E n \in Live' : /\ UnitOf(active, n) = UnitOf(active, m)
                              /\ tags'[n] \in Query[active] \/ mod'[n] > r
  <2>1. CASE UnitOf(active, m) = UnitOf(active, k)
    BY <1>1, <1>2, <1>4, <2>1
  <2>2. CASE UnitOf(active, m) # UnitOf(active, k)
    <3>1. PICK n \in Live : /\ UnitOf(active, n) = UnitOf(active, m)
                            /\ tags[n] \in Query[active] \/ mod[n] > r
      BY <1>4, FreshIs DEF Live
    <3>2. n # k /\ n \in Msgs /\ n \in Live'
      BY <1>2, <2>2, <3>1 DEF Live
    <3> QED
      BY <1>2, <3>1, <3>2
  <2> QED
    BY <2>1, <2>2
<1>6. \A m \in Live : /\ rPrev <= rev /\ Fresh(m, rPrev) => Fresh(m, rPrev)'
                      /\ page.cur <= rev /\ Fresh(m, page.cur) => Fresh(m, page.cur)'
  BY <1>1, <1>3, <1>4 DEF Fresh, MatchedUnits, UnitsOf, Live
<1>7. rPrev' <= rev' /\ page'.cur <= rev' /\ \A m \in Msgs : mod'[m] <= rev'
  BY <1>1, <1>2 DEF Swept
<1>8. rpc' = "idle" => rows' \subseteq srows' /\ \A m \in srows' : m \in Live' /\ Fresh(m, rPrev)'
  BY <1>2, <1>6 DEF Swept
<1>9. rpc' = "merge" => \A m \in srows' \cup page.rows' : m \in Live' /\ Fresh(m, page.cur)'
  BY <1>2, <1>6 DEF Swept
<1> QED
  BY <1>7, <1>8, <1>9 DEF Swept

\* Rows only leave, and the snapshot keeps what the view keeps.
LEMMA RowsLeaveSwept ==
  ASSUME TypeOK, Swept, UNCHANGED <<dbVars, active, rpc, page, rPrev>>,
         srows' \subseteq srows, rpc = "idle" => rows' \subseteq srows'
  PROVE  Swept'
  BY DEF Swept, Fresh, MatchedUnits, UnitsOf, UnitOf, Live, dbVars

LEMMA InitSwept == Init => Swept
<1> SUFFICES ASSUME Init PROVE Swept
  OBVIOUS
<1>1. /\ rPrev = 1 /\ rev = 1 /\ page.cur = 0 /\ rpc = "idle" /\ rows = Answer(active) /\ srows = rows
      /\ \A m \in Msgs : mod[m] \in {0, 1}
  BY DEF Init, EmptyPage
<1>2. \A m \in rows : m \in Live /\ Fresh(m, rPrev)
  BY <1>1 DEF Answer, Fresh
<1> QED
  BY <1>1, <1>2 DEF Swept

\* The prune of a cycle takes the changed units that are not answered.
LEMMA CollectSwept ==
  ASSUME TypeOK, Swept, Collect
  PROVE  Swept'
<1> DEFINE kept == ChangedUnits \cap MatchedUnits(active)
           fresh == {m \in Live : UnitOf(active, m) \in kept}
<1>1. /\ UNCHANGED <<rev, mod, tags, active, rPrev>> /\ rpc' = "merge"
      /\ page'.cur = rev /\ page'.rows = fresh
      /\ srows' = {m \in srows : UnitOf(active, m) \notin ChangedUnits \ kept}
  BY DEF Collect, dbVars
<1>2. Live' = Live /\ MatchedUnits(active)' = MatchedUnits(active)
  BY <1>1 DEF MatchedUnits, UnitsOf, UnitOf, Live
<1>3. \A m \in fresh : m \in Live /\ UnitOf(active, m) \in MatchedUnits(active)
  OBVIOUS
<1>4. ASSUME NEW m \in srows'
      PROVE  m \in Live /\ UnitOf(active, m) \in MatchedUnits(active)
  <2>1. m \in srows /\ m \in Live /\ Fresh(m, rPrev)
    BY <1>1, <1>4 DEF Swept, Collect
  <2>2. ASSUME NEW n \in Live, UnitOf(active, n) = UnitOf(active, m), mod[n] > rPrev
        PROVE  UnitOf(active, m) \in ChangedUnits
    <3>1. rPrev <= mod[n] /\ mod[n] <= rev
      BY <2>2 DEF Swept, TypeOK, Live
    <3> QED
      BY <2>2, <3>1 DEF ChangedUnits, UnitsOf
  <2>3. UnitOf(active, m) \in MatchedUnits(active) \/ UnitOf(active, m) \in ChangedUnits
    BY <2>1, <2>2 DEF Fresh
  <2> QED
    BY <1>1, <1>4, <2>1, <2>3
<1>5. \A m \in srows' \cup page'.rows : m \in Live /\ UnitOf(active, m) \in MatchedUnits(active)
  BY <1>1, <1>3, <1>4
<1>6. \A m : UnitOf(active, m)' = UnitOf(active, m)
  BY <1>1 DEF UnitOf
<1>7. \A m \in srows' \cup page.rows' : m \in Live' /\ Fresh(m, page.cur)'
  BY <1>2, <1>5, <1>6 DEF Fresh
<1>8. rev \in Nat
  BY DEF TypeOK
<1> QED
  BY <1>1, <1>7, <1>8 DEF Swept

\* The merge makes the snapshot the view.
LEMMA MergeSwept ==
  ASSUME TypeOK, Swept, Merge
  PROVE  Swept'
<1>1. /\ UNCHANGED <<rev, mod, tags, active>> /\ rpc = "merge" /\ rpc' = "idle"
      /\ page'.cur = 0 /\ rPrev' = page.cur /\ rows' = srows' /\ srows' \subseteq srows \cup page.rows
  BY DEF Merge, dbVars, EmptyPage
<1>2. Live' = Live /\ MatchedUnits(active)' = MatchedUnits(active)
  BY <1>1 DEF MatchedUnits, UnitsOf, UnitOf, Live
<1>3. \A m : UnitOf(active, m)' = UnitOf(active, m)
  BY <1>1 DEF UnitOf
<1>4. \A m \in srows' : m \in Live /\ Fresh(m, page.cur)
  BY <1>1 DEF Swept
<1>5. \A m \in srows' : m \in Live' /\ Fresh(m, rPrev)'
  BY <1>1, <1>2, <1>3, <1>4 DEF Fresh
<1>6. rev \in Nat
  BY DEF TypeOK
<1> QED
  BY <1>1, <1>5, <1>6 DEF Swept

\* A load shows the answer; a view that is being switched to shows nothing.
LEMMA LoadSwept ==
  ASSUME TypeOK, Swept, Load \/ \E v \in Views : Switch(v)
  PROVE  Swept'
<1>1. CASE Load
  <2>1. /\ UNCHANGED <<rev, mod, tags, active, rPrev, page>> /\ rpc' = "idle"
        /\ rows' = Answer(active) /\ srows' = rows'
    BY <1>1 DEF Load, dbVars
  <2>2. Live' = Live /\ MatchedUnits(active)' = MatchedUnits(active)
        /\ \A m : UnitOf(active, m)' = UnitOf(active, m)
    BY <2>1 DEF MatchedUnits, UnitsOf, UnitOf, Live
  <2>3. \A m \in srows' : m \in Live' /\ Fresh(m, rPrev)'
    BY <2>1, <2>2 DEF Fresh, Answer
  <2> QED
    BY <2>1, <2>3 DEF Swept
<1>2. ASSUME NEW v \in Views, Switch(v) PROVE Swept'
  BY <1>2 DEF Switch, Swept, dbVars
<1> QED
  BY <1>1, <1>2

\* A writer changes the database by one tag write, or the rows by a removal.
LEMMA WriterSwept ==
  ASSUME TypeOK, Swept, TypeOK', NEW j \in Jobs, Writer(j)
  PROVE  Swept'
<1>1. CASE Tag(j) \/ TagFails(j)
  <2>1. UNCHANGED <<active, rows, srows, rpc, page, rPrev>>
    BY <1>1 DEF Tag, TagFails, viewVars, refVars
  <2>2. CASE WriteTags(j) /\ tags' # tags
    <3>1. /\ tags' = [tags EXCEPT ![job[j].msg] = Written(@, job[j].res)]
          /\ rev' = rev + 1 /\ mod' = [mod EXCEPT ![job[j].msg] = rev + 1]
      BY <2>2 DEF WriteTags
    <3>2. /\ job[j] \in JobStates /\ job[j].msg \in Msgs
          /\ Written(tags[job[j].msg], job[j].res) \in SUBSET Tags
      BY JobFields, TagSets DEF TypeOK, Written
    <3> DEFINE k == job[j].msg
               T == Written(tags[k], job[j].res)
    <3>3. tags' = [tags EXCEPT ![k] = T] /\ mod' = [mod EXCEPT ![k] = rev + 1]
      BY <3>1
    <3> HIDE DEF k, T
    <3> QED
      BY <2>1, <3>1, <3>2, <3>3, WriteKeepsSwept DEF k, T
  <2>3. CASE UNCHANGED dbVars \/ (WriteTags(j) /\ tags' = tags)
    <3>1. UNCHANGED dbVars
      BY <2>3 DEF WriteTags, dbVars
    <3> QED
      BY <2>1, <3>1, RowsLeaveSwept DEF Swept
  <2> QED
    BY <1>1, <2>2, <2>3 DEF Tag, TagFails
<1>2. CASE Remove(j)
  <2>1. /\ UNCHANGED <<dbVars, active, rpc, page, rPrev>> /\ srows' \subseteq srows
        /\ rows \subseteq srows => rows' \subseteq srows'
    BY <1>2 DEF Remove
  <2> QED
    BY <2>1, RowsLeaveSwept DEF Swept
<1>3. CASE Resolve(j) \/ ReadRow(j) \/ SetRow(j) \/ Clear(j) \/ KeptBy(j) \/ Finish(j)
  <2>1. UNCHANGED <<dbVars, active, rpc, page, rPrev, rows, srows>>
    BY <1>3 DEF Resolve, ReadRow, SetRow, Clear, KeptBy, Finish, viewVars, refVars
  <2> QED
    BY <2>1, RowsLeaveSwept DEF Swept
<1> QED
  BY <1>1, <1>2, <1>3 DEF Writer

\* A row that left the query does not stay: the removals of an apply, the prune
\* of a cycle and its carry-over, in any order, leave no row that the query
\* does not answer once the refresher has read the current revision.
THEOREM ApplyNoGhostRow == Spec => []NoGhostRow
<1>1. TypeOK /\ TypeOK' /\ Swept /\ [Next]_vars => Swept'
  <2> SUFFICES ASSUME TypeOK, TypeOK', Swept, [Next]_vars PROVE Swept'
    OBVIOUS
  <2>1. CASE Database
    <3> PICK m \in Msgs : Retag(m) \/ Arrive(m)
      BY <2>1 DEF Database
    <3>1. PICK T \in SUBSET Tags : tags' = [tags EXCEPT ![m] = T]
      BY DEF Retag, Arrive
    <3>2. /\ rev' = rev + 1 /\ mod' = [mod EXCEPT ![m] = rev + 1]
          /\ UNCHANGED <<active, rows, srows, rpc, page, rPrev>>
      BY DEF Retag, Arrive, viewVars, refVars
    <3> QED
      BY <3>1, <3>2, WriteKeepsSwept
  <2>2. CASE User /\ ~ \E v \in Views : Switch(v)
    <3>1. UNCHANGED <<dbVars, active, rpc, page, rPrev, rows, srows>>
      BY <2>2 DEF User, Undo, Stage, StartApply, StartRead, viewVars, refVars
    <3> QED
      BY <3>1, RowsLeaveSwept DEF Swept
  <2>3. CASE Collect \/ Merge \/ Load \/ \E v \in Views : Switch(v)
    BY <2>3, CollectSwept, MergeSwept, LoadSwept
  <2>4. ASSUME NEW j \in Jobs, Writer(j) PROVE Swept'
    BY <2>4, WriterSwept
  <2>5. CASE UNCHANGED vars
    BY <2>5, RowsLeaveSwept DEF Swept, vars, viewVars, refVars
  <2> QED
    BY <2>1, <2>2, <2>3, <2>4, <2>5 DEF Next
<1>2. TypeOK /\ Swept => NoGhostRow
  <2> SUFFICES ASSUME TypeOK, Swept, rpc = "idle", rev = rPrev, NEW m \in rows
               PROVE  m \in Answer(active)
    BY DEF NoGhostRow
  <2>1. m \in Live /\ Fresh(m, rPrev)
    BY DEF Swept
  <2>2. \A n \in Live : ~(mod[n] > rPrev)
    BY DEF Swept, TypeOK, Live
  <2> QED
    BY <2>1, <2>2 DEF Fresh, Answer
<1> QED
  BY <1>1, <1>2, InitSwept, ApplyTypeCorrect, PTL DEF Spec

=============================================================================
