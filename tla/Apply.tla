-------------------------------- MODULE Apply --------------------------------
(***************************************************************************)
(* Staged tag operations and the goroutines that apply them (src/app/      *)
(* apply.go, the staged buffer and the row setters of src/core/view.go).   *)
(* The user stages operations on rows; each press of the apply key starts  *)
(* a goroutine that snapshots the buffer, writes every entry to notmuch,   *)
(* reconciles the rows and asks notmuch whether the row still belongs to   *)
(* the view.  Opening a message starts another writer, the read mark.      *)
(* They run beside the refresher (Refresh, here in two steps: the calls    *)
(* of a cycle, and its merge) and beside other notmuch clients, and no     *)
(* lock spans two of their steps.                                          *)
(*                                                                         *)
(* The rows of the view and those of the refresher's snapshot are Go       *)
(* objects, and a merge that inserts a thread or a message into the view   *)
(* inserts the snapshot's own object: from then on a write to the row is a *)
(* write to the snapshot, too, until the object is replaced.               *)
(***************************************************************************)
EXTENDS Integers, Sequences, FiniteSets

CONSTANTS
  Msgs, Threads, Tags, Views, Flat, FirstView,
  ThreadOf,   \* ThreadOf[m]: the thread of message m
  Query,      \* Query[v]: the tag sets of the messages v's query matches
  Loose,      \* those that its first alternative matches, when it has an `or'
  Ops,        \* the operations the user can stage
  ReadOp,     \* the operation of the read mark
  Jobs,       \* goroutines that write tags
  Nil,        \* the tag list of a row that notmuch gave no tags, and of no row
  Failures,   \* the calls that may fail: "tag", "late", "check"
  MaxRev,     \* bound: the revision from which only staged operations write
  MaxGen,     \* bound: changes of the buffer made by the user
  MaxSwitch   \* bound: view switches

ASSUME ApplyAssumption ==
  /\ Msgs # {} /\ Msgs \cap Threads = {}
  /\ ThreadOf \in [Msgs -> Threads]
  /\ Flat \subseteq Views /\ FirstView \in Views
  /\ Query \in [Views -> SUBSET SUBSET Tags]
  /\ Loose \in [Views -> SUBSET SUBSET Tags]
  /\ Ops \subseteq [tag : Tags, add : BOOLEAN]
  /\ ReadOp \in [tag : Tags, add : BOOLEAN]
  /\ (\A T \in SUBSET Tags : T # Nil) /\ Failures \subseteq {"tag", "late", "check"}
  /\ MaxRev \in Nat /\ MaxGen \in Nat /\ MaxSwitch \in Nat

Units == Msgs \cup Threads
OpSeqs == Seq(Ops)

VARIABLES
  (* the database *)
  rev, mod, tags,
  (* the view: identity, rows, and which objects it shares with the snapshot *)
  active, units, rows, shown, sharedThreads, sharedMsgs,
  (* the staged buffer *)
  staged, stagedGen,
  (* the refresher *)
  rPrev, sunits, srows, sshown, rpc, page, switches,
  (* the writers *)
  job

dbVars == <<rev, mod, tags>>
viewVars == <<active, units, rows, shown, sharedThreads, sharedMsgs>>
bufVars == <<staged, stagedGen>>
refVars == <<rPrev, sunits, srows, sshown, rpc, page, switches>>
vars == <<dbVars, viewVars, bufVars, refVars, job>>

-----------------------------------------------------------------------------
(* Queries and operations.                                                 *)

Live == {m \in Msgs : mod[m] > 0}
UnitOf(v, m) == IF v \in Flat THEN m ELSE ThreadOf[m]
UnitsOf(v, S) == {UnitOf(v, m) : m \in S}
MatchedUnits(v) == UnitsOf(v, {m \in Live : tags[m] \in Query[v]})
Answer(v) == {m \in Live : UnitOf(v, m) \in MatchedUnits(v)}

\* ops applied in order to a tag set: the last operation on a tag decides
Net(T, ops) ==
  LET on(t) == {i \in DOMAIN ops : ops[i].tag = t}
      last(t) == CHOOSE i \in on(t) : \A k \in on(t) : k <= i
  IN {t \in Tags : IF on(t) = {} THEN t \in T ELSE ops[last(t)].add}

\* ResolveOps: the minimal change, as the tags to add and those to remove
Resolved(T, ops) == [add |-> Net(T, ops) \ T, del |-> T \ Net(T, ops)]
Written(T, r) == (T \cup r.add) \ r.del
NoChange == [add |-> {}, del |-> {}]

\* q and id:m, with an unparenthesised `or' in q
KeptAnswer(v, m) ==
  \/ \E n \in Live : tags[n] \in Loose[v]
  \/ m \in Live /\ tags[m] \in Query[v]

TagLists == {Nil} \cup SUBSET Tags
RowTags(m) == IF tags[m] = {} THEN Nil ELSE tags[m]
NoTags == [m \in Msgs |-> Nil]
EmptyPage == [cur |-> 0, rows |-> {}, tags |-> NoTags, kept |-> {}]
NoOps == [m \in Msgs |-> <<>>]
Idle == [pc |-> "idle", kind |-> "none", gen |-> 0, ops |-> NoOps, todo |-> {},
         msg |-> CHOOSE m \in Msgs : TRUE, res |-> NoChange, nw |-> {}]

Init ==
  /\ rev = 1 /\ mod \in [Msgs -> {0, 1}] /\ tags \in [Msgs -> SUBSET Tags]
  /\ \A m \in Msgs : mod[m] = 0 => tags[m] = {}
  /\ active = FirstView
  /\ rows = Answer(active)
  /\ shown = [m \in Msgs |-> IF m \in rows THEN RowTags(m) ELSE Nil]
  /\ units = UnitsOf(active, rows)
  /\ sunits = units /\ srows = rows /\ sshown = shown
  /\ sharedMsgs = rows /\ sharedThreads = units
  /\ staged = NoOps /\ stagedGen = 0
  /\ rPrev = 1 /\ rpc = "idle" /\ switches = 0
  /\ page = EmptyPage
  /\ job = [j \in Jobs |-> Idle]

-----------------------------------------------------------------------------
(* Other notmuch clients.                                                  *)

Retag(m) ==
  /\ rev < MaxRev /\ m \in Live
  /\ \E T \in SUBSET Tags : T # tags[m] /\ tags' = [tags EXCEPT ![m] = T]
  /\ rev' = rev + 1 /\ mod' = [mod EXCEPT ![m] = rev + 1]
  /\ UNCHANGED <<viewVars, bufVars, refVars, job>>

Arrive(m) ==
  /\ rev < MaxRev /\ m \notin Live
  /\ \E T \in SUBSET Tags : tags' = [tags EXCEPT ![m] = T]
  /\ rev' = rev + 1 /\ mod' = [mod EXCEPT ![m] = rev + 1]
  /\ UNCHANGED <<viewVars, bufVars, refVars, job>>

-----------------------------------------------------------------------------
(* The user.                                                               *)

Without(s, i) == [k \in 1 .. Len(s) - 1 |-> IF k < i THEN s[k] ELSE s[k + 1]]

\* Stage: an identical operation already staged is cancelled
Stage(m, op) ==
  /\ stagedGen < MaxGen /\ m \in rows
  /\ \/ /\ \A i \in 1 .. Len(staged[m]) : staged[m][i] # op
        /\ staged' = [staged EXCEPT ![m] = Append(@, op)]
     \/ \E i \in 1 .. Len(staged[m]) :
          /\ staged[m][i] = op
          /\ staged' = [staged EXCEPT ![m] = Without(@, i)]
  /\ stagedGen' = stagedGen + 1
  /\ UNCHANGED <<dbVars, viewVars, refVars, job>>

Undo(m) ==
  /\ stagedGen < MaxGen /\ staged[m] # <<>>
  /\ staged' = [staged EXCEPT ![m] = <<>>]
  /\ stagedGen' = stagedGen + 1
  /\ UNCHANGED <<dbVars, viewVars, refVars, job>>

-----------------------------------------------------------------------------
(* The writers.                                                            *)

InBuffer == {m \in Msgs : staged[m] # <<>>}

\* the apply key: the goroutine takes the buffer and its generation
StartApply(j) ==
  /\ job[j].pc = "idle" /\ InBuffer # {}
  /\ job' = [job EXCEPT ![j] = [Idle EXCEPT !.pc = "next", !.kind = "apply",
                !.gen = stagedGen, !.ops = staged, !.todo = InBuffer]]
  /\ UNCHANGED <<dbVars, viewVars, bufVars, refVars>>

\* a message is opened: the read mark
StartRead(j, m) ==
  /\ rev < MaxRev /\ job[j].pc = "idle" /\ m \in rows
  /\ job' = [job EXCEPT ![j] = [Idle EXCEPT !.pc = "tag", !.kind = "read", !.msg = m,
                !.res = [add |-> IF ReadOp.add THEN {ReadOp.tag} ELSE {},
                         del |-> IF ReadOp.add THEN {} ELSE {ReadOp.tag}]]]
  /\ UNCHANGED <<dbVars, viewVars, bufVars, refVars>>

ClearAlways(gen, m) ==  \* mutant: the generation is not compared
  /\ staged' = [staged EXCEPT ![m] = <<>>]
  /\ UNCHANGED stagedGen

\* ClearStaged: only if nothing was staged or undone since the snapshot
ClearStaged(gen, m) ==
  /\ staged' = IF stagedGen = gen THEN [staged EXCEPT ![m] = <<>>] ELSE staged
  /\ UNCHANGED stagedGen

\* what an apply has to write: nothing where Tags returns nil
Due(j, m) ==
  IF shown[m] = Nil THEN NoChange ELSE Resolved(shown[m], job[j].ops[m])

ResolveLeaves(j) ==  \* mutant: a net no-op stays in the buffer
  /\ job[j].pc = "next" /\ job[j].todo # {}
  /\ \E m \in job[j].todo :
       LET r == Due(j, m)
       IN IF r = NoChange
          THEN /\ job' = [job EXCEPT ![j].todo = @ \ {m}]
               /\ UNCHANGED bufVars
          ELSE /\ job' = [job EXCEPT ![j].todo = @ \ {m}, ![j].msg = m,
                                     ![j].res = r, ![j].pc = "tag"]
               /\ UNCHANGED bufVars
  /\ UNCHANGED <<dbVars, viewVars, refVars>>

\* the next entry: rows without a tag list and net no-ops are cleared, the
\* others written, in any order
Resolve(j) ==
  /\ job[j].pc = "next" /\ job[j].todo # {}
  /\ \E m \in job[j].todo :
       LET r == Due(j, m)
       IN \/ /\ r = NoChange
             /\ ClearStaged(job[j].gen, m)
             /\ job' = [job EXCEPT ![j].todo = @ \ {m}]
          \/ /\ r # NoChange
             /\ job' = [job EXCEPT ![j].todo = @ \ {m}, ![j].msg = m,
                                   ![j].res = r, ![j].pc = "tag"]
             /\ UNCHANGED bufVars
  /\ UNCHANGED <<dbVars, viewVars, refVars>>

Finish(j) ==
  /\ job[j].pc = "next" /\ job[j].todo = {}
  /\ job' = [job EXCEPT ![j] = Idle]
  /\ UNCHANGED <<dbVars, viewVars, bufVars, refVars>>

\* a writer whose entry failed or is done goes on with the next one
GoOn(j) == job' = [job EXCEPT ![j].pc = "next", ![j].res = NoChange,
                              ![j].nw = {}]

WriteTags(j) ==
  /\ tags' = [tags EXCEPT ![job[j].msg] = Written(@, job[j].res)]
  /\ IF tags' = tags THEN UNCHANGED <<rev, mod>>
     ELSE rev' = rev + 1 /\ mod' = [mod EXCEPT ![job[j].msg] = rev + 1]

\* ActTag succeeds
Tag(j) ==
  /\ job[j].pc = "tag"
  /\ WriteTags(j)
  /\ job' = [job EXCEPT ![j].pc = "row"]
  /\ UNCHANGED <<viewVars, bufVars, refVars>>

\* it fails, or the answer comes after the lock budget: the entry stays staged
TagFails(j) ==
  /\ job[j].pc = "tag"
  /\ \/ "tag" \in Failures /\ UNCHANGED dbVars
     \/ "late" \in Failures /\ WriteTags(j)
  /\ GoOn(j)
  /\ UNCHANGED <<viewVars, bufVars, refVars>>

AfterRow(j) == IF job[j].kind = "apply" THEN "clear" ELSE "next"

\* tagWrite reads the row's tags and computes the new ones ...
ReadRow(j) ==
  /\ job[j].pc = "row"
  /\ LET m == job[j].msg
         nw == IF shown[m] = Nil THEN Nil ELSE Written(shown[m], job[j].res)
     IN IF nw # shown[m]
        THEN job' = [job EXCEPT ![j].nw = nw, ![j].pc = "set"]
        ELSE job' = [job EXCEPT ![j].pc = AfterRow(j)]
  /\ UNCHANGED <<dbVars, viewVars, bufVars, refVars>>

SetAnyRow(j) ==  \* mutant: a row that left meanwhile is written, too
  /\ job[j].pc = "set"
  /\ shown' = [shown EXCEPT ![job[j].msg] = job[j].nw]
  /\ sshown' = IF job[j].msg \in sharedMsgs
               THEN [sshown EXCEPT ![job[j].msg] = job[j].nw] ELSE sshown
  /\ job' = [job EXCEPT ![j].pc = AfterRow(j)]
  /\ UNCHANGED <<dbVars, active, units, rows, sharedThreads, sharedMsgs, bufVars,
                 rPrev, sunits, srows, rpc, page, switches>>

\* ... and sets them on the row, if it is still there
SetRow(j) ==
  /\ job[j].pc = "set"
  /\ LET m == job[j].msg
     IN IF m \in rows
        THEN /\ shown' = [shown EXCEPT ![m] = job[j].nw]
             /\ sshown' = IF m \in sharedMsgs THEN [sshown EXCEPT ![m] = job[j].nw]
                          ELSE sshown
        ELSE UNCHANGED <<shown, sshown>>
  /\ job' = [job EXCEPT ![j].pc = AfterRow(j)]
  /\ UNCHANGED <<dbVars, active, units, rows, sharedThreads, sharedMsgs, bufVars,
                 rPrev, sunits, srows, rpc, page, switches>>

Clear(j) ==
  /\ job[j].pc = "clear"
  /\ ClearStaged(job[j].gen, job[j].msg)
  /\ job' = [job EXCEPT ![j].pc = "check"]
  /\ UNCHANGED <<dbVars, viewVars, refVars>>

\* keptBy: a miss drops the row; the error of the reply reads as a miss
KeptBy(j) ==
  /\ job[j].pc = "check"
  /\ \/ /\ KeptAnswer(active, job[j].msg) /\ GoOn(j)
     \/ /\ ~KeptAnswer(active, job[j].msg)
        /\ job' = [job EXCEPT ![j].pc = "remove"]
     \/ "check" \in Failures /\ job' = [job EXCEPT ![j].pc = "remove"]
     \/ "check" \in Failures /\ GoOn(j)
  /\ UNCHANGED <<dbVars, viewVars, bufVars, refVars>>

\* the message leaves its thread, and with a shared thread the snapshot; a
\* thread without messages leaves the view
Remove(j) ==
  /\ job[j].pc = "remove"
  /\ LET m == job[j].msg
         u == UnitOf(active, m)
     IN IF m \in rows
        THEN /\ rows' = rows \ {m} /\ shown' = [shown EXCEPT ![m] = Nil]
             /\ sharedMsgs' = sharedMsgs \ {m}
             /\ IF u \in sharedThreads
                THEN srows' = srows \ {m} /\ sshown' = [sshown EXCEPT ![m] = Nil]
                ELSE UNCHANGED <<srows, sshown>>
             /\ IF u \in UnitsOf(active, rows') THEN UNCHANGED <<units, sharedThreads>>
                ELSE units' = units \ {u} /\ sharedThreads' = sharedThreads \ {u}
        ELSE UNCHANGED <<units, rows, shown, sharedMsgs, sharedThreads, srows,
                         sshown>>
  /\ GoOn(j)
  /\ UNCHANGED <<dbVars, active, bufVars, rPrev, sunits, rpc, page, switches>>

-----------------------------------------------------------------------------
(* The refresher, its calls in one step and its merge in another.          *)

ChangedUnits == UnitsOf(active, {m \in Live : rPrev <= mod[m] /\ mod[m] <= rev})

CollectKeeps ==  \* mutant: threads that left the query are not pruned
  /\ rpc = "idle" /\ rev # rPrev
  /\ LET kept == ChangedUnits \cap MatchedUnits(active)
         fresh == {m \in Live : UnitOf(active, m) \in kept}
     IN page' = [cur |-> rev, rows |-> fresh, kept |-> kept,
                 tags |-> [m \in Msgs |-> IF m \in fresh THEN RowTags(m) ELSE Nil]]
  /\ rpc' = "merge"
  /\ UNCHANGED <<dbVars, viewVars, bufVars, rPrev, sunits, srows, sshown, switches,
                 job>>

Collect ==
  /\ rpc = "idle" /\ rev # rPrev
  /\ LET kept == ChangedUnits \cap MatchedUnits(active)
         gone == ChangedUnits \ kept
         fresh == {m \in Live : UnitOf(active, m) \in kept}
     IN /\ page' = [cur |-> rev, rows |-> fresh, kept |-> kept,
                    tags |-> [m \in Msgs |-> IF m \in fresh THEN RowTags(m) ELSE Nil]]
        /\ sunits' = sunits \ gone
        /\ srows' = {m \in srows : UnitOf(active, m) \notin gone}
        /\ sshown' = [m \in Msgs |-> IF m \in srows' THEN sshown[m] ELSE Nil]
        /\ sharedThreads' = sharedThreads \ gone
        /\ sharedMsgs' = sharedMsgs \cap srows'
  /\ rpc' = "merge"
  /\ UNCHANGED <<dbVars, active, units, rows, shown, bufVars, rPrev, switches, job>>

\* MergeThreads: a thread or a message the view has keeps its object, one it
\* has not, or whose thread rises in the order, comes in as the snapshot's own
Merge ==
  /\ rpc = "merge"
  /\ sunits' = sunits \cup page.kept
  /\ srows' = {m \in srows : UnitOf(active, m) \notin page.kept} \cup page.rows
  /\ sshown' = [m \in Msgs |-> IF m \in page.rows THEN page.tags[m]
                               ELSE IF m \in srows' THEN sshown[m] ELSE Nil]
  /\ \E risen \in SUBSET UnitsOf(active, page.rows \ rows) :
       LET here == units \ risen
           carried == here \ page.kept
           at(m) == UnitOf(active, m)
       IN /\ sharedThreads' = (sunits' \ here) \cup (sharedThreads \cap carried)
          /\ sharedMsgs' = {m \in srows' : \/ at(m) \notin here \/ m \notin rows
                                           \/ at(m) \in carried /\ m \in sharedMsgs}
  /\ units' = sunits' /\ rows' = srows' /\ shown' = sshown'
  /\ rPrev' = page.cur /\ page' = EmptyPage /\ rpc' = "idle"
  /\ UNCHANGED <<dbVars, active, bufVars, switches, job>>

\* onConfig: the other view's identity, no rows ...
Switch(v) ==
  /\ rpc = "idle" /\ switches < MaxSwitch /\ v # active
  /\ active' = v /\ units' = {} /\ rows' = {} /\ shown' = NoTags
  /\ sharedThreads' = {} /\ sharedMsgs' = {}
  /\ switches' = switches + 1 /\ rpc' = "load"
  /\ UNCHANGED <<dbVars, bufVars, rPrev, sunits, srows, sshown, page, job>>

\* ... and the walk
Load ==
  /\ rpc = "load"
  /\ rows' = Answer(active) /\ units' = MatchedUnits(active)
  /\ shown' = [m \in Msgs |-> IF m \in rows' THEN RowTags(m) ELSE Nil]
  /\ sunits' = units' /\ srows' = rows' /\ sshown' = shown'
  /\ sharedMsgs' = rows' /\ sharedThreads' = units'
  /\ rpc' = "idle"
  /\ UNCHANGED <<dbVars, active, bufVars, rPrev, page, switches, job>>

-----------------------------------------------------------------------------
Database == \E m \in Msgs : Retag(m) \/ Arrive(m)

User ==
  \/ \E m \in Msgs : Undo(m) \/ \E op \in Ops : Stage(m, op)
  \/ \E j \in Jobs : StartApply(j) \/ \E m \in Msgs : StartRead(j, m)
  \/ \E v \in Views : Switch(v)

Writer(j) ==
  \/ Resolve(j) \/ Tag(j) \/ TagFails(j) \/ ReadRow(j) \/ SetRow(j)
  \/ Clear(j) \/ KeptBy(j) \/ Remove(j) \/ Finish(j)

Next == Database \/ User \/ Collect \/ Merge \/ Load \/ \E j \in Jobs : Writer(j)

Spec == Init /\ [][Next]_vars

(* A goroutine goes on, and the writes of an apply do not fail for ever.    *)
(* Nothing is assumed of the user, of other clients and of the refresher.  *)
Fairness ==
  \A j \in Jobs : /\ WF_vars(Writer(j))
                  /\ SF_vars(job[j].kind = "apply" /\ Tag(j))

FairSpec == Spec /\ Fairness

-----------------------------------------------------------------------------
(* Properties.                                                             *)

JobStates ==
  [pc : {"idle", "next", "tag", "row", "set", "clear", "check", "remove"},
   kind : {"none", "apply", "read"}, gen : Nat, ops : [Msgs -> OpSeqs],
   todo : SUBSET Msgs, msg : Msgs, res : [add : SUBSET Tags, del : SUBSET Tags],
   nw : SUBSET Tags]

TypeOK ==
  /\ rev \in Nat /\ mod \in [Msgs -> Nat] /\ tags \in [Msgs -> SUBSET Tags]
  /\ active \in Views /\ units \subseteq Units /\ rows \subseteq Msgs
  /\ shown \in [Msgs -> TagLists] /\ \A m \in Msgs \ rows : shown[m] = Nil
  /\ sharedThreads \subseteq Units /\ sharedMsgs \subseteq Msgs
  /\ staged \in [Msgs -> OpSeqs] /\ stagedGen \in Nat
  /\ rPrev \in Nat /\ sunits \subseteq Units /\ srows \subseteq Msgs
  /\ sshown \in [Msgs -> TagLists]
  /\ rpc \in {"idle", "merge", "load"} /\ switches \in Nat
  /\ page \in [cur : Nat, rows : SUBSET Msgs, tags : [Msgs -> TagLists],
               kept : SUBSET Units]
  /\ job \in [Jobs -> JobStates]

\* Operations staged while an apply is in flight are never cleared by it: what
\* a goroutine takes out of the buffer is what it put into its snapshot.
StagedSurvive ==
  [][\A j \in Jobs : Resolve(j) \/ Clear(j) =>
       \A m \in Msgs : staged'[m] # staged[m] => staged[m] = job[j].ops[m]]_vars

Guarded ==
  \A j \in Jobs :
    /\ job[j].todo # {} \/ job[j].pc = "clear" => job[j].kind = "apply"
    /\ job[j].kind = "apply" =>
         /\ job[j].gen <= stagedGen
         /\ job[j].gen = stagedGen =>
              \A m \in Msgs : staged[m] \in {job[j].ops[m], <<>>}

\* The inductive invariant: an apply whose generation is current has a snapshot
\* from which the buffer differs only by what was cleared.
IInv == TypeOK /\ Guarded

\* A row that left the query does not stay: the removals of the apply, the
\* prune of the refresher and its carry-over, in any order, leave no row of a
\* message the query does not answer once the refresher has read the revision
\* the database is at.
NoGhostRow == rpc = "idle" /\ rev = rPrev => rows \subseteq Answer(active)

Fresh(m, r) ==
  \/ UnitOf(active, m) \in MatchedUnits(active)
  \/ \E n \in Live : UnitOf(active, n) = UnitOf(active, m) /\ mod[n] > r

\* The inductive invariant of NoGhostRow: a row of the snapshot is answered, or
\* its unit changed after the revision the refresher asks from next; the view
\* has no rows beyond the snapshot's while no merge is due.
Swept ==
  /\ rPrev <= rev /\ page.cur <= rev /\ \A m \in Msgs : mod[m] <= rev
  /\ rpc = "idle" => rows \subseteq srows /\ \A m \in srows : m \in Live /\ Fresh(m, rPrev)
  /\ rpc = "merge" => \A m \in srows \cup page.rows : m \in Live /\ Fresh(m, page.cur)

\* What is staged can be applied: since the changes of the buffer are bounded
\* (MaxGen), a user who goes on pressing the apply key runs out of entries, for
\* an apply clears what it wrote, what is a net no-op and what has no row.
Drains == <>[][~ \E j \in Jobs : StartApply(j)]_vars
=============================================================================
