--------------------------- MODULE PollLoop_proofs ---------------------------
(* Proofs about PollLoop: its types, one sync command, one filter pipeline. *)
EXTENDS PollLoop, TLAPS

-----------------------------------------------------------------------------
(* The channel.                                                            *)

Channels == {q \in Seq(Events) : Len(q) <= Capacity}
Dones(q) == {i \in DOMAIN q : q[i] = "SyncDone"}
AtMostOne(q) == \A i, j \in Dones(q) : i = j

\* no completion is put into the channel
Keeps(q, r) == /\ AtMostOne(q) => AtMostOne(r)
               /\ Dones(q) = {} => Dones(r) = {}

\* Offering an event gives a channel.
LEMMA OfferType ==
  ASSUME NEW q \in Channels, NEW e \in Events
  PROVE  Offer(q, e) \in Channels
<1>1. q \in Seq(Events) /\ Len(q) \in Nat /\ Len(q) <= Capacity
  BY DEF Channels
<1>2. CASE Len(q) < Capacity
  <2>1. Append(q, e) \in Seq(Events) /\ Len(Append(q, e)) = Len(q) + 1
    BY <1>1
  <2> QED  BY <1>1, <1>2, <2>1, PollAssumption DEF Offer, Channels
<1>3. CASE ~(Len(q) < Capacity)
  BY <1>3 DEF Offer
<1> QED  BY <1>2, <1>3

\* Appending events other than SyncDone puts no completion into the channel.
LEMMA AppendKeeps ==
  ASSUME NEW q \in Seq(Events), NEW s \in Seq(Events), Dones(s) = {}
  PROVE  Keeps(q, q \o s)
<1>1. /\ q \o s \in Seq(Events)
      /\ DOMAIN q = 1..Len(q) /\ DOMAIN s = 1..Len(s)
      /\ DOMAIN (q \o s) = 1..(Len(q) + Len(s))
      /\ Len(q) \in Nat /\ Len(s) \in Nat
      /\ \A i \in 1..(Len(q) + Len(s)) :
           (q \o s)[i] = IF i <= Len(q) THEN q[i] ELSE s[i - Len(q)]
  OBVIOUS
<1>2. Dones(q \o s) \subseteq Dones(q)
  <2> SUFFICES ASSUME NEW i \in Dones(q \o s) PROVE i \in Dones(q)
    OBVIOUS
  <2>1. i \in 1..(Len(q) + Len(s)) /\ (q \o s)[i] = "SyncDone"
    BY <1>1 DEF Dones
  <2>2. CASE i <= Len(q)
    BY <1>1, <2>1, <2>2 DEF Dones
  <2>3. CASE ~(i <= Len(q))
    <3>1. i - Len(q) \in 1..Len(s) /\ s[i - Len(q)] = "SyncDone"
      BY <1>1, <2>1, <2>3
    <3> QED  BY <1>1, <3>1 DEF Dones
  <2> QED  BY <2>2, <2>3
<1> QED  BY <1>2 DEF Keeps, AtMostOne

\* A prefix holds no completion the whole does not hold.
LEMMA PrefixKeeps ==
  ASSUME NEW q \in Seq(Events), NEW n \in Nat, n <= Len(q)
  PROVE  /\ SubSeq(q, 1, n) \in Seq(Events) /\ Len(SubSeq(q, 1, n)) = n
         /\ Keeps(q, SubSeq(q, 1, n))
<1> DEFINE p == SubSeq(q, 1, n)
<1>1. /\ p \in Seq(Events) /\ Len(p) = n
      /\ DOMAIN p = 1..n /\ DOMAIN q = 1..Len(q)
      /\ \A i \in 1..n : p[i] = q[i]
  OBVIOUS
<1>2. Dones(p) \subseteq Dones(q)
  BY <1>1 DEF Dones
<1> QED  BY <1>1, <1>2 DEF Keeps, AtMostOne

\* Offering an event other than SyncDone puts no completion into the channel.
LEMMA OfferKeeps ==
  ASSUME NEW q \in Channels, NEW e \in Events, e # "SyncDone"
  PROVE  Keeps(q, Offer(q, e))
<1>1. q \in Seq(Events)
  BY DEF Channels
<1>2. <<e>> \in Seq(Events) /\ Dones(<<e>>) = {}
  BY DEF Dones
<1>3. Keeps(q, q \o <<e>>)
  BY <1>1, <1>2, AppendKeeps
<1>4. Append(q, e) = q \o <<e>>
  BY <1>1
<1>5. Keeps(q, q)
  BY DEF Keeps
<1> QED  BY <1>3, <1>4, <1>5 DEF Offer

\* A completion offered to a channel without one is its only one.
LEMMA OfferDone ==
  ASSUME NEW q \in Channels, Dones(q) = {}
  PROVE  AtMostOne(Offer(q, "SyncDone"))
<1>1. q \in Seq(Events) /\ Len(q) \in Nat
  BY DEF Channels
<1> DEFINE r == Append(q, "SyncDone")
<1>2. /\ DOMAIN r = 1..(Len(q) + 1) /\ DOMAIN q = 1..Len(q)
      /\ \A i \in 1..Len(q) : r[i] = q[i]
  BY <1>1 DEF Events
<1>3. \A i \in Dones(r) : i = Len(q) + 1
  <2> SUFFICES ASSUME NEW i \in Dones(r), i # Len(q) + 1 PROVE FALSE
    OBVIOUS
  <2>1. i \in 1..Len(q) /\ q[i] = "SyncDone"
    BY <1>1, <1>2 DEF Dones
  <2> QED  BY <1>2, <2>1 DEF Dones
<1>4. AtMostOne(r)
  BY <1>3 DEF AtMostOne
<1> QED  BY <1>4 DEF Offer, AtMostOne

\* Receiving gives a channel; the only completion is gone when it is received.
LEMMA TailFacts ==
  ASSUME NEW q \in Channels, q # <<>>
  PROVE  /\ Tail(q) \in Channels
         /\ Keeps(q, Tail(q))
         /\ AtMostOne(q) /\ Head(q) = "SyncDone" => Dones(Tail(q)) = {}
<1>1. /\ q \in Seq(Events) /\ Len(q) \in Nat /\ Len(q) <= Capacity
  BY DEF Channels
<1> DEFINE r == Tail(q)
<1>2. /\ r \in Seq(Events) /\ Len(r) = Len(q) - 1 /\ Len(q) > 0
      /\ DOMAIN r = 1..(Len(q) - 1) /\ DOMAIN q = 1..Len(q)
      /\ \A i \in 1..(Len(q) - 1) : r[i] = q[i + 1]
      /\ Head(q) = q[1]
  BY <1>1
<1>3. \A i \in Dones(r) : i \in Nat /\ i > 0 /\ i + 1 \in Dones(q)
  BY <1>1, <1>2 DEF Dones
<1>4. r \in Channels
  BY <1>1, <1>2, PollAssumption DEF Channels
<1>5. AtMostOne(q) => AtMostOne(r)
  BY <1>3 DEF AtMostOne
<1>6. Dones(q) = {} => Dones(r) = {}
  BY <1>3
<1>7. ASSUME AtMostOne(q), Head(q) = "SyncDone" PROVE Dones(r) = {}
  <2>1. 1 \in Dones(q)
    BY <1>1, <1>2, <1>7 DEF Dones
  <2> SUFFICES ASSUME NEW i \in Dones(r) PROVE FALSE
    OBVIOUS
  <2>2. i + 1 = 1
    BY <1>3, <1>7, <2>1 DEF AtMostOne
  <2> QED  BY <1>3, <2>2
<1> QED  BY <1>4, <1>5, <1>6, <1>7 DEF Keeps

\* The events of a reload or a merge.
LEMMA BurstFacts ==
  ASSUME NEW q \in Channels, NEW r \in Bursts(q)
  PROVE  r \in Channels /\ Keeps(q, r)
<1>1. q \in Seq(Events) /\ Len(q) \in Nat /\ Len(q) <= Capacity
  BY DEF Channels
<1>2. PICK n \in {k \in 0..Burst : Len(q) + k <= Capacity} :
                r = q \o [i \in 1..n |-> "Other"]
  BY Zenon DEF Bursts
<1>n. n \in Nat /\ Len(q) + n <= Capacity
  BY <1>2, PollAssumption
<1> DEFINE s == [i \in 1..n |-> "Other"]
<1>3. s \in Seq(Events) /\ Len(s) = n /\ DOMAIN s = 1..n
  BY <1>n DEF Events
<1>4. Dones(s) = {}
  BY <1>3 DEF Dones
<1>5. q \o s \in Seq(Events) /\ Len(q \o s) = Len(q) + n
  BY <1>1, <1>3
<1>6. Keeps(q, q \o s)
  BY <1>1, <1>3, <1>4, AppendKeeps
<1> QED  BY <1>2, <1>n, <1>5, <1>6 DEF Channels

\* An edit of the configuration.
LEMMA ConfigFacts ==
  ASSUME ch \in Channels, PublishConfig
  PROVE  ch' \in Channels /\ Keeps(ch, ch')
<1> DEFINE s == <<"Other", "ConfigView", "Other", "ConfigRefresh">>
           q == ch \o s
<1>1. ch \in Seq(Events) /\ Len(ch) \in Nat /\ Len(ch) <= Capacity
  BY DEF Channels
<1>2. s \in Seq(Events) /\ Dones(s) = {}
  <2>1. s \in Seq(Events) /\ DOMAIN s = 1..4
    BY DEF Events
  <2>2. \A i \in 1..4 : s[i] # "SyncDone"
    OBVIOUS
  <2> QED  BY <2>1, <2>2 DEF Dones
<1>3. q \in Seq(Events) /\ Keeps(ch, q) /\ Len(q) \in Nat
  <2> HIDE DEF s
  <2>1. ch \o s \in Seq(Events) /\ Len(ch \o s) \in Nat
    BY <1>1, <1>2
  <2>2. Keeps(ch, ch \o s)
    BY <1>1, <1>2, AppendKeeps
  <2> QED  BY <2>1, <2>2
<1>4. ch' = IF Len(q) > Capacity THEN SubSeq(q, 1, Capacity) ELSE q
  BY DEF PublishConfig
<1> HIDE DEF q
<1>5. CASE Len(q) > Capacity
  <2>1. Capacity \in Nat /\ Capacity <= Len(q)
    BY <1>3, <1>5, PollAssumption
  <2>2. /\ SubSeq(q, 1, Capacity) \in Channels
        /\ Keeps(q, SubSeq(q, 1, Capacity))
    BY <1>3, <2>1, PrefixKeeps DEF Channels
  <2> QED  BY <1>3, <1>4, <1>5, <2>2 DEF Keeps
<1>6. CASE ~(Len(q) > Capacity)
  BY <1>3, <1>4, <1>6, PollAssumption DEF Channels
<1> QED  BY <1>5, <1>6
-----------------------------------------------------------------------------
(* Types and gates.                                                        *)

LEMMA ChannelsOfType == ASSUME TypeOK PROVE ch \in Channels
  BY DEF TypeOK, Channels

\* Publishing gives a channel, and a completion only if one is published.
LEMMA PublishFacts ==
  ASSUME ch \in Channels, NEW e \in Events, Publish(e), dropped \in BOOLEAN
  PROVE  /\ ch' \in Channels /\ dropped' \in BOOLEAN
         /\ e # "SyncDone" => Keeps(ch, ch')
         /\ e = "SyncDone" /\ Dones(ch) = {} => AtMostOne(ch')
<1>1. ch' = Offer(ch, e) /\ dropped' \in BOOLEAN
  BY DEF Publish
<1>2. Offer(ch, e) \in Channels
  BY OfferType
<1>3. e # "SyncDone" => Keeps(ch, Offer(ch, e))
  BY OfferKeeps
<1>4. e = "SyncDone" /\ Dones(ch) = {} => AtMostOne(Offer(ch, e))
  BY OfferDone
<1> QED  BY <1>1, <1>2, <1>3, <1>4

Spots == {"wait", "new", "cycle", "merge", "reload", "panic"}
Tally == [JobPhases -> Nat]
Execs == [running : Nat, ended : Nat]

\* The continuation of a poll starts at most a goroutine, in its first phase.
LEMMA AfterSyncFacts ==
  ASSUME TypeOK, NEW q \in Channels, AfterSync(q)
  PROVE  /\ ch' = q /\ pc' \in Spots /\ jobs' \in Tally
         /\ \A p \in JobPhases \ {"start"} : jobs'[p] = jobs[p]
<1>1. jobs \in Tally /\ pc \in Spots /\ jobs["start"] \in Nat
  BY DEF TypeOK, Tally, Spots, JobPhases
<1>2. CASE jobs' = [jobs EXCEPT !["start"] = @ + 1] /\ UNCHANGED pc
  <2>0. jobs["start"] + 1 \in Nat
    BY <1>1
  <2>1. jobs' \in Tally
    BY <1>1, <1>2, <2>0 DEF Tally
  <2>2. \A p \in JobPhases \ {"start"} : jobs'[p] = jobs[p]
    BY <1>1, <1>2 DEF Tally
  <2> QED  BY <1>1, <1>2, <2>1, <2>2 DEF AfterSync
<1>3. CASE pc' = "new" /\ UNCHANGED jobs
  BY <1>1, <1>3 DEF AfterSync, Spots
<1> QED  BY <1>2, <1>3 DEF AfterSync

\* A poll that starts a sync command finds the gate open and shuts it.
LEMMA PollFacts ==
  ASSUME TypeOK, NEW q \in Channels, Poll(q)
  PROVE  /\ ch' \in Channels /\ pc' \in Spots /\ jobs' \in Tally
         /\ syncs' \in Execs /\ pollRunning' \in BOOLEAN
         /\ \A p \in JobPhases \ {"start"} : jobs'[p] = jobs[p]
         /\ Keeps(q, ch')
         /\ \/ UNCHANGED <<syncs, pollRunning>>
            \/ /\ ~pollRunning /\ pollRunning'
               /\ syncs' = [syncs EXCEPT !.running = @ + 1]
<1>1. /\ jobs \in Tally /\ pc \in Spots /\ syncs \in Execs
      /\ syncs.running \in Nat /\ pollRunning \in BOOLEAN
  BY DEF TypeOK, Tally, Spots, Execs
<1>2. Keeps(q, q)
  BY DEF Keeps
<1>3. CASE pollRunning /\ ch' = q /\ UNCHANGED <<pc, pollRunning, syncs, jobs>>
  BY <1>1, <1>2, <1>3
<1>4. CASE ~pollRunning /\ StartSync(q)
  <2>1. Offer(q, "Other") \in Channels /\ Keeps(q, Offer(q, "Other"))
    BY OfferType, OfferKeeps DEF Events
  <2>2. syncs' \in Execs
    BY <1>1, <1>4 DEF StartSync, Execs
  <2> QED  BY <1>1, <1>4, <2>1, <2>2 DEF StartSync
<1>5. CASE AfterSync(q) /\ UNCHANGED <<pollRunning, syncs>>
  BY <1>1, <1>2, <1>5, AfterSyncFacts
<1> QED  BY <1>3, <1>4, <1>5 DEF Poll

\* One phase down and another up, or a goroutine that ends.
LEMMA JobFacts ==
  ASSUME TypeOK, NEW p \in JobPhases, jobs[p] > 0
  PROVE  /\ \A q \in JobPhases : Move(p, q) => jobs' \in Tally
         /\ jobs' = [jobs EXCEPT ![p] = @ - 1] => jobs' \in Tally
         /\ Leave(p) => jobs' \in Tally /\ jobRunning' = FALSE
<1>1. jobs \in Tally /\ \A q \in JobPhases : jobs[q] \in Nat
  BY DEF TypeOK, Tally
<1>2. jobs[p] - 1 \in Nat
  BY <1>1
<1>3. ASSUME NEW q \in JobPhases, Move(p, q) PROVE jobs' \in Tally
  BY <1>1, <1>2, <1>3 DEF Move, Tally
<1> QED  BY <1>1, <1>2, <1>3 DEF Leave, Tally

\* Every step keeps the types.
LEMMA TypeStep == TypeOK /\ [Next]_vars => TypeOK'
<1> SUFFICES ASSUME TypeOK, [Next]_vars PROVE TypeOK'
  OBVIOUS
<1> USE DEF mailVars, cfgVars, viewVars, loopVars, jobVars, extVars
<1>c. ch \in Channels
  BY ChannelsOfType
<1>t. /\ jobs \in Tally /\ syncs \in Execs /\ pc \in Spots
      /\ \A p \in JobPhases : jobs[p] \in Nat
      /\ syncs.running \in Nat /\ syncs.ended \in Nat /\ dropped \in BOOLEAN
  BY DEF TypeOK, Tally, Execs, Spots
<1>h. ch # <<>> => Tail(ch) \in Channels
  BY <1>c, TailFacts
<1>e. {"Other", "WorkerDone", "SyncDone", "RefreshRequested", "ConfigView"} \subseteq Events
  BY DEF Events
<1>p. ASSUME NEW e \in Events, Publish(e)
      PROVE  ch' \in Channels /\ dropped' \in BOOLEAN
  BY <1>c, <1>t, <1>p, PublishFacts
<1>j. /\ \A p, q \in JobPhases : jobs[p] > 0 /\ Move(p, q) => jobs' \in Tally
      /\ \A p \in JobPhases : jobs[p] > 0 /\ Leave(p) =>
                                jobs' \in Tally /\ jobRunning' = FALSE
      /\ \A p \in JobPhases : jobs[p] > 0 /\ jobs' = [jobs EXCEPT ![p] = @ - 1]
                                => jobs' \in Tally
  BY JobFacts
<1>s. {"start", "new", "window", "classify"} \subseteq JobPhases
  BY DEF JobPhases
<1>1. CASE Tick \/ Watch \/ ReceiveRefresh
  <2>1. PICK q \in Channels : Poll(q)
    BY <1>1, <1>c, <1>h DEF Tick, Watch, ReceiveRefresh
  <2> QED  BY <1>1, <1>t, <2>1, PollFacts
           DEF Tick, Watch, ReceiveRefresh, TypeOK, Channels, Spots, Tally, Execs
<1>2. CASE ReceiveSyncDone
  <2>1. Tail(ch) \in Channels /\ AfterSync(Tail(ch))
    BY <1>2, <1>h DEF ReceiveSyncDone
  <2> QED  BY <1>2, <2>1, AfterSyncFacts
           DEF ReceiveSyncDone, TypeOK, Channels, Spots, Tally
<1>3. CASE ReceiveConfigView \/ ReceiveConfigRefresh \/ ReceiveOther
  BY <1>3, <1>h DEF ReceiveConfigView, ReceiveConfigRefresh, ReceiveOther, TypeOK, Channels
<1>4. CASE LoopNew
  <2>1. ch' \in Channels /\ dropped' \in BOOLEAN
    BY <1>4, <1>c, <1>t, <1>e, <1>p DEF LoopNew
  <2>2. indexed' \in Nat /\ rev' \in Nat
    BY <1>4 DEF LoopNew, IndexMail, IndexSome, TypeOK
  <2> QED  BY <1>4, <2>1, <2>2 DEF LoopNew, TypeOK, Channels
<1>5. CASE Cycle
  BY <1>5 DEF Cycle, TypeOK
<1>6. CASE Merge \/ Reload
  <2>1. ch' \in Channels
    BY <1>6, <1>c, BurstFacts DEF Merge, Reload
  <2>2. CASE Merge
    BY <2>1, <2>2 DEF Merge, TypeOK, Channels
  <2>3. CASE Reload
    BY <2>1, <2>3 DEF Reload, TypeOK, Channels
  <2> QED  BY <1>6, <2>2, <2>3
<1>7. CASE Deliver
  BY <1>7 DEF Deliver, TypeOK
<1>8. CASE SyncExit \/ SyncAnnounce
  <2>1. ch' \in Channels /\ dropped' \in BOOLEAN
    BY <1>8, <1>e, <1>p DEF SyncExit, SyncAnnounce
  <2>2. syncs' \in Execs
    BY <1>8, <1>t DEF SyncExit, SyncAnnounce, Execs
  <2> QED  BY <1>8, <2>1, <2>2 DEF SyncExit, SyncAnnounce, TypeOK, Channels, Execs
<1>9. CASE Enter
  <2>1. jobs' \in Tally /\ jobRunning' \in BOOLEAN
    BY <1>9, <1>j, <1>s DEF Enter, TypeOK
  <2> QED  BY <1>9, <2>1 DEF Enter, TypeOK, Tally
<1>10. CASE JobNew
  <2>1. jobs' \in Tally /\ ch' \in Channels /\ dropped' \in BOOLEAN
    BY <1>10, <1>e, <1>p, <1>j, <1>s DEF JobNew
  <2> QED  BY <1>10, <2>1 DEF JobNew, IndexMail, TypeOK, Tally, Channels
<1>11. CASE JobWindow
  <2>1. jobs' \in Tally /\ jobRunning' \in BOOLEAN
    BY <1>11, <1>j, <1>s DEF JobWindow, TypeOK
  <2> QED  BY <1>11, <2>1 DEF JobWindow, TypeOK, Tally
<1>12. CASE JobTag
  <2>1. ch' \in Channels /\ dropped' \in BOOLEAN
    BY <1>12, <1>e, <1>p DEF JobTag
  <2> QED  BY <1>12, <2>1 DEF JobTag, TypeOK, Channels
<1>13. CASE JobEnd
  <2>1. /\ jobs' \in Tally /\ jobRunning' \in BOOLEAN
        /\ ch' \in Channels /\ dropped' \in BOOLEAN
    BY <1>13, <1>e, <1>p, <1>j, <1>s DEF JobEnd
  <2> QED  BY <1>13, <2>1 DEF JobEnd, TypeOK, Tally, Channels
<1>14. CASE JobFail
  <2>1. PICK p \in JobPhases : jobs[p] > 0 /\ Leave(p)
    BY <1>14, <1>s DEF JobFail
  <2>2. /\ jobs' \in Tally /\ jobRunning' \in BOOLEAN
        /\ ch' \in Channels /\ dropped' \in BOOLEAN
    BY <1>14, <1>e, <1>p, <1>j, <2>1 DEF JobFail
  <2>3. indexed' \in Nat /\ rev' \in Nat
    BY <1>14 DEF JobFail, IndexSome, TypeOK
  <2> QED  BY <1>14, <2>2, <2>3 DEF JobFail, TypeOK, Tally, Channels
<1>15. CASE External
  <2>1. CASE ExtStart \/ ExtQuit
    <3>1. ext' \in {"none", "fetch", "run"} /\ acts' \in Nat
      BY <2>1 DEF ExtStart, ExtQuit, TypeOK
    <3> QED  BY <2>1, <3>1 DEF ExtStart, ExtQuit, TypeOK
  <2>2. CASE ExtNew
    BY <2>2 DEF ExtNew, IndexMail, TypeOK
  <2>3. CASE ExtTouch
    <3>1. tagged' \in Nat /\ rev' \in Nat /\ floor' \in Nat
      <4>1. CASE /\ \E n \in tagged..indexed : tagged' = n /\ rev' = rev + (n - tagged)
                 /\ floor' = rev'
        BY <4>1 DEF TypeOK
      <4>2. CASE UNCHANGED <<tagged, rev, floor>>
        BY <4>2 DEF TypeOK
      <4> QED  BY <2>3, <4>1, <4>2 DEF ExtTouch
    <3> QED  BY <2>3, <3>1 DEF ExtTouch, TypeOK
  <2> QED  BY <1>15, <2>1, <2>2, <2>3 DEF External
<1>16. CASE EditConfig
  <2>1. ch' \in Channels /\ dropped' \in BOOLEAN
    BY <1>16, <1>c, <1>t, ConfigFacts DEF EditConfig, PublishConfig
  <2> QED  BY <1>16, <2>1, PollAssumption DEF EditConfig, TypeOK, Channels
<1>17. CASE PressRefresh \/ Noise \/ \E v \in Views : SelectView(v)
  <2>1. ch' \in Channels /\ dropped' \in BOOLEAN
    BY <1>17, <1>e, <1>p DEF PressRefresh, Noise, SelectView
  <2>2. CASE PressRefresh
    BY <2>1, <2>2 DEF PressRefresh, TypeOK, Channels
  <2>3. CASE Noise
    BY <2>1, <2>3 DEF Noise, TypeOK, Channels
  <2>4. CASE \E v \in Views : SelectView(v)
    BY <2>1, <2>4 DEF SelectView, TypeOK, Channels
  <2> QED  BY <1>17, <2>2, <2>3, <2>4
<1>18. CASE UNCHANGED vars
  BY <1>18 DEF vars, TypeOK
<1> QED  BY <1>1, <1>2, <1>3, <1>4, <1>5, <1>6, <1>7, <1>8, <1>9, <1>10, <1>11,
            <1>12, <1>13, <1>14, <1>15, <1>16, <1>17, <1>18
         DEF Next, Loop, Sync, Job, User
\* The initial states are typed.
LEMMA TypeInit == Init => TypeOK
<1> SUFFICES ASSUME Init PROVE TypeOK
  OBVIOUS
<1>1. <<>> \in Seq(Events) /\ Len(<<>>) <= Capacity
  BY PollAssumption
<1>2. [p \in JobPhases |-> 0] \in Tally /\ [running |-> 0, ended |-> 0] \in Execs
  BY DEF Tally, Execs
<1> QED  BY <1>1, <1>2, PollAssumption DEF Init, TypeOK, Tally, Execs

\* Every variable of the event loop and its goroutines keeps its type, and the
\* channel never holds more than its capacity (core/bus.go, Publish).
THEOREM PollTypeCorrect == Spec => []TypeOK
  BY TypeInit, TypeStep, PTL DEF Spec

-----------------------------------------------------------------------------
(* One sync command.                                                       *)

\* SingleFlight in the terms of these proofs.
LEMMA SingleFlightDones ==
  SingleFlight <=>
    /\ syncs.running + syncs.ended <= 1
    /\ AtMostOne(ch)
    /\ syncs.running + syncs.ended = 1 => pollRunning /\ Dones(ch) = {}
    /\ Dones(ch) # {} => pollRunning
  BY DEF SingleFlight, AtMostOne, Dones, Queued

\* A step that leaves the gate and the commands alone and announces nothing.
LEMMA GateKept ==
  ASSUME SingleFlight, Keeps(ch, ch'), UNCHANGED <<syncs, pollRunning>>
  PROVE  SingleFlight'
<1>1. /\ syncs.running + syncs.ended <= 1
      /\ AtMostOne(ch)
      /\ syncs.running + syncs.ended = 1 => pollRunning /\ Dones(ch) = {}
      /\ Dones(ch) # {} => pollRunning
  BY SingleFlightDones
<1>2. /\ syncs'.running + syncs'.ended <= 1
      /\ AtMostOne(ch')
      /\ syncs'.running + syncs'.ended = 1 => pollRunning' /\ Dones(ch') = {}
      /\ Dones(ch') # {} => pollRunning'
  BY <1>1 DEF Keeps
<1> QED  BY <1>2 DEF SingleFlight, AtMostOne, Dones, Queued

LEMMA SingleFlightStep ==
  TypeOK /\ SingleFlight /\ [Next]_vars => SingleFlight'
<1> SUFFICES ASSUME TypeOK, SingleFlight, [Next]_vars PROVE SingleFlight'
  OBVIOUS
<1> USE DEF mailVars, cfgVars, viewVars, loopVars, jobVars, extVars
<1>c. ch \in Channels /\ dropped \in BOOLEAN
  BY ChannelsOfType DEF TypeOK
<1>t. syncs \in Execs /\ syncs.running \in Nat /\ syncs.ended \in Nat
  BY DEF TypeOK, Execs
<1>i. /\ syncs.running + syncs.ended <= 1
      /\ AtMostOne(ch)
      /\ syncs.running + syncs.ended = 1 => pollRunning /\ Dones(ch) = {}
      /\ Dones(ch) # {} => pollRunning
  BY SingleFlightDones
<1>g. ASSUME /\ syncs'.running + syncs'.ended <= 1
             /\ AtMostOne(ch')
             /\ syncs'.running + syncs'.ended = 1 => pollRunning' /\ Dones(ch') = {}
             /\ Dones(ch') # {} => pollRunning'
      PROVE  SingleFlight'
  BY <1>g DEF SingleFlight, AtMostOne, Dones, Queued
<1>h. ch # <<>> => /\ Tail(ch) \in Channels /\ Keeps(ch, Tail(ch))
                   /\ Head(ch) = "SyncDone" => Dones(Tail(ch)) = {}
  BY <1>c, <1>i, TailFacts
<1>k. Keeps(ch, ch)
  BY DEF Keeps
<1>e. {"Other", "WorkerDone", "SyncDone", "RefreshRequested", "ConfigView"} \subseteq Events
  BY DEF Events
<1>p. ASSUME NEW e \in Events, Publish(e), e # "SyncDone" PROVE Keeps(ch, ch')
  BY <1>c, <1>p, PublishFacts
<1>1. CASE Tick \/ Watch \/ ReceiveRefresh
  <2>1. PICK q \in Channels : Poll(q) /\ Keeps(ch, q)
    BY <1>1, <1>c, <1>h, <1>k DEF Tick, Watch, ReceiveRefresh
  <2>2. Keeps(q, ch')
    BY <2>1, PollFacts
  <2>3. Keeps(ch, ch')
    BY <2>1, <2>2 DEF Keeps
  <2>4. CASE UNCHANGED <<syncs, pollRunning>>
    BY <2>3, <2>4, GateKept
  <2>5. CASE /\ ~pollRunning /\ pollRunning'
             /\ syncs' = [syncs EXCEPT !.running = @ + 1]
    <3>1. syncs.running = 0 /\ syncs.ended = 0 /\ Dones(ch) = {}
      BY <1>i, <1>t, <2>5
    <3>2. syncs'.running = 1 /\ syncs'.ended = 0
      BY <1>t, <2>5, <3>1 DEF Execs
    <3>3. AtMostOne(ch') /\ Dones(ch') = {}
      BY <1>i, <2>3, <3>1 DEF Keeps
    <3> QED  BY <1>g, <2>5, <3>2, <3>3
  <2> QED  BY <2>1, <2>4, <2>5, PollFacts
<1>2. CASE ReceiveSyncDone
  <2>1. /\ Dones(Tail(ch)) = {} /\ Tail(ch) \in Channels
        /\ AfterSync(Tail(ch)) /\ UNCHANGED syncs
    BY <1>2, <1>h DEF ReceiveSyncDone
  <2>2. ch' = Tail(ch) /\ Dones(ch') = {}
    BY <2>1, AfterSyncFacts
  <2>3. Dones(ch) # {}
    <3>1. ch \in Seq(Events) /\ ch # <<>> /\ Head(ch) = "SyncDone"
      BY <1>2, <1>c DEF ReceiveSyncDone, Channels
    <3>2. 1 \in DOMAIN ch /\ ch[1] = "SyncDone"
      BY <3>1
    <3> QED  BY <3>2 DEF Dones
  <2>4. syncs.running = 0 /\ syncs.ended = 0
    BY <1>i, <1>t, <2>3
  <2>5. AtMostOne(ch')
    BY <2>2 DEF AtMostOne
  <2> QED  BY <1>g, <2>1, <2>2, <2>4, <2>5
<1>3. CASE ReceiveConfigView \/ ReceiveConfigRefresh \/ ReceiveOther
  <2>1. Keeps(ch, ch') /\ UNCHANGED <<syncs, pollRunning>>
    BY <1>3, <1>h DEF ReceiveConfigView, ReceiveConfigRefresh, ReceiveOther
  <2> QED  BY <2>1, GateKept
<1>4. CASE LoopNew \/ Cycle \/ Merge \/ Reload
  <2>1. UNCHANGED <<syncs, pollRunning>>
    BY <1>4 DEF LoopNew, Cycle, Merge, Reload
  <2>2. Keeps(ch, ch')
    BY <1>4, <1>c, <1>e, <1>k, <1>p, BurstFacts DEF LoopNew, Cycle, Merge, Reload
  <2> QED  BY <2>1, <2>2, GateKept
<1>5. CASE SyncExit
  <2>1. /\ syncs.running > 0 /\ Publish("Other") /\ UNCHANGED pollRunning
        /\ syncs' = [running |-> syncs.running - 1, ended |-> syncs.ended + 1]
    BY <1>5 DEF SyncExit
  <2>2. syncs.running = 1 /\ syncs.ended = 0 /\ pollRunning /\ Dones(ch) = {}
    BY <1>i, <1>t, <2>1
  <2>3. Keeps(ch, ch')
    BY <1>e, <1>p, <2>1
  <2>4. AtMostOne(ch') /\ Dones(ch') = {}
    BY <1>i, <2>2, <2>3 DEF Keeps
  <2>5. syncs'.running = 0 /\ syncs'.ended = 1
    BY <2>1, <2>2
  <2> QED  BY <1>g, <2>1, <2>2, <2>4, <2>5
<1>6. CASE SyncAnnounce
  <2>1. /\ syncs.ended > 0 /\ Publish("SyncDone") /\ UNCHANGED pollRunning
        /\ syncs' = [syncs EXCEPT !.ended = @ - 1]
    BY <1>6 DEF SyncAnnounce
  <2>2. syncs.running = 0 /\ syncs.ended = 1 /\ pollRunning /\ Dones(ch) = {}
    BY <1>i, <1>t, <2>1
  <2>3. AtMostOne(ch')
    BY <1>c, <1>e, <2>1, <2>2, PublishFacts
  <2>4. syncs'.running = 0 /\ syncs'.ended = 0
    BY <1>t, <2>1, <2>2 DEF Execs
  <2> QED  BY <1>g, <2>1, <2>2, <2>3, <2>4
<1>7. CASE Deliver \/ External
  <2>1. UNCHANGED <<ch, syncs, pollRunning>>
    BY <1>7 DEF Deliver, External, ExtStart, ExtNew, ExtTouch, ExtQuit
  <2> QED  BY <1>k, <2>1, GateKept
<1>8. CASE Job
  <2>1. UNCHANGED <<syncs, pollRunning>>
    BY <1>8 DEF Job, Enter, JobNew, JobWindow, JobTag, JobEnd, JobFail
  <2>2. Keeps(ch, ch')
    BY <1>8, <1>e, <1>k, <1>p DEF Job, Enter, JobNew, JobWindow, JobTag, JobEnd, JobFail
  <2> QED  BY <2>1, <2>2, GateKept
<1>9. CASE User
  <2>1. UNCHANGED <<syncs, pollRunning>>
    BY <1>9 DEF User, PressRefresh, EditConfig, Noise, SelectView
  <2>2. CASE EditConfig
    BY <1>c, <2>1, <2>2, ConfigFacts, GateKept DEF EditConfig
  <2>3. CASE PressRefresh \/ Noise \/ \E v \in Views : SelectView(v)
    <3>1. Keeps(ch, ch')
      BY <1>e, <1>p, <2>3 DEF PressRefresh, Noise, SelectView
    <3> QED  BY <2>1, <3>1, GateKept
  <2> QED  BY <1>9, <2>2, <2>3 DEF User
<1>10. CASE UNCHANGED vars
  BY <1>10, <1>k, GateKept DEF vars
<1> QED  BY <1>1, <1>2, <1>3, <1>4, <1>5, <1>6, <1>7, <1>8, <1>9, <1>10
         DEF Next, Loop, Sync

\* One sync command at a time: runRefresher's pollRunning is true from the start
\* of the command until the event loop takes its SyncDone, for every capacity
\* of the bus and every number of views, polls and failures.
THEOREM OneSyncCommand == Spec => []SingleFlight
<1>1. Init => SingleFlight
  BY DEF Init, SingleFlight, Queued
<1>2. TypeOK /\ SingleFlight /\ [Next]_vars => SingleFlight'
  BY SingleFlightStep
<1> QED  BY <1>1, <1>2, PollTypeCorrect, PTL DEF Spec

-----------------------------------------------------------------------------
(* One filter pipeline.                                                    *)

\* A step that leaves the phases after the gate alone.
LEMMA PipelineKept ==
  ASSUME OnePipeline, UNCHANGED jobRunning,
         \A p \in JobPhases \ {"start"} : jobs'[p] = jobs[p]
  PROVE  OnePipeline'
<1>1. {"new", "window", "classify"} \subseteq JobPhases \ {"start"}
  BY DEF JobPhases
<1>2. jobs'["new"] = jobs["new"] /\ jobs'["window"] = jobs["window"]
      /\ jobs'["classify"] = jobs["classify"]
  BY <1>1
<1> QED  BY <1>2 DEF OnePipeline

LEMMA PipelineStep ==
  TypeOK /\ OnePipeline /\ [Next]_vars => OnePipeline'
<1> SUFFICES ASSUME TypeOK, OnePipeline, [Next]_vars PROVE OnePipeline'
  OBVIOUS
<1> USE DEF mailVars, cfgVars, viewVars, loopVars, jobVars, extVars
<1>c. ch \in Channels /\ (ch # <<>> => Tail(ch) \in Channels)
  BY ChannelsOfType, TailFacts
<1>t. /\ jobs \in Tally /\ jobRunning \in BOOLEAN
      /\ DOMAIN jobs = {"start", "new", "window", "classify"}
      /\ jobs["start"] \in Nat /\ jobs["new"] \in Nat
      /\ jobs["window"] \in Nat /\ jobs["classify"] \in Nat
  BY DEF TypeOK, Tally, JobPhases
<1>i. jobs["new"] + jobs["window"] + jobs["classify"] = IF jobRunning THEN 1 ELSE 0
  BY DEF OnePipeline
<1>l. ASSUME NEW p \in {"new", "window", "classify"}, jobs[p] > 0, Leave(p)
      PROVE  OnePipeline'
  <2>1. jobRunning
    BY <1>i, <1>l, <1>t
  <2>2. jobs'["new"] + jobs'["window"] + jobs'["classify"] = 0
    BY <1>i, <1>l, <1>t, <2>1 DEF Leave
  <2> QED  BY <1>l, <2>2 DEF Leave, OnePipeline
<1>1. CASE Tick \/ Watch \/ ReceiveRefresh
  <2>1. PICK q \in Channels : Poll(q) /\ UNCHANGED jobRunning
    BY <1>1, <1>c DEF Tick, Watch, ReceiveRefresh
  <2> QED  BY <2>1, PollFacts, PipelineKept
<1>2. CASE ReceiveSyncDone
  <2>1. Tail(ch) \in Channels /\ AfterSync(Tail(ch)) /\ UNCHANGED jobRunning
    BY <1>2, <1>c DEF ReceiveSyncDone
  <2> QED  BY <2>1, AfterSyncFacts, PipelineKept
<1>3. CASE Enter
  <2>1. CASE /\ jobRunning /\ jobs' = [jobs EXCEPT !["start"] = @ - 1]
             /\ UNCHANGED jobRunning
    BY <1>t, <2>1, PipelineKept DEF JobPhases
  <2>2. CASE ~jobRunning /\ Move("start", "new") /\ jobRunning'
    <3>1. jobs["new"] = 0 /\ jobs["window"] = 0 /\ jobs["classify"] = 0
      BY <1>i, <1>t, <2>2
    <3>2. jobs'["new"] = 1 /\ jobs'["window"] = 0 /\ jobs'["classify"] = 0
      BY <1>t, <2>2, <3>1 DEF Move
    <3> QED  BY <2>2, <3>2 DEF OnePipeline
  <2> QED  BY <1>3, <2>1, <2>2 DEF Enter
<1>4. CASE JobNew \/ JobWindow
  <2>1. CASE /\ jobs["new"] > 0 /\ Move("new", "window") /\ UNCHANGED jobRunning
    <3>1. /\ jobs'["new"] = jobs["new"] - 1 /\ jobs'["window"] = jobs["window"] + 1
          /\ jobs'["classify"] = jobs["classify"]
      BY <1>t, <2>1 DEF Move
    <3> QED  BY <1>t, <1>i, <2>1, <3>1 DEF OnePipeline
  <2>2. CASE /\ jobs["window"] > 0 /\ Move("window", "classify")
             /\ UNCHANGED jobRunning
    <3>1. /\ jobs'["new"] = jobs["new"] /\ jobs'["window"] = jobs["window"] - 1
          /\ jobs'["classify"] = jobs["classify"] + 1
      BY <1>t, <2>2 DEF Move
    <3> QED  BY <1>t, <1>i, <2>2, <3>1 DEF OnePipeline
  <2>3. CASE jobs["window"] > 0 /\ Leave("window")
    BY <1>l, <2>3
  <2> QED  BY <1>4, <2>1, <2>2, <2>3 DEF JobNew, JobWindow
<1>5. CASE JobEnd \/ JobFail
  <2>1. PICK p \in {"new", "window", "classify"} : jobs[p] > 0 /\ Leave(p)
    BY <1>5 DEF JobEnd, JobFail, JobPhases
  <2> QED  BY <1>l, <2>1
<1>6. CASE UNCHANGED jobVars
  BY <1>6, PipelineKept
<1> QED  BY <1>1, <1>2, <1>3, <1>4, <1>5, <1>6
         DEF Next, Loop, Sync, Job, External, User, vars, ReceiveConfigView,
             ReceiveConfigRefresh, ReceiveOther, LoopNew, Cycle, Merge, Reload,
             Deliver, SyncExit, SyncAnnounce, JobTag, ExtStart, ExtNew, ExtTouch,
             ExtQuit, PressRefresh, EditConfig, Noise, SelectView

\* One pipeline at a time: however many goroutines the polls start, at most one
\* is past the gate of filterJob.run, and the flag says whether there is one.
THEOREM OneFilterPipeline == Spec => []OnePipeline
<1>1. Init => OnePipeline
  BY DEF Init, OnePipeline, JobPhases
<1>2. TypeOK /\ OnePipeline /\ [Next]_vars => OnePipeline'
  BY PipelineStep
<1> QED  BY <1>1, <1>2, PollTypeCorrect, PTL DEF Spec
=============================================================================
