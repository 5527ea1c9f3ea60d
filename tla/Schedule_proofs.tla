--------------------------- MODULE Schedule_proofs ---------------------------
(***************************************************************************)
(* Proofs about Schedule, for every number of mails, clients and faults.   *)
(* The flock carries everything: whoever is in a round holds it, so that   *)
(* what a round has read of a mail is disturbed by an edit only.           *)
(***************************************************************************)
EXTENDS Schedule, TLAPS

(* Whoever is in a round runs, and holds the lock.                         *)
Holder == \A p \in Procs : pc[p] # "idle" => lock = p

(* The dialogue of an open mail has not reached the spool as a whole.      *)
Unsent ==
  /\ saving \subseteq open
  /\ \A m \in open : spool[m] # "full" /\ sends[m] = 0
  /\ \A p \in Procs, m \in Mails : Delivering(p, m) => m \notin open

(* A record that may be delivered has no delivery behind it that is not    *)
(* accounted for, except the one that is about to remove it.               *)
Accounted ==
  /\ \A p \in Procs : pc[p] = "send" => sends[cur[p]] <= missed[cur[p]]
  /\ \A m \in Mails :
       spool[m] = "full" /\ (\A p \in Procs : ~(pc[p] = "sent" /\ cur[p] = m)) => sends[m] <= missed[m]
  /\ TwiceOnlyAfterMiss

(* A round that has read a record whose file is gone, was overtaken by an  *)
(* edit; after the transport, the mail is delivered.                       *)
Excused ==
  \A p \in Procs : /\ pc[p] = "send" /\ spool[cur[p]] # "full" => cur[p] \in returned
                   /\ pc[p] = "sent" => sends[cur[p]] > 0

IInv == TypeOK /\ Holder /\ Unsent /\ Accounted /\ Excused

-----------------------------------------------------------------------------
(* Every step preserves the types.                                         *)

LEMMA InitIInv == Init => IInv
  BY ScheduleAssumption, SMT DEF Init, IInv, TypeOK, PCs, Holder, Unsent, Accounted, Excused,
     Delivering, TwiceOnlyAfterMiss

LEMMA TypeStep == TypeOK /\ [Next]_vars => TypeOK'
<1> SUFFICES ASSUME TypeOK, [Next]_vars PROVE TypeOK'
  OBVIOUS
<1> USE ScheduleAssumption DEF TypeOK, PCs
<1>1. ASSUME NEW m \in Mails, Create(m) \/ Write(m) \/ WriteFails(m) \/ Elapse(m) PROVE TypeOK'
  BY <1>1, SMT DEF Create, Write, WriteFails, Elapse, round, history
<1>2. ASSUME NEW p \in Procs, NEW m \in Mails, EditRead(p, m) \/ Read(p, m) \/ ReadFails(p, m) PROVE TypeOK'
  <2>1. CASE EditRead(p, m)
    BY <2>1, SMT DEF EditRead, round, history
  <2>2. CASE Read(p, m)
    <3>1. CASE Step(p, "send", todo[p] \ {m}, m)
      BY <2>2, <3>1, SMT DEF Read, Step, history
    <3>2. CASE Step(p, "scan", todo[p] \ {m}, NoMail)
      BY <2>2, <3>2, SMT DEF Read, Step, history
    <3>3. CASE Step(p, "drop", todo[p] \ {m}, m)
      BY <2>2, <3>3, SMT DEF Read, Step, history
    <3> QED BY <2>2, <3>1, <3>2, <3>3, Zenon DEF Read
  <2>3. CASE ReadFails(p, m)
    BY <2>3, SMT DEF ReadFails, Step
  <2> QED BY <1>2, <2>1, <2>2, <2>3
<1>3. ASSUME NEW p \in Procs, EditRemove(p) PROVE TypeOK'
  BY <1>3, SMT DEF EditRemove, round, history
<1>4. ASSUME NEW p \in Procs, Begin(p) \/ End(p) PROVE TypeOK'
  BY <1>4, SMT DEF Begin, End, Step, round, history
<1>5. ASSUME NEW p \in Procs, Drop(p) \/ TransportFails(p) PROVE TypeOK'
  BY <1>5, SMT DEF Drop, TransportFails, Step, round, history
<1>6. ASSUME NEW p \in Procs, Transport(p) PROVE TypeOK'
  BY <1>6, SMT DEF Transport, Step, round, history
<1>7. ASSUME NEW p \in Procs, RemoveSent(p) PROVE TypeOK'
  BY <1>7, SMT DEF RemoveSent, Step, round, history
<1>8. ASSUME NEW p \in Procs, Crash(p) PROVE TypeOK'
  BY <1>8, SMT DEF Crash, Step, round, history
<1>9. ASSUME NEW p \in Procs, Start(p) PROVE TypeOK'
  BY <1>9, SMT DEF Start, round, history
<1>10. CASE UNCHANGED vars
  BY <1>10, SMT DEF vars, round, history
<1> QED
  BY <1>1, <1>2, <1>3, <1>4, <1>5, <1>6, <1>7, <1>8, <1>9, <1>10, Zenon DEF Next, User, Edit, Round

-----------------------------------------------------------------------------
(* Every step preserves the rest.                                          *)

LEMMA RestStep == IInv /\ TypeOK' /\ [Next]_vars => (Holder /\ Unsent /\ Accounted /\ Excused)'
<1> SUFFICES ASSUME IInv, TypeOK', [Next]_vars PROVE (Holder /\ Unsent /\ Accounted /\ Excused)'
  OBVIOUS
<1> DEFINE Goal == (Holder /\ Unsent /\ Accounted /\ Excused)'
<1> USE ScheduleAssumption DEF IInv, TypeOK, PCs, Holder, Unsent, Accounted, Excused, Delivering, TwiceOnlyAfterMiss
<1>1. ASSUME NEW m \in Mails, Create(m) \/ Write(m) \/ WriteFails(m) \/ Elapse(m) PROVE Goal
  BY <1>1, SMT DEF Create, Write, WriteFails, Elapse, round, history
<1>2. ASSUME NEW p \in Procs, NEW m \in Mails, EditRead(p, m) PROVE Goal
  BY <1>2, SMT DEF EditRead, round, history
<1>3. ASSUME NEW p \in Procs, NEW m \in Mails, Read(p, m) \/ ReadFails(p, m) PROVE Goal
  <2>1. CASE Read(p, m)
    <3>1. CASE spool[m] = "full" /\ m \in now[p] /\ Step(p, "send", todo[p] \ {m}, m)
      BY <2>1, <3>1, SMT DEF Read, Step, round, history
    <3>2. CASE spool[m] = "full" /\ Step(p, "scan", todo[p] \ {m}, NoMail)
      BY <2>1, <3>2, SMT DEF Read, Step, round, history
    <3>3. CASE spool[m] # "full" /\ Step(p, "drop", todo[p] \ {m}, m)
      BY <2>1, <3>3, SMT DEF Read, Step, round, history
    <3> QED BY <2>1, <3>1, <3>2, <3>3, Zenon DEF Read
  <2>2. CASE ReadFails(p, m)
    BY <2>2, SMT DEF ReadFails, Step, round, history
  <2> QED BY <1>3, <2>1, <2>2
<1>4. ASSUME NEW p \in Procs, EditRemove(p) PROVE Goal
  BY <1>4, SMT DEF EditRemove, round, history
<1>5. ASSUME NEW p \in Procs, Begin(p) \/ End(p) PROVE Goal
  BY <1>5, SMT DEF Begin, End, Step, round, history
<1>6. ASSUME NEW p \in Procs, Drop(p) \/ TransportFails(p) PROVE Goal
  <2>1. CASE TransportFails(p)
    BY <2>1, SMT DEF TransportFails, Step, round, history
  <2>2. CASE Drop(p) /\ spool' = spool
    BY <2>2, SMT DEF Drop, Step, round, history
  <2>3. CASE Drop(p) /\ spool' = [spool EXCEPT ![cur[p]] = "none"]
    BY <2>3, SMT DEF Drop, Step, round, history
  <2> QED BY <1>6, <2>1, <2>2, <2>3, Zenon DEF Drop
<1>7. ASSUME NEW p \in Procs, Transport(p) PROVE Goal
  BY <1>7, SMT DEF Transport, Step, round, history
<1>8. ASSUME NEW p \in Procs, RemoveSent(p) PROVE Goal
  <2>1. CASE spool' = spool /\ missed' = [missed EXCEPT ![cur[p]] = @ + 1]
    BY <1>8, <2>1, SMT DEF RemoveSent, Step, round, history
  <2>2. CASE spool' = [spool EXCEPT ![cur[p]] = "none"] /\ missed' = missed
    BY <1>8, <2>2, SMT DEF RemoveSent, Step, round, history
  <2> QED BY <1>8, <2>1, <2>2, Zenon DEF RemoveSent
<1>9. ASSUME NEW p \in Procs, Crash(p) PROVE Goal
  BY <1>9, SMT DEF Crash, Step, round, history
<1>10. ASSUME NEW p \in Procs, Start(p) PROVE Goal
  BY <1>10, SMT DEF Start, round, history
<1>11. CASE UNCHANGED vars
  BY <1>11, SMT DEF vars, round, history
<1> QED
  BY <1>1, <1>2, <1>3, <1>4, <1>5, <1>6, <1>7, <1>8, <1>9, <1>10, <1>11, Zenon DEF Next, User, Edit, Round

(* The strengthened invariant of the scheduler holds in every state.       *)
THEOREM Invariant == Spec => []IInv
<1>1. IInv /\ [Next]_vars => IInv'
  BY TypeStep, RestStep DEF IInv
<1> QED
  BY InitIInv, <1>1, PTL DEF Spec

(* Types are kept, with the records of the rounds.                         *)
THEOREM SpecTypeOK == Spec => []TypeOK
<1>1. IInv => TypeOK
  BY DEF IInv
<1> QED
  BY Invariant, <1>1, PTL

(* The flock keeps two clients from delivering one mail at the same time,  *)
(* whoever dies and is started again.                                      *)
THEOREM SpecOneDeliverer == Spec => []OneDeliverer
<1>1. IInv => OneDeliverer
  BY SMT DEF IInv, Holder, OneDeliverer, Delivering
<1> QED
  BY Invariant, <1>1, PTL

(* A mail is delivered again only when the record of a delivery before was *)
(* not removed.                                                            *)
THEOREM SpecTwiceOnlyAfterMiss == Spec => []TwiceOnlyAfterMiss
<1>1. IInv => TwiceOnlyAfterMiss
  BY DEF IInv, Accounted
<1> QED
  BY Invariant, <1>1, PTL

-----------------------------------------------------------------------------
(* The spool implements the outbox.                                        *)

LEMMA InitMaps == Init => Box!Init
  BY SMT DEF Init, Box!Init, Pending, Doomed, Held

(* Only one process is in a round: what it is about to do to a mail, nobody *)
(* else is.                                                                *)
LEMMA Alone ==
  ASSUME Holder, NEW p \in Procs, pc[p] # "idle"
  PROVE  \A q \in Procs : q # p => pc[q] = "idle"
  BY SMT DEF Holder

LEMMA StepMaps == IInv /\ TypeOK' /\ [Next]_vars => [Box!Next]_(Box!vars)
<1> SUFFICES ASSUME IInv, TypeOK', [Next]_vars PROVE [Box!Next]_(Box!vars)
  OBVIOUS
<1> DEFINE Goal == [Box!Next]_(Box!vars)
           Same == Pending' = Pending /\ sends' = sends /\ returned' = returned /\ unread' = unread
<1>same. Same => Goal
  BY DEF Box!vars
<1>box. \A m \in Mails : Box!Accept(m) \/ Box!Send(m) \/ Box!Return(m) \/ Box!GiveUp(m) \/ Box!Settle(m) => Goal
  BY DEF Box!Next
<1> HIDE DEF Goal, Same
<1> USE ScheduleAssumption DEF IInv, TypeOK, PCs, Holder, Excused, Pending, Doomed, Held
<1>1. ASSUME NEW m \in Mails, Create(m) \/ WriteFails(m) \/ Elapse(m) PROVE Goal
  <2>1. Same
    BY <1>1, SMT DEF Same, Create, WriteFails, Elapse, round, history
  <2> QED BY <2>1, <1>same, Zenon
<1>2. ASSUME NEW m \in Mails, Write(m) PROVE Goal
  <2>1. Same \/ Box!Accept(m)
    BY <1>2, SMT DEF Same, Write, round, history, Box!Accept
  <2> QED BY <2>1, <1>same, <1>box, Zenon
<1>3. ASSUME NEW p \in Procs, EditRemove(p) PROVE Goal
  <2>1. PICK m \in Mails : m = edit[p]
    BY <1>3, SMT DEF EditRemove
  <2>2. Same \/ Box!Return(m)
    BY <1>3, <2>1, SMT DEF Same, EditRemove, round, history, Box!Return
  <2> QED BY <2>2, <1>same, <1>box, Zenon
<1>4. ASSUME NEW p \in Procs, NEW m \in Mails, EditRead(p, m) PROVE Goal
  <2>1. Same
    BY <1>4, SMT DEF Same, EditRead, round, history
  <2> QED BY <2>1, <1>same, Zenon
<1>5. ASSUME NEW p \in Procs, Begin(p) \/ End(p) \/ Start(p) PROVE Goal
  <2>1. CASE Begin(p)
    <3>1. Same
      BY <2>1, SMT DEF Same, Begin, Step, history
    <3> QED BY <3>1, <1>same, Zenon
  <2>2. CASE End(p)
    <3>1. Same
      BY <2>2, SMT DEF Same, End, Step, history
    <3> QED BY <3>1, <1>same, Zenon
  <2>3. CASE Start(p)
    <3>1. Same
      BY <2>3, SMT DEF Same, Start, round, history
    <3> QED BY <3>1, <1>same, Zenon
  <2> QED BY <1>5, <2>1, <2>2, <2>3, Zenon
<1>6. ASSUME NEW p \in Procs, NEW m \in Mails, Read(p, m) PROVE Goal
  <2>1. \A q \in Procs : q # p => pc[q] = "idle"
    BY <1>6, Alone, SMT DEF Read
  <2>2. Same
    BY <1>6, <2>1, SMT DEF Same, Read, Step, history
  <2> QED BY <2>2, <1>same, Zenon
<1>7. ASSUME NEW p \in Procs, NEW m \in Mails, ReadFails(p, m) PROVE Goal
  <2>1. \A q \in Procs : q # p => pc[q] = "idle"
    BY <1>7, Alone, SMT DEF ReadFails
  <2>2. Pending' = Pending \ {m}
    BY <1>7, <2>1, SMT DEF ReadFails, Step
  <2>3. Box!GiveUp(m)
    BY <1>7, <2>2, SMT DEF ReadFails, Box!GiveUp
  <2> QED BY <2>3, <1>box, Zenon
<1>12. ASSUME NEW p \in Procs, Drop(p) PROVE Goal
  <2>1. \A q \in Procs : q # p => pc[q] = "idle"
    BY <1>12, Alone, SMT DEF Drop
  <2>2. PICK m \in Mails : m = cur[p]
    BY <1>12, SMT DEF Drop
  <2>3. CASE spool' = [spool EXCEPT ![m] = "none"]
    <3>1. Same
      BY <1>12, <2>1, <2>2, <2>3, SMT DEF Same, Drop, Step, history
    <3> QED BY <3>1, <1>same, Zenon
  <2>4. CASE UNCHANGED spool
    <3>1. Same \/ Box!Accept(m)
      BY <1>12, <2>1, <2>2, <2>4, SMT DEF Same, Drop, Step, history, Box!Accept
    <3> QED BY <3>1, <1>same, <1>box, Zenon
  <2> QED BY <1>12, <2>2, <2>3, <2>4 DEF Drop
<1>8. ASSUME NEW p \in Procs, Transport(p) PROVE Goal
  <2>1. \A q \in Procs : q # p => pc[q] = "idle"
    BY <1>8, Alone, SMT DEF Transport
  <2>2. PICK m \in Mails : m = cur[p]
    BY <1>8, SMT DEF Transport
  <2>3. Box!Send(m)
    BY <1>8, <2>1, <2>2, SMT DEF Transport, Step, Box!Send
  <2> QED BY <2>3, <1>box, Zenon
<1>9. ASSUME NEW p \in Procs, TransportFails(p) \/ RemoveSent(p) PROVE Goal
  <2>1. \A q \in Procs : q # p => pc[q] = "idle"
    BY <1>9, Alone, SMT DEF TransportFails, RemoveSent
  <2>2. PICK m \in Mails : m = cur[p]
    BY <1>9, SMT DEF TransportFails, RemoveSent
  <2>3. ASSUME TransportFails(p) PROVE Same \/ Box!Settle(m)
    BY <2>3, <2>1, <2>2, SMT DEF Same, TransportFails, Step, history, Box!Settle
  <2>4. ASSUME RemoveSent(p) PROVE Same \/ Box!Settle(m)
    <3>1. sends[m] > 0
      BY <2>2, <2>4, SMT DEF RemoveSent
    <3>2. CASE spool' = [spool EXCEPT ![m] = "none"]
      <4>1. Pending' = Pending \ {m}
        BY <3>2, <2>4, <2>1, <2>2, SMT DEF RemoveSent, Step
      <4> QED BY <4>1, <3>1, <2>4, SMT DEF RemoveSent, Box!Settle
    <3>3. CASE UNCHANGED spool
      BY <3>3, <2>4, <2>1, <2>2, SMT DEF Same, RemoveSent, Step
    <3> QED BY <3>2, <3>3, <2>2, <2>4 DEF RemoveSent
  <2> QED BY <1>9, <2>3, <2>4, <1>same, <1>box, Zenon
<1>10. ASSUME NEW p \in Procs, Crash(p) PROVE Goal
  <2>1. CASE pc[p] \in {"send", "drop"}
    <3>1. \A q \in Procs : q # p => pc[q] = "idle"
      BY <2>1, Alone, SMT
    <3>2. PICK m \in Mails : m = cur[p]
      BY <2>1, SMT
    <3>3. Same \/ Box!Settle(m) \/ Box!Accept(m)
      BY <1>10, <2>1, <3>1, <3>2, SMT DEF Same, Crash, Step, Box!Settle, Box!Accept
    <3> QED BY <3>3, <1>same, <1>box, Zenon
  <2>2. CASE pc[p] \notin {"send", "drop"}
    <3>1. Same
      BY <1>10, <2>2, SMT DEF Same, Crash, Step
    <3> QED BY <3>1, <1>same, Zenon
  <2> QED BY <2>1, <2>2, Zenon
<1>11. ASSUME UNCHANGED vars PROVE Goal
  <2>1. Same
    BY <1>11, SMT DEF Same, vars, round, history
  <2> QED BY <2>1, <1>same, Zenon
<1> QED
  BY <1>1, <1>2, <1>3, <1>4, <1>5, <1>6, <1>7, <1>8, <1>9, <1>10, <1>11, <1>12, Zenon DEF Next, User, Edit, Round, Goal

(* A mail in the spool leaves it only after it was delivered or given back *)
(* to its user, or at a failure of its own to read it, which readScheduled *)
(* does not tell from a corrupt record: the spool implements the outbox.   *)
THEOREM SpecPromise == Spec => Promise
<1>1. IInv => TypeOK
  BY DEF IInv
<1>2. IInv /\ IInv' /\ [Next]_vars => [Box!Next]_(Box!vars)
  BY StepMaps DEF IInv
<1> QED
  BY InitMaps, Invariant, <1>2, PTL DEF Spec, Promise, Box!Spec
=============================================================================
