------------------------------- MODULE Schedule -------------------------------
(***************************************************************************)
(* Scheduled mail (src/app/schedule.go, schedule_lock_unix.go).  A dialogue *)
(* is written to the spool directory as <id>.pending; every client process *)
(* runs a scheduler that, on a tick and at its start, takes the spool's    *)
(* flock, lists the directory, and delivers what is due.  Three things     *)
(* happen outside the lock: the creation of a record (two system calls:    *)
(* create the empty file, write it), the edit of one (read it, remove it), *)
(* and the death of a process, which releases the lock wherever it was.    *)
(* A record that a round cannot read is taken for a corrupt one.            *)
(***************************************************************************)
EXTENDS Naturals, FiniteSets

CONSTANTS
  Mails,      \* dialogues, by their id
  Procs,      \* client processes that share the spool
  Owner,      \* Owner[m]: the process m is composed in
  Nobody,     \* not a process
  NoMail,     \* not a mail
  MaxFault    \* bound: the processes that die, the failing writes, reads and removals

ASSUME ScheduleAssumption ==
  /\ Nobody \notin Procs /\ NoMail \notin Mails
  /\ Owner \in [Mails -> Procs] /\ MaxFault \in Nat

VARIABLES
  open,       \* the dialogues that are open
  told,       \* those whose user was told that the mail is scheduled
  due,        \* the mails whose time has come
  spool,      \* spool[m]: the file <m>.pending
  saving,     \* created and not yet written
  edit,       \* edit[p]: the record p's editScheduled has read
  up, lock,   \* the running processes, the holder of the flock
  pc, todo, now, cur,  \* a round of sendDue: the listing, the clock, the entry
  sends,      \* history: the deliveries of each mail
  returned,   \* history: the mails taken out of the spool for editing
  missed,     \* history: missed[m]: deliveries whose record was not removed
  unread,     \* history: unread[m]: rounds that failed to read m's whole record
  faults

round == <<pc, todo, now, cur>>
history == <<sends, returned, missed, unread>>
vars == <<open, told, due, spool, saving, edit, up, lock, round, history,
          faults>>

Init ==
  /\ open = Mails /\ told = {} /\ due = {}
  /\ spool = [m \in Mails |-> "none"] /\ saving = {}
  /\ edit = [p \in Procs |-> NoMail]
  /\ up = Procs /\ lock = Nobody
  /\ pc = [p \in Procs |-> "idle"] /\ todo = [p \in Procs |-> {}]
  /\ now = [p \in Procs |-> {}] /\ cur = [p \in Procs |-> NoMail]
  /\ sends = [m \in Mails |-> 0] /\ returned = {}
  /\ missed = [m \in Mails |-> 0] /\ unread = [m \in Mails |-> 0]
  /\ faults = 0

-----------------------------------------------------------------------------
(* scheduleAt: the record is created and then written.                     *)

\* O_EXCL: a record left by a failed write is in the way
Create(m) ==
  /\ m \in open /\ m \notin saving
  /\ spool[m] = "none"
  /\ spool' = [spool EXCEPT ![m] = "empty"]
  /\ saving' = saving \cup {m}
  /\ UNCHANGED <<open, told, due, edit, up, lock, round, history,
                 faults>>

\* the bytes go to the file that was created, whether or not its name is still
\* in the directory; the dialogue closes on the result
Write(m) ==
  /\ m \in saving
  /\ spool' = [spool EXCEPT ![m] = IF @ = "empty" THEN "full" ELSE @]
  /\ saving' = saving \ {m} /\ open' = open \ {m} /\ told' = told \cup {m}
  /\ UNCHANGED <<due, edit, up, lock, round, history, faults>>

WriteFails(m) ==
  /\ m \in saving /\ faults < MaxFault
  /\ saving' = saving \ {m} /\ faults' = faults + 1
  /\ UNCHANGED <<open, told, due, spool, edit, up, lock, round, history>>

-----------------------------------------------------------------------------
(* editScheduled: the record is read, removed, and opened as a dialogue.   *)

EditRead(p, m) ==
  /\ p \in up /\ edit[p] = NoMail /\ spool[m] = "full"
  /\ edit' = [edit EXCEPT ![p] = m]
  /\ UNCHANGED <<open, told, due, spool, saving, up, lock, round,
                 history, faults>>

\* a record that is gone, sent or edited elsewhere, ends the edit, and so does a
\* removal that fails
EditRemove(p) ==
  /\ edit[p] # NoMail
  /\ edit' = [edit EXCEPT ![p] = NoMail]
  /\ \/ spool[edit[p]] = "none" /\ UNCHANGED <<spool, returned, faults>>
     \/ /\ spool[edit[p]] # "none" /\ faults < MaxFault /\ faults' = faults + 1
        /\ UNCHANGED <<spool, returned>>
     \/ /\ spool[edit[p]] # "none" /\ spool' = [spool EXCEPT ![edit[p]] = "none"]
        /\ returned' = returned \cup {edit[p]} /\ UNCHANGED faults
  /\ UNCHANGED <<open, told, due, saving, up, lock, round, sends, missed, unread>>

-----------------------------------------------------------------------------
(* sendDue.  An offline machine, a busy lock and a directory that cannot    *)
(* be listed end the round at once.                                        *)

Step(p, next, left, m) ==
  /\ pc' = [pc EXCEPT ![p] = next]
  /\ todo' = [todo EXCEPT ![p] = left]
  /\ cur' = [cur EXCEPT ![p] = m]

\* mutant: no spool lock
BeginUnlocked(p) ==
  /\ p \in up /\ pc[p] = "idle"
  /\ lock' = p
  /\ Step(p, "scan", {m \in Mails : spool[m] # "none"}, NoMail)
  /\ now' = [now EXCEPT ![p] = due]
  /\ UNCHANGED <<open, told, due, spool, saving, edit, up, history,
                 faults>>

Begin(p) ==
  /\ p \in up /\ pc[p] = "idle"
  /\ lock = Nobody /\ lock' = p
  /\ Step(p, "scan", {m \in Mails : spool[m] # "none"}, NoMail)
  /\ now' = [now EXCEPT ![p] = due]
  /\ UNCHANGED <<open, told, due, spool, saving, edit, up, history,
                 faults>>

\* one entry of the listing: due, not yet due, or not readable
Read(p, m) ==
  /\ pc[p] = "scan" /\ m \in todo[p]
  /\ \/ spool[m] = "full" /\ m \in now[p] /\ Step(p, "send", todo[p] \ {m}, m)
     \/ spool[m] = "full" /\ m \notin now[p] /\ Step(p, "scan", todo[p] \ {m}, NoMail)
     \/ spool[m] # "full" /\ Step(p, "drop", todo[p] \ {m}, m)
  /\ UNCHANGED <<open, told, due, spool, saving, edit, up, lock, now,
                 history, faults>>

\* the read fails (no descriptor left, an error of the disk or of the
\* permissions): a record that is whole is as unreadable as a corrupt one
ReadFails(p, m) ==
  /\ pc[p] = "scan" /\ m \in todo[p] /\ spool[m] = "full"
  /\ faults < MaxFault /\ faults' = faults + 1
  /\ unread' = [unread EXCEPT ![m] = @ + 1]
  /\ Step(p, "drop", todo[p] \ {m}, m)
  /\ UNCHANGED <<open, told, due, spool, saving, edit, up, lock, now, sends,
                 returned, missed>>

\* an unreadable record is removed, by its name; the error of the removal is
\* not looked at
Drop(p) ==
  /\ pc[p] = "drop"
  /\ \/ spool' = [spool EXCEPT ![cur[p]] = "none"] /\ UNCHANGED faults
     \/ faults < MaxFault /\ faults' = faults + 1 /\ UNCHANGED spool
  /\ Step(p, "scan", todo[p], NoMail)
  /\ UNCHANGED <<open, told, due, saving, edit, up, lock, now, history>>

Transport(p) ==
  /\ pc[p] = "send"
  /\ sends' = [sends EXCEPT ![cur[p]] = @ + 1]
  /\ Step(p, "sent", todo[p], cur[p])
  /\ UNCHANGED <<open, told, due, spool, saving, edit, up, lock, now,
                 returned, missed, unread, faults>>

\* mutant: a failed delivery removes the record, too
TransportDrops(p) ==
  /\ pc[p] = "send"
  /\ spool' = [spool EXCEPT ![cur[p]] = "none"]
  /\ Step(p, "scan", todo[p], NoMail)
  /\ UNCHANGED <<open, told, due, saving, edit, up, lock, now, history,
                 faults>>

\* assembly or transport fails: the record stays for the next round
TransportFails(p) ==
  /\ pc[p] = "send"
  /\ Step(p, "scan", todo[p], NoMail)
  /\ UNCHANGED <<open, told, due, spool, saving, edit, up, lock, now,
                 history, faults>>

\* mutant: the record of a delivered mail stays
KeepSent(p) ==
  /\ pc[p] = "sent"
  /\ Step(p, "scan", todo[p], NoMail)
  /\ UNCHANGED <<open, told, due, spool, saving, edit, up, lock, now,
                 history, faults>>

\* the error of the removal is not looked at
RemoveSent(p) ==
  /\ pc[p] = "sent"
  /\ \/ spool' = [spool EXCEPT ![cur[p]] = "none"] /\ UNCHANGED <<missed, faults>>
     \/ /\ faults < MaxFault /\ faults' = faults + 1
        /\ missed' = [missed EXCEPT ![cur[p]] = @ + 1]
        /\ UNCHANGED spool
  /\ Step(p, "scan", todo[p], NoMail)
  /\ UNCHANGED <<open, told, due, saving, edit, up, lock, now, sends,
                 returned, unread>>

\* mutant: the round ends without releasing the lock
EndHolding(p) ==
  /\ pc[p] = "scan" /\ todo[p] = {}
  /\ Step(p, "idle", {}, NoMail)
  /\ now' = [now EXCEPT ![p] = {}]
  /\ UNCHANGED <<open, told, due, spool, saving, edit, up, lock, history,
                 faults>>

End(p) ==
  /\ pc[p] = "scan" /\ todo[p] = {}
  /\ lock' = Nobody
  /\ Step(p, "idle", {}, NoMail)
  /\ now' = [now EXCEPT ![p] = {}]
  /\ UNCHANGED <<open, told, due, spool, saving, edit, up, history,
                 faults>>

-----------------------------------------------------------------------------
(* Time, and the processes.                                                *)

Elapse(m) ==
  /\ m \notin due /\ due' = due \cup {m}
  /\ UNCHANGED <<open, told, spool, saving, edit, up, lock, round,
                 history, faults>>

\* the process dies: its dialogues are gone, the kernel releases the flock
Crash(p) ==
  /\ p \in up /\ faults < MaxFault /\ faults' = faults + 1
  /\ up' = up \ {p}
  /\ open' = open \ {m \in Mails : Owner[m] = p}
  /\ saving' = saving \ {m \in Mails : Owner[m] = p}
  /\ edit' = [edit EXCEPT ![p] = NoMail]
  /\ lock' = IF lock = p THEN Nobody ELSE lock
  /\ missed' = IF pc[p] = "sent" THEN [missed EXCEPT ![cur[p]] = @ + 1] ELSE missed
  /\ Step(p, "idle", {}, NoMail)
  /\ now' = [now EXCEPT ![p] = {}]
  /\ UNCHANGED <<told, due, spool, sends, returned, unread>>

\* the client is started again: its scheduler's first round is the catch-up
Start(p) ==
  /\ p \notin up /\ up' = up \cup {p}
  /\ UNCHANGED <<open, told, due, spool, saving, edit, lock, round,
                 history, faults>>

-----------------------------------------------------------------------------
User == \E m \in Mails : Create(m) \/ Write(m) \/ WriteFails(m) \/ Elapse(m)
Edit(p) == EditRemove(p) \/ \E m \in Mails : EditRead(p, m)
Round(p) == \/ Drop(p) \/ Transport(p) \/ TransportFails(p) \/ RemoveSent(p)
            \/ End(p) \/ \E m \in Mails : Read(p, m) \/ ReadFails(p, m)
Next == User \/ \E p \in Procs : Edit(p) \/ Begin(p) \/ Round(p) \/ Crash(p) \/ Start(p)

Spec == Init /\ [][Next]_vars

(* A round goes on and ends, a client is started again after a crash, one  *)
(* of the clients goes on ticking, and the delivery of a mail does not     *)
(* fail for ever.                                                          *)
Fairness ==
  /\ \A p \in Procs : WF_vars(Round(p)) /\ WF_vars(Start(p))
  /\ \A m \in Mails : SF_vars(\E p \in Procs : Transport(p) /\ cur[p] = m)
  /\ SF_vars(\E p \in Procs : Begin(p))

FairSpec == Spec /\ Fairness

-----------------------------------------------------------------------------
(* Properties.                                                             *)

PCs == {"idle", "scan", "send", "sent", "drop"}

\* The one type invariant of the module.
TypeOK ==
  /\ open \subseteq Mails /\ told \subseteq Mails /\ due \subseteq Mails
  /\ spool \in [Mails -> {"none", "empty", "full"}] /\ saving \subseteq Mails
  /\ edit \in [Procs -> Mails \cup {NoMail}]
  /\ up \subseteq Procs /\ lock \in Procs \cup {Nobody}
  /\ pc \in [Procs -> PCs] /\ todo \in [Procs -> SUBSET Mails]
  /\ now \in [Procs -> SUBSET Mails] /\ cur \in [Procs -> Mails \cup {NoMail}]
  /\ \A p \in Procs : pc[p] \in {"send", "sent", "drop"} => cur[p] \in Mails
  /\ sends \in [Mails -> Nat] /\ returned \subseteq Mails
  /\ missed \in [Mails -> Nat] /\ unread \in [Mails -> Nat] /\ faults \in Nat

Delivering(p, m) == cur[p] = m /\ pc[p] \in {"send", "sent"}

\* "only the lock holder scans and delivers, a second instance's check
\* no-ops": no two processes are at the delivery of one mail, whoever dies
\* and is started again in between.
OneDeliverer ==
  \A p, q \in Procs, m \in Mails : Delivering(p, m) /\ Delivering(q, m) => p = q

\* "a mail is never delivered twice", but for what the code admits: each
\* delivery beyond the first follows one whose record was not removed, because
\* the process died or the removal failed.
TwiceOnlyAfterMiss == \A m \in Mails : sends[m] <= 1 + missed[m]

\* A mail in the spool whose time has come is sent in the end, unless it is
\* edited or lost with its record.
SentInTheEnd ==
  \A m \in Mails : (m \in due /\ spool[m] = "full") ~> (spool[m] = "none" \/ sends[m] > 0)

-----------------------------------------------------------------------------
(* The spool is an outbox.  A mail is in it from the moment its record is  *)
(* whole, unless a round has failed to read it and is about to drop it;    *)
(* and a round that has read it delivers it even when its record is        *)
(* removed.                                                                *)
Doomed(m) == \E p \in Procs : pc[p] = "drop" /\ cur[p] = m
Held(m) == \E p \in Procs : pc[p] = "send" /\ cur[p] = m
Pending == {m \in Mails : (spool[m] = "full" /\ ~Doomed(m)) \/ Held(m)}

Box == INSTANCE Outbox WITH pending <- Pending

\* A mail leaves the spool only after it was sent or given back, or at a round
\* that fails to read its record: "a corrupt file drops", and so does a whole one
\* whose read fails, which the outbox counts one by one.
Promise == Box!Spec
=============================================================================
