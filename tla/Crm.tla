--------------------------------- MODULE Crm ---------------------------------
(***************************************************************************)
(* The follow-up queue (src/tui/crm.go, src/app/crm_engine.go,             *)
(* src/lib/crm).  A pull lists the contacts without a marker, page by      *)
(* page, from a CRM other people work on.  The queue of the terminal       *)
(* merges what it lists by contact; the user has one analysed, drafts a    *)
(* mail with a prompt, or dismisses it, and a mail that was sent writes    *)
(* the marker back.  Every job is a goroutine of its own, and what it      *)
(* reports comes over a bus that may lose it.                              *)
(***************************************************************************)
EXTENDS Integers, Sequences, FiniteSets, SequencesExt

CONSTANTS
  Contacts,   \* numbers; the newest contact is the largest
  Old,        \* those the CRM has at the start
  PageSize,   \* contacts a request lists
  Room,       \* events a channel of the bus holds; other parts' take room too
  MaxPulls, MaxJobs  \* bounds: pulls, and jobs of the user's

VARIABLES
  hub,        \* the CRM: contacts, and those with the marker
  due, pull,  \* pulls that were asked for, the listing that runs
  jobs,       \* analyses, marks, prompts
  tuiCh, appCh, latest,   \* the bus, and its last page
  q,          \* the queue: order, rows, cursor
  sel, pulled,            \* the row of the open picker, whether a pull was asked for
  brief, refs,            \* the app: contacts with a briefing, the contact of each dialogue
  dialogues, npulls, njobs,
  handled, dismissed, sent, excused, late, odd, seen  \* history

busVars == <<tuiCh, appCh, latest>>
uiVars == <<q, sel, pulled>>
pullVars == <<due, pull, npulls>>
appVars == <<brief, refs, dialogues>>
history == <<handled, dismissed, sent, excused, late, odd, seen>>
vars == <<hub, pullVars, jobs, busVars, uiVars, appVars, njobs, history>>

Idle == [on |-> FALSE]
NoRow == 0
Past(status) == status \in {"drafted", "dismissed"}
NewRow == [status |-> "new", briefing |-> FALSE, inFlight |-> FALSE]

Init ==
  /\ hub = [has |-> Old, marked |-> {}]
  /\ due = 0 /\ pull = Idle /\ npulls = 0 /\ jobs = {}
  /\ tuiCh = <<>> /\ appCh = <<>> /\ latest = [n |-> 0]
  /\ q = [order |-> <<>>, row |-> <<>>, cur |-> 0] /\ sel = NoRow /\ pulled = FALSE
  /\ brief = {} /\ refs = <<>> /\ dialogues = {} /\ njobs = 0
  /\ seen = 0 /\ handled = {} /\ dismissed = {} /\ sent = {} /\ excused = {} /\ late = {} /\ odd = FALSE

-----------------------------------------------------------------------------
(* The bus: a channel that is full loses the event.                        *)

Into(ch, e) == {ch} \cup (IF Len(ch) < Room THEN {Append(ch, e)} ELSE {})
ToApp(e) == appCh' \in Into(appCh, e) /\ UNCHANGED <<tuiCh, latest>>
ToTui(e) == tuiCh' \in Into(tuiCh, e) /\ UNCHANGED <<appCh, latest>>
Failed(kind, k) == ToTui([kind |-> "error", who |-> k, of |-> kind])

-----------------------------------------------------------------------------
(* The queue.                                                              *)

Cursor == IF q.cur + 1 \in DOMAIN q.order THEN q.order[q.cur + 1] ELSE NoRow

\* the numbers of a set, the least first; a sequence at some of its places
Ordered(S) == [i \in 1..Cardinality(S) |-> CHOOSE k \in S : Cardinality({x \in S : x <= k}) = i]
Only(s, places) == [i \in 1..Cardinality(places) |-> s[Ordered(places)[i]]]

\* a contact that is listed twice stays once, where it is first
Once(s) == Only(s, {i \in DOMAIN s : \A j \in 1..(i - 1) : s[j] # s[i]})

\* the page's order, then the rows under review that it lacks
Left(page) == {i \in DOMAIN q.order : q.order[i] \notin ToSet(page) /\ ~Past(q.row[q.order[i]].status)}
Merged(page) == Once(page) \o Only(q.order, Left(page))

\* the selection survives by its contact, else by its place
CursorIn(order) ==
  LET at == {i \in DOMAIN order : order[i] = Cursor}
  IN CASE order = <<>> -> 0
       [] at # {} -> (CHOOSE i \in at : TRUE) - 1
       [] q.cur < 0 \/ q.cur >= Len(order) -> Len(order) - 1
       [] OTHER -> q.cur

\* mutant: every row of a page is new
QueueAnew(page) ==
  LET order == Merged(page)
  IN [order |-> order, cur |-> CursorIn(order),
      row |-> [k \in ToSet(order) |-> IF k \in DOMAIN q.row \ ToSet(page) THEN q.row[k] ELSE NewRow]]

OnQueue(page) ==
  LET order == Merged(page)
  IN [order |-> order, cur |-> CursorIn(order),
      row |-> [k \in ToSet(order) |-> IF k \in DOMAIN q.row THEN q.row[k] ELSE NewRow]]

Held(k) == k \in DOMAIN q.row
WithRow(k, row) == [q EXCEPT !.row = [q.row EXCEPT ![k] = row]]

\* a page older than one that was merged, or one whose listing the CRM changed under
Odd(p) == odd' = (odd \/ p.torn \/ p.n < seen) /\ seen' = p.n

OnPage(p) == q' = OnQueue(p.page) /\ Odd(p) /\ UNCHANGED late

OnBriefing(k) ==
  /\ q' = IF Held(k) THEN WithRow(k, [status |-> "briefing", briefing |-> TRUE, inFlight |-> FALSE]) ELSE q
  /\ late' = late \cup {k} /\ UNCHANGED <<odd, seen>>

\* the failure of any job of a contact ends its row's flight
OnRowError(e) ==
  /\ q' = IF Held(e.who) THEN WithRow(e.who, [q.row[e.who] EXCEPT !.inFlight = FALSE]) ELSE q
  /\ UNCHANGED <<late, odd, seen>>

Receive ==
  /\ tuiCh # <<>> /\ tuiCh' = Tail(tuiCh)
  /\ LET e == Head(tuiCh)
     IN \/ e.kind = "page" /\ OnPage(e)
        \/ e.kind = "briefing" /\ OnBriefing(e.who)
        \/ e.kind = "error" /\ OnRowError(e)
  /\ UNCHANGED <<hub, pullVars, jobs, appCh, latest, sel, pulled, appVars, njobs, handled, dismissed, sent, excused>>

-----------------------------------------------------------------------------
(* Keys of the queue.                                                      *)

\* Q: the first one since the tab was closed asks for a pull; each of them
\* merges the last page again
OpenQueue ==
  /\ sel = NoRow
  /\ IF pulled THEN UNCHANGED <<busVars, npulls>>
     ELSE npulls < MaxPulls /\ npulls' = npulls + 1 /\ ToApp([kind |-> "opened"])
  /\ pulled' = TRUE
  /\ IF latest.n > 0 THEN q' = OnQueue(latest.page) /\ Odd(latest) ELSE UNCHANGED <<q, odd, seen>>
  /\ UNCHANGED <<hub, due, pull, jobs, sel, appVars, njobs, handled, dismissed, sent, excused, late>>

Close ==
  /\ sel = NoRow /\ pulled /\ pulled' = FALSE
  /\ UNCHANGED <<hub, pullVars, jobs, busVars, q, sel, appVars, njobs, history>>

Move ==
  /\ sel = NoRow
  /\ \E c \in ({q.cur - 1, q.cur + 1} \cap 0..(Len(q.order) - 1)) \cup {0, Len(q.order) - 1} : q' = [q EXCEPT !.cur = c]
  /\ UNCHANGED <<hub, pullVars, jobs, busVars, sel, pulled, appVars, njobs, history>>

Job(kind, k) == njobs < MaxJobs /\ njobs' = njobs + 1 /\ jobs' = jobs \cup {[kind |-> kind, who |-> k, n |-> njobs]}

Analyze ==
  /\ sel = NoRow /\ Cursor # NoRow /\ ~q.row[Cursor].inFlight
  /\ q' = WithRow(Cursor, [q.row[Cursor] EXCEPT !.inFlight = TRUE]) /\ Job("analyze", Cursor)
  /\ UNCHANGED <<hub, pullVars, busVars, sel, pulled, appVars, history>>

Dismiss ==
  /\ sel = NoRow /\ Cursor # NoRow
  /\ q' = WithRow(Cursor, [q.row[Cursor] EXCEPT !.status = "dismissed"]) /\ Job("mark", Cursor)
  /\ handled' = handled \cup {Cursor} /\ dismissed' = dismissed \cup {Cursor} /\ late' = late \ {Cursor}
  /\ UNCHANGED <<hub, pullVars, busVars, sel, pulled, appVars, sent, excused, odd, seen>>

\* d: the picker of prompts, for a row with a briefing
Draft ==
  /\ sel = NoRow /\ Cursor # NoRow /\ q.row[Cursor].briefing
  /\ sel' = Cursor
  /\ UNCHANGED <<hub, pullVars, jobs, busVars, q, pulled, appVars, njobs, history>>

\* enter: the row by its contact, if it is still held
Prompt ==
  /\ sel # NoRow /\ sel' = NoRow
  /\ IF Held(sel)
     THEN /\ q' = WithRow(sel, [q.row[sel] EXCEPT !.status = "drafted"]) /\ Job("prompt", sel)
          /\ handled' = handled \cup {sel} /\ late' = late \ {sel}
     ELSE UNCHANGED <<q, jobs, njobs, handled, late>>
  /\ UNCHANGED <<hub, pullVars, busVars, pulled, appVars, dismissed, sent, excused, odd, seen>>

Keys == OpenQueue \/ Close \/ Move \/ Analyze \/ Dismiss \/ Draft \/ Prompt

-----------------------------------------------------------------------------
(* The app.                                                                *)

\* mutant: a failed send marks too
WriteBackAlways(e) ==
  IF e.id \in DOMAIN refs
  THEN /\ refs' = [d \in DOMAIN refs \ {e.id} |-> refs[d]]
       /\ jobs' = jobs \cup {[kind |-> "mark", who |-> refs[e.id], n |-> MaxJobs + e.id]}
  ELSE UNCHANGED <<refs, jobs>>

\* a mail that was sent marks its contact, once
WriteBack(e) ==
  IF e.ok /\ e.id \in DOMAIN refs
  THEN /\ refs' = [d \in DOMAIN refs \ {e.id} |-> refs[d]]
       /\ jobs' = jobs \cup {[kind |-> "mark", who |-> refs[e.id], n |-> MaxJobs + e.id]}
  ELSE UNCHANGED <<refs, jobs>>

Observe ==
  /\ appCh # <<>> /\ appCh' = Tail(appCh)
  /\ LET e == Head(appCh)
     IN \/ e.kind = "opened" /\ due' = due + 1 /\ UNCHANGED <<brief, refs, jobs>>
        \/ e.kind = "briefing" /\ brief' = brief \cup {e.who} /\ UNCHANGED <<due, refs, jobs>>
        \/ e.kind = "sent" /\ WriteBack(e) /\ UNCHANGED <<due, brief>>
  /\ UNCHANGED <<hub, pull, npulls, tuiCh, latest, uiVars, dialogues, njobs, history>>

\* a token first; then the one listing at a time, and the others go without
BeginPull ==
  /\ due > 0 /\ due' = due - 1
  /\ IF pull.on THEN UNCHANGED pull
     ELSE pull' \in {pull, [on |-> TRUE, n |-> latest.n + 1, after |-> 0, got |-> <<>>, torn |-> FALSE]}
  /\ UNCHANGED <<hub, npulls, jobs, busVars, uiVars, appVars, njobs, history>>

\* the contacts without the marker, newest first, from an offset on
Unmarked == Reverse(Ordered(hub.has \ hub.marked))

ListPage ==
  /\ pull.on
  /\ LET got == pull.got \o SubSeq(Unmarked, pull.after + 1, Min({pull.after + PageSize, Len(Unmarked)}))
         e == [kind |-> "page", page |-> got, n |-> pull.n, torn |-> pull.torn]
     IN IF pull.after + PageSize < Len(Unmarked)
        THEN pull' = [pull EXCEPT !.got = got, !.after = @ + PageSize] /\ UNCHANGED busVars
        ELSE /\ pull' = Idle /\ latest' = e
             /\ tuiCh' \in Into(tuiCh, e) /\ UNCHANGED appCh
  /\ UNCHANGED <<hub, due, npulls, jobs, uiVars, appVars, njobs, history>>

\* the failure of a pull names no contact
PullFails == pull.on /\ pull' = Idle /\ UNCHANGED <<hub, due, npulls, jobs, busVars, uiVars, appVars, njobs, history>>

Ends(j) == j \in jobs /\ jobs' = jobs \ {j} /\ UNCHANGED <<pullVars, uiVars, njobs>>

\* the contact, its company, the research, the briefing: any of them may fail
Analyzed(j) ==
  /\ Ends(j) /\ j.kind = "analyze"
  /\ \/ Failed("analyze", j.who)
     \/ /\ tuiCh' \in Into(tuiCh, [kind |-> "briefing", who |-> j.who])
        /\ appCh' \in Into(appCh, [kind |-> "briefing", who |-> j.who]) /\ UNCHANGED latest
  /\ UNCHANGED <<hub, appVars, history>>

Torn == pull' = IF pull.on THEN [pull EXCEPT !.torn = TRUE] ELSE pull

Marked(j) ==
  /\ j \in jobs /\ j.kind = "mark" /\ jobs' = jobs \ {j}
  /\ \/ hub' = [hub EXCEPT !.marked = @ \cup {j.who}] /\ Torn /\ UNCHANGED <<busVars, excused>>
     \/ Failed("mark", j.who) /\ excused' = excused \cup {j.who} /\ UNCHANGED <<hub, pull>>
  /\ UNCHANGED <<due, npulls, uiVars, appVars, njobs, handled, dismissed, sent, late, odd, seen>>

\* the briefing the app has, not the row's; a dialogue opens with what was written
Prompted(j) ==
  /\ Ends(j) /\ j.kind = "prompt"
  /\ \/ Failed("prompt", j.who) /\ UNCHANGED <<refs, dialogues>>
     \/ /\ j.who \in brief /\ UNCHANGED busVars
        /\ dialogues' = dialogues \cup {j.n}
        /\ refs' = [d \in DOMAIN refs \cup {j.n} |-> IF d = j.n THEN j.who ELSE refs[d]]
  /\ UNCHANGED <<hub, brief, history>>

\* A dialogue of a draft: sent or tried again, given up, or scheduled; a
\* scheduled mail is sent without a word to the app.
Send(d) ==
  /\ d \in dialogues
  /\ \E ok \in BOOLEAN :
       /\ ToApp([kind |-> "sent", id |-> d, ok |-> ok])
       /\ dialogues' = IF ok THEN dialogues \ {d} ELSE dialogues
       /\ sent' = IF ok THEN sent \cup {refs[d]} ELSE sent
       /\ excused' = IF ok /\ appCh' = appCh THEN excused \cup {refs[d]} ELSE excused
  /\ UNCHANGED <<hub, pullVars, jobs, uiVars, brief, refs, njobs, handled, dismissed, late, odd, seen>>

Leave(d) ==
  /\ d \in dialogues /\ dialogues' = dialogues \ {d}
  /\ \/ sent' = sent \cup {refs[d]} /\ excused' = excused \cup {refs[d]}
     \/ UNCHANGED <<sent, excused>>
  /\ UNCHANGED <<hub, pullVars, jobs, busVars, uiVars, brief, refs, njobs, handled, dismissed, late, odd, seen>>

\* the CRM: a contact is scanned
Scan(k) ==
  /\ k \in Contacts \ hub.has /\ hub' = [hub EXCEPT !.has = @ \cup {k}] /\ Torn
  /\ UNCHANGED <<due, npulls, jobs, busVars, uiVars, appVars, njobs, history>>

-----------------------------------------------------------------------------
App == Observe \/ BeginPull \/ ListPage \/ PullFails

Next == \/ Keys \/ Receive \/ App
        \/ \E j \in jobs : Analyzed(j) \/ Marked(j) \/ Prompted(j)
        \/ \E d \in dialogues : Send(d) \/ Leave(d)
        \/ \E k \in Contacts : Scan(k)

Spec == Init /\ [][Next]_vars

-----------------------------------------------------------------------------
(* Properties.                                                             *)

\* "send or dismiss writes the processed marker back": the marker is on no
\* contact the user did not dismiss or mail, and on its way to each one that was
\* mailed -- unless the write failed, the result was dropped or the mail scheduled.
FollowUpsRecorded ==
  /\ hub.marked \subseteq dismissed \cup sent
  /\ \A k \in sent \ (hub.marked \cup excused) :
       \/ \E j \in jobs : j.kind = "mark" /\ j.who = k
       \/ \E i \in DOMAIN appCh : appCh[i].kind = "sent" /\ appCh[i].ok /\ refs[appCh[i].id] = k

\* A contact the user is done with is not offered again as new, whatever pages
\* and failures come -- unless its analysis ended afterwards, pages overtook each
\* other, or the CRM changed while it was listed.
NotOfferedAgain == ~odd => \A k \in handled \cap DOMAIN q.row : Past(q.row[k].status) \/ k \in late
=============================================================================
