------------------------------- MODULE Scripts -------------------------------
(***************************************************************************)
(* Lua runs (src/app/lua_action.go, lua_ipc_server.go) and the terminal    *)
(* they ask (src/tui/model.go).  A run is a goroutine with a VM of its own *)
(* and a deadline.  prompt and picker_argv register a waiter, publish a    *)
(* request, and block; the terminal opens a dialogue or runs a chooser,    *)
(* and publishes the result, which a subscriber of the app hands to the    *)
(* waiter.  Every channel of the bus is bounded and loses events.  The     *)
(* terminal takes events with one-shot readers that each event re-arms.    *)
(***************************************************************************)
EXTENDS Integers, Sequences, FiniteSets

CONSTANTS
  Runs,       \* the Lua runs
  Remote,     \* those that another program starts over the socket
  Effects,    \* Effects[r]: what run r can queue, "attach" or "tags"
  Cap,        \* the room of a subscriber's channel
  MaxAsks,    \* bound: questions one run asks
  MaxTabs,    \* bound: times the attach prompt starts a plugin's chooser
  MaxOpens    \* bound: compose tabs the app opens

VARIABLES
  pc, asks, effects, out,   \* the runs
  waiters, box,                   \* the two registries, the waiters' channels
  tuiCh, appCh,                   \* the bus: the terminal's channel, the app's
  readers, held, execs,           \* the terminal's readers, and its choosers
  dialogue, at, tabs, opens,      \* what it shows, where it is
  lost                            \* history: questions and answers that were dropped,
                                  \* and questions that left the screen unanswered

runVars == <<pc, asks, effects, out>>
busVars == <<tuiCh, appCh, lost>>
loopVars == <<readers, held, execs>>
uiVars == <<dialogue, at, tabs, opens>>
vars == <<runVars, waiters, box, busVars, loopVars, uiVars>>

Surfaces == {"mail", "compose"}
None == [kind |-> "none"]
Attach == [kind |-> "attach"]

Init ==
  /\ pc = [r \in Runs |-> "none"] /\ asks = [r \in Runs |-> 0]
  /\ effects = [r \in Runs |-> {}] /\ out = [r \in Runs |-> <<>>]
  /\ waiters = {} /\ box = {}
  /\ tuiCh = <<>> /\ appCh = <<>> /\ lost = {}
  /\ readers = 1 /\ held = <<>> /\ execs = {}
  /\ dialogue = None /\ at = "mail" /\ tabs = 0 /\ opens = 0

-----------------------------------------------------------------------------
(* The bus.                                                                *)

Offer(ch, e) == IF Len(ch) < Cap THEN Append(ch, e) ELSE ch

Questions == {"prompt", "picker"}
Answers == {"answered", "picked"}

\* the questions that are still asked
Asked == {w.id : w \in waiters}

Publish(e) ==
  /\ tuiCh' = Offer(tuiCh, e) /\ appCh' = Offer(appCh, e)
  /\ lost' = IF e.kind \in Answers /\ appCh' = appCh THEN lost \cup ({e.id} \cap Asked) ELSE lost

Ask(r) == <<r, asks[r]>>
Waiting(r) == {w \in waiters : w.id = Ask(r)}

-----------------------------------------------------------------------------
(* A run.                                                                  *)

\* what the script will have queued by its end: attach_add, tag_add
Begin(r) ==
  /\ pc[r] = "none" /\ pc' = [pc EXCEPT ![r] = "running"]
  /\ \E e \in SUBSET Effects[r] : effects' = [effects EXCEPT ![r] = e]

\* a bound key, a command or a connection of another program
Start(r) ==
  /\ r \notin Remote => execs = {}
  /\ Begin(r)
  /\ UNCHANGED <<asks, out, waiters, box, busVars, loopVars, uiVars>>

\* picker, promptDialog: the waiter is registered under a fresh id, then the
\* request goes out
Request(r, what) ==
  /\ pc[r] = "running" /\ asks[r] < MaxAsks
  /\ LET id == <<r, asks[r] + 1>>
     IN /\ waiters' = waiters \cup {[kind |-> what, id |-> id]}
        /\ tuiCh' = Offer(tuiCh, [kind |-> what, id |-> id])
        /\ appCh' = Offer(appCh, [kind |-> what, id |-> id])
        /\ lost' = IF tuiCh' = tuiCh THEN lost \cup {id} ELSE lost
  /\ asks' = [asks EXCEPT ![r] = @ + 1]
  /\ pc' = [pc EXCEPT ![r] = "asking"]
  /\ UNCHANGED <<effects, out, box, loopVars, uiVars>>

Resume(r) ==
  /\ pc[r] = "asking" /\ Ask(r) \in box
  /\ box' = box \ {Ask(r)} /\ waiters' = waiters \ Waiting(r)
  /\ pc' = [pc EXCEPT ![r] = "running"]
  /\ UNCHANGED <<asks, effects, out, busVars, loopVars, uiVars>>

\* what a run publishes at its end, whether it failed or not; a connection's
\* outcome goes over its socket
Outcome(r) ==
  (IF "attach" \in effects[r] THEN <<[kind |-> "attach", id |-> <<r, 0>>]>> ELSE <<>>)
  \o (IF "tags" \in effects[r] THEN <<[kind |-> "tags", id |-> <<r, 0>>]>> ELSE <<>>)
  \o (IF r \notin Remote THEN <<[kind |-> "result", id |-> <<r, 0>>]>> ELSE <<>>)

\* the function returns or fails, or the deadline kills it wherever it is
End(r) ==
  /\ pc[r] \in {"running", "asking"}
  /\ waiters' = waiters \ Waiting(r) /\ box' = box \ {Ask(r)}
  /\ out' = [out EXCEPT ![r] = Outcome(r)] /\ pc' = [pc EXCEPT ![r] = "ending"]
  /\ asks' = [asks EXCEPT ![r] = 0] /\ effects' = [effects EXCEPT ![r] = {}]
  /\ lost' = {q \in lost : q[1] # r}
  /\ UNCHANGED <<tuiCh, appCh, loopVars, uiVars>>

Drain(r) ==
  /\ pc[r] = "ending"
  /\ IF out[r] = <<>>
     THEN pc' = [pc EXCEPT ![r] = "ended"] /\ UNCHANGED <<out, busVars>>
     ELSE Publish(Head(out[r])) /\ out' = [out EXCEPT ![r] = Tail(@)] /\ UNCHANGED pc
  /\ UNCHANGED <<asks, effects, waiters, box, loopVars, uiVars>>

-----------------------------------------------------------------------------
(* The app's subscriber.                                                   *)

Resolves(w, e) == w.id = e.id /\ e.kind = IF w.kind = "picker" THEN "picked" ELSE "answered"

\* mutant: the result is looked up in the other registry
DeliverCrossed ==
  /\ appCh # <<>> /\ appCh' = Tail(appCh)
  /\ LET e == Head(appCh)
         found == {w \in waiters : w.id = e.id /\ e.kind = IF w.kind = "prompt" THEN "picked" ELSE "answered"}
     IN waiters' = waiters \ found /\ box' = box \cup {w.id : w \in found}
  /\ UNCHANGED <<runVars, tuiCh, lost, loopVars, uiVars>>

Deliver ==
  /\ appCh # <<>> /\ appCh' = Tail(appCh)
  /\ LET found == {w \in waiters : Resolves(w, Head(appCh))}
     IN waiters' = waiters \ found /\ box' = box \cup {w.id : w \in found}
  /\ UNCHANGED <<runVars, tuiCh, lost, loopVars, uiVars>>

\* the app opens a compose tab, a reply or a draft the user asked for before
Open ==
  /\ opens < MaxOpens /\ opens' = opens + 1
  /\ Publish([kind |-> "tab", id |-> <<0, 0>>])
  /\ UNCHANGED <<runVars, waiters, box, loopVars, dialogue, at, tabs>>

-----------------------------------------------------------------------------
(* The terminal's loop.                                                    *)

\* EventCmd: a goroutine that waits for one event
Take ==
  /\ readers > 0 /\ tuiCh # <<>>
  /\ readers' = readers - 1 /\ held' = Append(held, Head(tuiCh)) /\ tuiCh' = Tail(tuiCh)
  /\ UNCHANGED <<runVars, waiters, box, appCh, lost, execs, uiVars>>

Without(s, i) == SubSeq(s, 1, i - 1) \o SubSeq(s, i + 1, Len(s))
Rearm == readers' = readers + 1

\* an attachment goes to the dialogue on the screen, and closes its prompt
OnAttach ==
  dialogue' = IF at = "compose" /\ dialogue = Attach THEN None ELSE dialogue

\* a dialogue takes the place of whatever is open
Show(d) ==
  /\ dialogue' = d
  /\ lost' = IF dialogue.kind = "prompt" THEN lost \cup ({dialogue.id} \cap Asked) ELSE lost

\* the chooser starts, or cannot: no temporary file, no such command
OnPicker(e) ==
  /\ UNCHANGED dialogue
  /\ \/ execs' = execs \cup {e.id} /\ UNCHANGED <<readers, busVars>>
     \/ Rearm /\ Publish([kind |-> "picked", id |-> e.id]) /\ UNCHANGED execs

\* attachTab lands on the tab that opened, without a dialogue
OnTab == Show(None) /\ at' = "compose"

Update(i) ==
  /\ i \in DOMAIN held /\ held' = Without(held, i)
  /\ LET e == held[i]
     IN \/ e.kind = "picker" /\ OnPicker(e) /\ UNCHANGED at
        \/ /\ Rearm /\ UNCHANGED <<execs, tuiCh, appCh>>
           /\ \/ e.kind = "prompt" /\ Show([kind |-> "prompt", id |-> e.id]) /\ UNCHANGED at
              \/ e.kind = "tab" /\ OnTab
              \/ e.kind = "attach" /\ OnAttach /\ UNCHANGED <<lost, at>>
              \/ /\ e.kind \notin {"picker", "prompt", "tab", "attach"}
                 /\ UNCHANGED <<lost, dialogue, at>>
  /\ UNCHANGED <<runVars, waiters, box, tabs, opens>>

\* mutant: the end of a chooser does not arm the reader its request took
PickedQuiet(id) ==
  /\ id \in execs /\ execs' = execs \ {id}
  /\ Publish([kind |-> "picked", id |-> id])
  /\ UNCHANGED <<runVars, waiters, box, readers, held, uiVars>>

Picked(id) ==
  /\ id \in execs /\ execs' = execs \ {id}
  /\ Publish([kind |-> "picked", id |-> id]) /\ Rearm
  /\ UNCHANGED <<runVars, waiters, box, held, uiVars>>

\* Keys.  A chooser has the terminal to itself.
Answer ==
  /\ execs = {} /\ dialogue.kind = "prompt"
  /\ Publish([kind |-> "answered", id |-> dialogue.id]) /\ dialogue' = None
  /\ UNCHANGED <<runVars, waiters, box, loopVars, at, tabs, opens>>

AttachPrompt ==
  /\ execs = {} /\ at = "compose" /\ dialogue \in {None, Attach}
  /\ dialogue' = IF dialogue = None THEN Attach ELSE None
  /\ UNCHANGED <<runVars, waiters, box, busVars, loopVars, at, tabs, opens>>

\* the attach prompt's tab key starts the plugin's chooser, and one reader more
Tab(r) ==
  /\ dialogue = Attach /\ r \notin Remote /\ tabs < MaxTabs /\ execs = {}
  /\ Begin(r)
  /\ Rearm /\ tabs' = tabs + 1
  /\ UNCHANGED <<asks, out, waiters, box, busVars, held, execs, dialogue, at, opens>>

SwitchTab ==
  /\ execs = {} /\ dialogue = None /\ at' \in Surfaces \ {at}
  /\ UNCHANGED <<runVars, waiters, box, busVars, loopVars, dialogue, tabs, opens>>

-----------------------------------------------------------------------------
Run(r) == \/ \E what \in {"prompt", "picker"} : Request(r, what)
          \/ Resume(r) \/ End(r) \/ Drain(r)

Loop == Take \/ (\E i \in DOMAIN held : Update(i)) \/ (\E id \in execs : Picked(id))
Keys == Answer \/ AttachPrompt \/ SwitchTab \/ \E r \in Runs : Tab(r)

Next == \/ Loop \/ Keys \/ Deliver \/ Open
        \/ \E r \in Runs : Run(r) \/ Start(r)

Spec == Init /\ [][Next]_vars

-----------------------------------------------------------------------------
(* Properties.                                                             *)

\* "re-arm after every EventMsg or the loop dies": the terminal has one reader,
\* one event in hand or one chooser that will arm it again -- and one more for
\* every plugin chooser the tab key started, which is where events begin to
\* overtake each other.
OneReader == readers + Len(held) + Cardinality(execs) = 1 + tabs

\* A question is never forgotten silently: while its run waits, it is on the
\* way to the terminal, on its screen, at its chooser, or answered and on the way
\* back -- unless a full channel dropped it, or another question or a tab that
\* opened took its place.
QuestionHeld ==
  \A r \in Runs : pc[r] = "asking" /\ Ask(r) \notin lost =>
    \/ Ask(r) \in box \cup execs \/ dialogue = [kind |-> "prompt", id |-> Ask(r)]
    \/ \E i \in DOMAIN tuiCh : tuiCh[i].id = Ask(r) /\ tuiCh[i].kind \in Questions
    \/ \E i \in DOMAIN held : held[i].id = Ask(r) /\ held[i].kind \in Questions
    \/ \E i \in DOMAIN appCh : appCh[i].id = Ask(r) /\ appCh[i].kind \in Answers
=============================================================================
