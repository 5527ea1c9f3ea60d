------------------------------- MODULE Config -------------------------------
(***************************************************************************)
(* The live configuration (src/config/config.go, store.go,                 *)
(* src/app/configwatch.go).  A watcher compares the directory's            *)
(* fingerprint once a second and, when it changed, reads the files one by  *)
(* one, each of them twice, while the user goes on editing them.  What it  *)
(* builds and validates replaces the store whole; the terminal keeps a     *)
(* copy of the key bindings and renews it on an event the bus may lose.    *)
(*                                                                         *)
(* A file is a function from settings to values.  A setting is a pair:     *)
(* <<"account", a>> (its folder), <<"view", v>> (its query), <<"key", k>>  *)
(* (its action in the index), <<"keymap", "">>; any other is unknown.      *)
(***************************************************************************)
EXTENDS Naturals, Sequences, TLC, SequencesExt

CONSTANTS
  Splits,     \* the optional files, sorted; config.toml is read after them
  Contents,   \* what the user may write into a file
  Accounts,   \* the account names, sorted
  Given,      \* the directory the program starts with
  BaseKeys,   \* the keys of the embedded base scheme and their actions
  Room,       \* of the terminal's channel
  MaxEdits, MaxActs  \* bounds: edits of files, keys and noise on the bus

Files == Append(Splits, "config.toml")   \* configLast
Names == ToSet(Files)
Absent == [s \in {<<"absent", "">>} |-> ""]

VARIABLES
  dir, stamp,              \* the files, and a number that grows with each edit
  pc, last, next,          \* the watcher: its phase and its two fingerprints
  todo, merged,            \* its load: the places of the files to read, the settings so far
  store,                   \* the configuration in force, and the settings it is made of
  ch, shown,               \* the terminal's channel, the bindings it has
  edits, acts,
  missed                   \* history: an edit the watcher cannot see, or an event
                           \* that found the channel full

watchVars == <<pc, last, next, todo, merged>>
uiVars == <<ch, shown>>
vars == <<dir, stamp, watchVars, store, uiVars, edits, acts, missed>>

-----------------------------------------------------------------------------
(* From settings to a configuration.                                       *)

Known == {"account", "view", "key", "keymap"}
Strict(file) == \A s \in DOMAIN file : s[1] \in Known

\* the keys of one kind that a set of settings has, and their values
Of(kind, settings) == [n \in {s[2] : s \in {t \in DOMAIN settings : t[1] = kind}} |-> settings[<<kind, n>>]]

\* mutant: the files that were read before win
MergeFirst(a, b) == [x \in DOMAIN a \cup DOMAIN b |-> IF x \in DOMAIN a THEN a[x] ELSE b[x]]

\* tables merge per key, what is read later wins
Merge(a, b) == [x \in DOMAIN a \cup DOMAIN b |-> IF x \in DOMAIN b THEN b[x] ELSE a[x]]

Drop(f, gone) == [x \in DOMAIN f \ gone |-> f[x]]

GotoKey(i) == "g " \o ToString(i)
Goto(tag) == <<"goto", tag>>

\* the account's tag is its folder, by default its name
TagOf(accounts, a) == IF accounts[a] = "" THEN a ELSE accounts[a]

\* sortedKeys
Sorted(accounts) == SelectSeq(Accounts, LAMBDA a : a \in DOMAIN accounts)

\* mutant: every key of the last derivation goes, whoever bound it
DeriveAll(cfg) ==
  LET index == Drop(cfg.index, DOMAIN cfg.derived)
      order == Sorted(cfg.accounts)
      tags == [i \in DOMAIN order |-> TagOf(cfg.accounts, order[i])]
      free == {GotoKey(i) : i \in DOMAIN order} \ DOMAIN index
      mine == [k \in free |-> tags[CHOOSE i \in DOMAIN order : GotoKey(i) = k]]
  IN [cfg EXCEPT !.views = Merge([t \in {TagOf(cfg.accounts, a) : a \in DOMAIN cfg.accounts} |-> "tag"], cfg.views),
                 !.index = Merge([k \in DOMAIN mine |-> Goto(mine[k])], index),
                 !.derived = mine]

\* deriveAccountViews: a view for every account's tag and a key for every
\* account, unless the user has one; the keys of the last derivation go first
\* and are told from the user's by what they do
Derive(cfg) ==
  LET stale == {k \in DOMAIN cfg.derived \cap DOMAIN cfg.index : cfg.index[k] = Goto(cfg.derived[k])}
      index == Drop(cfg.index, stale)
      order == Sorted(cfg.accounts)
      tags == [i \in DOMAIN order |-> TagOf(cfg.accounts, order[i])]
      free == {GotoKey(i) : i \in DOMAIN order} \ DOMAIN index
      mine == [k \in free |-> tags[CHOOSE i \in DOMAIN order : GotoKey(i) = k]]
  IN [cfg EXCEPT !.views = Merge([t \in {TagOf(cfg.accounts, a) : a \in DOMAIN cfg.accounts} |-> "tag"], cfg.views),
                 !.index = Merge([k \in DOMAIN mine |-> Goto(mine[k])], index),
                 !.derived = mine]

\* the built-in configuration: the view of a hard tag, an account to show the
\* shape, the base's keys, and what is derived from them
Default ==
  [keymap |-> "vim", accounts |-> [a \in {"gmail"} |-> ""], views |-> [v \in {"inbox", "gmail"} |-> "tag"],
   index |-> Merge([k \in {GotoKey(1)} |-> Goto("gmail")], BaseKeys), derived |-> [k \in {GotoKey(1)} |-> "gmail"]]

\* Load after the last file: the files over the defaults, the index scheme over
\* the base's once more -- a scheme of the files replaces the default's table --
\* and what is derived from them
Build(settings) ==
  LET keys == Of("key", settings)
      base == Default
  IN Derive([keymap |-> IF <<"keymap", "">> \in DOMAIN settings THEN settings[<<"keymap", "">>] ELSE base.keymap,
             accounts |-> Merge(base.accounts, Of("account", settings)),
             views |-> Merge(base.views, Of("view", settings)),
             index |-> Merge(BaseKeys, IF DOMAIN keys = {} THEN base.index ELSE keys),
             derived |-> base.derived])

Validate(cfg) ==
  /\ cfg.keymap \in {"vim", "emacs"}
  /\ \A v \in DOMAIN cfg.views : cfg.views[v] # "blank"
  /\ \A k \in DOMAIN cfg.index : cfg.index[k] # "blank"

\* compileBindings: the scheme in force; account keys are vim's
Bindings(cfg) == IF cfg.keymap = "vim" THEN cfg.index ELSE BaseKeys

DefaultView(cfg) == "inbox"  \* the defaults have it, and files cannot remove it

\* what a load of the directory as it stands gives: of the files that have a
\* setting, the last one's value
ReadOf(d, some) ==
  [s \in UNION {DOMAIN d[Files[i]] : i \in some} |->
     d[Files[Max({i \in some : s \in DOMAIN d[Files[i]]})]][s]]
Read(d) == ReadOf(d, {i \in DOMAIN Files : d[Files[i]] # Absent})
Loads(d) == /\ \A f \in Names : d[f] = Absent \/ Strict(d[f])
            /\ Validate(Build(Read(d)))

-----------------------------------------------------------------------------
(* The bus.                                                                *)

Offer(q, e) == IF Len(q) < Room THEN Append(q, e) ELSE q

Fingerprint == [f \in {g \in Names : dir[g] # Absent} |-> stamp[f]]

Install(settings) == [cfg |-> Build(settings), from |-> settings, active |-> DefaultView(Build(settings))]

Init ==
  /\ dir = Given /\ stamp = [f \in Names |-> 0]
  /\ pc = "boot" /\ last = <<>> /\ next = <<>> /\ todo = {} /\ merged = <<>>
  /\ store = Install(Read(Given))
  /\ ch = <<>> /\ shown = Bindings(store.cfg)
  /\ edits = 0 /\ acts = 0 /\ missed = FALSE

-----------------------------------------------------------------------------
(* The user's editor, one file at a time; the program does not stop it.    *)

Edit(f, c) ==
  /\ edits < MaxEdits /\ c # dir[f]
  /\ dir' = [dir EXCEPT ![f] = c]
  /\ stamp' = [stamp EXCEPT ![f] = edits + 1] /\ edits' = edits + 1
  /\ missed' = (missed \/ pc = "boot")
  /\ UNCHANGED <<watchVars, store, uiVars, acts>>

-----------------------------------------------------------------------------
(* The watcher.                                                            *)

\* its first look, some time after the program has loaded the files
Watch ==
  /\ pc = "boot" /\ pc' = "idle" /\ last' = Fingerprint
  /\ UNCHANGED <<dir, stamp, next, todo, merged, store, uiVars, edits, acts, missed>>

Tick ==
  /\ pc = "idle" /\ Fingerprint # last
  /\ next' = Fingerprint /\ pc' = "probe" /\ merged' = <<>>
  /\ todo' = {i \in DOMAIN Files : dir[Files[i]] # Absent}
  /\ UNCHANGED <<dir, stamp, last, store, uiVars, edits, acts, missed>>

\* an error of any kind: the store stays, and the next tick tries again
Fail == pc' = "idle" /\ UNCHANGED <<next, todo, merged>>

Up == Files[Min(todo)]   \* the file it is at

\* the first of the two readings is the strict one
Probe ==
  /\ pc = "probe" /\ todo # {}
  /\ IF dir[Up] # Absent /\ Strict(dir[Up])
     THEN pc' = "decode" /\ UNCHANGED <<next, todo, merged>>
     ELSE Fail
  /\ UNCHANGED <<dir, stamp, last, store, uiVars, edits, acts, missed>>

Decode ==
  /\ pc = "decode"
  /\ IF dir[Up] # Absent
     THEN /\ merged' = Merge(merged, dir[Up])
          /\ todo' = todo \ {Min(todo)} /\ pc' = "probe" /\ UNCHANGED next
     ELSE Fail
  /\ UNCHANGED <<dir, stamp, last, store, uiVars, edits, acts, missed>>

\* mutant: the fingerprint is the one after the load
ReplaceLate ==
  /\ pc = "probe" /\ todo = {}
  /\ IF Validate(Build(merged))
     THEN /\ store' = Install(merged) /\ last' = Fingerprint
          /\ ch' = Offer(ch, "ui") /\ missed' = (missed \/ Len(ch) = Room)
     ELSE UNCHANGED <<store, last, ch, missed>>
  /\ pc' = "idle"
  /\ UNCHANGED <<dir, stamp, next, todo, merged, shown, edits, acts>>

\* Load's end and Store.Replace: the active view starts over; of the sections
\* that are notified the bindings are the "ui" section's
Replace ==
  /\ pc = "probe" /\ todo = {}
  /\ IF Validate(Build(merged))
     THEN /\ store' = Install(merged) /\ last' = next
          /\ ch' = Offer(ch, "ui") /\ missed' = (missed \/ Len(ch) = Room)
     ELSE UNCHANGED <<store, last, ch, missed>>
  /\ pc' = "idle"
  /\ UNCHANGED <<dir, stamp, next, todo, merged, shown, edits, acts>>

-----------------------------------------------------------------------------
(* The terminal.                                                           *)

\* a goto key of the bindings it has, which may be those of an earlier store
GotoView(k) ==
  /\ acts < MaxActs /\ acts' = acts + 1
  /\ shown[k][1] = "goto" /\ shown[k][2] \in DOMAIN store.cfg.views
  /\ store' = [store EXCEPT !.active = shown[k][2]]
  /\ ch' = Offer(ch, "view")
  /\ UNCHANGED <<dir, stamp, watchVars, shown, edits, missed>>

\* other events take room
Noise ==
  /\ acts < MaxActs /\ acts' = acts + 1
  /\ ch' = Offer(ch, "other")
  /\ UNCHANGED <<dir, stamp, watchVars, store, shown, edits, missed>>

\* onConfig reads the store as it is now
Receive ==
  /\ ch # <<>> /\ ch' = Tail(ch)
  /\ shown' = IF Head(ch) = "ui" THEN Bindings(store.cfg) ELSE shown
  /\ UNCHANGED <<dir, stamp, watchVars, store, edits, acts, missed>>

-----------------------------------------------------------------------------
Load == Tick \/ Probe \/ Decode \/ Replace

Next == \/ Watch \/ Load \/ Receive \/ Noise
        \/ \E f \in Names, c \in Contents \cup {Absent} : Edit(f, c)
        \/ \E k \in DOMAIN shown : GotoView(k)

Spec == Init /\ [][Next]_vars

-----------------------------------------------------------------------------
(* Properties.                                                             *)

\* "A user view or bound key wins" over what is derived from the accounts,
\* whatever the files, their order and the keys an earlier derivation left --
\* except for a key the user binds to just what the defaults derive for it, which
\* is taken for a derived one.  And a view is selected that there is.
UserWins ==
  LET keys == Of("key", store.from)
      views == Of("view", store.from)
  IN /\ \A k \in DOMAIN keys :
          \/ store.cfg.index[k] = keys[k]
          \/ k \in DOMAIN Default.derived /\ keys[k] = Goto(Default.derived[k])
     /\ \A v \in DOMAIN views : store.cfg.views[v] = views[v]
     /\ store.active \in DOMAIN store.cfg.views
     /\ \A a \in DOMAIN store.cfg.accounts : TagOf(store.cfg.accounts, a) \in DOMAIN store.cfg.views

\* What the watcher takes for loaded is the configuration in force: when it rests
\* and the directory is as its fingerprint has it, the store is made of the files
\* as they are, however the edits fell between the files of a load -- unless an
\* edit came before its first look -- and once the terminal has taken its events,
\* the keys it obeys are the store's, unless its channel was full.
Current ==
  pc = "idle" /\ last = Fingerprint /\ ~missed =>
    /\ store.from = Read(dir)
    /\ ch = <<>> => shown = Bindings(store.cfg)
=============================================================================
