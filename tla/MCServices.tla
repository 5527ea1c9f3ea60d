------------------------------ MODULE MCServices ------------------------------
(* Small instances of what runs behind the terminal, side by side: the       *)
(* components share no state, and a behaviour is one of one of them while    *)
(* the others rest.                                                          *)
EXTENDS Services, TLC

(* Config: a split file and config.toml; accounts with a folder of their own  *)
(* and without, a view and keys of the user's that clash with the derived     *)
(* ones, a keymap, a view that does not validate and an unknown setting.      *)
MCSplits == <<"accounts.toml">>
MCAccounts == <<"alpha", "gmail">>
MCBaseKeys == ("d" :> <<"delete", "">>)
MCStart == ("accounts.toml" :> (<<"absent", "">> :> "")) @@ ("config.toml" :> <<>>)
MCContents == {
  <<>>,
  (<<"account", "alpha">> :> "") @@ (<<"account", "gmail">> :> "inbox"),
  (<<"account", "alpha">> :> "a") @@ (<<"view", "a">> :> "mine"),
  (<<"key", "g 1" >> :> <<"reply", "">>),
  (<<"key", "g 1" >> :> <<"goto", "gmail">>) @@ (<<"account", "alpha">> :> ""),
  (<<"keymap", "">> :> "emacs") @@ (<<"key", "d">> :> <<"archive", "">>),
  (<<"view", "inbox">> :> "blank"),
  (<<"odd", "">> :> "") }

ConfigRests ==
  /\ dir = 0 /\ stamp = 0 /\ pc = 0 /\ last = 0 /\ next = 0 /\ todo = 0 /\ merged = 0
  /\ store = 0 /\ ch = 0 /\ shown = 0 /\ edits = 0 /\ acts = 0 /\ missed = 0
CrmRests ==
  /\ hub = 0 /\ due = 0 /\ pull = 0 /\ jobs = 0 /\ tuiCh = 0 /\ appCh = 0 /\ latest = 0 /\ queue = 0
  /\ sel = 0 /\ pulled = 0 /\ brief = 0 /\ refs = 0 /\ dialogues = 0 /\ npulls = 0 /\ njobs = 0
  /\ handled = 0 /\ dismissed = 0 /\ sent = 0 /\ excused = 0 /\ late = 0 /\ odd = 0
  /\ seen = 0

MCInit ==
  /\ Init
  /\ \/ part = "compose" /\ ConfigRests /\ CrmRests
     \/ part = "config" /\ Settings!Init /\ CrmRests
     \/ part = "crm" /\ ConfigRests /\ Queue!Init

InCompose == part = "compose" /\ UNCHANGED <<part, cfgVars, crmVars>>
InConfig == part = "config" /\ UNCHANGED <<part, vars, crmVars>>
InCrm == part = "crm" /\ UNCHANGED <<part, vars, cfgVars>>

MCNext == \/ InCompose /\ Next
          \/ InConfig /\ Settings!Next
          \/ InCrm /\ Queue!Next

MCSpec == MCInit /\ [][MCNext]_<<part, vars, cfgVars, crmVars>>
=============================================================================
