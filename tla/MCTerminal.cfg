\* Two messages, one search tab, a dialogue, a summary, two loads; the other
\* components' instances are in the module.
SPECIFICATION MCSpec
CONSTANTS
  m1 = m1
  m2 = m2
  Msgs <- MCMsgs
  MaxSearch = 1
  MaxDialogs = 1
  MaxLoads = 2
  MaxJobs = 1
  Runs = {1, 2}
  Remote = {2}
  Effects <- MCEffects
  Cap = 1
  MaxAsks = 1
  MaxTabs = 1
  MaxOpens = 1
  Letters = {"a", "s", "e"}
  Mails <- MCMails
  Chunks <- MCChunks
  Widths = {2, 3}
  PageHeights = {2}
  Themes = {"dark"}
  Margin = 1
  Step = 1
  MaxChunks = 3
  MaxChanges = 1
  Items <- MCItems
  Urls = {"url"}
  Size <- MCSize
  Protocols = {"kitty", "sixel"}
  Heights = {3, 2}
  MaxLayouts = 3
  MaxPresses = 2
SYMMETRY Symmetric
INVARIANTS OwnSurface NoGhosts ScreenAgrees OneReader QuestionHeld WindowTrue StreamWhole PicturesAgree
PROPERTIES OpensKept
CHECK_DEADLOCK FALSE
