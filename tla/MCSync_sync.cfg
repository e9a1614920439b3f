\* A JS cycle that dies, throws before its try block or is frozen at any point: the
\* rows it leaves behind are sent again once their claim expires.  And two requests of
\* the dispatcher around running cycles, unmounting and the native engine: a run and
\* its follow-up, both heal demands, with the bridge unpaired and paired again at any
\* moment.
SPECIFICATION SyncSpec
CONSTANTS
  a = a
  Keys = {a}
  MaxRow = 2
  Runtimes = {"js"}
  ClaimTtl = 2
  BatchLimit = 2
  ConflictCap = 3
  ChainBudget = 1
  MayLackToken = FALSE
  RowKinds = {"update"}
  Faults = {"crash", "early_throw", "suspend"}
  Refusals = {}
  Choices = {}
  MaxClock = 2
  MaxFeed = 2
  MaxStray = 1
  Animes = {a}
  MaxCalls = 2
  Triggers = {"app_active", "ws_reconnected"}
  MayUnpair = TRUE
INVARIANTS
  OneCycle
  AnsweredAfterRead
  OnlineOverReadWork
  HealServed
  ContactOfThisPairing
PROPERTIES
  EveryCallerAnswered
  SyncingEnds
  NeverStuck
