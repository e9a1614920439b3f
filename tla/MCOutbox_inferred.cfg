\* The answer does not name the only row, and the desktop app edited the same anime.
SPECIFICATION Spec
CONSTANTS
  a = a
  b = b
  Keys = {a}
  MaxRow = 2
  Runtimes = {"js"}
  ClaimTtl = 2
  BatchLimit = 2
  ConflictCap = 3
  ChainBudget = 1
  MayLackToken = FALSE
  RowKinds = {"update"}
  Faults = {}
  Refusals = {"silent"}
  Choices = {}
  MaxClock = 0
  MaxFeed = 2
  MaxStray = 0
INVARIANTS
  SyncedWasApplied
