\* The backlog count after the claim throws.
SPECIFICATION Spec
CONSTANTS
  a = a
  b = b
  Keys = {a}
  MaxRow = 2
  Runtimes = {"js", "native"}
  ClaimTtl = 2
  BatchLimit = 2
  ConflictCap = 3
  ChainBudget = 1
  MayLackToken = FALSE
  RowKinds = {"update"}
  Faults = {"early_throw"}
  Refusals = {}
  Choices = {}
  MaxClock = 2
  MaxFeed = 3
  MaxStray = 0
INVARIANTS
  NothingLeftClaimed
