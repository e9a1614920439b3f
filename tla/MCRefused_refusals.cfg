\* A bridge that conflicts, refuses, rejects, forgets to name rows and loses animes, over
\* edits and season ratings chained behind each other, with a user who resolves what was
\* given up either way and tokens that have to be fetched first after it.
SPECIFICATION Spec
CONSTRAINT Bounded
CONSTANTS
  a = a
  b = b
  Keys = {a, b}
  MaxRow = 2
  Runtimes = {"js"}
  ClaimTtl = 2
  BatchLimit = 2
  ConflictCap = 2
  ChainBudget = 1
  MayLackToken = FALSE
  RowKinds = {"update", "season_rating"}
  Faults = {}
  Refusals = {"conflict", "unsupported", "silent", "reject", "gone"}
  Choices = {"keep_local", "keep_bridge"}
  MaxClock = 0
  MaxFeed = 2
  MaxStray = 0
INVARIANTS
  SyncedOnEvidence
  ConflictBudget
  NothingLeftClaimed
PROPERTIES
  ImplementsQueue
  NoCollateral
