\* The native engine chains into a reconcile without looking at its claim again.
SPECIFICATION SpecQueued
CONSTANTS
  a = a
  b = b
  Keys = {a, b}
  MaxRow = 4
  Runtimes = {"js", "native"}
  ClaimTtl = 1
  BatchLimit = 2
  ConflictCap = 3
  ChainBudget = 1
  MayLackToken = FALSE
  RowKinds = {"update", "season_rating"}
  Faults = {}
  Refusals = {}
  Choices = {}
  MaxClock = 1
  MaxFeed = 3
  MaxStray = 0
PROPERTIES
  HolderSends
