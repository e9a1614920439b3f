\* Both runtimes on one anime: claims expire under a request or under the fetch
\* of a token both of them miss, and a cycle dies or throws with rows claimed.
SPECIFICATION Spec
CONSTANTS
  a = a
  b = b
  Keys = {a}
  MaxRow = 2
  Runtimes = {"js", "native"}
  ClaimTtl = 2
  BatchLimit = 2
  ConflictCap = 3
  ChainBudget = 1
  MayLackToken = TRUE
  RowKinds = {"update"}
  Faults = {"crash", "early_throw"}
  Refusals = {"gone"}
  Choices = {}
  MaxClock = 2
  MaxFeed = 2
  MaxStray = 1
INVARIANTS
  TypeOK
  OldestFirst
  InOrder
  NoStaleOverwrite
PROPERTIES
  HolderSends
  TokenForwardOnly
