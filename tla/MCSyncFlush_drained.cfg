\* The native engine holds the only waiting row while JS runs a cycle.
SPECIFICATION FlushSpec
CONSTANTS
  a = a
  b = b
  Animes = {a, b}
  MaxCalls = 2
  Triggers = {"manual"}
  MayUnpair = FALSE
INVARIANTS
  OnlineMeansDrained
