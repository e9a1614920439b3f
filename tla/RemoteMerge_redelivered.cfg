\* The smallest feed in which a JS answer is older than a deletion that the
\* native engine has drained. The feed is capped, so it may stop.
SPECIFICATION Spec
CONSTANTS
  Animes = {"a"}
  BridgeEdits = {"note", "unknown"}
  MaxFeed = 3
  MaxRow = 0
  MaxUnpair = 0
  MaxBusy = 2
PROPERTIES
  RedeliveryIsDropped
CHECK_DEADLOCK FALSE
