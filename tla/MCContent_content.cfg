\* Each of what the app keeps with bounds of its own. They are all capped, so a
\* behaviour may stop.
SPECIFICATION ContentSpec
CONSTANTS
  Animes = {"a"}
  BridgeEdits = {"seen", "note"}
  MaxFeed = 3
  MaxRow = 1
  MaxUnpair = 1
  MaxBusy = 2
  MaxObservation = 2
  OutboxCap = 1
  FlushBatch = 2
  ParkedMaxAge = 1
  MaxPress = 2
  MaxRemote = 1
  TotalChapters = 2
  Gestures = {"plus", "minus"}
  CoverAnimes = {"a"}
  MaxVersion = 2
  MaxTask = 2
  MaxPass = 2
  MaxKill = 1
  MaxChange = 1
  FolderRoots = {"r"}
  MaxName = 2
  WalkDepth = 2
  MaxAppear = 3
  MaxWalk = 2
  MaxProjection = 4
  MaxRelease = 1
  MaxInstant = 1
INVARIANTS
  ContentTypeOK
  NothingLostBehindCursor
  OutageKeepsRows
  ScreenSettlesOnRow
  ProbesConverge
  RowOfThisRuntime
PROPERTIES
  UnackedEditUntouched
  CoverStays
  ProjectionsInOrder
CHECK_DEADLOCK FALSE
