\* Each of what runs with bounds of its own. They are all capped, so a behaviour
\* may stop.
SPECIFICATION RuntimeSpec
CONSTANTS
  MaxAttempt = 2
  MaxService = 1
  MaxTick = 3
  Budget = 1
  LeaseTtl = 2
  MaxGeneration = 2
  MaxOutage = 2
  MaxLaunch = 2
  MaxSession = 2
  MaxSocket = 3
  MaxMissing = 1
  MaxInterrupt = 1
  Payloads = {"l1"}
  MaxPairing = 2
INVARIANTS
  RuntimeTypeOK
  AwakeWhileWorking
  HolderKeepsLease
  TriggersMatchPairing
  SomebodyTriggers
  EveryHistoryPrepares
  RatingsSurviveMove
PROPERTIES
  InFlightClears
  StartsOrExplains
  OnlyDamageIsDeleted
  ListensAgain
  OnlyAskedFor
CHECK_DEADLOCK FALSE
