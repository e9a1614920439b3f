\* The native courier reaps an old row of a kind that only the JS flush routes.
SPECIFICATION DiagnosticsSpec
CONSTANTS
  MaxObservation = 2
  OutboxCap = 1
  FlushBatch = 2
  ParkedMaxAge = 1
INVARIANTS
  OnlyParkedRowsExpire
