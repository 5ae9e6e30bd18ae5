SPECIFICATION FairSpec
CONSTANTS
  MaxRetries = 2
  Window = 1
  MaxRestarts = 1
INVARIANTS
  LiveBacked
PROPERTIES
  TickEnds
  FallbackTakesOver
  DeadSourceShown
  RecoveredSourceHeals
