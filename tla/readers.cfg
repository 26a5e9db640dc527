SPECIFICATION FairSpec
CONSTANTS
  Settings <- SomeSettings
  Lanes = {1, 2, 3, 4, 5}
  FullRetries = 2
  Total = 4
  Fragile = TRUE
CHECK_DEADLOCK FALSE
INVARIANTS
  DeliveredOnce
  FinishedIsDone
PROPERTIES
  Finishes
  ImplementsStream
