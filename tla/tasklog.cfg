SPECIFICATION FairSpec
CONSTANTS
  Workers = {"w"}
  Monitors = {"m"}
  Faulty = {"w", "m"}
  MaxProgress = 1
INVARIANTS
  OneRowPerTarget
  LogSaysStopped
PROPERTIES
  SavesEnd
CHECK_DEADLOCK FALSE
