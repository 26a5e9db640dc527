SPECIFICATION FairSpec
CONSTANTS
  Storages = {"a", "b"}
  MaxEntries = 5
CHECK_DEADLOCK FALSE
INVARIANT NothingForgotten
PROPERTY FoundAtLast
