SPECIFICATION FairSpec
CONSTANTS
  Instances = {"a1", "a2", "b1"}
  HostOf <- OneHost
  NodeOf <- RestartOfA
  Alone = {"a1"}
  Fragile = {"b1"}
  Hasty = {"a1"}
  Overlapping = FALSE
CHECK_DEADLOCK FALSE
INVARIANTS
  KnowEachOther
  NoGhosts
  TaskNodesFollow
PROPERTIES
  ComesToRest
  ImplementsMembership
