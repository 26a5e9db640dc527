SPECIFICATION Spec
CONSTANTS
  Instances = {"a1", "a2", "a3"}
  HostOf <- OneHost
  NodeOf <- ThreeOfA
  Alone = {}
  Fragile = {}
  Hasty = {}
  Overlapping = TRUE
INVARIANT InstancesDiffer
CHECK_DEADLOCK FALSE
