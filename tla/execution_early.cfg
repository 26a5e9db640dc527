SPECIFICATION Spec
CONSTANTS
  Workers = {"w1", "w2"}
  Executions = {"x1", "x2"}
  Caller = "caller"
  Targets <- MCTargets
  Waits <- MCWaits
  Concurrent = 1
  Broken = {}
INVARIANT FutureWaits
CHECK_DEADLOCK FALSE
