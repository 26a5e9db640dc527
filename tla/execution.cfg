SPECIFICATION FairSpec
CONSTANTS
  Workers = {"w1", "w2"}
  Executions = {"x1", "x2"}
  Caller = "caller"
  Targets <- MCTargets
  Waits <- MCWaits
  Concurrent = 1
  Broken = {"w2"}
INVARIANTS
  ResultsAreIn
  AnswerIsTrue
PROPERTIES
  CallReturns
CHECK_DEADLOCK FALSE
