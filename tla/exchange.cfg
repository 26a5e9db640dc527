SPECIFICATION FairSpec
CONSTANTS
  Instances = {"a1", "a2", "b1"}
  NodeIds = {"a", "b"}
  NodeOf <- MCNodeOf
  Requests = {"q1", "q2"}
  Sender <- MCSender
  Queries = {"q2"}
  Skips <- MCSkips
  Options <- MCOptions
INVARIANTS
  OneAnswerPerNode
  AllAccountedFor
PROPERTIES
  SendReturns
  ImplementsGather
CHECK_DEADLOCK FALSE
