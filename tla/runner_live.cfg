SPECIFICATION FairSpec
CONSTANTS
  Names <- MCNames
  Params <- MCParams
  Initial <- Chain
  Plan <- MCPlan
  Requires <- NothingRequired
  Provides <- NothingRequired
  Incoming = {}
  Addable = {"leaf"}
  Awaits = {TRUE}
  Parallel = 3
  MaxRuns = 4
INVARIANTS
  NoLostWakeup
  SomebodyToWaitFor
  EventTellsLists
PROPERTIES
  RunSettles
  AppendedTasksRun
CHECK_DEADLOCK FALSE
