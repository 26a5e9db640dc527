SPECIFICATION FairSpec
CONSTANTS
  Names <- MCNames
  Params <- MCParams
  Initial <- Chain
  Plan <- MCPlan
  Requires <- NothingRequired
  Provides <- LeafProvides
  Incoming = {}
  Addable = {"mid"}
  Awaits = {FALSE}
  Parallel = 5
  MaxRuns = 4
PROPERTIES
  AppendedTasksRun
CHECK_DEADLOCK FALSE
