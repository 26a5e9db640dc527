SPECIFICATION FairSpec
CONSTANTS
  Names <- MCNames
  Params <- MCParams
  Initial <- Chain
  Plan <- MCPlan
  Requires <- MidRequires
  Provides <- LeafProvides
  Incoming = {}
  Addable = {}
  Awaits = {FALSE}
  Parallel = 5
  MaxRuns = 2
PROPERTIES
  RunSettles
CHECK_DEADLOCK FALSE
