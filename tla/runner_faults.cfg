SPECIFICATION Spec
CONSTANTS
  Names <- MCNames
  Params <- MCParams
  Initial <- Diamond
  Plan <- MCPlan
  Requires <- MidRequires
  Provides <- LeafProvides
  Incoming = {}
  Addable = {"leaf", "mid"}
  Awaits = {TRUE, FALSE}
  Parallel = 2
  MaxRuns = 6
INVARIANTS
  RunnerInv
  NeedsDoneFirst
  NeverStuck
PROPERTIES
  FinishedMeansAllDone
  StoppedIsFinal
  ImplementsSchedule
CHECK_DEADLOCK FALSE
