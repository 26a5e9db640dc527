SPECIFICATION BindingsSpec
CONSTANTS
  Names <- MCNames
  Rank <- MCRank
  MaxBindings = 5
INVARIANTS
  PlansAreTrees
  OneRunPerPath
CHECK_DEADLOCK FALSE
