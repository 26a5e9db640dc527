SPECIFICATION Spec
CONSTANTS
  Nodes = {"here", "w"}
  Here = "here"
  Runs = {"r1"}
  Targets <- Everywhere
  MaxSteps = 1
  MaxStarts = 2
  MaxWrites = 2
CHECK_DEADLOCK FALSE
INVARIANTS
  NoPhantoms
  CountsAgree
PROPERTY ImplementsListing
