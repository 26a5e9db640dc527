SPECIFICATION Spec
CONSTANTS
  InitLength = 11
  MaxNodes = 12
  Users <- Mover
INVARIANT InsertKeepsRows
CHECK_DEADLOCK FALSE
