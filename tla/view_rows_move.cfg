SPECIFICATION Spec
CONSTANTS
  InitLength = 4
  MaxNodes = 4
  Users <- MoverAndRemover
INVARIANT MoveKeepsOne
CHECK_DEADLOCK FALSE
