SPECIFICATION Spec
CONSTANTS
  InitLength = 3
  MaxNodes = 5
  Users <- Counter
INVARIANT AppendKeepsRows
CHECK_DEADLOCK FALSE
