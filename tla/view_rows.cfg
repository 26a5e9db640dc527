SPECIFICATION Spec
CONSTANTS
  InitLength = 3
  MaxNodes = 5
  Users <- MCUsers
PROPERTIES
  ImplementsRowList
  OthersStay
CHECK_DEADLOCK FALSE
