SPECIFICATION Spec
CONSTANTS
  MaxEdits = 2
  MaxWrites = 2
  MaxFails = 1
CHECK_DEADLOCK FALSE
PROPERTY RefetchKeepsEdits
