SPECIFICATION Spec
CONSTANTS
  MaxSessions = 2
  MaxVer = 2
  MaxLost = 2
CHECK_DEADLOCK FALSE
PROPERTY ConsoleCatchesUp
