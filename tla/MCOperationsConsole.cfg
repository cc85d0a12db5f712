SPECIFICATION Spec
CONSTANTS
  MaxEdits = 2 MaxWrites = 2 MaxFails = 1
  MaxRows = 2 FilterFrom = 1 MaxSteps = 3
  MaxKeys = 2 MaxIds = 3 MaxCalls = 2 MaxOther = 1 MaxLost = 1 PageSize = 1
  TickTime = 3 Interval <- Periods KeepMax = 2 KeepDefault = 2 Keeps = {0, 1, 3}
  MaxNow = 16 MaxLate = 1 MaxSaves = 2
  Letters = {"a", "b"} MaxText = 2 MaxMoves = 3 MaxLog = 4 LogPage = 2
  Widths = {30, 42, 63, 64, 67, 68, 79, 80}
  ToastIds = {"update-available", "a"} MaxToasts = 3 MaxOps = 3
  Starts <- FirstAmounts Span = 150 Kilo = 64
CHECK_DEADLOCK FALSE
INVARIANTS StaleFormNoted  ScheduleKeepsItsWord RequestsShownRight 
PROPERTIES MappingRowsKeepTheirId PaletteReturnsFocus
