SPECIFICATION ConsoleSpec
CONSTANTS MaxTokens = 3 MaxCalls = 2
  Pool <- Fleet Terms = {"w", "z"} PageSizes <- Sizes MaxNow = 2
  Acct = {"a", "b"} MaxOps = 2 MaxFaults = 1 MaxSess = 2 MaxTries = 3 MaxLines = 4
  Items <- Pasted MaxGen = 2 MaxIds = 2 MaxBatch = 2 MaxLost = 1
CHECK_DEADLOCK FALSE
INVARIANTS SessionKeepsNothing RowsReachableInOrder AccountListIsServer DialogsShowTheirOwn WizardKeepsItsLogins
PROPERTIES SessionEndsForCause
