SPECIFICATION StoredSpec
CONSTANTS
    Accounts = {a1}
    Requests = {r1, r2}
    Editors = {e1}
    Labels = {"old", "new"}
    MaxFinals = 2
    MaxCred = 1
    Keys = {"k1"}
    Calls = {r1, r2}
    Admins = {"m1"}
    TokenLimits = {0, 2}
    CreditLimits = {0}
    MaxTokens = 2
    MaxFaults = 1
    MaxCount = 3
INVARIANTS
    QuietCopiesFresh
    KeyUsageWithinLimit
PROPERTIES
    CredentialsMoveForward
    DeletedStaysDeleted
    
SYMMETRY RequestSymmetry
CHECK_DEADLOCK FALSE
