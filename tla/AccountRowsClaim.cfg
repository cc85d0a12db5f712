SPECIFICATION Spec
CONSTANTS
    Accounts = {a1}
    Requests = {r1, r2}
    Editors = {}
    Labels = {"old"}
    MaxFinals = 2
    MaxCred = 0
INVARIANT CountsMatchLog
CHECK_DEADLOCK FALSE
