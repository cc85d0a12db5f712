\* Two callers race for one account; one caller's context can be cancelled, the
\* other stands for the background sweep.
SPECIFICATION FairSpec
CONSTANTS
    Callers = {p1, p2}
    Cancellable = {p1}
    Accounts = {a1}
    Entries = {e1, e2}
    None = None
    MaxToken = 2
INVARIANTS
    NoReplay
    HerdRenewsOnce
    StoreRenewable
PROPERTIES
    TokensMoveForward
    ImplementsAccountMutex
    CallsReturn
CHECK_DEADLOCK FALSE
