\* One account, up to two concurrent error saves beside the ticker, and delays
\* short enough that they run out within a few ticks.
SPECIFICATION FairCoolSpec
CONSTANTS
    Accounts = {a1}
    Savers = {s1, s2}
    Ticker = ticker
    QuotaDelays = {2, 3}
    Hints = {0, 1}
    ThrottleBase = 1
    ThrottleMax = 3
    ErrorCooldown = 1
    MaxErrors = 3
    MaxFaults = 1
 
PROPERTY CooldownReachesDisk
