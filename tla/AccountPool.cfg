\* Three accounts, one of weight two and one of them metered; a model only some of them list.
SPECIFICATION Spec
CONSTANTS
    NoAccount = NoAccount
    Accounts = {a1, a2, a3}
    Order <- SomeOrder
    Weight <- HeavyFirst
    Models = {m1, m2}
    ModelLists = {{}, {m2}}
    Metered = {a2}
    MaxWriters = 2
INVARIANT RotationRight
