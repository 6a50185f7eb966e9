SPECIFICATION FairSpec
CONSTANTS
    w1 = w1
    w2 = w2
    Writers = {w1, w2}
    MaxTasks = 5
    MaxLosses = 1
INVARIANTS
    TypeOK
    NoRollback
    RefreshHeals
    SettledDisconnected
PROPERTIES
    SuspensionTakesEffect
