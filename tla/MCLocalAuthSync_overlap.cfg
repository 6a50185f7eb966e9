SPECIFICATION Spec
CONSTANTS
    w1 = w1
    w2 = w2
    Writers = {w1, w2}
    MaxTasks = 4
    MaxLosses = 0
INVARIANTS
    SettledAgrees
