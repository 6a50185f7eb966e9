SPECIFICATION Spec
CONSTANTS
    MaxTasks = 2
    MaxTime = 2
    Lifetimes = {1, 2}
    WaitTimeout = 1
    h1 = h1
    h2 = h2
    Handlers = {h1, h2}
    NoHandler = NoHandler
SYMMETRY MCSymmetry
INVARIANTS
    TypeOK
    AtMostOnce
    ResultIsTrue
PROPERTIES
    ExecutedInOrder
    FinalStatusStable
    LostStaysLost
    DeliverySpec
