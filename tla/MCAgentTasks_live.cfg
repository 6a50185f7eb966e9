SPECIFICATION FairSpec
CONSTANTS
    MaxTasks = 2
    MaxTime = 0
    Lifetimes = {0}
    WaitTimeout = 1
    h1 = h1
    h2 = h2
    Handlers = {h1, h2}
    NoHandler = NoHandler
PROPERTIES
    QueueDrains
