SPECIFICATION Spec
CONSTANTS
    Nodes = {n1, n2}
    Slots = {s1}
    MaxUpsets = 1
    Ranges = {hour, day}
    Configs = {low, high, wrong}
    Invalid = {wrong}
    Default = low
    MaxSaves = 2
    None = None
INVARIANTS
    TypeOK
    NodeTimerConfined
    ShownIsSelected
PROPERTIES
    StatusesSettle
    PollingNeverStuck
    ConfirmationSettles
CHECK_DEADLOCK FALSE
