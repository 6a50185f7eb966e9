SPECIFICATION FairSpec
CONSTANTS
    Channels = {"heartbeat", "control", "metrics"}
    Grace = 3
    ScriptSurvives = {TRUE}
    MaxLosses = 0
    MaxCrashes = 0
PROPERTIES
    DeletedNodeStops
