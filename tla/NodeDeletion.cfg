SPECIFICATION FairSpec
CONSTANTS
    Channels = {"heartbeat", "control", "metrics"}
    Grace = 3
    ScriptSurvives = {TRUE, FALSE}
    MaxLosses = 2
    MaxCrashes = 2
INVARIANTS
    TypeOK
    LiveNodeUntouched
    UninstalledServesNobody
PROPERTIES
    LoopTakesNodeDown
    DeletedServesNobody
