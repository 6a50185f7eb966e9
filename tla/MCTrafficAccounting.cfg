SPECIFICATION FairSpec
CONSTANTS
    s1 = s1
    s2 = s2
    hb1 = hb1
    Syncs = {s1, s2}
    Heartbeats = {hb1}
    GB = 2
    Quota = 3
    MaxTraffic = 3
    MaxFailures = 1
INVARIANTS
    TypeOK
    Conservation
    SuspendedAfterHalf
PROPERTIES
    QuotaEnforced
