SPECIFICATION FairSpec
CONSTANTS
    cron = cron
    manual = manual
    t1 = t1
    t2 = t2
    Sessions <- MCOne
    Timestamps <- MCTime
    Values = {1}
    MaxBuilds = 2
    Releases <- MCRelease
    Shape <- MCShape
    Writers = {1, 2}
    MaxFaults = 0
    MaxDrifts = 0
PROPERTIES
    ReplicaCatchesUp
