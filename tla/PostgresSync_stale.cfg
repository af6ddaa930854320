SPECIFICATION Spec
CONSTANTS
    cron = cron
    manual = manual
    t1 = t1
    t2 = t2
    Sessions <- MCTwo
    Timestamps <- MCTimes
    Values = {1}
    MaxBuilds = 2
    Releases <- MCRelease
    Shape <- MCShape
    Writers = {1}
    MaxFaults = 0
    MaxDrifts = 0
PROPERTIES
    CheckpointAdvances
