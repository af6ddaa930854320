SPECIFICATION VerifierFairSpec
CONSTANTS
    cron = cron
    t1 = t1
    Sessions <- MCOne
    Timestamps <- MCTime
    Values = {1, 2}
    MaxBuilds = 2
    Releases <- MCReleases
    Shape <- MCReshaped
    Writers = {1}
    MaxFaults = 1
    MaxDrifts = 1
INVARIANTS
    PassIsExact
PROPERTIES
    ReplicaCatchesUp
    SettledPasses
    DriftNeverPasses
