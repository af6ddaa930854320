SPECIFICATION Spec
CONSTANTS
    cron = cron
    manual = manual
    t1 = t1
    t2 = t2
    Sessions <- MCTwo
    Timestamps <- MCTimes
    Values = {1}
    MaxBuilds = 3
    Releases <- MCThree
    Shape <- MCMixed
    Writers = {1}
    MaxFaults = 1
    MaxDrifts = 1
SYMMETRY MCSymmetry
INVARIANTS
    ReplicaIsOneBuild
PROPERTIES
    CheckpointIsExact
    DriftStopsCommits
    VersionNeverRegresses
