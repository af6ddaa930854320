SPECIFICATION FairSpec
CONSTANTS
    MaxBuilds = 3
    Versions <- MCVersions
    Retain = 1
    MaxFaults = 3
INVARIANTS
    TypeOK
    SelectableIntact
    ViewsNeverDangle
    ViewsRepairedFirst
    RetentionHonoured
PROPERTIES
    CommitIsFinal
    OnlyPromotionMovesCurrent
    ImplementsStore
    AttemptsResolved
    ViewsConverge
