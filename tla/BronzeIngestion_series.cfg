SPECIFICATION Spec
CONSTANTS
    ecb = ecb
    cboe = cboe
    Series <- MCBoth
    FullFile <- MCCboe
    Lenient <- MCEcb
    LastDay = 1
    MonthLength = 1
    Revisions = 2
    Overlap = 1
    MaxAttempts = 1
    MaxRuns = 2
    MaxFaults = 2
INVARIANTS
    SuccessIsDurable
PROPERTIES
    SeriesIsolated
