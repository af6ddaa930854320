SPECIFICATION FairSpec
CONSTANTS
    ecb = ecb
    cboe = cboe
    Series <- MCCboe
    FullFile <- MCCboe
    Lenient <- MCNone
    LastDay = 3
    MonthLength = 2
    Revisions = 1
    Overlap = 1
    MaxAttempts = 3
    MaxRuns = 1
    MaxFaults = 3
INVARIANTS
    NothingOutOfReach
    StateNotAhead
PROPERTIES
    HistoryRetained
    OfferedBecomesDurable
    BatchesEnd
