SPECIFICATION FairSpec
CONSTANTS
    vix = vix
    estr = estr
    Series <- MCOne
    LastDay = 3
    MonthLength = 2
    Revisions = 2
    MaxNews = 2
    MaxFaults = 2
INVARIANTS
    NothingBeyondBronze
PROPERTIES
    DailyPublishesBronze
    GoldCatchesUp
