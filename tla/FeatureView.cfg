SPECIFICATION Spec
CONSTANTS
    vix = vix
    us5y = us5y
    Series <- MCSeries
    Ohlc <- MCBars
    Extended <- MCScalar
    Ratio <- MCRatio
    Prices = {0, 1, 2}
    LastDay = 5
    Window = 2
    Far = 1
    Fast = 2
    Slow = 3
    Signal = 2
    Wilder = 2
    Start <- MCStart
    Touched = {2}
    MaxWrites = 2
INVARIANTS
    ResetByNull
PROPERTIES
    Causal
    SeriesIndependent
    AlarmsExplained

