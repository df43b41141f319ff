SPECIFICATION Spec
CONSTANTS
    DAY = 2
    BUILD_YEAR = 2027
    MAX_GPS_STEP = 1
    MAX_TICKS = 4
    LAG = 1
    Starts <- MCStarts
    Oddities <- MCOddities
    Junk <- MCJunk
INVARIANTS
    EveryTickCounts
    TruthIsTold
PROPERTY NoLargeCorrection
