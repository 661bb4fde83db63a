CONSTANTS
    Targets = {t1}
    NoTarget = NoTarget
    MaxAdds = 3
    MaxClock = 0
    MaxRewakeAttempts = 5
    MaxErrorRetries = 5
SPECIFICATION PerfectSpec
PROPERTY EveryItemServed
CHECK_DEADLOCK FALSE
