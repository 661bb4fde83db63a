CONSTANTS
    Targets = {t1}
    NoTarget = NoTarget
    MaxAdds = 2
    MaxClock = 0
    MaxRewakeAttempts = 5
    MaxErrorRetries = 5
SPECIFICATION Spec
PROPERTY GiveUpDropsOnlyShown
CHECK_DEADLOCK FALSE
