CONSTANTS
    PageSize = 3
    MaxFetch = 6
    DefaultCount = 2
    MaxCount = 3
    MaxMessages = 7
    MaxPerSecond = 2
    MaxRecalls = 1
    MaxClock = 4
SPECIFICATION Spec
INVARIANTS TypeOK WindowComplete FetchBounded PagesBounded
\* The call returns.
CHECK_DEADLOCK FALSE
