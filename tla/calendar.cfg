CONSTANTS
    Requests <- AllRequests
    Starts <- NoonOrSo
    Delays <- OnTimeOrLate
    FirstDay = 19711
    LastDay = 19790
    DurationRange = 307445734
    MaxFires = 2
SPECIFICATION Spec
INVARIANTS NextIsFirst RepeatsForEver DelayAsAsked
\* A refused schedule and a task that is gone stay so; the firings are bounded.
CHECK_DEADLOCK FALSE
