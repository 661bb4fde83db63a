CONSTANTS
    Targets <- ChatTargets
    NoTarget = NoTarget
    MaxAdds = 11
    MaxClock = 1
    Self = 10
    People = {1}
    Groups = {2}
    Events <- AllEvents
    Callers = {c1, c2}
    Requests <- AllRequests
SPECIFICATION MCSpec
SYMMETRY AnyOrderOfCallers
INVARIANTS IngressTypeOK FifoWithinIdLength AnswersNameTheirItem HealthReportWasTrue
PROPERTY QueuedIffAddressed
\* The adds and the clock are bounded.
CHECK_DEADLOCK FALSE
