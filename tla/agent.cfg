\* The loop against any model, any producers and a cancelled context.
CONSTANTS
    Targets = {t1}
    NoTarget = NoTarget
    MaxAdds = 3
    MaxClock = 1
    MaxRewakeAttempts = 2
    MaxErrorRetries = 2
SPECIFICATION FairSpec
INVARIANTS TypeOK RoundsBounded SourceIsPrompted
PROPERTIES ImplementsWorkQueue PendingIsPrompted ActivationEnds CancelStopsAgent
\* The loop ends when the context is cancelled.
CHECK_DEADLOCK FALSE
