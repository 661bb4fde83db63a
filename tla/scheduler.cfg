CONSTANTS
    Schedules <- AllSchedules
    None = None
    FiresCap = 1
    MaxTasks = 2
    MaxClock = 2
SPECIFICATION FairSpec
INVARIANTS TypeOK NoDoubleFire NeverEarly OccurrencesCovered NothingLostOnTheWay
PROPERTIES CancelIsFinal DueIsDelivered ShutdownCompletes
