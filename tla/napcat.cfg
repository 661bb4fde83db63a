CONSTANTS
    Users = {u1}
    Groups = {1, 2}
    Nobody = Nobody
    OutgoingCap = 1
    MaxMessages = 2
SPECIFICATION AppFairSpec
INVARIANTS AppTypeOK HandledInOrder EveryWayTriedOnce OrderlyShutdown
PROPERTIES AcceptedIsHandled ProcessEnds
\* The process ends.
CHECK_DEADLOCK FALSE
