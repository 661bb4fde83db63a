CONSTANTS
    Users = {u1}
    Groups = {1, 2}
    Nobody = Nobody
    OutgoingCap = 1
    MaxMessages = 1
SPECIFICATION AppSpec
INVARIANT EnqueueReturns
CHECK_DEADLOCK FALSE
