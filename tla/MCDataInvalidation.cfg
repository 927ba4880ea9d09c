SPECIFICATION DataSpec
CONSTANTS
    Operations <- PushedOperations
    Resources <- PushedResources
    Prev = 1
    Next0 = 9
    Half = 8
    MaxRemovalEvents = 2
    MaxOps = 2
    Parts = {"fold"}
    BroadcastsFail = TRUE
INVARIANTS
    PresenceStoredAsHeld
CHECK_DEADLOCK FALSE
