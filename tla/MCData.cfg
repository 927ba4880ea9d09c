SPECIFICATION DataSpec
CONSTANTS
    Operations <- PushedOperations
    Resources <- PushedResources
    Prev = 1
    Next0 = 9
    Half = 8
    MaxRemovalEvents = 2
    MaxOps = 2
    Parts = {"conversion", "splay", "list", "map", "trie", "counter", "presence", "fold"}
    BroadcastsFail = FALSE
INVARIANTS
    
    PresenceTold
    PresenceStoredAsHeld
CHECK_DEADLOCK FALSE
