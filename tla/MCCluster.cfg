SPECIFICATION ClusterSpec
CONSTANTS
    Parts = {"membership", "manager", "serving"}
    n1 = n1
    n2 = n2
    t1 = t1
    t2 = t2
    c1 = c1
    c2 = c2
    k1 = k1
    k2 = k2
    Nodes = {n1, n2}
    Stores = {"mongo", "memory"}
    LeaseDuration = 7
    RenewalInterval = 2
    TTL = 5
    MaxLag = 1
    Faults = {"stop", "crash", "error"}
    Nil = Nil
    Threads = {t1, t2}
    Clients = {c1, c2}
    Keys = {k1, k2}
    Addresses = {1, 2, 3, 4, 5}
    MaxSessions = 2
    Empty = Empty
    Callers = {c1}
    MaxWatches = 2
    MaxCalls = 3
INVARIANTS
    AtMostOneLeader
    
    ActiveCountExact
    
    
    
PROPERTIES
    
    CallsComplete
CHECK_DEADLOCK FALSE
