CONSTANTS
    t1 = t1
    t2 = t2
    t3 = t3
    a = a
    b = b
    o1 = o1
    o2 = o2
    o3 = o3
    None = None
    Threads = {t1, t2, t3}
    Names = {a, b}
    Objects = {o1, o2, o3}
    Modes = {"Lock", "RLock", "TryLock"}
    MaxWaiters = 4
SPECIFICATION FairSpec
INVARIANTS MutualExclusion EntryOutlivesCallers
PROPERTIES CallersServed
