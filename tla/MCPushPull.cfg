SPECIFICATION SyncFairSpec
CONSTANTS
    Clients = {c1, c2}
    Slots = {s1, s2}
    None = None
    Kinds = {"attach", "sync"}
    Impatient = {c1}
    Faults = {}
    SnapshotThreshold = 100
    ForceCompaction = FALSE
    EditBeforeAttach = FALSE
    MaxSeq = 1
    MaxGens = 1
    MaxEpoch = 0
    MaxLog = 2
    Parts = {"sync"}
    Requests <- MCRequests
    Calls = {r}
    AccessSettings <- MCAccessSettings
    MaxTurns = 2
INVARIANTS StoredOnce
PROPERTY Converges ImplementsChangeLog
CHECK_DEADLOCK FALSE
