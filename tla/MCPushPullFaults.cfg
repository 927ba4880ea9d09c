SPECIFICATION SyncSpec
CONSTANTS
    Clients = {c1, c2}
    Slots = {s1}
    None = None
    Kinds = {"attach", "sync", "detach", "remove"}
    Impatient = {}
    Faults = {"quota"}
    SnapshotThreshold = 2
    ForceCompaction = TRUE
    EditBeforeAttach = FALSE
    MaxSeq = 1
    MaxGens = 2
    MaxEpoch = 1
    MaxLog = 2
    Parts = {"sync", "recovery", "access"}
    Requests <- MCRequests
    Calls = {r}
    AccessSettings <- MCAccessSettings
    MaxTurns = 2
INVARIANTS  EpochsDoNotMix AckedIsStored SkippedIsStored RevocationReaches ClosedOnlyIfDenied
CHECK_DEADLOCK FALSE
