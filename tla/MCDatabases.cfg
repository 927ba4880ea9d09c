SPECIFICATION StorageSpec
CONSTANTS
  Parts = {"tables", "history", "events"}
  Areas = {"projects", "accounts", "clients", "documents", "history"}
  MaxCalls <- CallsOf
  SameVectorOnDetach = FALSE
INVARIANTS  HistoryKept WatchersInformed
CHECK_DEADLOCK FALSE
