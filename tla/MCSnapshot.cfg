SPECIFICATION SnapshotSpec
CONSTANTS
  MaxLog = 2
  MaxTerm = 1
  MaxRestarts = 1
INVARIANT RestartSafe
CHECK_DEADLOCK FALSE
