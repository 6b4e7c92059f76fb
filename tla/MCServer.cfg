SPECIFICATION ServerSpec
CONSTANTS
  MaxLog = 2
  MaxTerm = 1
  MaxRestarts = 1
  Options <- MCOptions
  Batches <- MCBatches
  Custom = {1}
  Reader = {r1}
  MaxSequence = 4
  MaxCrashes = 1
  MaxWaits = 0
  Transactions <- MCTransactions
  ForeignWrites = {1}
  MaxLeaders = 3
  MaxChanges = 3
  Value = {"a", "b", "c", "d"}
  Size <- MCSizes
  Sector = 3
  MaxStops = 2
INVARIANTS
  RestartSafe PersistedIsStored AppliedOnce 
  KeptReads FilesHeld Reopens FreshNumbers EditsApply  NoLeak
   ReportedIsChosen  KnownConflictsRefused
CHECK_DEADLOCK FALSE
