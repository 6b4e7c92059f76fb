SPECIFICATION DBSpec
CONSTANTS
  Options <- Defaults
  Batches <- Deleting
  Custom = {}
  Reader = {}
  MaxSequence = 2
  MaxCrashes = 0
  MaxWaits = 0
CHECK_DEADLOCK FALSE
INVARIANT ReadsLatest
