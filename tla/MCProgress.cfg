SPECIFICATION ProgressSpec
CONSTANTS
  Server = {s1, s2, s3}
  Nil = Nil
  First = s1
  LiveBatch = 0
  SlowBatch = 0
  MaxInFlight = 1
  QueueLimit = 1
  Electable = {}
  MaxAttempts = 0
  MaxTerm = 2
  MaxLog = 2
  Flaky = {}
  MaxLate = 0
  Mortal = {s2}
  MaxRestarts = 1
  Options <- LiveOptions
  Batches <- LiveBatches
  Custom = {}
  Reader = {r1}
  MaxSequence = 2
  MaxCrashes = 1
  MaxWaits = 1
  WriteAlignment = 2
  BytesThreshold = 2
  FlushTimeout = 2
  FileLengths = {0, 1, 2}
  MaxFile = 6
  TargetSegment = 1
  MaxSegment = 2
  Ordered = TRUE
  MaxIndex = 3
  DiscardedTo = {2}
  MaxReopens = 1
INVARIANTS FlushAdvances FlushHeeded  SegmentsBackLog
PROPERTIES EventuallyReplicated WaitReturns  Implements FlushReturns FlushHeard PartialBlockFlushed 
CHECK_DEADLOCK FALSE
