SPECIFICATION ReplicationSpec
CONSTANTS
  Server = {s1, s2, s3}
  Nil = Nil
  First = s1
  LiveBatch = 0
  SlowBatch = 0
  MaxInFlight = 1
  QueueLimit = 1
  Electable = {s2}
  MaxAttempts = 0
  MaxTerm = 2
  MaxLog = 1
  Flaky = {}
  MaxLate = 0
  Mortal = {}
  MaxRestarts = 0
INVARIANTS ConflictsAreReplaced
CHECK_DEADLOCK FALSE
