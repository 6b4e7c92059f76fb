SPECIFICATION ReplicationSpec
CONSTANTS
  Server = {s1, s2, s3}
  Nil = Nil
  First = s1
  LiveBatch = 0
  SlowBatch = 0
  MaxInFlight = 1
  QueueLimit = 1
  Electable = {}
  MaxAttempts = 0
  MaxTerm = 2
  MaxLog = 1
  Flaky = {s2}
  MaxLate = 1
  Mortal = {s1, s2, s3}
  MaxRestarts = 0
INVARIANT MatchIndexDurable
CHECK_DEADLOCK FALSE
