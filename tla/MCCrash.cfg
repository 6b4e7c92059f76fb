SPECIFICATION CrashSpec
CONSTANTS
  Server = {s1, s2, s3}
  Nil = Nil
  First = s1
  LiveBatch = 0
  SlowBatch = 0
  MaxInFlight = 1
  QueueLimit = 1
  Electable = {s1, s2}
  MaxAttempts = 0
  MaxTerm = 1
  MaxLog = 0
  Flaky = {}
  MaxLate = 0
  Mortal = {s1, s2, s3}
  MaxRestarts = 1
INVARIANT ElectionSafety
CHECK_DEADLOCK FALSE
SYMMETRY Symmetry
