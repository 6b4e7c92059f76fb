SPECIFICATION LeaderSpec
CONSTANTS
  Server = {s1, s2}
  Nil = Nil
  First = s1
  LiveBatch = 0
  SlowBatch = 0
  MaxInFlight = 1
  QueueLimit = 1
  Electable = {s1, s2}
  MaxAttempts = 1
  MaxTerm = 2
  MaxLog = 0
  Flaky = {}
  MaxLate = 0
  Mortal = {s1, s2}
  MaxRestarts = 2
  Member = {n1, n2, n3}
  Chief = n1
  MaxElections = 2
  MaxEntries = 1
  MaxRounds = 3
INVARIANTS
  TypeOK ElectionSafety VoteOnce NoPanic
  LinearizableRead
SYMMETRY Alike
CHECK_DEADLOCK FALSE
