SPECIFICATION Spec
CONSTANTS
  MaxLog = 2
  MaxTerm = 1
  MaxRestarts = 1
INVARIANT AppliedIsCommitted
CHECK_DEADLOCK FALSE
