SPECIFICATION MetaSpec
CONSTANTS
  Transactions <- MCTransactions
  ForeignWrites = {1}
  MaxLeaders = 2
  MaxChanges = 3
INVARIANT Serializable
CHECK_DEADLOCK FALSE
