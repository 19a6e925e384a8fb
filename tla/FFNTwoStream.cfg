SPECIFICATION FairSpec
CONSTANTS
  Layers = 3
  Warmups = 3
  MaxTransactions = 9
INVARIANTS SlotSafe BatchSafe
PROPERTY BatchCompletes
CHECK_DEADLOCK FALSE
