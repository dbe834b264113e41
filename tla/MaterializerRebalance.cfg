SPECIFICATION RebalanceSpec
CONSTANTS
  TPs = {"a"}
  Dates = {1, 2}
  FLUSH_RECORDS = 2
  MaxOffset = 4
  MaxBatch = 4
  MaxCrashes = 0
  MaxRebalances = 1
INVARIANTS ExactlyOnce
