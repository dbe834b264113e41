SPECIFICATION Spec
CONSTANTS
  Markets = {"spot", "futures"}
  Prices = {1, 2}
  QUEUE_MAXSIZE = 1
  MAX_BUFFER_DELTAS = 1
  MaxId = 3
  MaxEvent = 2
  MaxLag = 1
  MaxFaults = 1
  MaxPeriodic = 1
INVARIANTS TypeOK BookIsTheVenues SnapshotsAreTheVenues NoSilentGap
PROPERTY EventuallySettled
\* The venue falls silent and every bound is used up: the run may stop.
CHECK_DEADLOCK FALSE
