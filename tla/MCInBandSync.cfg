SPECIFICATION Spec
CONSTANTS
  Level <- MCLevel
  Depth = 1
  CRC_LEVELS = 1
  MaxFrames = 2
  MaxFaults = 1
  MaxPeriodic = 1
INVARIANTS TypeOK BookIsTheVenues  FoldsAgree
PROPERTIES EventuallyLive
\* The venue may have nothing more to say.
CHECK_DEADLOCK FALSE
