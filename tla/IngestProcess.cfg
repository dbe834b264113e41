SPECIFICATION Spec
CONSTANTS
  Ingesters = {"market", "depth"}
  Owner = {"depth"}
  Pollers = {"market"}
  Watched = {"market", "depth"}
  QUEUE_MAXSIZE = 1
  FLOAT_MAX_EXP = 1
  MaxFaults = 2
INVARIANT TypeOK
PROPERTIES GoodbyeStands ShutdownEnds AlwaysBack
\* A process that was stopped stays so, and so does one killed while it stops.
CHECK_DEADLOCK FALSE
