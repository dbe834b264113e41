SPECIFICATION Spec
CONSTANTS
  Topics = {"bbo", "nbbo"}
  MaxQueued = 2
  MaxEnqueued = 4
  MaxAppends = 2
INVARIANTS TypeOK PartitionOrder NothingSkipped
PROPERTIES EventuallySent LatestNeverGoesBack
\* Once the process has exited nothing runs.
CHECK_DEADLOCK FALSE
