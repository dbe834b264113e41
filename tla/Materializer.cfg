SPECIFICATION Spec
CONSTANTS
  TPs = {"a", "b"}
  Dates = {1, 2}
  FLUSH_RECORDS = 2
  MaxOffset = 3
  MaxBatch = 2
  MaxCrashes = 1
INVARIANTS TypeOK ExactlyOnce ChunksTile
PROPERTIES CommittedObjectsStay EventuallyArchived
