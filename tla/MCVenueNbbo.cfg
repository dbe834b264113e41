SPECIFICATION NbboFairSpec
CONSTANTS
  Venues = {1, 2}
  Legs <- MCLegs
  Partitions = {1, 2}
  VenueOf <- MCVenueOf
  LIVENESS_TIMEOUT = 0
  Times = {0, 1}
  MaxBacklog = 1
  StragglerFrom = 1
  Undecodable <- MCUndecodable
INVARIANTS NbboTypeOK DownIsWhatTheLogSays PublishedIsTheBest
PROPERTIES OnlyRebuiltBooksSpeak GateOpens
CHECK_DEADLOCK FALSE
