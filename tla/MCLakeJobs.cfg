CONSTANTS
  MaxLegAge = 4
  ReorderWindow = 4
  Bar = 2
  MaxAge = 4
  MaxTapeAge = 6
  StalenessPercent = 50
  FlowWindows = {2}
  ReturnWindows = {1}
  Horizons = {1}
  ValPercent = 30
  MinTrain = 1
  TestSize = 1
  Step = 1
  Horizon = 1
  Primary = "BTC-USD"
  Dates <- MCDates
  Declared <- MCDeclared
  Bases <- MCBases
  DqBudget <- MCBudget
  Scenarios <- MCScenarios
SPECIFICATION Spec
CHECK_DEADLOCK FALSE
INVARIANTS SilverIsBronze GoldIsSilvers NothingFromTheFuture 
