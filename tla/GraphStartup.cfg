SPECIFICATION WorldsSpec
CONSTANTS
  AttnSize = 1
  FFNSize = 2
  Plans <- AllPlans
  Transports = {"v", "w"}
  Fragile = {1, 2}
INVARIANTS AgreedBeforeGroup ServesOnlyReadyWorld
PROPERTIES FailureStopsLatecomers StartupEnds
