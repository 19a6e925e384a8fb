CONSTANTS
    Layers = 2
    MaxRuns = 2
    MaxFaults = 2
SPECIFICATION HandoffSpec
CHECK_DEADLOCK FALSE
INVARIANT HandedOver
PROPERTIES FailureContained EveryoneEnds
