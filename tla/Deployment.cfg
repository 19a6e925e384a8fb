CONSTANTS
    MaxRanks = 6
    MaxCount = 2
    Engines <- TwoEngines
    Requests <- TwoRequests
    Tokens = 2
    Deployments <- Launches
    Serving <- ServedPairs
    Stoppable <- StoppedPairs
SPECIFICATION DeploymentSpec
INVARIANTS ConfigSurvives LaunchNotUndone JoinedWorldFits WavesAgree
    SubgroupsFit AggregateMatchesWire
PROPERTIES RequestsFinish StopHeard
CHECK_DEADLOCK FALSE
