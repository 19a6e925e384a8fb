CONSTANTS
    A = 4
    F = 2
    DP = 4
    L = 2
    NumUbatches = 2
    CaptureDescs <- Descs
    EagerCounts = {1, 2}
    DboCounts = {3, 4}
    LiveSplits = {}
    FFNGraphs = TRUE
    MaxServe = 1
SPECIFICATION Spec
CHECK_DEADLOCK FALSE
INVARIANTS
    PeersAgree
PROPERTIES
    StepsEnd
