CONSTANTS
    A = 4
    F = 2
    DP = 2
    L = 1
    NumUbatches = 2
    CaptureDescs <- NoDescs
    EagerCounts = {2, 3}
    DboCounts = {4}
    LiveSplits = {1, 2}
    FFNGraphs = FALSE
    MaxServe = 1
SPECIFICATION Spec
CHECK_DEADLOCK FALSE
INVARIANT
    ChunksEqual
