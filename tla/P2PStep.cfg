CONSTANTS
    A = 3
    F = 2
    DP = 3
    L = 2
    CaptureDescs <- DboDescs
    EagerCounts = {1, 2}
    DboCounts = {4}
    FFNGraphs = TRUE
    SendsIds = TRUE
    Buffer = 1
    MaxServe = 1
SPECIFICATION Spec
CHECK_DEADLOCK FALSE
INVARIANTS
    PeersAgree
    OwnOutput
PROPERTIES
    BuffersKept
    StepsEnd
