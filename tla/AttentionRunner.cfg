CONSTANTS
    Ascend = TRUE
    KVConnector = TRUE
    UBatching = TRUE
    Descs <- MCDescs
    Threshold = 2
    MaxTokens = 7
    MaxCalls = 4
SPECIFICATION Spec
CHECK_DEADLOCK FALSE
INVARIANTS AnnouncedAsRun SidecarFits CleanBetweenCalls
PROPERTY CaptureAnnouncesAll
