CONSTANTS
    Groups = 2
    TP = 2
    FFNs = 2
    Local = 2
    TopK = 2
    Cap = 4
    MaxTokens = 4
    Depth = 1
    ForwardLayers <- ThreeLayers
    LayerIds <- TargetAndDraft
    Batches = {3}
    Routings <- SpreadOnly
SPECIFICATION CamSpec
INVARIANT RowsExact
PROPERTIES WindowsReusedInTurn EveryDispatchAnswered
