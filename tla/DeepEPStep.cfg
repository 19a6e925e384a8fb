CONSTANTS
    None = None
    Attn = 1
    FFN = 1
    Lanes = 2
    Layers = 2
    Agreed <- Plan
    Counts <- CountSets
    Deployments <- AllDeployments
    Served <- ServedDeployments
    Blocks = {1, 2}
    MaxSteps = 2
SPECIFICATION ServeSpec
INVARIANTS OwnOutput RanksAgree
PROPERTIES StepsEnd
CHECK_DEADLOCK FALSE
