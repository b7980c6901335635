SPECIFICATION FairSpec
CONSTANTS
    storage = storage
    ingress = ingress
    monitoring = monitoring
    Charts <- Two
    Order <- TwoOrder
    DependsOn <- TwoDependsOn
    Contents <- MCContents
    Targets <- TwoTargets
    Preinstalled <- TwoPreinstalled
    MayFail = {}
    Numeric <- Numbers
    Modes = {TRUE}
    Prompt = TRUE
    MaxFaults = 0
PROPERTIES PhaseEnds
