SPECIFICATION Spec
CONSTANTS
    storage = storage
    ingress = ingress
    monitoring = monitoring
    Charts <- Two
    Order <- TwoOrder
    DependsOn <- TwoDependsOn
    Contents <- MCContents
    Targets <- TwoTargets
    Preinstalled <- TwoPreinstalled
    MayFail = {}
    Numeric <- Numbers
    Modes = {FALSE}
    Prompt = FALSE
    MaxFaults = 0
INVARIANTS PhaseHonest
