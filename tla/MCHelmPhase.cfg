SPECIFICATION FairSpec
CONSTANTS
    storage = storage
    ingress = ingress
    monitoring = monitoring
    Charts <- MCCharts
    Order <- MCOrder
    DependsOn <- MCDependsOn
    Contents <- MCContents
    Targets <- MCTargets
    Preinstalled <- MCPreinstalled
    MayFail <- AllFail
    Numeric = {}
    Modes = {TRUE, FALSE}
    Prompt = TRUE
    MaxFaults = 1
INVARIANTS TypeOK PhaseHonest
PROPERTIES DependenciesFirst PhaseEnds
