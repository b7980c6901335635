SPECIFICATION ConfigSpec
CONSTANTS
    Names <- MCNames
    Configs <- MCConfigs
    ChartSpecs <- MCChartSpecs
    Keys <- MCKeys
    Documents <- MCDocuments
    Inputs <- MCInputs
    LCM = "lcm"
    CRDs = "crds"
INVARIANTS TypeOK DependenciesBefore CyclesDetected CoreFirst WholeOrder UserConfigApplied DrainAsDocumented UserValuesWin
PROPERTIES SortEnds
CHECK_DEADLOCK FALSE
