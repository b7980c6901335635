SPECIFICATION FairSpec
CONSTANTS
    N = 2
    Specs <- Submitted
    MaxGenerations = 2
    MaxFaults = 2
    Lagging = TRUE
INVARIANTS TypeOK AppliedHonest VersionHonest StageOrder
PROPERTIES EditsOnlyBetweenUpgrades VersionNeverLowered KeepsPromise RepairAllowed Converges
