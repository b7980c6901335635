SPECIFICATION Spec
CONSTANTS
    N = 2
    Specs <- Upgrades
    MaxGenerations = 2
    MaxFaults = 1
    Lagging = TRUE
PROPERTIES VersionNeverRegresses
