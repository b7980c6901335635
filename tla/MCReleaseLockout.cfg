SPECIFICATION FairSpec
CONSTANTS
    N = 1
    Specs <- Silent
    MaxGenerations = 1
    MaxFaults = 0
    Lagging = FALSE
PROPERTIES NeverLockedOut
