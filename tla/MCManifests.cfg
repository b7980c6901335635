SPECIFICATION Spec
CONSTANTS
    Registries = {"old", "new"}
    Versions = {1, 2, 3}
    Home <- MCHome
    Moving = FALSE
    MaxEdits = 3
    MaxFaults = 2
INVARIANTS TypeOK ManifestOfRelease
PROPERTIES NothingForgotten
