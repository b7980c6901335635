SPECIFICATION Spec
CONSTANTS
    c1 = c1
    c2 = c2
    w1 = w1
    ControlPlane = {c1}
    Workers = {}
    Clusters <- OnlyOne
    Releases <- BothNew
    AfterFailure = TRUE
    MaxFaults = 1
PROPERTIES OneReleaseAtATime
