SPECIFICATION FairSpec
CONSTANTS
    c1 = c1
    c2 = c2
    w1 = w1
    ControlPlane = {c1, c2}
    Workers = {w1}
    Clusters <- FixedOrGrowing
    Releases <- SharedOS
    AfterFailure = FALSE
    MaxFaults = 1
INVARIANTS TypeOK OneNodeAtATime
PROPERTIES PhasesHonest UpgradeOrder OneReleaseAtATime NodesConverge
