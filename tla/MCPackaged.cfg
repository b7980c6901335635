SPECIFICATION FairSpec
CONSTANTS
    n1 = n1
    n2 = n2
    cni = cni
    dns = dns
    ControlNode = n1
    WorkerNode = n2
    Charts = {cni, dns}
    Versions <- K8sVersions
    Content <- ChartContent
    Releases <- Upgrades
    AfterFailure = FALSE
    Together = TRUE
    Reconfigured = {dns}
    MaxReruns = 1
    MaxFaults = 2
INVARIANTS TypeOK
PROPERTIES ComponentsHonest SnapshotFirst WaitEnds
