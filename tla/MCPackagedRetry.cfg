SPECIFICATION Spec
CONSTANTS
    n1 = n1
    n2 = n2
    cni = cni
    dns = dns
    ControlNode = n1
    WorkerNode = n2
    Charts = {cni, dns}
    Versions <- K8sVersions
    Content <- ChartContent
    Releases <- Replacing
    AfterFailure = TRUE
    Together = TRUE
    Reconfigured = {}
    MaxReruns = 0
    MaxFaults = 1
PROPERTIES ComponentsHonest
