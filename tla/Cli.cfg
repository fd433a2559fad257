SPECIFICATION Spec
CONSTANTS
    None = None
    u1 = u1
    u2 = u2
    g1 = g1
    g2 = g2
    g3 = g3
    n1 = n1
    n2 = n2
    Users = {u1, u2}
    Gateways = {g1, g2, g3}
    BootName = g1
    Cloud = {g3}
    Names = {n1, n2}
    PortSuffixes <- MCPortSuffixes
    Pids = {1, 2, 3}
    MaxSandboxes = 3
    MaxBundles = 3
    Setups <- MCSetups
INVARIANTS
    DeployedReachable
    FailedDeployCleaned
    EphemeralGone
CHECK_DEADLOCK FALSE
