SPECIFICATION FairSpec
CONSTANTS
    MaxCreates = 2
    MaxHandlers = 2
    NoRow = NoRow
    NoCR = NoCR
    StreamCap = 1
    KubeErrors = TRUE
    WatchGaps = TRUE
    SweepPage = 1
    MaxOlder = 1
    MaxInputs = 4
    Specs <- MCSpecs
    DefaultImage = "base"
    PullPolicy = ""
    SshListenAddr = "addr"
    ClientTlsSecret = "secret"
    HostGatewayIp = "ip"
    GpuClass = TRUE
    GpuNodes = {"", "0"}
    KnownProviders = {"p"}
    MaxProviders = 2
    MaxEntries = 2
INVARIANTS
    PlaceholderOnlyAfterRemoval
    PodRunsItsSandbox
PROPERTIES
    ProvisioningOrphansCleaned
    StreamCatchesUp
CHECK_DEADLOCK FALSE
