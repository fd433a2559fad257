SPECIFICATION Spec
CONSTANTS
    Conns = {c1, c2}
    Targets <- MCTargets
    Procs <- MCProcs
    Entrypoint = 2
    Writable <- MCWritable
    Sockets = {"s1"}
    Policies <- MCPolicies
    Dns <- MCDns
    RulesPackage = "clustershell.sandbox"
    HasTls = TRUE
    MaxCerts = 1
    Methods <- MCMethods
    Paths <- MCPaths
    Statuses = {200, 204}
    Framings <- MCFramings
    MaxFileVersion = 2
    MaxReloads = 1
SYMMETRY MCSymmetry
INVARIANT ConnectsOnlyCheckedAddress
PROPERTY GoldenHashKept
CHECK_DEADLOCK FALSE
