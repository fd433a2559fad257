SPECIFICATION FairSpec
CONSTANTS
    Conns = {1, 2, 3}
    Tokens = {1, 2}
    Sandboxes = {s1, s2}
    NoSession = NoSession
    NoToken = NoToken
    NoSandbox = NoSandbox
    MAX_CONNECTIONS_PER_TOKEN = 1
    MAX_CONNECTIONS_PER_SANDBOX = 2
    LIST_LIMIT = 1
    Ttl = TRUE
    MaxInputs = 5
INVARIANTS
    SlotsAccounted
    TunnelLimits
    RevokedNotAdmitted
PROPERTIES
    StaleSessionsReaped
CHECK_DEADLOCK FALSE
