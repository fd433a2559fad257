SPECIFICATION Spec
CONSTANTS
    c1 = c1
    c2 = c2
    etc = etc
    home = home
    unset = unset
    user = user
    root = root
    NoPolicy = NoPolicy
    NoChunk = NoChunk
    Paths = {etc, home}
    NoIdent = unset
    SandboxIdent = user
    Idents = {unset, user, root}
    Handlers = {h1, h2}
    Chunks = {c1}
    Submitted <- MCSubmitted
    EditedRules <- MCEmptyRule
    Flagged <- MCNone
    Baselines <- MCAnyBaseline
    StoreErrors = TRUE
    Requested = {"set", "approve", "reject", "undo", "config", "report"}
    MERGE_RETRY_LIMIT = 2
    MaxRequests = 4
    MaxClears = 1
SYMMETRY HandlerSymmetry
INVARIANTS
    TypeOK
    VersionsContiguous
    LatestNotSuperseded
    CurrentVersionSettled
PROPERTY RefinesPolicyLog
CHECK_DEADLOCK FALSE
