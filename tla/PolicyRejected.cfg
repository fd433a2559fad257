SPECIFICATION Spec
CONSTANTS
    c1 = c1
    c2 = c2
    etc = etc
    home = home
    unset = unset
    user = user
    root = root
    NoPolicy = NoPolicy
    NoChunk = NoChunk
    Paths = {etc, home}
    NoIdent = unset
    SandboxIdent = user
    Idents = {unset, user, root}
    Handlers = {h1, h2}
    Chunks = {c1}
    Submitted <- MCNone
    EditedRules <- MCNone
    Flagged <- MCNone
    Baselines <- MCBaseline
    StoreErrors = FALSE
    Requested = {"approve", "reject", "config"}
    MERGE_RETRY_LIMIT = 2
    MaxRequests = 3
    MaxClears = 0
INVARIANT RejectedNotGranted
CHECK_DEADLOCK FALSE
