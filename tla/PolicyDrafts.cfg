SPECIFICATION FairSpec
CONSTANTS
    c1 = c1
    c2 = c2
    etc = etc
    home = home
    unset = unset
    user = user
    root = root
    NoPolicy = NoPolicy
    NoChunk = NoChunk
    Paths = {etc, home}
    NoIdent = unset
    SandboxIdent = user
    Idents = {unset, user, root}
    Handlers = {h1, h2}
    Chunks = {c1, c2}
    Submitted <- MCSubmitted
    EditedRules <- MCNone
    Flagged <- MCOneFlagged
    Baselines <- MCBaseline
    StoreErrors = FALSE
    Requested = {"set", "approve", "approve_all", "reject", "undo", "config"}
    MERGE_RETRY_LIMIT = 3
    MaxRequests = 3
    MaxClears = 0
INVARIANTS
    DecisionPersistedBeforeMark
    StaticFieldsHeld
PROPERTIES
    RetryMakesProgress
    HandlerReturns
CHECK_DEADLOCK FALSE
