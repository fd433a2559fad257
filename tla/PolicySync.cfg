SPECIFICATION FairSpec
CONSTANTS
    none = none
    web = web
    bad = bad
    NoPolicy = NoPolicy
    Nets = {none, web, bad}
    EmptyNet = none
    BadNets = {bad}
    Settings = {"debug", "info"}
    SpecPolicies <- MCSpecPolicies
    DiskPolicy <- WebPolicy
    SubmittedNets = {none, web, bad}
    LossyReports = TRUE
    MaxChanges = 2
    MaxRestarts = 1
INVARIANTS
    StatusTruthful
    TrackedIsEnforced
PROPERTY ConvergesWhenInSync
CHECK_DEADLOCK FALSE
