SPECIFICATION Spec
CONSTANTS
    Calls = {c1, c2}
    None = None
    Registered <- MCRegistered
    Unknown = {"dummy_unknown"}
    Policies = {"p1", "p2"}
    Values <- MCValues
    Names = {"box"}
    MaxSandbox = 1
    MaxRequests = 4
SYMMETRY MCSymmetry
INVARIANT EffectiveValueWasInForce
PROPERTIES NoLostUpdate SetPolicyInForce
CHECK_DEADLOCK FALSE
