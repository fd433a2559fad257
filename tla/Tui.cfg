SPECIFICATION TuiSpec
CONSTANTS
    Nil = Nil
    TuiSetups <- MCSetups
    Kinds <- MCKinds
    ProviderTypes <- MCProviderTypes
    MaxTasks = 2
    MaxLines = 3
    MaxQueued = 1
    BottomPad = 3
INVARIANT LogIndexesInBounds
PROPERTIES CreatingReleased ApprovedWereOffered
CHECK_DEADLOCK FALSE
