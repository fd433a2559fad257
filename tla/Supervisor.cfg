SPECIFICATION FairSpec
CONSTANTS
    c1 = c1  c2 = c2  k1 = k1  k2 = k2  x = x  y = y
    Setups <- MCSetups
    Channels = {c1, c2}
    Conns = {k1, k2}
    Entry = Entry  Daemon = Daemon  None = None  Lost = Lost
    Skew = 1
    MaxOut = 1
    Keys = {x, y}
    Private = {x}
    WellKnown = {x}
    Repeated = 2
    ChanCap = 2
    PushBatch = 2
    PushSlots = 1
    MaxBuffered = 3
    LineCap = 2
    TailCap = 3
    RecvCap = 2
    RpcIds = {1, 2}
INVARIANTS SessionFaithful AtMostOnce LinesReachStream
PROPERTY OrphansReaped
CHECK_DEADLOCK FALSE
