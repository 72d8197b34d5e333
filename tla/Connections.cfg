SPECIFICATION FairSpec
CONSTANTS
    Callers = {p1, p2}
    NoCaller = NoCaller
    NoAnswer = NoAnswer
    POOL_SIZE = 1
    MaxCalls = 2
    MaxConns = 3
    MaxBreaks = 1
INVARIANTS
    TypeOK
    IdleConnectionsAreQuiet
PROPERTIES
    ImplementsRpc
    ThreadsReturn
