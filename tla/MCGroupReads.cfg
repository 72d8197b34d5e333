SPECIFICATION FairSpec
CONSTANTS
    Inodes = {1}
    NoInode = NoInode
    NoLockId = NoLockId
    n1 = n1
    n2 = n2
    n3 = n3
    w1 = w1
    l1 = l1
    Nodes = {n1, n2, n3}
    Writers = {w1}
    Lockers = {}
    Readers = {r1, r2}
    Home <- MCHome
    Peer <- MCPeer
    Target <- MCTarget
    FirstSlot = 1
    MaxBatch = 2
INVARIANTS
    BarrierIsFresh
    PeerReadIsFresh
    SyncQueueDrains
PROPERTIES
    EveryClientIsAnswered
CHECK_DEADLOCK FALSE
