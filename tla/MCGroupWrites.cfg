SPECIFICATION Spec
CONSTANTS
    Inodes = {1}
    NoInode = NoInode
    NoLockId = NoLockId
    n1 = n1
    n2 = n2
    n3 = n3
    w1 = w1
    l1 = l1
    Nodes = {n2, n3}
    Writers = {w1, w2}
    Lockers = {l1, l2}
    Readers = {}
    Home <- MCHome
    Peer <- MCPeer
    Target <- MCTarget
    FirstSlot = 1
    MaxBatch = 2
INVARIANTS
    TypeOK
    ReplicasAgree
    LockIdsMatchEverywhere
    WritesLinearize
CHECK_DEADLOCK FALSE
