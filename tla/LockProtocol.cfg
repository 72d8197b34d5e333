SPECIFICATION FairSpec
CONSTANTS
    Inodes = {1, 2}
    NoInode = NoInode
    NoLockId = NoLockId
    Clients = {c1, c2, c3}
    MaxLockId = 4
    Stopping = {c3}
INVARIANTS
    TypeOK
    MutualExclusion
    LockIdsStayCurrent
    NoOrphanedWaiters
    WaitersAreQueuedOnce
    IsolatedUnderLock
PROPERTIES
    WaitersAreServed
CHECK_DEADLOCK FALSE
