SPECIFICATION Spec
CONSTANTS
    a = a
    b = b
    p1 = p1
    p2 = p2
    p3 = p3
    Names = {a, b}
    Procs = {p1, p2}
    Inodes = {1, 2, 3, 4, 5, 6, 7, 8, 9, 10}
    NumGroups = 2
    NoInode = NoInode
    NoAttrs = NoAttrs
    NoLockId = NoLockId
    Workloads <- RemovedWhileUsed
SYMMETRY ProcSymmetry
INVARIANTS DeletedDirectoriesAreEmpty
CHECK_DEADLOCK FALSE
