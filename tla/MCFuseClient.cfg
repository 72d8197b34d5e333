CONSTANTS
    None = None
    MAX_FILE_SIZE = 3
    Mounts = {m1, m2}
    Requests <- KernelRequests
    InitialFile <- FirstFile
    Names = {1, 2}
    MaxInodes = 5
    MaxCalls = 3
    MaxFailures = 1
SYMMETRY MountSymmetry
SPECIFICATION Spec
INVARIANTS TypeOK ListingIsComplete
PROPERTIES HandleKeepsItsRights 
CHECK_DEADLOCK FALSE
