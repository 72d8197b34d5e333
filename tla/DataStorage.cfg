SPECIFICATION Spec
CONSTANTS
    BLOCK_SIZE = 2
    ReplicaCounts = {1, 2, 3}
    Bytes = {0, 1}
    MaxSize = 8
INVARIANTS TypeOK ReadsWhatWasWritten LocalSizesMatch IndicesRoundTrip
