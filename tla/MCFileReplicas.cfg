SPECIFICATION Spec
CONSTANTS
    BLOCK_SIZE = 2
    TotalNodes = 2
    MaxSize = 5
    Sizes = {1, 4}
    Ranges <- FewRanges
    MaxCommands = 2
    MaxLosses = 2
    NoFile = NoFile
    Nothing = Nothing
INVARIANTS
    TypeOK
    ReadsAreRegular
    FsckFindsLostData
    FsckRaisesNoFalseAlarm
CHECK_DEADLOCK FALSE
