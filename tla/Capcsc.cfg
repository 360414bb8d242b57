CONSTANTS
    a = a
    b = b
    Names = {a, b}
    MaxReaders = 4
    MaxMoves = 3
    MaxPlugs = 2
    MaxFailures = 0
    Gentle = TRUE
SPECIFICATION Spec
CHECK_DEADLOCK FALSE
INVARIANTS
    RecordsNameReaders
    CardReady
    ApduReachesReader
PROPERTIES
    CardsTold
    ReadersTold
