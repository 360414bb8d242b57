SPECIFICATION Spec
CONSTANTS
    NumReaders = 1  Capacity = 1
    HostAnswers = {"ReaderAdd", "ReaderRemove", "CardRemove"}
    AddErrors = {"CANNOT_ADD_MORE_READERS"}
    MaxMoves = 1  MaxRequests = 0  Exits = FALSE
CHECK_DEADLOCK FALSE
INVARIANTS
    DeletedWereRefused
