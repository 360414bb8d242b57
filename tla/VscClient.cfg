SPECIFICATION Spec
CONSTANTS
    NumReaders = 2  Capacity = 1
    HostAnswers = {"ReaderAdd", "CardRemove"}
    AddErrors = {"CANNOT_ADD_MORE_READERS"}
    MaxMoves = 1  MaxRequests = 2  Exits = TRUE
CHECK_DEADLOCK FALSE
INVARIANTS
    HostSeesCards
    Framed
    AnswersInOrder
    
    
PROPERTIES
    
    WaitsEnd
