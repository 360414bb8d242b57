CONSTANTS
    Threads = {"main", "event"}
    Sizes = {1, 3}
    MaxMessages = 4
    Locked = TRUE
SPECIFICATION Spec
CHECK_DEADLOCK FALSE
INVARIANTS
    
    WatchHasBytes

    
