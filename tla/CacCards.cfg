CONSTANTS
    t1 = t1
    t2 = t2
    Threads = {t1}
    CertLists <- MCTwoEach
    KeyBits = 2048
    MaxCards = 3
SPECIFICATION Spec
CHECK_DEADLOCK FALSE
INVARIANTS
    FilesDecode
    
    CccListsCard
    AccessTablesMatch
