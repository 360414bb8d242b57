SPECIFICATION Spec
CONSTANTS
    e1 = e1  e2 = e2  e3 = e3  e4 = e4  e5 = e5
    Entries = {e1, e2, e3, e4, e5}
    None = None
    Ends = FALSE
INVARIANTS
    WalkIsList
CHECK_DEADLOCK FALSE
