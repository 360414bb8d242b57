SPECIFICATION Spec
CONSTANTS
    c1 = c1  c2 = c2  c3 = c3  et = et  main = main  u1 = u1
    None = None  Unread = Unread
    EventThread = et  Main = main  Writers = {et, main}
    Kinds = {"soft", "still", "moving", "new"}
    Moving = {"moving", "new"}  Calling = {"soft", "still"}  Early = FALSE
    Commands = {"remove", "insert", "replay"}  MaxCommands = 4
    MaxSeries = 3  Unreadable = {2}
    Cards = {c1, c2, c3}  Users = {u1}
CHECK_DEADLOCK FALSE
INVARIANTS
    
    SlotMirrorsToken
    
    LastEventTellsState
PROPERTIES
    ToldOnceInOrder
    
