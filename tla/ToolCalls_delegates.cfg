SPECIFICATION Spec
CONSTANTS
    t1 = t1
    t2 = t2
    child = child
    None = None
    Turns <- MCTurns
    Calls <- MCCalls
    Files = {1}
    Workspace = 2
    Keys = {1, 2}
    Plans <- WorkingChild
    MaxParallel = 2
PROPERTIES
    TurnsEnd
CHECK_DEADLOCK FALSE
