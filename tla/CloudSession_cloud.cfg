SPECIFICATION Spec
CONSTANTS
    c1 = c1
    c2 = c2
    c3 = c3
    Callers = {c1, c2, c3}
    MaxFaults = 1
INVARIANTS
    TypeOK
    SessionIsStored
    NoTokenIsUsedTwice
PROPERTIES
    OutagesKeepTheToken
    CallsReturn
CHECK_DEADLOCK FALSE
