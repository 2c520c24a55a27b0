SPECIFICATION Spec
CONSTANTS
    n1 = n1
    w = w
    Numbered = {n1}
    Raw = {w}
    MaxReconnects = 1
    MaxEvents = 1
    MaxFaults = 1
INVARIANTS
    TypeOK
    OpenStreamsAreComplete
    EndedReadersSawTheEnd
PROPERTIES
    EventsReachReaders
    RegistryEmpties
CHECK_DEADLOCK FALSE
