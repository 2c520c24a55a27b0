\* Two runs, one thread that flushes, two attempts; transactions may fail.
SPECIFICATION FairSpec
CONSTANTS
    r1 = r1
    r2 = r2
    c1 = c1
    Runs = {r1, r2}
    Callers = {c1}
    MaxAttempts = 2
    MaxEvents = 2
    Faults = TRUE
    NoRun = NoRun
INVARIANTS
    TypeOK
    FlushesSave
    WaitingEventsAreScheduled
PROPERTIES
    LogSpec
    FlushesReturn
    EventsSettle
