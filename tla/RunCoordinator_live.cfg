\* Progress: two tasks, one slot, one API thread that only pauses.
SPECIFICATION FairSpec
CONSTANTS
    t1 = t1
    t2 = t2
    r1 = r1
    r2 = r2
    i1 = i1
    i2 = i2
    c1 = c1
    c2 = c2
    Tasks = {t1, t2}
    Runs = {r1, r2}
    Inputs = {}
    Clients = {c1}
    TaskOf <- TwoTasks
    MaxConcurrentRuns = 1
    CancelAllowed = FALSE
    Faults = FALSE
    SequenceConflicts = FALSE
    NoRun = NoRun
PROPERTIES
    PausesConverge
    QueuedRunsAreServed
