\* Documents against code: steers of a paused run.
SPECIFICATION Spec
CONSTANTS
    t1 = t1
    t2 = t2
    r1 = r1
    r2 = r2
    i1 = i1
    i2 = i2
    c1 = c1
    c2 = c2
    Tasks = {t1}
    Runs = {r1, r2}
    Inputs = {i1, i2}
    Clients = {c1}
    TaskOf <- OneTask
    MaxConcurrentRuns = 1
    CancelAllowed = TRUE
    Faults = FALSE
    SequenceConflicts = FALSE
    NoRun = NoRun
INVARIANTS
    PausedRunsKeepSteersPending
