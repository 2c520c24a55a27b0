\* Two tasks compete for one slot; two API threads pause and cancel; no inputs.
SPECIFICATION Spec
SYMMETRY Symmetry
CONSTANTS
    t1 = t1
    t2 = t2
    r1 = r1
    r2 = r2
    i1 = i1
    i2 = i2
    c1 = c1
    c2 = c2
    Tasks = {t1, t2}
    Runs = {r1, r2}
    Inputs = {}
    Clients = {c1, c2}
    TaskOf <- TwoTasks
    MaxConcurrentRuns = 1
    CancelAllowed = TRUE
    Faults = FALSE
    SequenceConflicts = FALSE
    NoRun = NoRun
INVARIANTS
    TypeOK
    WorkingRunsHoldSlots
    SlotsAreWorked
    QueuedRunsAreEnqueued
    NextTurnStartsClean
PROPERTIES
    LifecycleSpec
