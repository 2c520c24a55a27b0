\* One task with two queued inputs, one API thread; the store may fail.
SPECIFICATION Spec
CONSTANTS
    t1 = t1
    t2 = t2
    r1 = r1
    r2 = r2
    i1 = i1
    i2 = i2
    c1 = c1
    c2 = c2
    Tasks = {t1}
    Runs = {r1, r2}
    Inputs = {i1, i2}
    Clients = {c1}
    TaskOf <- OneTask
    MaxConcurrentRuns = 1
    CancelAllowed = TRUE
    Faults = TRUE
    SequenceConflicts = FALSE
    NoRun = NoRun
INVARIANTS
    OneActiveRunPerTask
    OpenSteersBelongToActiveRuns
    NextTurnsFollowOn
PROPERTIES
    ClosedInputsStayClosed
