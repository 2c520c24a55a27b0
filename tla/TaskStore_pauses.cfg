SPECIFICATION LiveSpec
CONSTANTS
    Tasks = {a, b, c}
    Existing = {a, b}
    Shown = {a}
    Long = {b}
    Runs = {1, 2}
    Subs = {1, 2, 3}
    MaxTexts = 1
    Sessions <- StopOnce
    MaxJobs = 1
    MaxTries = 1
    None = None
PROPERTIES
    PausesEnd
CHECK_DEADLOCK FALSE
