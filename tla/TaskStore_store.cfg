SPECIFICATION Spec
CONSTANTS
    Tasks = {a, b, c}
    Existing = {a, b}
    Shown = {a}
    Long = {a}
    Runs = {1, 2}
    Subs = {1, 2, 3}
    MaxTexts = 1
    Sessions <- StoreSessions
    MaxJobs = 1
    MaxTries = 1
    None = None
INVARIANTS
    TypeOK
    ViewsShowTheirOwn
    HeldSubscriptionFeedsTheView
    ChattingViewsAreFed
    CallsReturn
PROPERTIES
    TaskOnShowIsTheUsers
    StoppedAnswerIsFrozen
    SettlementKeepsNewAnswers
CHECK_DEADLOCK FALSE
