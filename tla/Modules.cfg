SPECIFICATION Spec
CONSTANTS
    Item = {1, 2}
    MaxUserSteps = 2
    MaxTasks = 2
    UserTasks = 1
    MaxChanges = 2
    RetryLimit = 1
    MaxRecords = 2
    MaxJobs = 3
    MaxRuns = 2
    MaxAnswers = 1
    MaxLost = 1
    MaxScans = 2
    MaxOdd = 1
    MaxReceipts = 3
    Entry = {1, 2, 3, 4, 5}
    Root = {1, 2}
    Parent <- MCParent
    Path <- MCPath
    Depth <- MCDepth
    MaxDepth = 1
    Excluded = {5}
    MaxTurns = 1
INVARIANTS
    TypeOK
    PlanHonest
    ChangesAccounted
    RecordsHonest
    ScansTracked
    VerdictHonest
    PanelsFollow
PROPERTY UserDecides
CHECK_DEADLOCK FALSE
