SPECIFICATION Spec
CONSTANTS
    Run = {r1, r2}
    Visitor = visitor
    Capacity = 1
    MaxConcurrency = 1
    MaxItems = 1
    MaxFaults = 1
INVARIANTS
    TypeOK
    OutcomeMatchesEffect
    PreparedWorkIsOwned
PROPERTIES
    ConsentKept
    WorkEnds
CHECK_DEADLOCK FALSE
