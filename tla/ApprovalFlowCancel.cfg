SPECIFICATION Spec
CONSTANTS
    Run = {r1}
    Visitor = visitor
    Capacity = 1
    MaxConcurrency = 1
    MaxItems = 1
    MaxFaults = 0
INVARIANT CancelEndsCancelled
CHECK_DEADLOCK FALSE
