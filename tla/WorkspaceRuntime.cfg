SPECIFICATION Spec
CONSTANTS
    Run = {r1, r2}
    None = none
    Workers = 2
    MaxPending = 2
    MaxFaults = 1
INVARIANTS
    TypeOK
    OutcomeReported
    ModelNotSwitchedInUse
PROPERTY RunsSettle
CHECK_DEADLOCK FALSE
