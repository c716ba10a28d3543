SPECIFICATION Spec
CONSTANTS
    Run = {r1, r2, r3}
    None = none
    Workers = 2
    MaxPending = 3
    MaxFaults = 0
SYMMETRY MCSymmetry
CONSTRAINT MCTalk
INVARIANT ResumedCopyUnchanged
CHECK_DEADLOCK FALSE
