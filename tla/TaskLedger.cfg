SPECIFICATION Spec
CONSTANTS
    Task = {t1, t2}
    Totals <- MCTotals
    MaxItems = 2
    MaxReferences = 2
SYMMETRY MCSymmetry
INVARIANTS
    OutcomeHonest
    CheckpointDiscipline
    LiveWorkHasHolder
PROPERTIES
    TerminalIsFinal
    CancelNotForgotten
