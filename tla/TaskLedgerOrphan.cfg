SPECIFICATION Spec
CONSTANTS
    Task = {t1}
    Totals <- MCTotals
    MaxItems = 1
    MaxReferences = 1
INVARIANT AbandonedWorkSettled
