SPECIFICATION ConversationSpec
CONSTANTS
    Run = {r1, r2, r3}
    None = none
    Workers = 2
    MaxPending = 3
    MaxFaults = 0
    Id = {r1, r2}
    Other = {x1, x2}
    Nothing = nothing
    Message <- MCMessage
    MaxOperations = 2
    MaxElsewhere = 1
    Phrases = 2
SYMMETRY ConversationSymmetry
CONSTRAINT MCTalk
INVARIANTS
    ConversationTypeOK
    ResumeFollowsQuestion
    PlanKeepsItsWord
    TurnsHonest
CHECK_DEADLOCK FALSE
