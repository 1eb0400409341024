SPECIFICATION FairSpec
CONSTANTS
    Writer = {w1, w2}
    Id = {a1, a2}
    Original = original
    Edited = edited
    Gone = gone
    MaxEdits = 1
    MayCancel = TRUE
CHECK_DEADLOCK FALSE
INVARIANTS
    FailureLeavesNothing
PROPERTIES
    EveryRequestEnds
