SPECIFICATION Spec
CONSTANTS
    Writer = {w1, w2}
    Id = {a1, a2}
    Original = original
    Edited = edited
    Gone = gone
    MaxEdits = 0
    MayCancel = TRUE
SYMMETRY WriterSymmetry
CHECK_DEADLOCK FALSE
INVARIANTS
    WritersSerialized
