SPECIFICATION Spec
CONSTANTS
    Writer = {w1, w2, w3}
    Id = {a1, a2}
    Original = original
    Edited = edited
    Gone = gone
    MaxEdits = 0
    MayCancel = FALSE
CHECK_DEADLOCK FALSE
INVARIANTS
    TypeOK
    WritersSerialized
    RunningMatchesFile
PROPERTIES
    ImplementsCatalog
