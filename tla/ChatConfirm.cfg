SPECIFICATION Spec
CONSTANTS
    Turn = {t1, t2, t3}
    Conv = {c1}
    Caller = {u1, anyone}
    NoUser = anyone
    Texts = {"yes", "no", "delete", "modify"}
    Entry = {e1, e2}
    NoTurn = NoTurn
    NoHold = NoHold
    TTL = 0
    MaxTime = 1
    InternalMayRun = FALSE
SYMMETRY TurnSymmetry
CONSTRAINT Scope
CHECK_DEADLOCK FALSE
INVARIANTS
    TypeOK
    AtMostOnce
    OnlyAConfirmedHoldRuns
PROPERTIES
    OthersHoldsUntouched
    ImplementsLife
