SPECIFICATION Spec
CONSTANTS
    Turn = {t1, t2, t3}
    Conv = {c1}
    Caller = {u1}
    NoUser = anyone
    Texts = {"yes", "ask"}
    Entry = {e1}
    NoTurn = NoTurn
    NoHold = NoHold
    TTL = 0
    MaxTime = 1
    InternalMayRun = TRUE
SYMMETRY TurnSymmetry
CHECK_DEADLOCK FALSE
INVARIANT AtMostOnce
