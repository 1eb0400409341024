SPECIFICATION Spec
CONSTANTS
    Turn = {t1, t2, t3}
    Conv = {c1}
    Caller = {u1}
    NoUser = anyone
    Texts = {"modify", "yes"}
    Entry = {e1}
    NoTurn = NoTurn
    NoHold = NoHold
    TTL = 0
    MaxTime = 1
    InternalMayRun = FALSE
SYMMETRY TurnSymmetry
CHECK_DEADLOCK FALSE
INVARIANT DroppedMemoryIsSaid
