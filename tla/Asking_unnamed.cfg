SPECIFICATION Spec
CONSTANTS
    Call = {c1, c2, c3}
    NoCall = NoCall
    Entry = {e1, e2}
    NoEntry = NoEntry
    User = {u1}
    NoUser = nobody
    NoHold = NoHold
    NoTap = NoTap
    TTL = 0
    MaxTime = 1
    MaxGeneration = 2
SYMMETRY AskingSymmetry
CONSTRAINT Scope
CHECK_DEADLOCK FALSE
INVARIANT AppliedWhereProposed
