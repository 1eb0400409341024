SPECIFICATION Spec
CONSTANTS
    Call = {k1, k2}
    User = {u1}
    NoUser = anyone
    Text = {a, b}
    Old = old
    MaxFacts = 1
    MaxGen = 1
SYMMETRY MemorySymmetry
CHECK_DEADLOCK FALSE
INVARIANTS
    TypeOK
    SetsBounded
    SaidIsKept
    ForgottenStaysGone
PROPERTIES
    OnlyOnesOwn
