SPECIFICATION FairSpec
CONSTANTS
    Grace = 2
    NoTime = NoTime
    Threshold = 2
    Supplementary = {usage}
    Status = status
INVARIANTS
    TypeOK
    RepairsFollowTheApp
    UnloadedIsQuiet
PROPERTIES
    NoFalseAlarm
    OutageIsReported
    RepairsGo
    BrokenIsRaised
