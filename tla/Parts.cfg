SPECIFICATION PartsSpec
CONSTANTS
    Run = {r1, r2}
    NoRun = NoRun
    Wiring = {w1, w2}
    MaxPipelines = 2
    Home = {e1, e2}
    NoHome = NoHome
    MaxCards = 5
    MaxAttempts = 2
    Slug = {s1, s2}
    NoSlug = NoSlug
    Flow = {f1, f2}
    MaxToken = 2
    MaxDeltas = 3
    MaxDelta = 2
    MaxReset = 2
CHECK_DEADLOCK FALSE
CONSTRAINT FirstComesFirst
INVARIANTS
    PartsTypeOK
    OneVoice
    OneCard
    OneEntryPerApp
    EntryFollowsTheApp
    ShowsWhatWasSent
    ToldOnce
PROPERTIES
    FailureLeavesPrompts
    EveryRunEnds
    NoticesSettle
