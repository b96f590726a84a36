SPECIFICATION FairSpec
CONSTANTS
    Goals = {g1, g2, g3}
    NoGoal = NoGoal
    CountMod = 4
    WorkThreshold = 2
    IdleThreshold = 2
    MaxVerdicts = 8
CHECK_DEADLOCK FALSE
INVARIANTS
    TypeOK
    FinishIsExact
    CrashNeedsReplacement
    OneReportPerRun
PROPERTIES
    LossHasReason
    BarredGetsNothing
    FinishIsTold
