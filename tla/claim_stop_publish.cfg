SPECIFICATION Spec
CONSTANTS
    Goals = {g1, g2}
    NoGoal = NoGoal
    CountMod = 8
    WorkThreshold = 2
    IdleThreshold = 1
    MaxVerdicts = 6
CHECK_DEADLOCK FALSE
INVARIANTS
    StopStopsFeedback
