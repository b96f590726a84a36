SPECIFICATION Spec
CONSTANTS
    Workers = {w1}
    MaxFrames = 5
    MaxTime = 14
    ClockSteps <- MCStepsAsBuilt
    MaxHistoryDuration = 2
    InvalidSegmentDuration = 3
    MsPerSecond = 2
    NsPerSecond = 1000
INVARIANTS
    HistoryWithinSeconds
