SPECIFICATION Spec
CONSTANTS
    Workers = {w1, w2}
    MaxFrames = 4
    MaxTime = 8
    ClockSteps <- MCSteps
    MaxHistoryDuration = 4
    InvalidSegmentDuration = 2
    MsPerSecond = 1
    NsPerSecond = 1
SYMMETRY WorkerSymmetry
INVARIANTS
    TypeOK
    NoUpdateLost
    HistorySound
    PoisonIsolated
    ClawStateIsReference
    AtMostOneLateVerdict
