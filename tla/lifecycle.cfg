SPECIFICATION LifecycleFairSpec
CONSTANTS
    Workers = {tester}
    Tester = tester
    Pictures = 3
    MaxFrames = 3
    MaxTime = 2
    ClockSteps = {0, 1}
    MaxHistoryDuration = 60
    InvalidSegmentDuration = 3
    MsPerSecond = 2
    NsPerSecond = 1000
INVARIANTS
    LifecycleTypeOK
    UsedIsUsable
    DeadCallsBounded
PROPERTIES
    ImplementsTerminator
    ShutdownEnds
