SPECIFICATION FairSpec
CONSTANTS
    Workers = {w1}
    MaxFrames = 4
    MaxTime = 12
    ClockSteps <- MCStepsAsBuilt
    MaxHistoryDuration = 60
    InvalidSegmentDuration = 3
    MsPerSecond = 2
    NsPerSecond = 1000
INVARIANTS
    StickyVerdict
PROPERTIES
    FlipFollowsNewest
    ImplementsStream
    UpdatesAnswered
