SPECIFICATION FairSpec
CONSTANTS
    MaxFrames = 5
INVARIANTS
    TypeOK
    NoLostWakeup
    FramesInOrder
PROPERTIES
    ImplementsLatestFrame
    NewestIsTaken
    ShutdownCompletes
