SPECIFICATION Spec
CONSTANTS
    Workers = {w1, w2}
    PowerIds = {1, 2, 3}
    Graphs = 1
    MaxModels = 3
SYMMETRY WorkerSymmetry
INVARIANTS
    TypeOK
    DestructorIsCovered
    VerdictNeedsGraphs
    OwnPowerLives
    PowersAreOwned
