SPECIFICATION Spec
CONSTANTS
    Workers = {w1}
    PowerIds = {1, 2}
    Graphs = 1
    MaxModels = 2
INVARIANTS
    TensorsCleanedUp
