SPECIFICATION Spec
CONSTANTS
    Workers = {w1}
    PowerIds = {1, 2}
    Graphs = 2
    MaxModels = 3
INVARIANTS
    PowerFollowsExecution
