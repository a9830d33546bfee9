SPECIFICATION Spec
CONSTANTS
    Datasets = {d1, d2, d3}
    Threads = 2
    Retries = 1
SYMMETRY Symmetry
INVARIANTS
    CompletedIsOver
CHECK_DEADLOCK FALSE
