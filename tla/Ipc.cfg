CONSTANTS
    QueueCap = 2
    PipeCap = 2
    Lengths = {0, 1, 3}
    MaxItems = 4
    Callers = {c1, c2}
    Initial = 1
    MaxCount = 2
SPECIFICATION Spec
INVARIANTS NothingLeftBehind PermitsConserved
PROPERTIES QueueIsFifo PipeIsFifo
