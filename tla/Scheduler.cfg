CONSTANTS
    MaxTasks = 4
    DefaultTimeslice = 2
SPECIFICATION FairSpec
INVARIANTS OnlyCurrentRuns ContextsBelong BoundedWait
PROPERTIES ReadyRuns
