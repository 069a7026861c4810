SPECIFICATION FairSpec
CONSTANTS
    Files <- MCFiles
    Exe = "node"
    Old = Old
    New = New
    None = None
    AutoUpdate = TRUE
    UpdateOnStart = TRUE
    TicksTillUpdate = 1
    MaxTicks = 2
    MaxStarts = 2
INVARIANTS TypeOK NetworkOutlivesItsUsers  UpdateRestarts
PROPERTIES  TasksRepeat
CHECK_DEADLOCK FALSE
