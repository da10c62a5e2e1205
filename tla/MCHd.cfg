SPECIFICATION Spec
CONSTANTS
    MaxSectors = 3
    MaxTables = 3
    MaxOpen = 2
INVARIANTS
    TypeOK
    FreshData
    MainLoopQuiet
    AsleepForAReason
PROPERTY
    Answered
CHECK_DEADLOCK FALSE
