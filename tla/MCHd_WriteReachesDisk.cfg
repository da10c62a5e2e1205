SPECIFICATION Spec
CONSTANTS
    MaxSectors = 3
    MaxTables = 3
    MaxOpen = 2
INVARIANTS
    WriteReachesDisk
CHECK_DEADLOCK FALSE
