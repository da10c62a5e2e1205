SPECIFICATION Spec
CONSTANTS
    MaxSectors = 3
    MaxTables = 3
    MaxOpen = 2
INVARIANTS
    AssertionsHold
CHECK_DEADLOCK FALSE
