SPECIFICATION Spec
CONSTANTS
    NrProcs = 3
    Priority <- MCPriority
    IrqProc = {1}
    NeverBlocks = {0}
    MaxNested = 2
    MaxOverrun = 2
INVARIANTS
    TypeOK
    RunsRunnable
    GreatestChosen
PROPERTIES
    RoundsAreFair
    NoStarvation
CHECK_DEADLOCK FALSE
