SPECIFICATION Spec
CONSTANTS
    Proc = {"tty", "hd"}
    FirstProc = "tty"
    Clock = "clock"
    Cascade = "cascade"
    Lines <- MCLines
    Slave = {"disk"}
    Programs <- MCPrograms
    Opened = {"clock", "keyboard"}
INVARIANTS
    TypeOK
    DepthCounted
    NestsOnce
    MasksAgree
PROPERTIES
    ImplementsProcessors
    Taken
