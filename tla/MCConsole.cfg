SPECIFICATION Spec
CONSTANTS
    NrConsoles = 2
    VmemLimit = 5
    ScreenSize = 4
    ScreenWidth = 2
    BootText = {0, 1}
    Word = 32
INVARIANTS
    TypeOK
    PlacesInMemory
    TextInMemory
    OneWriterInside
    ShowsCurrent
PROPERTIES
    EchoEnds
CHECK_DEADLOCK FALSE
