SPECIFICATION Spec
CONSTANTS
    BytesPerSec = 4
    SecPerTrk = 3
    DirEntries = 2
    RootDirSectors = 2
    FATSz = 3
    Window = 3
    NrPart = 2
    NrSub = 3
    MaxDrivers = 2
    MinorHd1a = 6
    SectorsPerCluster = 2
    ClustersPerMap = 4
    Floppies <- SomeFloppies
    Disks <- SomeDisks
INVARIANT
    WritesInVolume
CHECK_DEADLOCK FALSE
