SPECIFICATION Spec
CONSTANTS
    KBD_IN_BYTES = 3
    TTY_IN_BYTES = 2
    NR_CONSOLES = 2
    MaxEvents = 4
    KeySets <- EachKeySet
INVARIANTS
    TypeOK
    RingSound
    KeysFollow
    SpinsOnlyAfterLoss
PROPERTY
    KeysArrive
CHECK_DEADLOCK FALSE
