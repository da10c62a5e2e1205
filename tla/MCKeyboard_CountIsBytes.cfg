SPECIFICATION Spec
CONSTANTS
    KBD_IN_BYTES = 3
    TTY_IN_BYTES = 2
    NR_CONSOLES = 2
    MaxEvents = 2
    KeySets <- OnlyModifiers
INVARIANTS
    CountIsBytes
CHECK_DEADLOCK FALSE
