SPECIFICATION Spec
CONSTANTS
    hd = hd
    a = a
    b = b
    c = c
    Proc = {hd, a, b, c}
    IrqProc = {hd}
    Body = {m1}
    ANY = ANY
    INTERRUPT = INTERRUPT
    NO_PROC = NO_PROC
    NULL = NULL
    HARD_INT = HARD_INT
    ZERO = ZERO
SYMMETRY ProcSymmetry
INVARIANTS
    TypeOK
    NoAssertFails
    QueueIsSenders
    NoMissedRendezvous
    NoSendCycle
PROPERTY
    ImplementsRendezvous
CHECK_DEADLOCK FALSE
