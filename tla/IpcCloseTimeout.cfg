\* The watchdog is on when the library is closed.
CONSTANTS
    Blocks = {m1, m2, m3}
    Embedded = Embedded
    None = None
    Modes = {TRUE}
    MaxSpins = 4
SYMMETRY BlockSymmetry
CHECK_DEADLOCK FALSE
SPECIFICATION Spec
INVARIANT NoAccessAfterFree
