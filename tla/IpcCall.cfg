\* Three heap blocks, two looks at the port; the watchdog switched on and off; closing ends the run.
CONSTANTS
    Blocks = {m1, m2, m3}
    Embedded = Embedded
    None = None
    Modes = {TRUE, FALSE}
    MaxSpins = 1
SYMMETRY BlockSymmetry
CHECK_DEADLOCK FALSE
SPECIFICATION Spec
INVARIANTS
    TypeOK
    MessagesSound
    NoStrayInterrupt
    CloseReleases
