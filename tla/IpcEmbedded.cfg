\* Two looks at the port instead of five; the watchdog is switched off after a timeout.
CONSTANTS
    Blocks = {m1, m2, m3}
    Embedded = Embedded
    None = None
    Modes = {TRUE, FALSE}
    MaxSpins = 1
SYMMETRY BlockSymmetry
CHECK_DEADLOCK FALSE
SPECIFICATION Spec
INVARIANT EmbeddedComesBack
