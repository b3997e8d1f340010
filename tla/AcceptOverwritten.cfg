CONSTANTS
    b1 = b1
    b2 = b2
    p1 = p1
    p2 = p2
    Bases = {b1, b2}
    NoBase = NoBase
    Slots = {0, 1}
    NoSlot = NoSlot
    Pcbs = {p1, p2}
    NoPcb = NoPcb
    Types = {"STREAM", "DGRAM"}
    MaxOpened = 1
    MaxRx = 1
    Backlog = 1
SPECIFICATION Spec
SYMMETRY Interchangeable
INVARIANT AcceptsKept
CHECK_DEADLOCK FALSE
