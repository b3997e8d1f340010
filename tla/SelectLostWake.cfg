\* One client alone, as tn_signal_socket sees a single armed selector.
CONSTANTS
    b1 = b1
    b2 = b2
    NoBase = NoBase
    Bases <- OneBase
    Slots = {0}
    FdMap <- SharedFds
    Watches <- AnyWatch
    Bits <- AskedAndBreak
    Kinds = {"write"}
    SelectorsAtStart = 2
    SelectorsMax = 3
    Budget = 2
    Slack = 1
SPECIFICATION Spec
INVARIANT NoLostWake
