\* Two clients that share a socket, a table that grows from two entries to three.
CONSTANTS
    b1 = b1
    b2 = b2
    NoBase = NoBase
    Bases <- TwoBases
    Slots = {0}
    FdMap <- SharedFds
    Watches <- AnyWatch
    Bits <- AskedAndBreak
    Kinds = {"write"}
    SelectorsAtStart = 2
    SelectorsMax = 3
    Budget = 2
    Slack = 1
SPECIFICATION Spec
INVARIANTS
    TypeOK
    SelectorsSound
    CountWithinOne
PROPERTIES
    TimeoutHonest
