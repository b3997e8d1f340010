\* Two clients that share a socket; no signal but wakes and the timer.
CONSTANTS
    b1 = b1
    b2 = b2
    NoBase = NoBase
    Bases <- TwoBases
    Slots = {0}
    FdMap <- SharedFds
    Watches <- AnyWatch
    Bits <- NoBits
    Kinds = {"write"}
    SelectorsAtStart = 2
    SelectorsMax = 2
    Budget = 2
    Slack = 1
SPECIFICATION FairSpec
PROPERTY TimedReturns
