\* The watchdog is on, the daemon may be wedged.
CONSTANTS
    Blocks = {m1, m2, m3}
    Embedded = Embedded
    None = None
    Modes = {TRUE}
    MaxSpins = 4
CHECK_DEADLOCK FALSE
SPECIFICATION ClientFairSpec
PROPERTY WatchdogReturns
