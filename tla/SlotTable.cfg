\* With all its clients gone for good the daemon only waits.
CHECK_DEADLOCK FALSE
\* Three clients, a registry for two of them, two slots, tables of one or two descriptors.
CONSTANTS
    b1 = b1
    b2 = b2
    b3 = b3
    NoBase = NoBase
    Bases <- ThreeBases
    MaxSockets = 2
    MinFds = 1
    MaxFds = 2
    DefaultFds = 2
    ClientBasesMax = 2
    MaxParkId = 3
    SockTypes <- OneType
    AskedIds = {1}
    Listeners = {0}
    MaxStrays = 1
SYMMETRY BaseSymmetry
SPECIFICATION Spec
INVARIANTS
    TypeOK
    RefCountExact
    TablesSound
PROPERTIES
    ParkedUntilObtained
    ImplementsHandles
