SPECIFICATION ServicesSpec
SYMMETRY ServicesSymmetry
CHECK_DEADLOCK FALSE

CONSTANTS
    \* DaemonLifecycle
    Clients = {c1, c2}
    Tools = {t1, t2}
    MaxBases = 1
    Reads = 1
    LifeActors = 3
    Shared = FALSE
    NoOne = NoOne
    \* DnsPending
    DnsBases = {b1, b2}
    DnsNames = {"a", "A", "b"}
    DnsFold <- MCDnsFold
    TN_DNS_PENDING_MAX = 2
    DnsLimits = {1, 2}
    LwipRequests = 2
    NoDns = NoDns
    \* Sana2
    S2Reads = {1, 2}
    S2Writes = {1, 2}
    EventBatch = 2
    EventStrikes = 2
    StationAddrs = {"zero", "ones", "group", "m1", "m2"}
    \* SocketOptions
    OptSlots = {1, 2}
    OptInts = {0, 1, 2, 3, 4, 5}
    U8 = 4
    U32 = 32
    MsPerSec = 10
    TCP_MSS = 3
    NoOpt = NoOpt
    \* Multicast
    McSlots = {1, 2}
    McGroups = {"g", "h"}
    McAddrs = {"a1", "a2"}
    McAny = "any"
    TN_MCAST_JOINS_MAX = 2
    McUses = 3
    IgmpGroups = 1
    NoJoin = NoJoin
    \* Deadlines
    TickModulus = 16
    MsModulus = 12
    MsPerSecond = 10
    MsPerTick = 2
    TvSecs = {0, 1}
    TvMs = {0, 1}
    \* Routes
    W = 3
    TN_MAX_ROUTES = 2
    RtDests = {{}, {0}, {1}}
    RtGws = {{}, {0}, {1, 0}}
    IfAddrs = {{}, {1}, {0, 1}}
    IfMasks = {{}, {1, 2}}
    IfGws = {{}, {0, 1}}
    LoAddr = {0, 1, 2}
    LoMask = {1, 2}
    NoRoute = NoRoute
    \* Datagrams
    DgAddrs = {0, 1}
    DgPorts = {0, 1}
    DgLens = {0, 1, 31}
    MaxUdp = 2
    RcvBufs = {0, 2, 3}
    TN_MAX_RX_QUEUE_PER_SOCKET = 3
    DgTotal = 4
    \* PrefsStore
    Settings = {1, 2}
    DefaultSetting = 1
    Odd = {"x"}
    MaxDate = 4
    NoFile = NoFile
    \* Reconfig
    RcValues = {0, 1, 2, 3, 4}
    Quads = {1, 3}
    TN_MAX_SELECTORS = 2
    DriverMtu = 3
    \* LibFds
    LbMaxFds = 2
    LbMinSize = 1
    \* LibNames
    NbByte = 4
    NbErrs = {1, 6}
    NbTransient = {6}
    NbServices <- MCNbServices
    NbBlocks = 1
    \* SbtcTags
    SbValues = {0, 1}
    SbLength = 2
    \* Usergroup
    UgTasks = {a, b}
    UgProcs = {a}
    UgBuiltin = 1
    UgFile = 1
    UgOpens = 2
    UgFree = UgFree
    \* Tftp
    TfSizes = {0, 1, 3}
    TfModulus = 4
    TfLife = 2
    TfNet = 2
    TfRetries = 2
    STRAY_MAX = 1
    \* HttpGet
    HtSizes = {0, 1, 3, 5, 9}
    HtRedirects = 1
    ChunkMax = 4
    HtWrap = 8
    \* Ftp
    FtSize = 1
    FtCommands = 3
    FtBreaks = 1
    \* Telnet
    TlKeys = {"CR", "LF", "IAC"}
    TlTyped = 2
    TlSends = 2
    TlDrain = 1
    \* Probe
    PrCount = 2
    PrHops = 3
    PrQueries = 2
    PrDist = 2
    PrRunts = 1
    PrOthers = 2
    PrQueue = 2
    \* StackSwap
    SsScripts <- MCSsScripts
    SsLater = {"u3"}
    SsFaults = 2
    NoText = NoText
    \* Wizard
    WzNets <- MCWzNets
    WzEdits = 1
    WzMsgs = 1
    \* Launcher
    LaTools = {l1, l2, l3}
    LaDaemons = {d1, d2}
    \* Clock
    ClModulus = 6
    ClPerMs = 2
    ClBoots = {0, 3}
    ClLast = 18
    \* Netcat
    NcFile = 6
    NcUp = 1
    NcDown = 3
    NcTake = 2
    NcRatios = {0, 1, 2, 3}
    NcTimeouts = {0, 1, 2}
    \* PrefsEditor
    PeTexts = {"a", "b"}
    PeMtus = {0, 2, 3, 5}
    MtuLow = 2
    MtuHigh = 3
    PeEdits = 1

INVARIANTS
    PartsTypeOK
    OpenersServed
    
    DatagramsExact
    
    
    StartsClean
    TransferExact
    SuccessMeansWhole
    FtReportTrue
    TelnetExact
    AnswersOwnProbe
    SwapReversible
    SecondPortRaced

PROPERTIES
    NothingForgotten
    DnsAnswersOwn
    DriverRequests
    
    RoutesHold
    ConfigKept
    WishWritten
