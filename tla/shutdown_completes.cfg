CONSTANTS
    u = u
    x = x
    c1 = c1
    c2 = c2
    Ticker = Ticker
    NoHolder = NoHolder
    DgramTasks <- UdpTasks
    UnixgramTasks = {}
    Conns <- OneConn
    Callers <- UdpAndConn
    DgramStreams <- MCDgramStreams
    UnixgramStreams <- MCDgramStreams
    ConnStreams <- MCConnStreams
    FlushThreshold = 2
    ChanCap = 1
SPECIFICATION SFairSpec
PROPERTIES
    ShutdownCompletes
\* Once C is closed main returns and the process ends.
CHECK_DEADLOCK FALSE
