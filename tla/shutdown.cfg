CONSTANTS
    u = u
    x = x
    c1 = c1
    c2 = c2
    Ticker = Ticker
    NoHolder = NoHolder
    DgramTasks <- UdpTasks
    UnixgramTasks = {}
    Conns <- OneConn
    Callers <- UdpAndConn
    DgramStreams <- MCDgramStreams
    UnixgramStreams <- MCDgramStreams
    ConnStreams <- MCConnStreams
    FlushThreshold = 2
    ChanCap = 1
SPECIFICATION SSpec
INVARIANT
    NothingLostAtClose
\* The process ends once C is closed.
CHECK_DEADLOCK FALSE
