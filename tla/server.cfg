CONSTANTS
    u = u
    x = x
    c1 = c1
    c2 = c2
    Ticker = Ticker
    NoHolder = NoHolder
    DgramTasks <- DgramPair
    UnixgramTasks <- UnixTasks
    Conns <- OneConn
    Callers <- AllCallers
    DgramStreams <- MCDgramStreams
    UnixgramStreams <- MCUnixgramStreams
    ConnStreams <- MCConnStreams
    FlushThreshold = 2
    ChanCap = 1
SPECIFICATION Spec
INVARIANTS
    TypeOK
    StreamOrder
PROPERTIES
    AllLinesDelivered
\* A failed AcceptTCP ends the process with os.Exit(1).
CHECK_DEADLOCK FALSE
