CONSTANTS
    u = u
    x = x
    c1 = c1
    c2 = c2
    Ticker = Ticker
    NoHolder = NoHolder
    DgramTasks <- UnixTasks
    UnixgramTasks <- UnixTasks
    Conns <- OneConn
    Callers <- UnixAndConn
    DgramStreams <- MCDgramStreams
    UnixgramStreams <- MCDgramStreams
    ConnStreams <- MCConnStreams
    FlushThreshold = 2
    ChanCap = 1
SPECIFICATION Spec
PROPERTIES
    AllLinesDelivered
\* A failed read ends the process with os.Exit(1).
CHECK_DEADLOCK FALSE
