CONSTANTS
    p1 = p1
    p2 = p2
    Callers <- MCCallers
    Ticker = Ticker
    NoHolder = NoHolder
    FlushThreshold = 2
    ChanCap = 1
    MaxLines = 2
    MaxEventsPerLine = 3
SPECIFICATION Spec
PROPERTIES
    
    QueueCallsReturn
